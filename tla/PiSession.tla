------------------------------ MODULE PiSession ------------------------------
(***************************************************************************)
(* The session registry and the worker threads of the TypeScript Pi RPC    *)
(* backend (crates/seher-sdk/src/sdk/pi_rpc.rs).                           *)
(*                                                                         *)
(* A process-wide registry maps a session key to a SessionEntry.  An entry *)
(* owns one worker thread, which owns one Pi child process and a command   *)
(* queue.  Four kinds of threads touch it:                                 *)
(*   - a stream thread (stream_prompt) reserves or shares an entry, waits  *)
(*     for the handshake, claims the entry's busy flag and queues a prompt;*)
(*   - a caller (send_command) claims busy and queues a control command,   *)
(*     or writes a steering command past a busy prompt;                    *)
(*   - a closer (close_pi_session, close_all_pi_sessions) with its two     *)
(*     helper threads;                                                     *)
(*   - the worker itself.                                                  *)
(* A step of the model is one access to shared state (an atomic flag, a    *)
(* mutex-protected section, a channel operation); accesses are merged only *)
(* where no other thread can tell the difference.  Deadlines and sleeps    *)
(* are choices: a deadline may expire at any moment.                       *)
(***************************************************************************)
EXTENDS Naturals, Sequences, FiniteSets, Functions

CONSTANTS
  Keys,           \* session ids (with their canonical working directory)
  Entries,        \* identities of Arc<SessionEntry>, each used at most once
  Streams,        \* calls of stream_prompt
  Cancellable,    \* the streams whose embedder may cancel them
  Callers,        \* calls of send_command
  Closers,        \* calls of close_pi_session and close_all_pi_sessions
  Options,        \* Options[s]: the fingerprint of the options of stream s
  Kinds,          \* the command types callers use
  MaxCandidates,  \* programs tried: pi, bunx, npx, or the one of pi_bin
  None            \* no entry, no client

Clients == Streams \cup Callers
AllKinds == {"steer", "query", "new", "switch"}

ASSUME NamesDistinct ==
  /\ Streams \cap Callers = {}
  /\ None \notin Entries \cup Clients
ASSUME KindsKnown == Kinds \subseteq AllKinds
ASSUME CandidatesPositive == MaxCandidates \in Nat \ {0}

VARIABLES
  registry,  \* registry[k]: the entry registered under k, or None
  entry,     \* the shared fields of a SessionEntry
  worker,    \* the worker thread of each entry
  queue,     \* the commands in the worker's channel
  client,    \* the stream threads and the callers
  closer     \* the closing threads

vars == <<registry, entry, worker, queue, client, closer>>

-----------------------------------------------------------------------------
(* The control states of the threads. *)

StreamPc == {"idle", "await", "giveUp", "kill", "settle", "claim",
             "announce", "enqueue", "queued", "served", "end"}
CallerPc == {"idle", "claim", "send", "queued", "served",
             "insert", "write", "answer", "end"}
\* "rekey" and "publish" are states of omp's worker only.
StartPc  == {"boot", "candidate", "spawn", "install", "handshake", "rekey", "publish"}
ServePc  == {"idle", "control", "ctlWait", "ctlState", "prompt", "prompting",
             "draining", "postcheck", "reap"}
ExitPc   == {"quit", "exit", "drain", "finish", "dropping", "gone"}
LivePc   == {"handshake", "rekey", "publish"} \cup ServePc   \* the child is installed
WorkerPc == {"absent"} \cup StartPc \cup ServePc \cup ExitPc

(* How a call ends.  "refused": an error for a prompt or command the worker
   never started on.  "lost": the channel was dropped without a terminal
   chunk.  "process": a Pi process failure reported without, "nonretryable"
   with NON_RETRYABLE_PREFIX.  "failed": any other error of an executed
   call (cancelled, rejected by Pi, assistant error, protocol error).      *)
Outcomes == {"none", "done", "refused", "lost", "process", "nonretryable", "failed"}

EntryRec == [busy : BOOLEAN, prompt_active : BOOLEAN, prompt_acknowledged : BOOLEAN,
             initialized : BOOLEAN, closing : BOOLEAN, done : BOOLEAN,
             process : {"none", "spawned", "alive", "dead"}, stdin : BOOLEAN,
             pending : SUBSET Callers, watchdog : BOOLEAN, taker : BOOLEAN]
WorkerRec == [pc : WorkerPc, key : Keys \cup {None}, creator : Streams \cup {None},
              candidate : 0..MaxCandidates, cmd : Clients \cup {None},
              session : Keys \cup {None}]
ClientRec == [pc : StreamPc \cup CallerPc, entry : Entries \cup {None},
              key : Keys \cup {None}, kind : AllKinds \cup {"prompt"},
              cancelled : BOOLEAN, sent : BOOLEAN, outcome : Outcomes]
CloserRec == [pc : {"idle", "next", "wait", "final", "end"},
              targets : SUBSET Entries, entry : Entries \cup {None}]

(* The type of every variable of the registry model. *)
TypeOK ==
  /\ registry \in [Keys -> Entries \cup {None}]
  /\ entry \in [Entries -> EntryRec]
  /\ worker \in [Entries -> WorkerRec]
  /\ queue \in [Entries -> Seq(Clients)]
  /\ client \in [Clients -> ClientRec]
  /\ closer \in [Closers -> CloserRec]

FreshEntry ==
  [busy |-> FALSE, prompt_active |-> FALSE, prompt_acknowledged |-> FALSE,
   initialized |-> FALSE, closing |-> FALSE, done |-> FALSE, process |-> "none",
   stdin |-> FALSE, pending |-> {}, watchdog |-> FALSE, taker |-> FALSE]

Init ==
  /\ registry = [k \in Keys |-> None]
  /\ entry = [e \in Entries |-> FreshEntry]
  /\ worker = [e \in Entries |->
                 [pc |-> "absent", key |-> None, creator |-> None,
                  candidate |-> 0, cmd |-> None, session |-> None]]
  /\ queue = [e \in Entries |-> <<>>]
  /\ client = [c \in Clients |->
                 [pc |-> "idle", entry |-> None, key |-> None, kind |-> "prompt",
                  cancelled |-> FALSE, sent |-> FALSE, outcome |-> "none"]]
  /\ closer = [x \in Closers |-> [pc |-> "idle", targets |-> {}, entry |-> None]]

-----------------------------------------------------------------------------
(* Helpers shared by the threads. *)

Running(e) == entry[e].process \in {"spawned", "alive"}

\* Mutant of Killed: the kill does not reach the child's process group.
MutKilled(e) == entry[e].process

\* terminate_process: kills the child of the slot; a child that was spawned
\* but not yet installed in the slot is out of its reach.
Killed(e) == IF entry[e].process = "alive" THEN "dead" ELSE entry[e].process

\* Mutant of RemoveIfSame: no identity test.
MutRemoveIfSame(k, e) == [registry EXCEPT ![k] = None]

RemoveIfSame(k, e) ==
  IF registry[k] = e THEN [registry EXCEPT ![k] = None] ELSE registry

\* remove_entry_identity: retain every key that maps to another entry.
RemoveIdentity(e) == [k \in Keys |-> IF registry[k] = e THEN None ELSE registry[k]]

At(c, p) == client' = [client EXCEPT ![c].pc = p]

\* A call returns (or its stream gets its last chunk); its locals are gone.
Ended(call, o) == [call EXCEPT !.pc = "end", !.outcome = o, !.entry = None, !.key = None]
End(c, o) == client' = [client EXCEPT ![c] = Ended(@, o)]

\* fail_pending_responses: every waiter gets an error.
FailPending(e) ==
  [c \in Clients |-> IF c \in entry[e].pending
                     THEN Ended(client[c], "failed")
                     ELSE client[c]]

\* What the busy flag protects against; its mutant tests the wrong flag.
MutIsBusy(e) == entry[e].prompt_active
IsBusy(e) == entry[e].busy

\* recv and try_recv take the command out of the channel; the mutant peeks.
MutPopped(e) == queue
Popped(e) == [queue EXCEPT ![e] = Tail(@)]

-----------------------------------------------------------------------------
(* stream_prompt: one thread for each prompt. *)

\* The embedder's CancelToken of this call; it may fire at any moment.
Cancel(s) ==
  /\ s \in Cancellable /\ client[s].pc # "end" /\ ~client[s].cancelled
  /\ client' = [client EXCEPT ![s].cancelled = TRUE]
  /\ UNCHANGED <<registry, entry, worker, queue, closer>>

StartCancelled(s) ==
  /\ client[s].pc = "idle" /\ client[s].cancelled
  /\ End(s, "refused")
  /\ UNCHANGED <<registry, entry, worker, queue, closer>>

Fits(s, e) == ~entry[e].closing /\ Options[worker[e].creator] = Options[s]

\* reserve_session, under the registry lock: share the entry, refuse, or
\* register a new one and start its worker.  k is the resumed id or, for a
\* prompt without one, a key nobody uses.
Reserve(s, k) ==
  /\ client[s].pc = "idle" /\ ~client[s].cancelled
  /\ \/ /\ registry[k] # None /\ ~Fits(s, registry[k])
        /\ End(s, "refused")
        /\ UNCHANGED <<registry, worker>>
     \/ /\ registry[k] # None /\ Fits(s, registry[k])
        /\ client' = [client EXCEPT ![s].pc = "await", ![s].key = k,
                                    ![s].entry = registry[k]]
        /\ UNCHANGED <<registry, worker>>
     \/ /\ registry[k] = None
        /\ \E e \in Entries :
             /\ worker[e].pc = "absent"
             /\ registry' = [registry EXCEPT ![k] = e]
             /\ worker' = [worker EXCEPT ![e].pc = "boot", ![e].key = k,
                                         ![e].creator = s]
             /\ client' = [client EXCEPT ![s].pc = "await", ![s].key = k,
                                         ![s].entry = e]
  /\ UNCHANGED <<entry, queue, closer>>

\* The 5 ms wait loop.  It gives up when the call is cancelled, the entry
\* closes or the 30 s startup deadline passes, which may happen at any time.
Await(s) == LET e == client[s].entry IN
  /\ client[s].pc = "await"
  /\ \/ entry[e].initialized /\ At(s, "settle")
     \/ ~entry[e].initialized /\ At(s, "giveUp")
     \/ ~entry[e].initialized /\ entry[e].done /\ At(s, "settle")
  /\ UNCHANGED <<registry, entry, worker, queue, closer>>

GiveUp(s) ==
  /\ client[s].pc = "giveUp"
  /\ entry' = [entry EXCEPT ![client[s].entry].closing = TRUE]
  /\ At(s, "kill")
  /\ UNCHANGED <<registry, worker, queue, closer>>

Kill(s) == LET e == client[s].entry IN
  /\ client[s].pc = "kill"
  /\ entry' = [entry EXCEPT ![e].process = Killed(e)]
  /\ At(s, "settle")
  /\ UNCHANGED <<registry, worker, queue, closer>>

\* After the loop: without an initialized worker the reservation is undone.
Settle(s) == LET e == client[s].entry IN
  /\ client[s].pc = "settle"
  /\ \/ /\ ~entry[e].initialized
        /\ registry' = RemoveIfSame(client[s].key, e)
        /\ End(s, "refused")
     \/ /\ entry[e].initialized /\ entry[e].closing
        /\ End(s, "refused")
        /\ UNCHANGED registry
     \/ /\ entry[e].initialized /\ ~entry[e].closing
        /\ At(s, "claim")
        /\ UNCHANGED registry
  /\ UNCHANGED <<entry, worker, queue, closer>>

\* busy.swap(true).
Claim(s) == LET e == client[s].entry IN
  /\ client[s].pc = "claim"
  /\ IF IsBusy(e)
     THEN End(s, "refused") /\ UNCHANGED entry
     ELSE At(s, "announce") /\ entry' = [entry EXCEPT ![e].busy = TRUE]
  /\ UNCHANGED <<registry, worker, queue, closer>>

\* prompt_active is set and Session(key) is sent to the receiver.
Announce(s) ==
  /\ client[s].pc = "announce"
  /\ entry' = [entry EXCEPT ![client[s].entry].prompt_active = TRUE]
  /\ At(s, "enqueue")
  /\ UNCHANGED <<registry, worker, queue, closer>>

\* tx.send fails only once the worker has dropped its receiver.
Enqueue(s) == LET e == client[s].entry IN
  /\ client[s].pc = "enqueue"
  /\ IF worker[e].pc = "gone"
     THEN /\ entry' = [entry EXCEPT ![e].prompt_active = FALSE, ![e].busy = FALSE]
          /\ registry' = RemoveIfSame(client[s].key, e)
          /\ End(s, "refused")
          /\ UNCHANGED queue
     ELSE /\ queue' = [queue EXCEPT ![e] = Append(@, s)]
          /\ At(s, "queued")
          /\ UNCHANGED <<registry, entry>>
  /\ UNCHANGED <<worker, closer>>

StreamStep(s) ==
  \/ StartCancelled(s) \/ Await(s) \/ GiveUp(s) \/ Kill(s) \/ Settle(s)
  \/ Claim(s) \/ Announce(s) \/ Enqueue(s)

-----------------------------------------------------------------------------
(* worker_loop, run_worker and spawn_candidate. *)

To(e, p) == worker' = [worker EXCEPT ![e].pc = p]

\* run_worker's first lines; creating the session directory or the tool
\* bridge may fail.
Boot(e) ==
  /\ worker[e].pc = "boot"
  /\ \/ entry[e].closing /\ To(e, "exit")
     \/ ~entry[e].closing /\ To(e, "candidate")
     \/ ~entry[e].closing /\ To(e, "exit")
  /\ UNCHANGED <<registry, entry, queue, client, closer>>

\* No candidate is left; the mutant is off by one.
MutExhausted(e) == worker[e].candidate > MaxCandidates
Exhausted(e) == worker[e].candidate = MaxCandidates

\* The head of the candidate loop: only the creator's token is looked at,
\* not closing.
Candidate(e) ==
  /\ worker[e].pc = "candidate"
  /\ IF client[worker[e].creator].cancelled \/ Exhausted(e)
     THEN To(e, "exit")
     ELSE worker' = [worker EXCEPT ![e].pc = "spawn", ![e].candidate = @ + 1]
  /\ UNCHANGED <<registry, entry, queue, client, closer>>

Spawn(e) ==
  /\ worker[e].pc = "spawn"
  /\ \/ To(e, "candidate") /\ UNCHANGED entry
     \/ To(e, "install") /\ entry' = [entry EXCEPT ![e].process = "spawned"]
  /\ UNCHANGED <<registry, queue, client, closer>>

\* install_child puts the child in the slot that terminate_process kills.
Install(e) ==
  /\ worker[e].pc = "install"
  /\ entry' = [entry EXCEPT ![e].process = IF @ = "spawned" THEN "alive" ELSE @]
  /\ To(e, "handshake")
  /\ UNCHANGED <<registry, queue, client, closer>>

\* The handshake wait.  A response that arrives is accepted even when closing
\* was set meanwhile; the answer may have been written before the child died.
Handshake(e) == LET w == worker[e]
                    stop == entry[e].closing \/ client[w.creator].cancelled IN
  /\ w.pc = "handshake"
  /\ \/ /\ stop                          \* closing, or cancelled
        /\ entry' = [entry EXCEPT ![e].process = Killed(e)]
        /\ To(e, "exit")
     \/ /\ ~client[w.creator].cancelled  \* Accepted: get_state names our id
        /\ entry' = [entry EXCEPT ![e].stdin = TRUE, ![e].initialized = TRUE]
        /\ worker' = [worker EXCEPT ![e].pc = "idle", ![e].session = w.key]
     \/ /\ ~client[w.creator].cancelled  \* ExecutionError
        /\ entry' = [entry EXCEPT ![e].process = Killed(e)]
        /\ To(e, "exit")
     \/ /\ ~client[w.creator].cancelled  \* bad frame, EOF or deadline: Next
        /\ entry' = [entry EXCEPT ![e].process = Killed(e)]
        /\ To(e, "candidate")
  /\ UNCHANGED <<registry, queue, client, closer>>

\* recv_timeout returned a command; closing is read next.
Receive(e) == LET c == Head(queue[e]) IN
  /\ worker[e].pc = "idle" /\ queue[e] # <<>>
  /\ queue' = Popped(e)
  /\ IF entry[e].closing
     THEN /\ End(c, "refused")
          /\ entry' = IF c \in Callers THEN [entry EXCEPT ![e].busy = FALSE] ELSE entry
          /\ To(e, "reap")
     ELSE /\ At(c, "served")
          /\ worker' = [worker EXCEPT ![e].cmd = c,
                          ![e].pc = IF c \in Callers THEN "control" ELSE "prompt"]
          /\ UNCHANGED entry
  /\ UNCHANGED <<registry, closer>>

\* Mutant of IdleTimeout: closing is only noticed with a command.
MutIdleTimeout(e) ==
  /\ worker[e].pc = "idle" /\ queue[e] = <<>> /\ entry[e].process = "dead"
  /\ To(e, "exit")
  /\ UNCHANGED <<registry, entry, queue, client, closer>>

\* recv_timeout expired: leave when closing, else look whether the child died.
IdleTimeout(e) ==
  /\ worker[e].pc = "idle" /\ queue[e] = <<>>
  /\ \/ entry[e].closing /\ To(e, "reap")
     \/ ~entry[e].closing /\ entry[e].process = "dead" /\ To(e, "exit")
  /\ UNCHANGED <<registry, entry, queue, client, closer>>

\* reap_worker_process and the Ok return of run_worker.  It is only reached
\* with closing set, which worker_loop treats as an error.
Reap(e) ==
  /\ worker[e].pc = "reap"
  /\ entry' = [entry EXCEPT ![e].process = Killed(e)]
  /\ To(e, "exit")
  /\ UNCHANGED <<registry, queue, client, closer>>

\* run_worker returned Ok from its post-prompt check: worker_loop reads closing.
Quit(e) ==
  /\ worker[e].pc = "quit"
  /\ To(e, IF entry[e].closing THEN "exit" ELSE "finish")
  /\ UNCHANGED <<registry, entry, queue, client, closer>>

\* worker_loop after an error.
Exit(e) ==
  /\ worker[e].pc = "exit"
  /\ entry' = [entry EXCEPT ![e].prompt_active = FALSE, ![e].busy = FALSE]
  /\ registry' = RemoveIfSame(worker[e].key, e)
  /\ To(e, "drain")
  /\ UNCHANGED <<queue, client, closer>>

\* try_recv until the queue is empty.
Drain(e) ==
  /\ worker[e].pc = "drain"
  /\ IF queue[e] = <<>>
     THEN To(e, "finish") /\ UNCHANGED <<entry, queue, client>>
     ELSE LET c == Head(queue[e]) IN
          /\ queue' = Popped(e)
          /\ End(c, "refused")
          /\ entry' = IF c \in Callers THEN [entry EXCEPT ![e].busy = FALSE] ELSE entry
          /\ UNCHANGED worker
  /\ UNCHANGED <<registry, closer>>

Finish(e) ==
  /\ worker[e].pc = "finish"
  /\ entry' = [entry EXCEPT ![e].done = TRUE]
  /\ To(e, "dropping")
  /\ UNCHANGED <<registry, queue, client, closer>>

\* The calls whose channel closes with the receiver; the mutant keeps them waiting.
MutOrphans(e) == {}
Orphans(e) == Range(queue[e])

\* The thread ends and its receiver is dropped with whatever is still queued:
\* a queued prompt's output channel closes without a terminal chunk, a queued
\* control call reads "pi session worker stopped".
Drop(e) ==
  /\ worker[e].pc = "dropping"
  /\ client' = [c \in Clients |->
                  IF c \in Orphans(e)
                  THEN Ended(client[c], IF c \in Streams THEN "lost" ELSE "refused")
                  ELSE client[c]]
  /\ queue' = [queue EXCEPT ![e] = <<>>]
  /\ To(e, "gone")
  /\ UNCHANGED <<registry, entry, closer>>

-----------------------------------------------------------------------------
(* prompt_once and the worker's handling of its result. *)

\* The prompt is written unless the child has exited or stdin is closed.
\* prompt_acknowledged is set as soon as the write succeeded.
StartPrompt(e) == LET c == worker[e].cmd IN
  /\ worker[e].pc = "prompt"
  /\ entry[e].process # "dead" /\ entry[e].stdin
  /\ entry' = [entry EXCEPT ![e].prompt_active = TRUE, ![e].prompt_acknowledged = TRUE]
  /\ client' = [client EXCEPT ![c].sent = TRUE]
  /\ To(e, "prompting")
  /\ UNCHANGED <<registry, queue, closer>>

\* Mutant of PromptOutcome: the non-retryable prefix is forgotten.
MutPromptOutcome(acknowledged, cause) == cause

\* is_pi_process_failure of the error, and the non-retryable prefix.
PromptOutcome(acknowledged, cause) ==
  IF cause = "process" /\ acknowledged THEN "nonretryable" ELSE cause

\* The error branch: busy stays set until worker_loop has removed the entry.
PromptFails(e, acknowledged, cause) ==
  /\ entry' = [entry EXCEPT ![e].prompt_active = FALSE,
                            ![e].prompt_acknowledged = FALSE,
                            ![e].process = Killed(e)]
  /\ End(worker[e].cmd, PromptOutcome(acknowledged, cause))
  /\ worker' = [worker EXCEPT ![e].pc = "exit", ![e].cmd = None]
  /\ UNCHANGED <<registry, queue, closer>>

PromptNotWritten(e) ==
  /\ worker[e].pc = "prompt"
  /\ entry[e].process = "dead" \/ ~entry[e].stdin
  /\ PromptFails(e, FALSE, "process")

\* The token of this call; the mutant only honours it before the prompt is out.
MutStopAsked(e) == client[worker[e].cmd].cancelled /\ ~entry[e].prompt_acknowledged
StopAsked(e) == client[worker[e].cmd].cancelled

\* abort_and_reap writes an abort and kills the child after 250 ms.
PromptCancelled(e) ==
  /\ worker[e].pc = "prompting" /\ StopAsked(e)
  /\ PromptFails(e, entry[e].prompt_acknowledged, "failed")

PromptEof(e) ==
  /\ worker[e].pc \in {"prompting", "draining"} /\ entry[e].process = "dead"
  /\ worker[e].pc = "draining" => entry[e].pending # {}
  /\ PromptFails(e, entry[e].prompt_acknowledged, "process")

\* What Pi answers: an unreadable frame, success = false (which clears
\* prompt_acknowledged), agent_settled before the acknowledgement, or
\* agent_settled, which ends the admission of steering commands.
PromptOutput(e) ==
  \/ /\ worker[e].pc \in {"prompting", "draining"}
     /\ worker[e].pc = "draining" => entry[e].pending # {}
     /\ PromptFails(e, entry[e].prompt_acknowledged, "process")
  \/ /\ worker[e].pc = "prompting"
     /\ \/ PromptFails(e, FALSE, "failed")
        \/ PromptFails(e, entry[e].prompt_acknowledged, "failed")
        \/ /\ entry' = [entry EXCEPT ![e].prompt_active = FALSE]
           /\ To(e, "draining")
           /\ UNCHANGED <<registry, queue, client, closer>>

\* drain_pending_after_settled: 5 s for the answers of steering commands.
DrainTimeout(e) ==
  /\ worker[e].pc = "draining" /\ entry[e].pending # {}
  /\ PromptFails(e, entry[e].prompt_acknowledged, "failed")

\* No answer is outstanding: the prompt ends with Done, or with the error of
\* the assistant's last message.
Settled(e) ==
  /\ worker[e].pc = "draining" /\ entry[e].pending = {}
  /\ \/ PromptFails(e, FALSE, "failed")
     \/ /\ entry' = [entry EXCEPT ![e].prompt_acknowledged = FALSE,
                                  ![e].prompt_active = FALSE, ![e].busy = FALSE]
        /\ End(worker[e].cmd, "done")
        /\ worker' = [worker EXCEPT ![e].pc = "postcheck", ![e].cmd = None]
        /\ UNCHANGED <<registry, queue, closer>>

\* After Done the worker watches for 160 ms whether the child exits.  If it
\* does, both flags are cleared again and the worker returns without looking
\* at its queue.
Postcheck(e) ==
  /\ worker[e].pc = "postcheck"
  /\ IF entry[e].process = "dead"
     THEN /\ entry' = [entry EXCEPT ![e].prompt_active = FALSE, ![e].busy = FALSE]
          /\ registry' = RemoveIfSame(worker[e].key, e)
          /\ To(e, "quit")
     ELSE /\ To(e, IF entry[e].closing THEN "reap" ELSE "idle")
          /\ UNCHANGED <<entry, registry>>
  /\ UNCHANGED <<queue, client, closer>>

-----------------------------------------------------------------------------
(* control_once: the worker serves a queued control command. *)

\* busy is released, the caller answered, and closing read before the next
\* command is received.
Reply(e, o, closing) ==
  /\ End(worker[e].cmd, o)
  /\ worker' = [worker EXCEPT ![e].cmd = None, ![e].pc = IF closing THEN "reap" ELSE "idle"]

ControlFails(e) ==
  /\ Reply(e, "failed", entry[e].closing)
  /\ entry' = [entry EXCEPT ![e].busy = FALSE]
  /\ UNCHANGED <<registry, queue, closer>>

\* The request is written, unless the switch target's header names another
\* working directory, stdin is closed, or the child is gone.
ControlWrite(e) == LET c == worker[e].cmd IN
  /\ worker[e].pc = "control"
  /\ \/ /\ client[c].kind = "switch" \/ ~entry[e].stdin \/ entry[e].process = "dead"
        /\ ControlFails(e)
     \/ /\ entry[e].stdin /\ entry[e].process # "dead"
        /\ client' = [client EXCEPT ![c].sent = TRUE]
        /\ To(e, "ctlWait")
        /\ UNCHANGED <<registry, entry, queue, closer>>

\* read_control_response returned an error that leaves the entry open:
\* closing is set, end of file, an unreadable frame, or success = false.
ControlRefused(e) ==
  /\ worker[e].pc \in {"ctlWait", "ctlState"}
  /\ ControlFails(e)

\* The 5 s deadline: the session is closed and every waiter failed.
ControlTimeout(e) == LET c == worker[e].cmd IN
  /\ worker[e].pc \in {"ctlWait", "ctlState"}
  /\ entry' = [entry EXCEPT ![e].closing = TRUE, ![e].process = Killed(e),
                            ![e].pending = {}, ![e].busy = FALSE]
  /\ client' = [FailPending(e) EXCEPT ![c] = Ended(@, "failed")]
  /\ worker' = [worker EXCEPT ![e].cmd = None, ![e].pc = "reap"]
  /\ UNCHANGED <<registry, queue, closer>>

\* A command that leaves the session as it is, or that Pi reports cancelled.
ControlDone(e) ==
  /\ worker[e].pc = "ctlWait"
  /\ Reply(e, "done", entry[e].closing)
  /\ entry' = [entry EXCEPT ![e].busy = FALSE]
  /\ UNCHANGED <<registry, queue, closer>>

Fresh(k) == \A e \in Entries : k \notin {worker[e].key, worker[e].session}

\* new_session, fork, clone: Pi moves to a session of its own choice;
\* switch_session: to the one asked for.  The worker asks for its id.
ControlMoved(e, k) == LET c == worker[e].cmd IN
  /\ worker[e].pc = "ctlWait"
  /\ \/ client[c].kind = "switch"
     \/ client[c].kind = "new" /\ Fresh(k)
  /\ IF entry[e].stdin /\ entry[e].process # "dead"
     THEN /\ worker' = [worker EXCEPT ![e].session = k, ![e].pc = "ctlState"]
          /\ UNCHANGED <<entry, client>>
     ELSE /\ worker' = [worker EXCEPT ![e].session = k, ![e].cmd = None,
                          ![e].pc = IF entry[e].closing THEN "reap" ELSE "idle"]
          /\ End(c, "failed")
          /\ entry' = [entry EXCEPT ![e].busy = FALSE]
  /\ UNCHANGED <<registry, queue, closer>>

\* Mutant of RekeyRefused: the new key may belong to another entry.
MutRekeyRefused(e, k) == registry[worker[e].key] # e

\* rekey_session's two refusals: the registry no longer holds this entry
\* under its key, or another entry holds the new key.
RekeyRefused(e, k) ==
  \/ registry[worker[e].key] # e
  \/ registry[k] \notin {e, None}

\* The moved session is closed and removed.
Abandon(e) ==
  /\ entry' = [entry EXCEPT ![e].closing = TRUE, ![e].process = Killed(e), ![e].busy = FALSE]
  /\ registry' = RemoveIdentity(e)
  /\ Reply(e, "failed", TRUE)

\* The entry moves to the new key in one critical section.
Adopt(e) == LET w == worker[e] IN
  /\ registry' = [registry EXCEPT ![w.key] = None, ![w.session] = e]
  /\ worker' = [worker EXCEPT ![e].key = w.session, ![e].cmd = None,
                  ![e].pc = IF entry[e].closing THEN "reap" ELSE "idle"]
  /\ End(w.cmd, "done")
  /\ entry' = [entry EXCEPT ![e].busy = FALSE]

\* get_state answered.  The session is abandoned when rekey_session refuses, or
\* when a switch turns out to lead to another working directory.
Rekey(e) == LET w == worker[e] IN
  /\ w.pc = "ctlState"
  /\ \/ RekeyRefused(e, w.session) /\ Abandon(e)
     \/ client[w.cmd].kind = "switch" /\ Abandon(e)
     \/ ~RekeyRefused(e, w.session) /\ Adopt(e)
  /\ UNCHANGED <<queue, closer>>

\* route_pending_response: Pi answers a steering command while the worker
\* reads its output.
Route(e, c) ==
  /\ worker[e].pc \in {"prompting", "draining", "ctlWait", "ctlState"}
  /\ c \in entry[e].pending /\ client[c].sent
  /\ entry' = [entry EXCEPT ![e].pending = @ \ {c}]
  /\ \E o \in {"done", "failed"} : End(c, o)
  /\ UNCHANGED <<registry, worker, queue, closer>>

\* The child exits by itself: a crash, or its stdin closed.
ProcessExits(e) ==
  /\ Running(e)
  /\ entry' = [entry EXCEPT ![e].process = "dead"]
  /\ UNCHANGED <<registry, worker, queue, client, closer>>

PiOutput(e) ==
  \/ PromptOutput(e)
  \/ ControlDone(e)
  \/ \E k \in Keys : ControlMoved(e, k)
  \/ \E c \in Callers : Route(e, c)

WorkerStep(e) ==
  \/ Boot(e) \/ Candidate(e) \/ Spawn(e) \/ Install(e) \/ Handshake(e)
  \/ Receive(e) \/ IdleTimeout(e) \/ Reap(e) \/ Quit(e) \/ Exit(e) \/ Drain(e)
  \/ Finish(e) \/ Drop(e)
  \/ StartPrompt(e) \/ PromptNotWritten(e) \/ PromptCancelled(e) \/ PromptEof(e)
  \/ DrainTimeout(e) \/ Settled(e) \/ Postcheck(e)
  \/ ControlWrite(e) \/ ControlRefused(e) \/ ControlTimeout(e) \/ Rekey(e)

-----------------------------------------------------------------------------
(* send_command. *)

\* Registry lookup and the closing test.
Lookup(c, k, kind) ==
  /\ client[c].pc = "idle"
  /\ IF registry[k] = None \/ (registry[k] # None /\ entry[registry[k]].closing)
     THEN End(c, "refused")
     ELSE client' = [client EXCEPT ![c].pc = "claim", ![c].key = k, ![c].kind = kind,
                                   ![c].entry = registry[k]]
  /\ UNCHANGED <<registry, entry, worker, queue, closer>>

\* compare_exchange on busy; a busy prompt admits steering commands only.
CallerClaim(c) == LET e == client[c].entry IN
  /\ client[c].pc = "claim"
  /\ \/ /\ ~IsBusy(e)
        /\ entry' = [entry EXCEPT ![e].busy = TRUE]
        /\ At(c, "send")
     \/ /\ IsBusy(e) /\ entry[e].prompt_active /\ client[c].kind = "steer"
        /\ At(c, "insert")
        /\ UNCHANGED entry
     \/ /\ IsBusy(e) /\ ~(entry[e].prompt_active /\ client[c].kind = "steer")
        /\ End(c, "refused")
        /\ UNCHANGED entry
  /\ UNCHANGED <<registry, worker, queue, closer>>

Send(c) == LET e == client[c].entry IN
  /\ client[c].pc = "send"
  /\ IF worker[e].pc = "gone"
     THEN /\ entry' = [entry EXCEPT ![e].busy = FALSE]
          /\ End(c, "refused")
          /\ UNCHANGED queue
     ELSE /\ queue' = [queue EXCEPT ![e] = Append(@, c)]
          /\ At(c, "queued")
          /\ UNCHANGED entry
  /\ UNCHANGED <<registry, worker, closer>>

\* send_busy_control: register a waiter, write past the worker, wait 5 s.
Insert(c) ==
  /\ client[c].pc = "insert"
  /\ entry' = [entry EXCEPT ![client[c].entry].pending = @ \cup {c}]
  /\ At(c, "write")
  /\ UNCHANGED <<registry, worker, queue, closer>>

\* The waiter that gives up takes its sender out of pending; the mutant leaves it.
MutForgotten(c) == entry
Forgotten(c) == [entry EXCEPT ![client[c].entry].pending = @ \ {c}]

Write(c) == LET e == client[c].entry IN
  /\ client[c].pc = "write"
  /\ IF entry[e].stdin /\ entry[e].process # "dead"
     THEN /\ client' = [client EXCEPT ![c].pc = "answer", ![c].sent = TRUE]
          /\ UNCHANGED entry
     ELSE /\ entry' = Forgotten(c)
          /\ End(c, "failed")
  /\ UNCHANGED <<registry, worker, queue, closer>>

AnswerTimeout(c) ==
  /\ client[c].pc = "answer"
  /\ entry' = Forgotten(c)
  /\ End(c, "failed")
  /\ UNCHANGED <<registry, worker, queue, closer>>

CallerStep(c) ==
  CallerClaim(c) \/ Send(c) \/ Insert(c) \/ Write(c) \/ AnswerTimeout(c)

-----------------------------------------------------------------------------
(* close_pi_session and close_all_pi_sessions. *)

\* Under the registry lock: look the entries up and mark them closing.
StartClose(x, targets) ==
  /\ closer[x].pc = "idle"
  /\ closer' = [closer EXCEPT ![x].pc = "next", ![x].targets = targets]
  /\ entry' = [e \in Entries |-> IF e \in targets
                                 THEN [entry[e] EXCEPT !.closing = TRUE]
                                 ELSE entry[e]]
  /\ UNCHANGED <<registry, worker, queue, client>>

CloseOne(x) == \E k \in Keys : StartClose(x, {registry[k]} \ {None})
CloseAll(x) == StartClose(x, Range(registry) \ {None})

\* close_session_entry starts its watchdog and the thread that closes stdin.
CloseNext(x) ==
  /\ closer[x].pc = "next"
  /\ \/ /\ closer[x].targets = {}
        /\ closer' = [closer EXCEPT ![x].pc = "end", ![x].entry = None]
        /\ UNCHANGED entry
     \/ \E e \in closer[x].targets :
          /\ closer' = [closer EXCEPT ![x].pc = "wait", ![x].entry = e]
          /\ entry' = [entry EXCEPT ![e].watchdog = TRUE, ![e].taker = TRUE]
  /\ UNCHANGED <<registry, worker, queue, client>>

\* Wait for done; after 500 ms the child is killed.
CloseWait(x) == LET e == closer[x].entry IN
  /\ closer[x].pc = "wait"
  /\ entry' = [entry EXCEPT ![e].process = IF entry[e].done THEN @ ELSE Killed(e)]
  /\ closer' = [closer EXCEPT ![x].pc = "final"]
  /\ UNCHANGED <<registry, worker, queue, client>>

CloseFinal(x) == LET e == closer[x].entry IN
  /\ closer[x].pc = "final"
  /\ client' = FailPending(e)
  /\ entry' = [entry EXCEPT ![e].pending = {}]
  /\ registry' = RemoveIdentity(e)
  /\ closer' = [closer EXCEPT ![x].pc = "next", ![x].targets = @ \ {e}]
  /\ UNCHANGED <<worker, queue>>

\* The helper thread that closes stdin, or kills when stdin is locked.
TakeStdin(e) ==
  /\ entry[e].taker
  /\ entry' \in {[entry EXCEPT ![e].taker = FALSE, ![e].stdin = FALSE],
                 [entry EXCEPT ![e].taker = FALSE, ![e].process = Killed(e)]}
  /\ UNCHANGED <<registry, worker, queue, client, closer>>

Watchdog(e) ==
  /\ entry[e].watchdog
  /\ entry' = [entry EXCEPT ![e].watchdog = FALSE,
                            ![e].process = IF entry[e].done THEN @ ELSE Killed(e)]
  /\ UNCHANGED <<registry, worker, queue, client, closer>>

CloserStep(x) == CloseNext(x) \/ CloseWait(x) \/ CloseFinal(x)

-----------------------------------------------------------------------------
Arrive ==
  \/ \E s \in Streams, k \in Keys : Reserve(s, k)
  \/ \E c \in Callers, k \in Keys, kind \in Kinds : Lookup(c, k, kind)
  \/ \E x \in Closers : CloseOne(x) \/ CloseAll(x)

Next ==
  \/ Arrive
  \/ \E s \in Streams : Cancel(s) \/ StreamStep(s)
  \/ \E c \in Callers : CallerStep(c)
  \/ \E x \in Closers : CloserStep(x)
  \/ \E e \in Entries : \/ WorkerStep(e) \/ PiOutput(e) \/ ProcessExits(e)
                        \/ TakeStdin(e) \/ Watchdog(e)

Spec == Init /\ [][Next]_vars

\* Every thread that can run does, and every deadline expires in the end.  Pi
\* owes nobody an answer, nobody has to call or to cancel.
FairSpec ==
  /\ Spec
  /\ \A s \in Streams : WF_vars(StreamStep(s))
  /\ \A c \in Callers : WF_vars(CallerStep(c))
  /\ \A x \in Closers : WF_vars(CloserStep(x))
  /\ \A e \in Entries : WF_vars(WorkerStep(e)) /\ WF_vars(TakeStdin(e)) /\ WF_vars(Watchdog(e))

-----------------------------------------------------------------------------
(* Properties. *)

\* The worker can still start on a command.
OpenPc == StartPc \cup (ServePc \ {"reap"})
Open(e) == worker[e].pc \in OpenPc

\* The calls that own the busy flag of e: they claimed it and have not been
\* answered yet.
Holders(e) == {c \in Clients : /\ client[c].entry = e
                               /\ client[c].pc \in {"announce", "enqueue", "send",
                                                    "queued", "served"}}

\* busy is the lock of the command queue: while the worker can start on a
\* command, at most one call is between claiming busy and its answer, and busy
\* is set exactly then.
OneCommandAtATime ==
  \A e \in Entries : Open(e) =>
    /\ \A c, d \in Holders(e) : c = d
    /\ entry[e].busy <=> Holders(e) # {}

\* Reservation: two workers that are not closing never work for the same
\* session key, through rekeying, giving up and closing.
OpenSessionsDistinct ==
  \A e, f \in Entries :
    /\ Open(e) /\ ~entry[e].closing
    /\ Open(f) /\ ~entry[f].closing
    /\ worker[e].key = worker[f].key
    => e = f

\* A worker that reports done leaves nothing behind: its child is not running
\* and its entry is not registered under any key.
DoneLeavesNothing ==
  \A e \in Entries : entry[e].done => ~Running(e) /\ \A k \in Keys : registry[k] # e

\* The inductive invariant behind OpenSessionsDistinct and DoneLeavesNothing.

\* A registered entry is registered under its worker's key, until the worker
\* has left its loop.
RegisteredIsRunning ==
  \A k \in Keys : registry[k] # None =>
    /\ worker[registry[k]].key = k
    /\ worker[registry[k]].pc \in StartPc \cup ServePc \cup {"exit"}

\* Where the worker stands while its child runs, and once it reported done.
ChildHasWorker ==
  \A e \in Entries :
    /\ entry[e].process = "spawned" => worker[e].pc = "install"
    /\ entry[e].process = "alive" => worker[e].pc \in LivePc
    /\ entry[e].done => worker[e].pc \in {"dropping", "gone"}

\* Nobody removes the entry of an open worker without setting closing first.
OpenIsRegistered ==
  \A e \in Entries :
    /\ Open(e) => worker[e].key \in Keys
    /\ worker[e].pc = "ctlState" => worker[e].session \in Keys
    /\ Open(e) /\ ~entry[e].closing => registry[worker[e].key] = e

\* A stream that undoes its reservation closed the entry or found it done, and
\* a closer's targets are closing.
RemoversClosed ==
  \A e \in Entries :
    /\ \A s \in Streams : client[s].entry = e =>
         /\ client[s].pc = "kill" => entry[e].closing
         /\ client[s].pc = "settle" => entry[e].initialized \/ entry[e].closing \/ entry[e].done
    /\ \A x \in Closers :
         /\ e \in closer[x].targets => entry[e].closing
         /\ closer[x].pc \in {"wait", "final"} /\ closer[x].entry = e => entry[e].closing

RegistryInv ==
  RegisteredIsRunning /\ ChildHasWorker /\ OpenIsRegistered /\ RemoversClosed

\* A call that is told it was refused never reached Pi, so it may be repeated.
RefusedNeverSent ==
  \A c \in Clients : client[c].outcome = "refused" => ~client[c].sent

\* A prompt that was written to Pi is never reported as a process failure the
\* caller's retry loop may repeat.
NoReplayAfterWrite ==
  \A s \in Streams : client[s].outcome = "process" => ~client[s].sent

\* No waiter leaks: a call is in the pending map of at most the entry it
\* writes to, and only while it waits for the answer.
WaitersAreWaiting ==
  \A e \in Entries : \A c \in entry[e].pending :
    client[c].entry = e /\ client[c].pc \in {"write", "answer"}

\* A call is answered once: neither a second terminal chunk nor a late answer
\* changes how it ended.
AnsweredOnce ==
  [][\A c \in Clients : client[c].pc = "end" =>
       client'[c].pc = "end" /\ client'[c].outcome = client[c].outcome]_vars

\* A prompt is worked on in the session whose id its stream reported: the entry
\* is still registered under the key that the stream looked up.
PromptRunsInReportedSession ==
  \A e \in Entries : worker[e].pc = "prompting" =>
    client[worker[e].cmd].key = worker[e].key

\* One RPC process per session key.
OneProcessPerSession ==
  \A e, f \in Entries : Running(e) /\ Running(f) /\ worker[e].key = worker[f].key => e = f

\* Every prompt's channel carries a terminal chunk before it is dropped.
TerminalChunkSent == \A s \in Streams : client[s].outcome # "lost"

\* A call of send_command always returns.
CallersReturn ==
  \A c \in Callers : client[c].pc # "idle" ~> client[c].pc = "end"

\* Cancelling a running call of stream_prompt ends its stream.
CancelEndsStream ==
  \A s \in Streams : client[s].cancelled ~> client[s].pc = "end"

\* A session that is marked closing is torn down: its worker finishes and no
\* child is left.
ClosingIsFinal ==
  \A e \in Entries : entry[e].closing ~> entry[e].done /\ ~Running(e)

=============================================================================
