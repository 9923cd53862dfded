----------------------------- MODULE OmpSession -----------------------------
(***************************************************************************)
(* The sessions of the omp RPC backend                                     *)
(* (crates/seher-sdk/src/sdk/omp_rpc.rs).  Its threads, flags and registry *)
(* are those of the Pi backend, line for line, and the actions of          *)
(* PiSession stand for them.  What differs is the identity of a session:   *)
(*   - omp names a new session itself, so a stream without a session to    *)
(*     resume reserves a placeholder (a uuid of its own), and the worker   *)
(*     moves the entry to omp's id after the handshake;                    *)
(*   - the id a stream reports is the one stored in the entry,             *)
(*     omp_session_id, and not the key it looked up;                       *)
(*   - the tools of the embedder are called by the worker, between two     *)
(*     lines that it reads.                                                *)
(* The placeholder that stream s makes up is s itself.                     *)
(***************************************************************************)
EXTENDS PiSession

ASSUME PlaceholdersAreKeys == Streams \subseteq Keys

VARIABLES
  omp_session_id,  \* the field of each entry
  reported         \* the id each stream sent in its Session chunk

ompVars == <<vars, omp_session_id, reported>>

Ids == Keys \ Streams   \* the ids omp gives to sessions

OmpInit ==
  /\ Init
  /\ omp_session_id = [e \in Entries |-> None]
  /\ reported = [s \in Streams |-> None]

-----------------------------------------------------------------------------
(* stream_prompt. *)

\* Resume a session of omp, or reserve the placeholder.
OmpReserve(s, k) ==
  /\ k \in Ids \cup {s}
  /\ Reserve(s, k)
  /\ UNCHANGED <<omp_session_id, reported>>

\* busy is held: prompt_active is set, and the id of the entry reported.
OmpAnnounce(s) == LET e == client[s].entry IN
  /\ client[s].pc = "announce"
  /\ IF omp_session_id[e] = None
     THEN /\ entry' = [entry EXCEPT ![e].prompt_active = FALSE, ![e].busy = FALSE]
          /\ End(s, "refused")
          /\ UNCHANGED reported
     ELSE /\ entry' = [entry EXCEPT ![e].prompt_active = TRUE]
          /\ reported' = [reported EXCEPT ![s] = omp_session_id[e]]
          /\ At(s, "enqueue")
  /\ UNCHANGED <<registry, worker, queue, closer, omp_session_id>>

\* The other steps: a stream that gives up removes what is registered under its
\* key, which is nothing once the worker has left the placeholder.
StreamPrompt(s) ==
  /\ \/ StartCancelled(s) \/ Await(s) \/ GiveUp(s) \/ Kill(s) \/ Settle(s)
     \/ Claim(s) \/ Enqueue(s)
  /\ UNCHANGED <<omp_session_id, reported>>

-----------------------------------------------------------------------------
(* The worker: startup. *)

\* Only a resumed session has an expected id.
Expected(e, k) == worker[e].key \in Ids => k = worker[e].key

\* ready, get_state and set_host_tools.  omp reports the session k.
OmpHandshake(e, k) == LET w == worker[e]
                          cancelled == client[w.creator].cancelled IN
  /\ w.pc = "handshake"
  /\ \/ /\ ~cancelled /\ Expected(e, k)   \* Accepted
        /\ worker' = [worker EXCEPT ![e].session = k,
                        ![e].pc = IF w.key \in Ids THEN "publish" ELSE "rekey"]
        /\ UNCHANGED entry
     \/ /\ entry[e].closing \/ cancelled
        /\ entry' = [entry EXCEPT ![e].process = Killed(e)]
        /\ To(e, "exit")
     \/ /\ ~cancelled                     \* ExecutionError
        /\ entry' = [entry EXCEPT ![e].process = Killed(e)]
        /\ To(e, "exit")
     \/ /\ ~cancelled                     \* Next: the wrong session is one reason
        /\ entry' = [entry EXCEPT ![e].process = Killed(e)]
        /\ To(e, "candidate")
  /\ UNCHANGED <<registry, queue, client, closer, omp_session_id, reported>>

\* Mutant of LeavePlaceholder: the refusals of rekey_session are forgotten.
MutLeavePlaceholder(e) == LET w == worker[e] IN
  /\ w.pc = "rekey"
  /\ registry' = [registry EXCEPT ![w.key] = None, ![w.session] = e]
  /\ worker' = [worker EXCEPT ![e].key = w.session, ![e].pc = "publish"]
  /\ UNCHANGED <<entry, queue, client, closer, omp_session_id, reported>>

\* rekey_session moves the entry to omp's id.  When it refuses, the child is
\* killed; closing is not set, and worker_loop removes the placeholder.
LeavePlaceholder(e) == LET w == worker[e] IN
  /\ w.pc = "rekey"
  /\ \/ /\ RekeyRefused(e, w.session)
        /\ entry' = [entry EXCEPT ![e].process = Killed(e)]
        /\ To(e, "exit")
        /\ UNCHANGED registry
     \/ /\ ~RekeyRefused(e, w.session)
        /\ registry' = [registry EXCEPT ![w.key] = None, ![w.session] = e]
        /\ worker' = [worker EXCEPT ![e].key = w.session, ![e].pc = "publish"]
        /\ UNCHANGED entry
  /\ UNCHANGED <<queue, client, closer, omp_session_id, reported>>

\* omp_session_id, stdin and initialized; a closer may have taken stdin before.
Publish(e) ==
  /\ worker[e].pc = "publish"
  /\ omp_session_id' = [omp_session_id EXCEPT ![e] = worker[e].session]
  /\ entry' = [entry EXCEPT ![e].stdin = TRUE, ![e].initialized = TRUE]
  /\ To(e, "idle")
  /\ UNCHANGED <<registry, queue, client, closer, reported>>

SpawnCandidate(e) ==
  /\ Candidate(e) \/ Spawn(e) \/ Install(e)
  /\ UNCHANGED <<omp_session_id, reported>>

-----------------------------------------------------------------------------
(* The worker: its loop, prompts and controls. *)

WorkerLoop(e) ==
  /\ Quit(e) \/ Exit(e) \/ Drain(e) \/ Finish(e) \/ Drop(e)
  /\ UNCHANGED <<omp_session_id, reported>>

RunWorker(e) ==
  /\ \/ Boot(e) \/ Receive(e) \/ IdleTimeout(e) \/ Reap(e)
     \/ Settled(e) \/ Postcheck(e)
  /\ UNCHANGED <<omp_session_id, reported>>

\* A prompt ends with agent_end, with prompt_result, or with an acknowledgement
\* that says the agent was not invoked; all three close the admission of
\* steering commands first.
PromptOnce(e) ==
  /\ \/ StartPrompt(e) \/ PromptNotWritten(e) \/ PromptCancelled(e) \/ PromptEof(e)
     \/ PromptOutput(e) \/ DrainTimeout(e)
  /\ UNCHANGED <<omp_session_id, reported>>

\* handle_host_tool_call runs the handler and writes its result, which changes
\* nothing here unless the write fails.
HostToolCall(e) ==
  /\ ~entry[e].stdin \/ entry[e].process = "dead"
  /\ \/ /\ worker[e].pc \in {"prompting", "draining"}
        /\ worker[e].pc = "draining" => entry[e].pending # {}
        /\ PromptFails(e, entry[e].prompt_acknowledged, "process")
     \/ ControlRefused(e)
  /\ UNCHANGED <<omp_session_id, reported>>

\* new_session and switch_session move the process; get_state asks for its id.
ControlOnce(e) ==
  /\ \/ ControlWrite(e) \/ ControlRefused(e) \/ ControlTimeout(e) \/ ControlDone(e)
     \/ \E k \in Ids : ControlMoved(e, k)
     \/ \E c \in Callers : Route(e, c)
  /\ UNCHANGED <<omp_session_id, reported>>

\* Mutant of OmpRekey: the stored id is not moved with the key.
MutOmpRekey(e) == Rekey(e) /\ UNCHANGED <<omp_session_id, reported>>

\* The entry moves with its process, and then the stored id; a session that
\* cannot move is abandoned.
OmpRekey(e) ==
  /\ Rekey(e)
  /\ omp_session_id' = IF worker'[e].key = worker[e].key THEN omp_session_id
                       ELSE [omp_session_id EXCEPT ![e] = worker'[e].key]
  /\ UNCHANGED reported

-----------------------------------------------------------------------------
(* send_command and the closers. *)

SendCommand(c) ==
  /\ \/ \E k \in Ids, kind \in Kinds : Lookup(c, k, kind)
     \/ CallerClaim(c) \/ Send(c)
  /\ UNCHANGED <<omp_session_id, reported>>

SendBusyControl(c) ==
  /\ Insert(c) \/ Write(c) \/ AnswerTimeout(c)
  /\ UNCHANGED <<omp_session_id, reported>>

CloseSessions(x) ==
  /\ \/ \E k \in Ids : StartClose(x, {registry[k]} \ {None})
     \/ CloseAll(x)
  /\ UNCHANGED <<omp_session_id, reported>>

CloseSessionEntry(x) ==
  /\ CloserStep(x)
  /\ UNCHANGED <<omp_session_id, reported>>

\* The two helper threads of a closer.
CloserThreads(e) ==
  /\ TakeStdin(e) \/ Watchdog(e)
  /\ UNCHANGED <<omp_session_id, reported>>

\* The embedder cancels, a process exits.
Environment ==
  /\ (\E s \in Streams : Cancel(s)) \/ (\E e \in Entries : ProcessExits(e))
  /\ UNCHANGED <<omp_session_id, reported>>

OmpNext ==
  \/ Environment
  \/ \E s \in Streams : \/ \E k \in Keys : OmpReserve(s, k)
                        \/ OmpAnnounce(s) \/ StreamPrompt(s)
  \/ \E c \in Callers : SendCommand(c) \/ SendBusyControl(c)
  \/ \E x \in Closers : CloseSessions(x) \/ CloseSessionEntry(x)
  \/ \E e \in Entries : \/ SpawnCandidate(e) \/ LeavePlaceholder(e) \/ Publish(e)
                        \/ \E k \in Ids : OmpHandshake(e, k)
                        \/ WorkerLoop(e) \/ RunWorker(e) \/ PromptOnce(e)
                        \/ HostToolCall(e) \/ ControlOnce(e) \/ OmpRekey(e)
                        \/ CloserThreads(e)

OmpSpec == OmpInit /\ [][OmpNext]_ompVars

-----------------------------------------------------------------------------
(* Properties. *)

\* Once a session can be prompted, the id its entry stores is the id it is
\* registered under: rekey_session and the store are two steps.
StoredIdIsKey ==
  \A e \in Entries : Open(e) /\ entry[e].initialized /\ ~entry[e].closing =>
    /\ omp_session_id[e] = worker[e].key
    /\ registry[omp_session_id[e]] = e

\* A prompt is worked on under the id that its stream reported: no control
\* command moves the entry between the two.
ReportedIsStored ==
  \A e \in Entries : worker[e].pc \in {"prompt", "prompting", "draining"} =>
    reported[worker[e].cmd] = omp_session_id[e]

\* The stored id is the "real omp-side session id" whenever a prompt runs.
StoredIdIsReal ==
  \A e \in Entries : worker[e].pc = "prompting" => omp_session_id[e] = worker[e].session
=============================================================================
