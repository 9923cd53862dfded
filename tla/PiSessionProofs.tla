--------------------------- MODULE PiSessionProofs ---------------------------
(***************************************************************************)
(* Proofs about PiSession: the types of its variables, and the registry    *)
(* with the workers of its entries.                                        *)
(***************************************************************************)
EXTENDS PiSession, TLAPS

-----------------------------------------------------------------------------
(* What the updates the actions are made of do to the types. *)

\* What TypeOK says of the record of an entry, a worker, a call and a closer.
LEMMA InRecords ==
  ASSUME TypeOK
  PROVE  /\ \A e \in Entries : entry[e] \in EntryRec /\ worker[e] \in WorkerRec
         /\ \A c \in Clients : client[c] \in ClientRec
         /\ \A x \in Closers : closer[x] \in CloserRec
  BY DEF TypeOK

\* A change of one field of one entry leaves the table of entries well typed,
\* whether or not e is an entry.
LEMMA EntryField ==
  ASSUME NEW f \in [Entries -> EntryRec], NEW e
  PROVE  /\ \A v \in BOOLEAN :
              /\ [f EXCEPT ![e].busy = v] \in [Entries -> EntryRec]
              /\ [f EXCEPT ![e].prompt_active = v] \in [Entries -> EntryRec]
              /\ [f EXCEPT ![e].prompt_acknowledged = v] \in [Entries -> EntryRec]
              /\ [f EXCEPT ![e].initialized = v] \in [Entries -> EntryRec]
              /\ [f EXCEPT ![e].closing = v] \in [Entries -> EntryRec]
              /\ [f EXCEPT ![e].done = v] \in [Entries -> EntryRec]
              /\ [f EXCEPT ![e].stdin = v] \in [Entries -> EntryRec]
              /\ [f EXCEPT ![e].watchdog = v] \in [Entries -> EntryRec]
              /\ [f EXCEPT ![e].taker = v] \in [Entries -> EntryRec]
         /\ \A p \in {"none", "spawned", "alive", "dead"} :
              [f EXCEPT ![e].process = p] \in [Entries -> EntryRec]
         /\ \A P \in SUBSET Callers :
              [f EXCEPT ![e].pending = P] \in [Entries -> EntryRec]
<1>1. CASE e \in Entries
  <2>0. \A v \in BOOLEAN :
              /\ [f[e] EXCEPT !.busy = v] \in EntryRec
              /\ [f[e] EXCEPT !.prompt_active = v] \in EntryRec
              /\ [f[e] EXCEPT !.prompt_acknowledged = v] \in EntryRec
              /\ [f[e] EXCEPT !.initialized = v] \in EntryRec
    BY <1>1 DEF EntryRec
  <2>1. \A v \in BOOLEAN :
              /\ [f[e] EXCEPT !.closing = v] \in EntryRec
              /\ [f[e] EXCEPT !.done = v] \in EntryRec
              /\ [f[e] EXCEPT !.stdin = v] \in EntryRec
              /\ [f[e] EXCEPT !.watchdog = v] \in EntryRec
              /\ [f[e] EXCEPT !.taker = v] \in EntryRec
    BY <1>1 DEF EntryRec
  <2>2. \A p \in {"none", "spawned", "alive", "dead"} : [f[e] EXCEPT !.process = p] \in EntryRec
    BY <1>1 DEF EntryRec
  <2>3. \A P \in SUBSET Callers : [f[e] EXCEPT !.pending = P] \in EntryRec
    BY <1>1 DEF EntryRec
  <2> QED BY <1>1, <2>0, <2>1, <2>2, <2>3
<1>2. CASE e \notin Entries
  BY <1>2
<1> QED BY <1>1, <1>2

\* An ended call keeps its type, whatever its outcome.
LEMMA EndedType ==
  ASSUME NEW r \in ClientRec, NEW o \in Outcomes
  PROVE  Ended(r, o) \in ClientRec
  BY DEF ClientRec, Ended, StreamPc

\* Moving a client to a control state, and ending one, keep the type of client.
LEMMA ClientUpdates ==
  ASSUME TypeOK, NEW c
  PROVE  /\ \A p \in StreamPc \cup CallerPc : At(c, p) => client' \in [Clients -> ClientRec]
         /\ \A o \in Outcomes : End(c, o) => client' \in [Clients -> ClientRec]
<1> USE DEF ClientRec
<1>1. CASE c \in Clients
  <2>1. \A p \in StreamPc \cup CallerPc : [client[c] EXCEPT !.pc = p] \in ClientRec
    BY <1>1 DEF TypeOK
  <2>2. \A o \in Outcomes : Ended(client[c], o) \in ClientRec
    BY <1>1, EndedType, InRecords
  <2>3. /\ \A p \in StreamPc \cup CallerPc : [client EXCEPT ![c].pc = p] \in [Clients -> ClientRec]
        /\ \A o \in Outcomes : [client EXCEPT ![c] = Ended(@, o)] \in [Clients -> ClientRec]
    <3> HIDE DEF ClientRec
    <3> QED BY <1>1, <2>1, <2>2 DEF TypeOK
  <2> HIDE DEF ClientRec
  <2> QED BY <2>3 DEF At, End
<1>2. CASE c \notin Clients
  BY <1>2 DEF TypeOK, At, End
<1> QED BY <1>1, <1>2

\* Marking a call as sent keeps the type of client.
LEMMA SentType ==
  ASSUME TypeOK, NEW c
  PROVE  [client EXCEPT ![c].sent = TRUE] \in [Clients -> ClientRec]
<1>1. CASE c \in Clients
  <2>1. [client[c] EXCEPT !.sent = TRUE] \in ClientRec
    BY <1>1, InRecords DEF ClientRec
  <2> QED BY <1>1, <2>1 DEF TypeOK
<1>2. CASE c \notin Clients
  BY <1>2 DEF TypeOK
<1> QED BY <1>1, <1>2

\* Moving a worker to another control state keeps the type of worker.
LEMMA WorkerUpdates ==
  ASSUME TypeOK, NEW e
  PROVE  \A p \in WorkerPc : To(e, p) => worker' \in [Entries -> WorkerRec]
<1>1. CASE e \in Entries
  <2>1. \A p \in WorkerPc : [worker[e] EXCEPT !.pc = p] \in WorkerRec
    BY <1>1, InRecords DEF WorkerRec
  <2> QED BY <1>1, <2>1 DEF TypeOK, To
<1>2. CASE e \notin Entries
  BY <1>2 DEF TypeOK, To
<1> QED BY <1>1, <1>2

\* remove_if_same and remove_entry_identity keep the type of registry.
LEMMA RegistryUpdates ==
  ASSUME TypeOK, NEW k, NEW e
  PROVE  /\ RemoveIfSame(k, e) \in [Keys -> Entries \cup {None}]
         /\ RemoveIdentity(e) \in [Keys -> Entries \cup {None}]
<1>1. registry \in [Keys -> Entries \cup {None}]
  BY DEF TypeOK
<1> QED BY <1>1 DEF RemoveIfSame, RemoveIdentity

\* Sending a command and taking one out keep the type of queue, and what is
\* taken out is a client.
LEMMA QueueUpdates ==
  ASSUME TypeOK, NEW e
  PROVE  /\ \A c \in Clients : [queue EXCEPT ![e] = Append(@, c)] \in [Entries -> Seq(Clients)]
         /\ queue[e] # <<>> => Popped(e) \in [Entries -> Seq(Clients)]
         /\ queue[e] # <<>> /\ e \in Entries => Head(queue[e]) \in Clients
<1>1. CASE e \in Entries
  BY <1>1 DEF TypeOK, Popped
<1>2. CASE e \notin Entries
  BY <1>2 DEF TypeOK, Popped
<1> QED BY <1>1, <1>2

\* A kill leaves one of the states of a process.
LEMMA KilledType ==
  ASSUME TypeOK, NEW e \in Entries
  PROVE  Killed(e) \in {"none", "spawned", "alive", "dead"}
  BY InRecords DEF EntryRec, Killed

\* Failing every waiter keeps the type of client.
LEMMA FailPendingType ==
  ASSUME TypeOK, NEW e
  PROVE  FailPending(e) \in [Clients -> ClientRec]
<1>1. \A c \in Clients : Ended(client[c], "failed") \in ClientRec
  BY InRecords, EndedType DEF Outcomes
<1> QED BY <1>1 DEF TypeOK, FailPending


-----------------------------------------------------------------------------
(* Every action preserves the types. *)

\* The steps of a stream thread.
LEMMA StreamTypes ==
  ASSUME TypeOK, NEW s \in Streams, Cancel(s) \/ StreamStep(s)
  PROVE  TypeOK'
<1>1. s \in Clients
  BY DEF Clients
<1>2. CASE Cancel(s)
  <2>1. [client[s] EXCEPT !.cancelled = TRUE] \in ClientRec
    BY <1>1, InRecords DEF ClientRec
  <2> QED BY <1>2, <2>1 DEF Cancel, TypeOK
<1>3. CASE StartCancelled(s)
  BY <1>3, ClientUpdates DEF StartCancelled, TypeOK, Outcomes
<1>4. CASE Await(s)
  BY <1>4, ClientUpdates DEF Await, TypeOK, StreamPc
<1>5. CASE GiveUp(s)
  BY <1>5, ClientUpdates, EntryField DEF GiveUp, TypeOK, StreamPc
<1>6. CASE Kill(s)
  <2>1. entry' \in [Entries -> EntryRec]
    <3>1. CASE client[s].entry \in Entries
      BY <1>6, <3>1, KilledType, EntryField DEF Kill, TypeOK
    <3>2. CASE client[s].entry \notin Entries
      BY <1>6, <3>2 DEF Kill, TypeOK
    <3> QED BY <3>1, <3>2
  <2> QED BY <1>6, <2>1, ClientUpdates DEF Kill, TypeOK, StreamPc
<1>7. CASE Settle(s)
  <2>1. registry' \in [Keys -> Entries \cup {None}]
    BY <1>7, RegistryUpdates DEF Settle, TypeOK
  <2>2. client' \in [Clients -> ClientRec]
    BY <1>7, ClientUpdates DEF Settle, StreamPc, Outcomes
  <2> QED BY <1>7, <2>1, <2>2 DEF Settle, TypeOK
<1>8. CASE Claim(s)
  <2>1. entry' \in [Entries -> EntryRec]
    <3>1. [entry EXCEPT ![client[s].entry].busy = TRUE] \in [Entries -> EntryRec]
      BY EntryField DEF TypeOK
    <3> QED BY <1>8, <3>1 DEF Claim, TypeOK
  <2> QED BY <1>8, <2>1, ClientUpdates DEF Claim, TypeOK, StreamPc, Outcomes
<1>9. CASE Announce(s)
  BY <1>9, ClientUpdates, EntryField DEF Announce, TypeOK, StreamPc
<1>10. CASE Enqueue(s)
  <2> DEFINE e == client[s].entry
             f == [entry EXCEPT ![e].prompt_active = FALSE]
  <2>1. [f EXCEPT ![e].busy = FALSE] \in [Entries -> EntryRec]
    <3>1. f \in [Entries -> EntryRec]
      BY EntryField DEF TypeOK
    <3> QED BY <3>1, EntryField
  <2>2. entry' \in [Entries -> EntryRec]
    BY <1>10, <2>1 DEF Enqueue, TypeOK
  <2>3. queue' \in [Entries -> Seq(Clients)]
    <3>1. [queue EXCEPT ![e] = Append(@, s)] \in [Entries -> Seq(Clients)]
      BY <1>1, QueueUpdates
    <3> QED BY <1>10, <3>1 DEF Enqueue, TypeOK
  <2>4. registry' \in [Keys -> Entries \cup {None}]
    BY <1>10, RegistryUpdates DEF Enqueue, TypeOK
  <2>5. client' \in [Clients -> ClientRec]
    BY <1>10, ClientUpdates DEF Enqueue, StreamPc, Outcomes
  <2> QED BY <1>10, <2>2, <2>3, <2>4, <2>5 DEF Enqueue, TypeOK
<1> QED
  BY <1>2, <1>3, <1>4, <1>5, <1>6, <1>7, <1>8, <1>9, <1>10 DEF StreamStep

\* A new call: a stream reserves an entry, a caller looks one up, a closer
\* marks its targets.
LEMMA ArriveTypes ==
  ASSUME TypeOK, Arrive
  PROVE  TypeOK'
<1>1. ASSUME NEW s \in Streams, NEW k \in Keys, Reserve(s, k)
      PROVE  TypeOK'
  <2>1. s \in Clients
    BY DEF Clients
  <2>2. \A e \in Entries \cup {None} :
          [client EXCEPT ![s].pc = "await", ![s].key = k, ![s].entry = e]
            \in [Clients -> ClientRec]
    <3> TAKE e \in Entries \cup {None}
    <3>1. [client[s] EXCEPT !.pc = "await", !.key = k, !.entry = e] \in ClientRec
      BY <2>1, InRecords DEF ClientRec, StreamPc
    <3> QED BY <2>1, <3>1 DEF TypeOK
  <2>3. client' \in [Clients -> ClientRec]
    <3>1. CASE End(s, "refused")
      BY <3>1, ClientUpdates DEF Outcomes
    <3>2. CASE ~End(s, "refused")
      <4>1. registry[k] \in Entries \cup {None}
        BY DEF TypeOK
      <4>2. PICK e \in Entries \cup {None} :
              client' = [client EXCEPT ![s].pc = "await", ![s].key = k, ![s].entry = e]
        BY <1>1, <3>2, <4>1 DEF Reserve
      <4> QED BY <2>2, <4>2
    <3> QED BY <3>1, <3>2
  <2>4. \A e \in Entries :
          [worker EXCEPT ![e].pc = "boot", ![e].key = k, ![e].creator = s]
            \in [Entries -> WorkerRec]
    <3> TAKE e \in Entries
    <3>1. [worker[e] EXCEPT !.pc = "boot", !.key = k, !.creator = s] \in WorkerRec
      BY InRecords DEF WorkerRec, WorkerPc, StartPc
    <3> QED BY <3>1 DEF TypeOK
  <2>5. worker' \in [Entries -> WorkerRec]
    BY <1>1, <2>4 DEF Reserve, TypeOK
  <2>6. registry' \in [Keys -> Entries \cup {None}]
    BY <1>1 DEF Reserve, TypeOK
  <2> QED BY <1>1, <2>3, <2>5, <2>6 DEF Reserve, TypeOK
<1>2. ASSUME NEW c \in Callers, NEW k \in Keys, NEW kind \in Kinds, Lookup(c, k, kind)
      PROVE  TypeOK'
  <2>1. [client[c] EXCEPT !.pc = "claim", !.key = k, !.kind = kind, !.entry = registry[k]]
          \in ClientRec
    <3>1. client[c] \in ClientRec
      BY InRecords DEF Clients
    <3>2. kind \in AllKinds /\ registry[k] \in Entries \cup {None} /\ "claim" \in CallerPc
      BY KindsKnown DEF TypeOK, CallerPc
    <3> QED BY <3>1, <3>2 DEF ClientRec
  <2> QED BY <1>2, <2>1, ClientUpdates DEF Lookup, TypeOK, Outcomes
<1>3. ASSUME NEW x \in Closers, NEW T \in SUBSET Entries, StartClose(x, T)
      PROVE  TypeOK'
  <2>1. [closer[x] EXCEPT !.pc = "next", !.targets = T] \in CloserRec
    BY InRecords DEF CloserRec
  <2>2. \A e \in Entries : [entry[e] EXCEPT !.closing = TRUE] \in EntryRec
    BY InRecords DEF EntryRec
  <2>3. entry' \in [Entries -> EntryRec]
    BY <1>3, <2>2 DEF StartClose, TypeOK
  <2> QED BY <1>3, <2>1, <2>3 DEF StartClose, TypeOK
<1>4. ASSUME NEW x \in Closers, CloseOne(x) \/ CloseAll(x)
      PROVE  \E T \in SUBSET Entries : StartClose(x, T)
  <2>1. \A k \in Keys : {registry[k]} \ {None} \in SUBSET Entries
    BY DEF TypeOK
  <2>2. Range(registry) \ {None} \in SUBSET Entries
    BY DEF TypeOK, Range
  <2> QED BY <1>4, <2>1, <2>2 DEF CloseOne, CloseAll
<1> QED BY <1>1, <1>2, <1>3, <1>4 DEF Arrive

\* Starting a worker, and ending one.
LEMMA LifeTypes ==
  ASSUME TypeOK, NEW e \in Entries,
         \/ Boot(e) \/ Candidate(e) \/ Spawn(e) \/ Install(e) \/ Handshake(e)
         \/ Receive(e) \/ IdleTimeout(e) \/ Reap(e) \/ Quit(e) \/ Exit(e)
         \/ Drain(e) \/ Finish(e) \/ Drop(e)
  PROVE  TypeOK'
<1> USE DEF WorkerPc, StartPc, ServePc, ExitPc
<1>k. [entry EXCEPT ![e].process = Killed(e)] \in [Entries -> EntryRec]
  BY KilledType, EntryField DEF TypeOK
<1>b. [entry EXCEPT ![e].prompt_active = FALSE, ![e].busy = FALSE] \in [Entries -> EntryRec]
  <2>1. [entry[e] EXCEPT !.prompt_active = FALSE, !.busy = FALSE] \in EntryRec
    BY InRecords DEF EntryRec
  <2> QED BY <2>1 DEF TypeOK
<1>h. [entry EXCEPT ![e].busy = FALSE] \in [Entries -> EntryRec]
  BY EntryField DEF TypeOK
<1>1. CASE Boot(e)
  BY <1>1, WorkerUpdates DEF Boot, TypeOK
<1>2. CASE Candidate(e)
  <2>1. CASE To(e, "exit")
    BY <1>2, <2>1, WorkerUpdates DEF Candidate, TypeOK
  <2>2. CASE ~To(e, "exit")
    <3>1. ~Exhausted(e)
      BY <1>2, <2>2 DEF Candidate
    <3>2. worker[e].candidate + 1 \in 0..MaxCandidates
      BY <3>1, CandidatesPositive, InRecords DEF WorkerRec, Exhausted
    <3>3. [worker[e] EXCEPT !.pc = "spawn", !.candidate = @ + 1] \in WorkerRec
      <4>1. worker[e] \in WorkerRec
        BY DEF TypeOK
      <4>2. "spawn" \in WorkerPc
        OBVIOUS
      <4> HIDE DEF WorkerPc, StartPc, ServePc, ExitPc
      <4> QED BY <3>2, <4>1, <4>2 DEF WorkerRec
    <3> QED BY <1>2, <2>2, <3>3 DEF Candidate, TypeOK
  <2> QED BY <2>1, <2>2
<1>3. CASE Spawn(e)
  <2>1. entry' \in [Entries -> EntryRec]
    <3>1. [entry EXCEPT ![e].process = "spawned"] \in [Entries -> EntryRec]
      BY EntryField DEF TypeOK
    <3> QED BY <1>3, <3>1 DEF Spawn, TypeOK
  <2>2. worker' \in [Entries -> WorkerRec]
    BY <1>3, WorkerUpdates DEF Spawn
  <2> QED BY <1>3, <2>1, <2>2 DEF Spawn, TypeOK
<1>4. CASE Install(e)
  <2>1. entry[e].process \in {"none", "spawned", "alive", "dead"}
    BY InRecords DEF EntryRec
  <2>2. entry' \in [Entries -> EntryRec]
    <3>1. (IF entry[e].process = "spawned" THEN "alive" ELSE entry[e].process)
            \in {"none", "spawned", "alive", "dead"}
      BY <2>1
    <3>2. [entry EXCEPT ![e].process = IF @ = "spawned" THEN "alive" ELSE @]
            \in [Entries -> EntryRec]
      BY <3>1, EntryField DEF TypeOK
    <3> QED BY <1>4, <3>2 DEF Install
  <2> QED BY <1>4, <2>2, WorkerUpdates DEF Install, TypeOK
<1>5. CASE Handshake(e)
  <2>1. [entry EXCEPT ![e].stdin = TRUE, ![e].initialized = TRUE] \in [Entries -> EntryRec]
    <3>1. [entry[e] EXCEPT !.stdin = TRUE, !.initialized = TRUE] \in EntryRec
      BY InRecords DEF EntryRec
    <3> QED BY <3>1 DEF TypeOK
  <2>2. [worker EXCEPT ![e].pc = "idle", ![e].session = worker[e].key] \in [Entries -> WorkerRec]
    <3>1. [worker[e] EXCEPT !.pc = "idle", !.session = worker[e].key] \in WorkerRec
      <4>1. worker[e] \in WorkerRec
        BY DEF TypeOK
      <4> QED BY <4>1 DEF WorkerRec
    <3> QED BY <3>1 DEF TypeOK
  <2>3. entry' \in [Entries -> EntryRec]
    BY <1>5, <1>k, <2>1 DEF Handshake
  <2>4. worker' \in [Entries -> WorkerRec]
    BY <1>5, <2>2, WorkerUpdates DEF Handshake
  <2> QED BY <1>5, <2>3, <2>4 DEF Handshake, TypeOK
<1>6. CASE Receive(e)
  <2>1. /\ queue' \in [Entries -> Seq(Clients)]
        /\ Head(queue[e]) \in Clients
    BY <1>6, QueueUpdates DEF Receive
  <2>2. entry' \in [Entries -> EntryRec]
    BY <1>6, <1>h DEF Receive, TypeOK
  <2>3. client' \in [Clients -> ClientRec]
    BY <1>6, ClientUpdates DEF Receive, StreamPc, Outcomes
  <2>4. \A c \in Clients, p \in {"control", "prompt"} :
          [worker EXCEPT ![e].cmd = c, ![e].pc = p] \in [Entries -> WorkerRec]
    <3> TAKE c \in Clients, p \in {"control", "prompt"}
    <3>1. [worker[e] EXCEPT !.cmd = c, !.pc = p] \in WorkerRec
      <4>1. worker[e] \in WorkerRec /\ p \in WorkerPc
        BY DEF TypeOK
      <4> QED BY <4>1 DEF WorkerRec
    <3> QED BY <3>1 DEF TypeOK
  <2>5. worker' \in [Entries -> WorkerRec]
    <3>1. CASE entry[e].closing
      <4>1. To(e, "reap") /\ "reap" \in WorkerPc
        BY <1>6, <3>1 DEF Receive
      <4> HIDE DEF WorkerPc
      <4> QED BY <4>1, WorkerUpdates
    <3>2. CASE ~entry[e].closing
      BY <1>6, <2>1, <2>4, <3>2 DEF Receive
    <3> QED BY <3>1, <3>2
  <2> QED BY <1>6, <2>1, <2>2, <2>3, <2>5 DEF Receive, TypeOK
<1>7. CASE IdleTimeout(e)
  BY <1>7, WorkerUpdates DEF IdleTimeout, TypeOK
<1>8. CASE Reap(e)
  BY <1>8, <1>k, WorkerUpdates DEF Reap, TypeOK
<1>9. CASE Quit(e)
  BY <1>9, WorkerUpdates DEF Quit, TypeOK
<1>10. CASE Exit(e)
  <2>1. registry' \in [Keys -> Entries \cup {None}]
    BY <1>10, RegistryUpdates DEF Exit
  <2> QED BY <1>10, <1>b, <2>1, WorkerUpdates DEF Exit, TypeOK
<1>11. CASE Drain(e)
  <2>1. CASE queue[e] = <<>>
    BY <1>11, <2>1, WorkerUpdates DEF Drain, TypeOK
  <2>2. CASE queue[e] # <<>>
    <3>1. queue' \in [Entries -> Seq(Clients)]
      BY <1>11, <2>2, QueueUpdates DEF Drain
    <3>2. entry' \in [Entries -> EntryRec]
      BY <1>11, <2>2, <1>h DEF Drain, TypeOK
    <3>3. client' \in [Clients -> ClientRec]
      BY <1>11, <2>2, ClientUpdates DEF Drain, Outcomes
    <3> QED BY <1>11, <2>2, <3>1, <3>2, <3>3 DEF Drain, TypeOK
  <2> QED BY <2>1, <2>2
<1>12. CASE Finish(e)
  BY <1>12, EntryField, WorkerUpdates DEF Finish, TypeOK
<1>13. CASE Drop(e)
  <2>1. \A c \in Clients : \A o \in Outcomes : Ended(client[c], o) \in ClientRec
    BY InRecords DEF ClientRec, Ended, StreamPc
  <2>2. client' \in [Clients -> ClientRec]
    BY <1>13, <2>1 DEF Drop, TypeOK, Outcomes
  <2>3. queue' \in [Entries -> Seq(Clients)]
    BY <1>13 DEF Drop, TypeOK
  <2> QED BY <1>13, <2>2, <2>3, WorkerUpdates DEF Drop, TypeOK
<1> QED
  BY <1>1, <1>2, <1>3, <1>4, <1>5, <1>6, <1>7, <1>8, <1>9, <1>10, <1>11, <1>12, <1>13

\* A failed prompt.
LEMMA PromptFailsTypes ==
  ASSUME TypeOK, NEW e \in Entries, NEW a, NEW cause \in {"process", "failed"},
         PromptFails(e, a, cause)
  PROVE  TypeOK'
<1>1. entry' \in [Entries -> EntryRec]
  <2>1. [entry[e] EXCEPT !.prompt_active = FALSE, !.prompt_acknowledged = FALSE,
                         !.process = Killed(e)] \in EntryRec
    BY KilledType, InRecords DEF EntryRec
  <2> QED BY <2>1 DEF PromptFails, TypeOK
<1>2. worker' \in [Entries -> WorkerRec]
  <2>1. [worker[e] EXCEPT !.pc = "exit", !.cmd = None] \in WorkerRec
    BY InRecords DEF WorkerRec, WorkerPc, ExitPc
  <2> QED BY <2>1 DEF PromptFails, TypeOK
<1>3. PromptOutcome(a, cause) \in Outcomes
  BY DEF PromptOutcome, Outcomes
<1> QED BY <1>1, <1>2, <1>3, ClientUpdates DEF PromptFails, TypeOK

\* The steps of prompt_once and of the worker after it.
LEMMA PromptTypes ==
  ASSUME TypeOK, NEW e \in Entries,
         \/ StartPrompt(e) \/ PromptNotWritten(e) \/ PromptCancelled(e) \/ PromptEof(e)
         \/ PromptOutput(e) \/ DrainTimeout(e) \/ Settled(e) \/ Postcheck(e)
  PROVE  TypeOK'
<1> USE DEF WorkerPc, ServePc, ExitPc
<1>1. CASE StartPrompt(e)
  <2>1. [entry EXCEPT ![e].prompt_active = TRUE, ![e].prompt_acknowledged = TRUE]
          \in [Entries -> EntryRec]
    <3>1. [entry[e] EXCEPT !.prompt_active = TRUE, !.prompt_acknowledged = TRUE] \in EntryRec
      BY InRecords DEF EntryRec
    <3> QED BY <3>1 DEF TypeOK
  <2>2. \A c : [client EXCEPT ![c].sent = TRUE] \in [Clients -> ClientRec]
    BY SentType
  <2> QED BY <1>1, <2>1, <2>2, WorkerUpdates DEF StartPrompt, TypeOK
<1>2. CASE PromptNotWritten(e)
  BY <1>2, PromptFailsTypes DEF PromptNotWritten
<1>3. CASE PromptCancelled(e)
  BY <1>3, PromptFailsTypes DEF PromptCancelled
<1>4. CASE PromptEof(e)
  BY <1>4, PromptFailsTypes DEF PromptEof
<1>5. CASE PromptOutput(e)
  <2>1. CASE /\ entry' = [entry EXCEPT ![e].prompt_active = FALSE]
             /\ To(e, "draining")
             /\ UNCHANGED <<registry, queue, client, closer>>
    BY <2>1, EntryField, WorkerUpdates DEF TypeOK
  <2> QED BY <1>5, <2>1, PromptFailsTypes DEF PromptOutput
<1>6. CASE DrainTimeout(e)
  BY <1>6, PromptFailsTypes DEF DrainTimeout
<1>7. CASE Settled(e)
  <2>1. CASE PromptFails(e, FALSE, "failed")
    BY <2>1, PromptFailsTypes
  <2>2. CASE ~PromptFails(e, FALSE, "failed")
    <3>1. [entry EXCEPT ![e].prompt_acknowledged = FALSE, ![e].prompt_active = FALSE,
                        ![e].busy = FALSE] \in [Entries -> EntryRec]
      <4>1. [entry[e] EXCEPT !.prompt_acknowledged = FALSE, !.prompt_active = FALSE,
                             !.busy = FALSE] \in EntryRec
        BY InRecords DEF EntryRec
      <4> QED BY <4>1 DEF TypeOK
    <3>2. [worker EXCEPT ![e].pc = "postcheck", ![e].cmd = None] \in [Entries -> WorkerRec]
      <4>1. [worker[e] EXCEPT !.pc = "postcheck", !.cmd = None] \in WorkerRec
        <5>1. "postcheck" \in WorkerPc
          OBVIOUS
        <5> HIDE DEF WorkerPc, ServePc, ExitPc
        <5> QED BY <5>1, InRecords DEF WorkerRec
      <4> QED BY <4>1 DEF TypeOK
    <3> QED BY <1>7, <2>2, <3>1, <3>2, ClientUpdates DEF Settled, TypeOK, Outcomes
  <2> QED BY <2>1, <2>2
<1>8. CASE Postcheck(e)
  <2>1. [entry EXCEPT ![e].prompt_active = FALSE, ![e].busy = FALSE] \in [Entries -> EntryRec]
    <3>1. [entry[e] EXCEPT !.prompt_active = FALSE, !.busy = FALSE] \in EntryRec
      BY InRecords DEF EntryRec
    <3> QED BY <3>1 DEF TypeOK
  <2>2. entry' \in [Entries -> EntryRec]
    BY <1>8, <2>1 DEF Postcheck, TypeOK
  <2>3. registry' \in [Keys -> Entries \cup {None}]
    BY <1>8, RegistryUpdates DEF Postcheck, TypeOK
  <2>4. worker' \in [Entries -> WorkerRec]
    BY <1>8, WorkerUpdates DEF Postcheck
  <2> QED BY <1>8, <2>2, <2>3, <2>4 DEF Postcheck, TypeOK
<1> QED
  BY <1>1, <1>2, <1>3, <1>4, <1>5, <1>6, <1>7, <1>8

\* The answer to a control command.
LEMMA ReplyTypes ==
  ASSUME TypeOK, NEW e \in Entries, NEW o \in Outcomes, NEW b, Reply(e, o, b)
  PROVE  /\ client' \in [Clients -> ClientRec]
         /\ worker' \in [Entries -> WorkerRec]
<1>1. client' \in [Clients -> ClientRec]
  BY ClientUpdates DEF Reply
<1>2. worker' \in [Entries -> WorkerRec]
  <2>1. \A p \in {"reap", "idle"} : [worker[e] EXCEPT !.cmd = None, !.pc = p] \in WorkerRec
    BY InRecords DEF WorkerRec, WorkerPc, ServePc
  <2>2. (IF b THEN "reap" ELSE "idle") \in {"reap", "idle"}
    OBVIOUS
  <2>3. [worker[e] EXCEPT !.cmd = None, !.pc = IF b THEN "reap" ELSE "idle"] \in WorkerRec
    BY <2>1, <2>2
  <2> QED BY <2>3 DEF Reply, TypeOK
<1> QED BY <1>1, <1>2

\* A control command that fails keeps the types.
LEMMA ControlFailsTypes ==
  ASSUME TypeOK, NEW e \in Entries, ControlFails(e)
  PROVE  TypeOK'
  BY ReplyTypes, EntryField DEF ControlFails, TypeOK, Outcomes

\* The steps of control_once and of the worker around it.
LEMMA ControlTypes ==
  ASSUME TypeOK, NEW e \in Entries,
         \/ ControlWrite(e) \/ ControlRefused(e) \/ ControlTimeout(e) \/ ControlDone(e)
         \/ Rekey(e) \/ ProcessExits(e)
         \/ \E k \in Keys : ControlMoved(e, k)
         \/ \E c \in Callers : Route(e, c)
  PROVE  TypeOK'
<1> USE DEF WorkerPc, ServePc
<1>h. [entry EXCEPT ![e].busy = FALSE] \in [Entries -> EntryRec]
  BY EntryField DEF TypeOK
<1>n. \A p \in {"reap", "idle"} :
        [worker EXCEPT ![e].cmd = None, ![e].pc = p] \in [Entries -> WorkerRec]
  <2> TAKE p \in {"reap", "idle"}
  <2>1. [worker[e] EXCEPT !.cmd = None, !.pc = p] \in WorkerRec
    BY InRecords DEF WorkerRec
  <2> QED BY <2>1 DEF TypeOK
<1>1. CASE ControlWrite(e)
  <2>1. CASE ControlFails(e)
    BY <2>1, ControlFailsTypes
  <2>2. CASE ~ControlFails(e)
    <3>1. [client EXCEPT ![worker[e].cmd].sent = TRUE] \in [Clients -> ClientRec]
      BY SentType
    <3> QED BY <1>1, <2>2, <3>1, WorkerUpdates DEF ControlWrite, TypeOK
  <2> QED BY <2>1, <2>2
<1>2. CASE ControlRefused(e)
  BY <1>2, ControlFailsTypes DEF ControlRefused
<1>3. CASE ControlTimeout(e)
  <2>1. entry' \in [Entries -> EntryRec]
    <3>1. [entry[e] EXCEPT !.closing = TRUE, !.process = Killed(e), !.pending = {},
                           !.busy = FALSE] \in EntryRec
      <4>1. \A p \in {"none", "spawned", "alive", "dead"} :
              [entry[e] EXCEPT !.closing = TRUE, !.process = p, !.pending = {},
                               !.busy = FALSE] \in EntryRec
        BY InRecords DEF EntryRec
      <4> QED BY <4>1, KilledType
    <3> QED BY <1>3, <3>1 DEF ControlTimeout, TypeOK
  <2>2. client' \in [Clients -> ClientRec]
    <3> DEFINE f == FailPending(e)
               c == worker[e].cmd
    <3>1. f \in [Clients -> ClientRec]
      BY FailPendingType
    <3> HIDE DEF f
    <3>2. c \in Clients => Ended(f[c], "failed") \in ClientRec
      BY <3>1, EndedType DEF Outcomes
    <3>3. [f EXCEPT ![c] = Ended(@, "failed")] \in [Clients -> ClientRec]
      BY <3>1, <3>2
    <3> QED BY <1>3, <3>3 DEF ControlTimeout, f
  <2>3. worker' \in [Entries -> WorkerRec]
    BY <1>3, <1>n DEF ControlTimeout
  <2> QED BY <1>3, <2>1, <2>2, <2>3 DEF ControlTimeout, TypeOK
<1>4. CASE ControlDone(e)
  BY <1>4, <1>h, ReplyTypes DEF ControlDone, TypeOK, Outcomes
<1>5. CASE Rekey(e)
  <2>1. [entry EXCEPT ![e].closing = TRUE, ![e].process = Killed(e), ![e].busy = FALSE]
          \in [Entries -> EntryRec]
    <3>1. [entry[e] EXCEPT !.closing = TRUE, !.process = Killed(e), !.busy = FALSE] \in EntryRec
      BY KilledType, InRecords DEF EntryRec
    <3> QED BY <3>1 DEF TypeOK
  <2>2. entry' \in [Entries -> EntryRec]
    BY <1>5, <1>h, <2>1 DEF Rekey, Abandon, Adopt
  <2>3. client' \in [Clients -> ClientRec]
    BY <1>5, ClientUpdates, ReplyTypes DEF Rekey, Abandon, Adopt, Outcomes
  <2>4. registry' \in [Keys -> Entries \cup {None}]
    <3>1. [registry EXCEPT ![worker[e].key] = None, ![worker[e].session] = e]
            \in [Keys -> Entries \cup {None}]
      BY DEF TypeOK
    <3>2. RemoveIdentity(e) \in [Keys -> Entries \cup {None}]
      BY RegistryUpdates
    <3> QED BY <1>5, <3>1, <3>2 DEF Rekey, Abandon, Adopt
  <2>5. worker' \in [Entries -> WorkerRec]
    <3>1. CASE Reply(e, "failed", TRUE)
      BY <3>1, ReplyTypes DEF Outcomes
    <3>2. CASE ~Reply(e, "failed", TRUE)
      <4> DEFINE p == IF entry[e].closing THEN "reap" ELSE "idle"
      <4>1. p \in {"reap", "idle"}
        OBVIOUS
      <4>2. [worker[e] EXCEPT !.key = worker[e].session, !.cmd = None, !.pc = p] \in WorkerRec
        BY <4>1, InRecords DEF WorkerRec
      <4> QED BY <1>5, <3>2, <4>2 DEF Rekey, Abandon, Adopt, TypeOK
    <3> QED BY <3>1, <3>2
  <2> QED BY <1>5, <2>2, <2>3, <2>4, <2>5 DEF Rekey, TypeOK
<1>6. CASE ProcessExits(e)
  BY <1>6, EntryField DEF ProcessExits, TypeOK
<1>7. ASSUME NEW k \in Keys, ControlMoved(e, k)
      PROVE  TypeOK'
  <2>1. [worker EXCEPT ![e].session = k, ![e].pc = "ctlState"] \in [Entries -> WorkerRec]
    <3>1. [worker[e] EXCEPT !.session = k, !.pc = "ctlState"] \in WorkerRec
      BY InRecords DEF WorkerRec
    <3> QED BY <3>1 DEF TypeOK
  <2>2. [worker EXCEPT ![e].session = k, ![e].cmd = None,
                       ![e].pc = IF entry[e].closing THEN "reap" ELSE "idle"]
          \in [Entries -> WorkerRec]
    <3> DEFINE p == IF entry[e].closing THEN "reap" ELSE "idle"
    <3>1. p \in {"reap", "idle"}
      OBVIOUS
    <3>2. [worker[e] EXCEPT !.session = k, !.cmd = None, !.pc = p] \in WorkerRec
      BY <3>1, InRecords DEF WorkerRec
    <3> QED BY <3>2 DEF TypeOK
  <2>3. client' \in [Clients -> ClientRec]
    BY <1>7, ClientUpdates DEF ControlMoved, TypeOK, Outcomes
  <2>4. entry' \in [Entries -> EntryRec]
    BY <1>7, <1>h DEF ControlMoved, TypeOK
  <2>5. worker' \in [Entries -> WorkerRec]
    BY <1>7, <2>1, <2>2 DEF ControlMoved
  <2> QED BY <1>7, <2>3, <2>4, <2>5 DEF ControlMoved, TypeOK
<1>8. ASSUME NEW c \in Callers, Route(e, c)
      PROVE  TypeOK'
  <2>1. [entry EXCEPT ![e].pending = @ \ {c}] \in [Entries -> EntryRec]
    <3>1. entry[e].pending \ {c} \in SUBSET Callers
      BY InRecords DEF EntryRec
    <3> QED BY <3>1, EntryField DEF TypeOK
  <2>2. client' \in [Clients -> ClientRec]
    BY <1>8, ClientUpdates DEF Route, Outcomes
  <2> QED BY <1>8, <2>1, <2>2 DEF Route, TypeOK
<1> QED
  BY <1>1, <1>2, <1>3, <1>4, <1>5, <1>6, <1>7, <1>8

\* The steps of a caller.
LEMMA CallerTypes ==
  ASSUME TypeOK, NEW c \in Callers, CallerStep(c)
  PROVE  TypeOK'
<1> USE DEF CallerPc
<1> DEFINE e == client[c].entry
<1>c. c \in Clients
  BY DEF Clients
<1>h. \A v \in BOOLEAN : [entry EXCEPT ![e].busy = v] \in [Entries -> EntryRec]
  BY EntryField DEF TypeOK
<1>f. /\ [entry EXCEPT ![e].pending = @ \cup {c}] \in [Entries -> EntryRec]
      /\ Forgotten(c) \in [Entries -> EntryRec]
  <2>1. CASE e \in Entries
    <3>1. /\ entry[e].pending \cup {c} \in SUBSET Callers
          /\ entry[e].pending \ {c} \in SUBSET Callers
      BY <2>1, InRecords DEF EntryRec
    <3> QED BY <3>1, EntryField DEF TypeOK, Forgotten
  <2>2. CASE e \notin Entries
    BY <2>2 DEF TypeOK, Forgotten
  <2> QED BY <2>1, <2>2
<1>1. CASE CallerClaim(c)
  <2>1. entry' \in [Entries -> EntryRec]
    BY <1>1, <1>h DEF CallerClaim, TypeOK
  <2>2. client' \in [Clients -> ClientRec]
    BY <1>1, ClientUpdates DEF CallerClaim, Outcomes
  <2> QED BY <1>1, <2>1, <2>2 DEF CallerClaim, TypeOK
<1>2. CASE Send(c)
  <2>1. entry' \in [Entries -> EntryRec]
    BY <1>2, <1>h DEF Send, TypeOK
  <2>2. client' \in [Clients -> ClientRec]
    BY <1>2, ClientUpdates DEF Send, Outcomes
  <2>3. queue' \in [Entries -> Seq(Clients)]
    <3>1. [queue EXCEPT ![e] = Append(@, c)] \in [Entries -> Seq(Clients)]
      BY <1>c, QueueUpdates
    <3> QED BY <1>2, <3>1 DEF Send, TypeOK
  <2> QED BY <1>2, <2>1, <2>2, <2>3 DEF Send, TypeOK
<1>3. CASE Insert(c)
  BY <1>3, <1>f, ClientUpdates DEF Insert, TypeOK
<1>4. CASE Write(c)
  <2>1. entry' \in [Entries -> EntryRec]
    BY <1>4, <1>f DEF Write, TypeOK
  <2>2. client' \in [Clients -> ClientRec]
    <3>1. [client[c] EXCEPT !.pc = "answer", !.sent = TRUE] \in ClientRec
      BY <1>c, InRecords DEF ClientRec
    <3>2. [client EXCEPT ![c].pc = "answer", ![c].sent = TRUE] \in [Clients -> ClientRec]
      BY <3>1 DEF TypeOK
    <3> QED BY <1>4, <3>2, ClientUpdates DEF Write, Outcomes
  <2> QED BY <1>4, <2>1, <2>2 DEF Write, TypeOK
<1>5. CASE AnswerTimeout(c)
  BY <1>5, <1>f, ClientUpdates DEF AnswerTimeout, TypeOK, Outcomes
<1> QED BY <1>1, <1>2, <1>3, <1>4, <1>5 DEF CallerStep

\* The steps of a closer and of its two helper threads.
LEMMA CloserTypes ==
  ASSUME TypeOK,
         \/ \E x \in Closers : CloserStep(x)
         \/ \E e \in Entries : TakeStdin(e) \/ Watchdog(e)
  PROVE  TypeOK'
<1>1. ASSUME NEW x \in Closers, CloseNext(x)
      PROVE  TypeOK'
  <2>0. \A e \in Entries : [entry[e] EXCEPT !.watchdog = TRUE, !.taker = TRUE] \in EntryRec
    BY InRecords DEF EntryRec
  <2>1. CASE closer[x].targets = {} /\ closer' = [closer EXCEPT ![x].pc = "end", ![x].entry = None]
                                    /\ UNCHANGED entry
    <3>1. [closer[x] EXCEPT !.pc = "end", !.entry = None] \in CloserRec
      BY InRecords DEF CloserRec
    <3> QED BY <1>1, <2>1, <3>1 DEF CloseNext, TypeOK
  <2>2. ASSUME NEW e \in closer[x].targets,
               closer' = [closer EXCEPT ![x].pc = "wait", ![x].entry = e],
               entry' = [entry EXCEPT ![e].watchdog = TRUE, ![e].taker = TRUE]
        PROVE  TypeOK'
    <3>1. e \in Entries
      BY InRecords DEF CloserRec
    <3>2. [closer[x] EXCEPT !.pc = "wait", !.entry = e] \in CloserRec
      BY <3>1, InRecords DEF CloserRec
    <3>3. [entry[e] EXCEPT !.watchdog = TRUE, !.taker = TRUE] \in EntryRec
      BY <2>0, <3>1
    <3>4. entry' \in [Entries -> EntryRec]
      BY <2>2, <3>3 DEF TypeOK
    <3>5. closer' \in [Closers -> CloserRec]
      BY <2>2, <3>2 DEF TypeOK
    <3> QED BY <1>1, <3>4, <3>5 DEF CloseNext, TypeOK
  <2> QED BY <1>1, <2>1, <2>2 DEF CloseNext
<1>2. ASSUME NEW x \in Closers, CloseWait(x)
      PROVE  TypeOK'
  <2>1. [closer[x] EXCEPT !.pc = "final"] \in CloserRec
    BY InRecords DEF CloserRec
  <2>2. entry' \in [Entries -> EntryRec]
    <3> DEFINE e == closer[x].entry
    <3>1. CASE e \in Entries
      <4>1. (IF entry[e].done THEN entry[e].process ELSE Killed(e))
              \in {"none", "spawned", "alive", "dead"}
        <5>1. entry[e].process \in {"none", "spawned", "alive", "dead"}
          BY <3>1, InRecords DEF EntryRec
        <5> QED BY <3>1, <5>1, KilledType
      <4>2. [entry EXCEPT ![e].process = IF entry[e].done THEN @ ELSE Killed(e)]
              \in [Entries -> EntryRec]
        <5>1. \A q \in {"none", "spawned", "alive", "dead"} :
                [entry EXCEPT ![e].process = q] \in [Entries -> EntryRec]
          BY EntryField DEF TypeOK
        <5> QED BY <4>1, <5>1
      <4> QED BY <1>2, <4>2 DEF CloseWait
    <3>2. CASE e \notin Entries
      BY <1>2, <3>2 DEF CloseWait, TypeOK
    <3> QED BY <3>1, <3>2
  <2> QED BY <1>2, <2>1, <2>2 DEF CloseWait, TypeOK
<1>3. ASSUME NEW x \in Closers, CloseFinal(x)
      PROVE  TypeOK'
  <2>1. [closer[x] EXCEPT !.pc = "next", !.targets = @ \ {closer[x].entry}] \in CloserRec
    BY InRecords DEF CloserRec
  <2>2. entry' \in [Entries -> EntryRec]
    BY <1>3, EntryField DEF CloseFinal, TypeOK
  <2>3. client' \in [Clients -> ClientRec]
    BY <1>3, FailPendingType DEF CloseFinal
  <2>4. registry' \in [Keys -> Entries \cup {None}]
    BY <1>3, RegistryUpdates DEF CloseFinal
  <2> QED BY <1>3, <2>1, <2>2, <2>3, <2>4 DEF CloseFinal, TypeOK
<1>4. ASSUME NEW e \in Entries, TakeStdin(e)
      PROVE  TypeOK'
  <2>1. /\ [entry[e] EXCEPT !.taker = FALSE, !.stdin = FALSE] \in EntryRec
        /\ \A p \in {"none", "spawned", "alive", "dead"} :
             [entry[e] EXCEPT !.taker = FALSE, !.process = p] \in EntryRec
    BY InRecords DEF EntryRec
  <2>2. [entry EXCEPT ![e].taker = FALSE, ![e].stdin = FALSE] \in [Entries -> EntryRec]
    BY <2>1 DEF TypeOK
  <2>3. [entry EXCEPT ![e].taker = FALSE, ![e].process = Killed(e)] \in [Entries -> EntryRec]
    <3>1. [entry[e] EXCEPT !.taker = FALSE, !.process = Killed(e)] \in EntryRec
      BY <2>1, KilledType
    <3> QED BY <3>1 DEF TypeOK
  <2> QED BY <1>4, <2>2, <2>3 DEF TakeStdin, TypeOK
<1>5. ASSUME NEW e \in Entries, Watchdog(e)
      PROVE  TypeOK'
  <2> DEFINE p == IF entry[e].done THEN entry[e].process ELSE Killed(e)
  <2>1. p \in {"none", "spawned", "alive", "dead"}
    BY KilledType, InRecords DEF EntryRec
  <2>2. \A q \in {"none", "spawned", "alive", "dead"} :
          [entry[e] EXCEPT !.watchdog = FALSE, !.process = q] \in EntryRec
    BY InRecords DEF EntryRec
  <2>3. [entry[e] EXCEPT !.watchdog = FALSE, !.process = p] \in EntryRec
    BY <2>1, <2>2
  <2>4. entry' \in [Entries -> EntryRec]
    BY <1>5, <2>3 DEF Watchdog, TypeOK
  <2> QED BY <1>5, <2>4 DEF Watchdog, TypeOK
<1> QED BY <1>1, <1>2, <1>3, <1>4, <1>5 DEF CloserStep

\* The initial states are well typed.
LEMMA TypeInit == Init => TypeOK
<1> SUFFICES ASSUME Init PROVE TypeOK
  OBVIOUS
<1>1. FreshEntry \in EntryRec
  BY DEF FreshEntry, EntryRec
<1>2. [pc |-> "absent", key |-> None, creator |-> None, candidate |-> 0,
       cmd |-> None, session |-> None] \in WorkerRec
  BY CandidatesPositive DEF WorkerRec, WorkerPc
<1>3. [pc |-> "idle", entry |-> None, key |-> None, kind |-> "prompt",
       cancelled |-> FALSE, sent |-> FALSE, outcome |-> "none"] \in ClientRec
  BY DEF ClientRec, StreamPc, Outcomes
<1>4. [pc |-> "idle", targets |-> {}, entry |-> None] \in CloserRec
  BY DEF CloserRec
<1>5. <<>> \in Seq(Clients)
  OBVIOUS
<1> QED BY <1>1, <1>2, <1>3, <1>4, <1>5 DEF Init, TypeOK

\* Every step keeps the types.
LEMMA TypeStep == TypeOK /\ [Next]_vars => TypeOK'
<1> SUFFICES ASSUME TypeOK, [Next]_vars PROVE TypeOK'
  OBVIOUS
<1>1. CASE UNCHANGED vars
  BY <1>1 DEF vars, TypeOK
<1>2. CASE Arrive
  BY <1>2, ArriveTypes
<1>3. CASE \E s \in Streams : Cancel(s) \/ StreamStep(s)
  BY <1>3, StreamTypes
<1>4. CASE \E c \in Callers : CallerStep(c)
  BY <1>4, CallerTypes
<1>5. CASE \/ \E x \in Closers : CloserStep(x)
           \/ \E e \in Entries : TakeStdin(e) \/ Watchdog(e)
  BY <1>5, CloserTypes
<1>6. ASSUME NEW e \in Entries, WorkerStep(e) \/ PiOutput(e) \/ ProcessExits(e)
      PROVE  TypeOK'
  BY <1>6, LifeTypes, PromptTypes, ControlTypes DEF WorkerStep, PiOutput
<1> QED BY <1>1, <1>2, <1>3, <1>4, <1>5, <1>6 DEF Next

\* Every variable of the registry model keeps its type, for every number of
\* keys, entries, streams, callers and closers.
THEOREM TypeCorrect == Spec => []TypeOK
  BY TypeInit, TypeStep, PTL DEF Spec

-----------------------------------------------------------------------------
(* What a step may do to an entry, a worker and the clients without touching
   the invariant.                                                          *)

\* closing, initialized and done are never reset.
Monotone ==
  \A f \in Entries : /\ entry[f].closing => entry'[f].closing
                     /\ entry[f].initialized => entry'[f].initialized
                     /\ entry[f].done => entry'[f].done

\* The child of f keeps its state or dies, and f is not reported done.
Calm(f) ==
  /\ entry'[f].done = entry[f].done
  /\ entry'[f].process \in {entry[f].process, "dead"}

\* No stream starts to undo a reservation.
Quiet ==
  \A s \in Streams : client'[s].pc \in {"kill", "settle"} =>
    client'[s].pc = client[s].pc /\ client'[s].entry = client[s].entry

LoopPc == StartPc \cup ServePc \cup {"exit"}

\* The worker of e moves on and stays under the key it has.
Moved(e) ==
  /\ registry' = registry
  /\ Monotone
  /\ \A f \in Entries \ {e} : Calm(f) /\ worker'[f] = worker[f]
  /\ worker'[e].key = worker[e].key
  /\ Open(e)' => Open(e)
  /\ worker'[e].pc = "ctlState" => worker'[e].session \in Keys
  /\ worker[e].pc \in LoopPc => worker'[e].pc \in LoopPc
  /\ entry'[e].process = "spawned" => worker'[e].pc = "install"
  /\ entry'[e].process = "alive" => worker'[e].pc \in LivePc
  /\ entry'[e].done => worker'[e].pc \in {"dropping", "gone"}

\* A worker that only moves on keeps what the invariant says of workers.
LEMMA MovedKeeps ==
  ASSUME TypeOK, RegistryInv, NEW e \in Entries, Moved(e)
  PROVE  RegisteredIsRunning' /\ ChildHasWorker' /\ OpenIsRegistered'
<1>1. RegisteredIsRunning'
  <2> SUFFICES ASSUME NEW k \in Keys, registry[k] # None
               PROVE  /\ worker'[registry[k]].key = k
                      /\ worker'[registry[k]].pc \in LoopPc
    BY DEF RegisteredIsRunning, Moved, LoopPc
  <2>1. registry[k] \in Entries
    BY DEF TypeOK
  <2>2. worker[registry[k]].key = k /\ worker[registry[k]].pc \in LoopPc
    BY DEF RegistryInv, RegisteredIsRunning, LoopPc
  <2> QED BY <2>1, <2>2 DEF Moved
<1>2. ChildHasWorker'
  BY DEF RegistryInv, ChildHasWorker, Moved, Calm
<1>3. OpenIsRegistered'
  BY DEF RegistryInv, OpenIsRegistered, Open, Moved, Monotone
<1> QED BY <1>1, <1>2, <1>3

\* The same for a step of another thread.
LEMMA StillKeeps ==
  ASSUME TypeOK, RegistryInv, UNCHANGED <<registry, worker>>, Monotone,
         \A f \in Entries : Calm(f)
  PROVE  RegisteredIsRunning' /\ ChildHasWorker' /\ OpenIsRegistered'
<1>1. RegisteredIsRunning'
  BY DEF RegistryInv, RegisteredIsRunning
<1>2. ChildHasWorker'
  BY DEF RegistryInv, ChildHasWorker, Calm
<1>3. OpenIsRegistered'
  BY DEF RegistryInv, OpenIsRegistered, Open, Monotone
<1> QED BY <1>1, <1>2, <1>3

\* A quiet step keeps the invariant's claim about who removes entries.
LEMMA QuietKeeps ==
  ASSUME RegistryInv, Monotone, Quiet, UNCHANGED closer
  PROVE  RemoversClosed'
  BY DEF RegistryInv, RemoversClosed, Monotone, Quiet

\* The updates of entries that are calm and monotone.
LEMMA CalmUpdates ==
  ASSUME TypeOK, NEW e,
         \/ entry' = entry
         \/ \E v \in BOOLEAN : \/ entry' = [entry EXCEPT ![e].busy = v]
                               \/ entry' = [entry EXCEPT ![e].prompt_active = v]
         \/ entry' = [entry EXCEPT ![e].prompt_active = FALSE, ![e].busy = FALSE]
         \/ \E P \in SUBSET Callers : entry' = [entry EXCEPT ![e].pending = P]
         \/ entry' = [entry EXCEPT ![e].closing = TRUE]
         \/ entry' = [entry EXCEPT ![e].process = Killed(e)]
  PROVE  Monotone /\ \A f \in Entries : Calm(f)
<1> USE DEF TypeOK, EntryRec, Monotone, Calm
<1>1. CASE entry' = entry
  BY <1>1
<1>2. CASE e \notin Entries
  BY <1>2
<1>3. ASSUME e \in Entries, NEW v \in BOOLEAN, entry' = [entry EXCEPT ![e].busy = v]
      PROVE  Monotone /\ \A f \in Entries : Calm(f)
  BY <1>3
<1>8. ASSUME e \in Entries, NEW v \in BOOLEAN, entry' = [entry EXCEPT ![e].prompt_active = v]
      PROVE  Monotone /\ \A f \in Entries : Calm(f)
  BY <1>8
<1>4. CASE e \in Entries /\ entry' = [entry EXCEPT ![e].prompt_active = FALSE, ![e].busy = FALSE]
  BY <1>4
<1>5. ASSUME e \in Entries,
             NEW P \in SUBSET Callers, entry' = [entry EXCEPT ![e].pending = P]
      PROVE  Monotone /\ \A f \in Entries : Calm(f)
  BY <1>5
<1>6. CASE e \in Entries /\ entry' = [entry EXCEPT ![e].closing = TRUE]
  BY <1>6
<1>7. CASE e \in Entries /\ entry' = [entry EXCEPT ![e].process = Killed(e)]
  BY <1>7 DEF Killed
<1> QED BY <1>1, <1>2, <1>3, <1>4, <1>5, <1>6, <1>7, <1>8

\* An ended call is at "end".
LEMMA EndedPc ==
  ASSUME NEW r \in ClientRec, NEW o \in Outcomes
  PROVE  Ended(r, o).pc = "end"
  BY DEF ClientRec, Ended

\* The updates of clients that are quiet.
LEMMA QuietUpdates ==
  ASSUME TypeOK, NEW c,
         \/ client' = client
         \/ \E p \in (StreamPc \cup CallerPc) \ {"kill", "settle"} : At(c, p)
         \/ \E o \in Outcomes : End(c, o)
         \/ client' = [client EXCEPT ![c].sent = TRUE]
         \/ client' = [client EXCEPT ![c].cancelled = TRUE]
  PROVE  Quiet
<1> USE DEF TypeOK, ClientRec, Quiet, Clients
<1>1. CASE client' = client
  BY <1>1
<1>2. CASE c \notin Clients
  BY <1>2 DEF At, End
<1>3. ASSUME c \in Clients, NEW p \in (StreamPc \cup CallerPc) \ {"kill", "settle"}, At(c, p)
      PROVE  Quiet
  BY <1>3 DEF At
<1>4. ASSUME c \in Clients, NEW o \in Outcomes, End(c, o)
      PROVE  Quiet
  <2>1. Ended(client[c], o).pc = "end"
    BY <1>4 DEF Ended
  <2> QED BY <1>4, <2>1 DEF End
<1>5. CASE c \in Clients /\ client' = [client EXCEPT ![c].sent = TRUE]
  BY <1>5
<1>6. CASE c \in Clients /\ client' = [client EXCEPT ![c].cancelled = TRUE]
  BY <1>6
<1> QED BY <1>1, <1>2, <1>3, <1>4, <1>5, <1>6

-----------------------------------------------------------------------------
(* Every action preserves RegistryInv. *)

\* A step of another thread that is calm, monotone and quiet keeps the invariant.
LEMMA RegistryStillKeeps ==
  ASSUME TypeOK, RegistryInv, UNCHANGED <<registry, worker, closer>>, Monotone,
         \A f \in Entries : Calm(f), Quiet
  PROVE  RegistryInv'
  BY StillKeeps, QuietKeeps DEF RegistryInv

\* Taking a key from an entry whose worker is not open, or is closing.
LEMMA RemoveKeeps ==
  ASSUME TypeOK, RegistryInv, NEW e, UNCHANGED worker, Monotone,
         \A f \in Entries : Calm(f),
         \A k \in Keys : registry'[k] \in {registry[k], None},
         \A k \in Keys : registry[k] # e => registry'[k] = registry[k],
         e \in Entries => ~Open(e) \/ entry'[e].closing
  PROVE  RegisteredIsRunning' /\ ChildHasWorker' /\ OpenIsRegistered'
<1>1. RegisteredIsRunning'
  BY DEF RegistryInv, RegisteredIsRunning
<1>2. ChildHasWorker'
  BY DEF RegistryInv, ChildHasWorker, Calm
<1>3. OpenIsRegistered'
  BY DEF RegistryInv, OpenIsRegistered, Open, Monotone
<1> QED BY <1>1, <1>2, <1>3

\* To moves one worker and leaves its key and session alone.
LEMMA ToMoves ==
  ASSUME TypeOK, NEW e \in Entries, NEW p, To(e, p)
  PROVE  /\ worker'[e].pc = p
         /\ worker'[e].key = worker[e].key
         /\ worker'[e].session = worker[e].session
         /\ \A f \in Entries \ {e} : worker'[f] = worker[f]
  BY DEF To, TypeOK, WorkerRec

\* The worker of e leaves its loop and takes the entry out of the registry.
LEMMA ExitKeeps ==
  ASSUME TypeOK, RegistryInv, NEW e \in Entries, NEW p \in {"drain", "quit"},
         entry[e].process \notin {"spawned", "alive"}, ~entry[e].done,
         entry' = [entry EXCEPT ![e].prompt_active = FALSE, ![e].busy = FALSE],
         registry' = RemoveIfSame(worker[e].key, e), To(e, p), UNCHANGED <<client, closer>>
  PROVE  RegistryInv'
<1>1. Monotone /\ \A f \in Entries : Calm(f)
  BY CalmUpdates
<1>2. /\ worker'[e].pc = p
      /\ \A f \in Entries \ {e} : worker'[f] = worker[f]
  BY DEF To, TypeOK, WorkerRec
<1>3. /\ \A k \in Keys : registry'[k] \in {registry[k], None}
      /\ \A k \in Keys : registry[k] # e => registry'[k] = registry[k]
      /\ \A k \in Keys : registry'[k] # e
  BY NamesDistinct DEF RemoveIfSame, TypeOK, RegistryInv, RegisteredIsRunning
<1>4. RegisteredIsRunning'
  BY <1>2, <1>3 DEF RegistryInv, RegisteredIsRunning, TypeOK
<1>5. ChildHasWorker'
  <2> SUFFICES ASSUME NEW f \in Entries
               PROVE  /\ entry'[f].process = "spawned" => worker'[f].pc = "install"
                      /\ entry'[f].process = "alive" => worker'[f].pc \in LivePc
                      /\ entry'[f].done => worker'[f].pc \in {"dropping", "gone"}
    BY DEF ChildHasWorker
  <2>1. entry'[f].done = entry[f].done /\ entry'[f].process \in {entry[f].process, "dead"}
    BY <1>1 DEF Calm
  <2>2. CASE f = e
    BY <2>1, <2>2
  <2>3. CASE f # e
    BY <1>2, <2>1, <2>3 DEF RegistryInv, ChildHasWorker
  <2> QED BY <2>2, <2>3
<1>6. OpenIsRegistered'
  <2> SUFFICES ASSUME NEW f \in Entries
               PROVE  /\ Open(f)' => worker'[f].key \in Keys
                      /\ worker'[f].pc = "ctlState" => worker'[f].session \in Keys
                      /\ Open(f)' /\ ~entry'[f].closing => registry'[worker'[f].key] = f
    BY DEF OpenIsRegistered
  <2>1. CASE f = e
    BY <1>2, <2>1 DEF Open, OpenPc, StartPc, ServePc, LivePc
  <2>2. CASE f # e
    <3>1. worker'[f] = worker[f] /\ (Open(f)' <=> Open(f))
      BY <1>2, <2>2 DEF Open
    <3>2. entry[f].closing => entry'[f].closing
      BY <1>1 DEF Monotone
    <3> QED BY <1>3, <2>2, <3>1, <3>2 DEF RegistryInv, OpenIsRegistered
  <2> QED BY <2>1, <2>2
<1>7. RemoversClosed'
  BY <1>1, QuietKeeps DEF Quiet
<1> QED BY <1>4, <1>5, <1>6, <1>7 DEF RegistryInv

\* The steps of a stream thread: GiveUp and Settle remove an entry only after
\* closing it or finding it done.
LEMMA StreamKeeps ==
  ASSUME TypeOK, RegistryInv, NEW s \in Streams, Cancel(s) \/ StreamStep(s)
  PROVE  RegistryInv'
<1> DEFINE e == client[s].entry
<1>c. s \in Clients
  BY DEF Clients
<1>1. CASE Cancel(s)
  BY <1>1, CalmUpdates, QuietUpdates, RegistryStillKeeps DEF Cancel
<1>2. CASE StartCancelled(s)
  BY <1>2, CalmUpdates, QuietUpdates, RegistryStillKeeps DEF StartCancelled, Outcomes
<1>3. CASE Await(s)
  <2>1. Monotone /\ \A f \in Entries : Calm(f)
    BY <1>3, CalmUpdates DEF Await
  <2>2. RemoversClosed'
    <3>1. /\ UNCHANGED <<entry, closer>>
          /\ \/ client' = [client EXCEPT ![s].pc = "giveUp"]
             \/ /\ client' = [client EXCEPT ![s].pc = "settle"]
                /\ entry[e].initialized \/ entry[e].done
      BY <1>3 DEF Await, At
    <3>2. RemoversClosed
      BY DEF RegistryInv
    <3>3. /\ client'[s].entry = e
          /\ \/ client'[s].pc = "giveUp"
             \/ client'[s].pc = "settle" /\ (entry[e].initialized \/ entry[e].done)
          /\ \A t \in Clients \ {s} : client'[t] = client[t]
      BY <1>c, <3>1 DEF TypeOK, ClientRec
    <3> QED BY <3>1, <3>2, <3>3 DEF RemoversClosed, Clients
  <2> QED BY <1>3, <2>1, <2>2, StillKeeps DEF RegistryInv, Await
<1>4. CASE GiveUp(s)
  <2>1. Monotone /\ \A f \in Entries : Calm(f)
    BY <1>4, CalmUpdates DEF GiveUp
  <2>2. e \in Entries => entry'[e].closing
    BY <1>4 DEF GiveUp, TypeOK, EntryRec
  <2>3. client' = [client EXCEPT ![s].pc = "kill"]
    BY <1>4 DEF GiveUp, At
  <2>4. RemoversClosed'
    BY <1>4, <1>c, <2>1, <2>2, <2>3 DEF GiveUp, Monotone, RegistryInv, RemoversClosed, TypeOK, ClientRec
  <2> QED BY <1>4, <2>1, <2>4, StillKeeps DEF RegistryInv, GiveUp
<1>5. CASE Kill(s)
  <2>1. Monotone /\ \A f \in Entries : Calm(f)
    BY <1>5, CalmUpdates DEF Kill
  <2>2. client' = [client EXCEPT ![s].pc = "settle"]
    BY <1>5 DEF Kill, At
  <2>3. client[s].pc = "kill" /\ UNCHANGED closer
    BY <1>5 DEF Kill
  <2>4. RemoversClosed'
    BY <1>c, <2>1, <2>2, <2>3 DEF Monotone, RegistryInv, RemoversClosed, TypeOK, ClientRec
  <2> QED BY <1>5, <2>1, <2>4, StillKeeps DEF RegistryInv, Kill
<1>6. CASE Settle(s)
  <2>1. Monotone /\ \A f \in Entries : Calm(f)
    BY <1>6, CalmUpdates DEF Settle
  <2>2. Quiet
    BY <1>6, QuietUpdates DEF Settle, Outcomes, StreamPc
  <2>3. CASE UNCHANGED registry
    BY <1>6, <2>1, <2>2, <2>3, RegistryStillKeeps DEF Settle
  <2>4. CASE registry' = RemoveIfSame(client[s].key, e) /\ ~entry[e].initialized
    <3>1. e \in Entries => ~Open(e) \/ entry'[e].closing
      BY <1>6, <2>1, <2>4
         DEF Settle, RegistryInv, RemoversClosed, ChildHasWorker, Open, OpenPc, StartPc, ServePc, LivePc, Monotone
    <3>2. /\ \A k \in Keys : registry'[k] \in {registry[k], None}
          /\ \A k \in Keys : registry[k] # e => registry'[k] = registry[k]
      BY <2>4 DEF RemoveIfSame, TypeOK
    <3> QED BY <1>6, <2>1, <2>2, <3>1, <3>2, RemoveKeeps, QuietKeeps DEF Settle, RegistryInv
  <2> QED BY <1>6, <2>3, <2>4 DEF Settle
<1>7. CASE Claim(s)
  <2>1. entry' = entry \/ entry' = [entry EXCEPT ![e].busy = TRUE]
    BY <1>7 DEF Claim
  <2>2. Quiet
    BY <1>7, QuietUpdates DEF Claim, Outcomes, StreamPc
  <2> QED BY <1>7, <2>1, <2>2, CalmUpdates, RegistryStillKeeps DEF Claim
<1>8. CASE Announce(s)
  BY <1>8, CalmUpdates, QuietUpdates, RegistryStillKeeps DEF Announce, StreamPc
<1>9. CASE Enqueue(s)
  <2>1. entry' = entry \/ entry' = [entry EXCEPT ![e].prompt_active = FALSE, ![e].busy = FALSE]
    BY <1>9 DEF Enqueue
  <2>2. Monotone /\ \A f \in Entries : Calm(f)
    BY <2>1, CalmUpdates
  <2>3. Quiet
    BY <1>9, QuietUpdates DEF Enqueue, Outcomes, StreamPc
  <2>4. CASE UNCHANGED registry
    BY <1>9, <2>2, <2>3, <2>4, RegistryStillKeeps DEF Enqueue
  <2>5. CASE registry' = RemoveIfSame(client[s].key, e) /\ worker[e].pc = "gone"
    <3>1. ~Open(e)
      BY <2>5 DEF Open, OpenPc, StartPc, ServePc, LivePc
    <3>2. /\ \A k \in Keys : registry'[k] \in {registry[k], None}
          /\ \A k \in Keys : registry[k] # e => registry'[k] = registry[k]
      BY <2>5 DEF RemoveIfSame, TypeOK
    <3> QED BY <1>9, <2>2, <2>3, <3>1, <3>2, RemoveKeeps, QuietKeeps DEF Enqueue, RegistryInv
  <2> QED BY <1>9, <2>4, <2>5 DEF Enqueue
<1> QED
  BY <1>1, <1>2, <1>3, <1>4, <1>5, <1>6, <1>7, <1>8, <1>9 DEF StreamStep

\* A new call: Reserve registers an entry no worker runs for yet.
LEMMA ArriveKeeps ==
  ASSUME TypeOK, RegistryInv, Arrive
  PROVE  RegistryInv'
<1>1. ASSUME NEW s \in Streams, NEW k \in Keys, Reserve(s, k)
      PROVE  RegistryInv'
  <2>c. s \in Clients
    BY DEF Clients
  <2>1. Monotone /\ \A f \in Entries : Calm(f)
    BY <1>1, CalmUpdates DEF Reserve
  <2>2. Quiet
    <3>1. CASE End(s, "refused")
      BY <3>1, QuietUpdates DEF Outcomes
    <3>2. ASSUME NEW e,
                 client' = [client EXCEPT ![s].pc = "await", ![s].key = k, ![s].entry = e]
          PROVE  Quiet
      <4>1. client'[s].pc = "await" /\ \A t \in Clients \ {s} : client'[t] = client[t]
        BY <2>c, <3>2 DEF TypeOK, ClientRec
      <4> QED BY <4>1 DEF Quiet, Clients
    <3> QED BY <1>1, <3>1, <3>2 DEF Reserve
  <2>3. CASE UNCHANGED <<registry, worker>>
    BY <1>1, <2>1, <2>2, <2>3, RegistryStillKeeps DEF Reserve
  <2>4. ASSUME NEW e \in Entries, registry[k] = None, worker[e].pc = "absent",
               registry' = [registry EXCEPT ![k] = e],
               worker' = [worker EXCEPT ![e].pc = "boot", ![e].key = k, ![e].creator = s]
        PROVE  RegistryInv'
    <3>1. /\ worker'[e].pc = "boot" /\ worker'[e].key = k
          /\ \A f \in Entries \ {e} : worker'[f] = worker[f]
          /\ registry'[k] = e
          /\ \A j \in Keys \ {k} : registry'[j] = registry[j]
      BY <2>4 DEF TypeOK, WorkerRec
    <3>2. \A j \in Keys : registry[j] # e
      BY <2>4, NamesDistinct DEF RegistryInv, RegisteredIsRunning, StartPc, ServePc, LivePc
    <3>3. UNCHANGED entry
      BY <1>1 DEF Reserve
    <3>4. RegisteredIsRunning'
      <4> SUFFICES ASSUME NEW j \in Keys, registry'[j] # None
                   PROVE  /\ worker'[registry'[j]].key = j
                          /\ worker'[registry'[j]].pc \in StartPc \cup ServePc \cup {"exit"}
        BY DEF RegisteredIsRunning
      <4>1. CASE j = k
        BY <3>1, <4>1 DEF StartPc
      <4>2. CASE j # k
        BY <3>1, <3>2, <4>2 DEF RegistryInv, RegisteredIsRunning, TypeOK
      <4> QED BY <4>1, <4>2
    <3>5. ChildHasWorker'
      BY <2>4, <3>1, <3>3 DEF RegistryInv, ChildHasWorker, ServePc, LivePc
    <3>6. OpenIsRegistered'
      <4> SUFFICES ASSUME NEW f \in Entries
                   PROVE  /\ Open(f)' => worker'[f].key \in Keys
                          /\ worker'[f].pc = "ctlState" => worker'[f].session \in Keys
                          /\ Open(f)' /\ ~entry'[f].closing => registry'[worker'[f].key] = f
        BY DEF OpenIsRegistered
      <4>1. CASE f = e
        BY <3>1, <4>1
      <4>2. CASE f # e
        <5>1. worker'[f] = worker[f] /\ entry'[f] = entry[f]
          BY <3>1, <3>3, <4>2
        <5>2. Open(f)' <=> Open(f)
          BY <5>1 DEF Open
        <5>3. registry[k] # f
          BY <2>4, NamesDistinct
        <5> QED BY <3>1, <5>1, <5>2, <5>3 DEF RegistryInv, OpenIsRegistered
      <4> QED BY <4>1, <4>2
    <3>7. RemoversClosed'
      BY <1>1, <2>1, <2>2, QuietKeeps DEF Reserve
    <3> QED BY <3>4, <3>5, <3>6, <3>7 DEF RegistryInv
  <2> QED BY <1>1, <2>3, <2>4 DEF Reserve
<1>2. ASSUME NEW c \in Callers, NEW k \in Keys, NEW kind \in Kinds, Lookup(c, k, kind)
      PROVE  RegistryInv'
  <2>1. \A s \in Streams : client'[s] = client[s]
    <3>1. c \notin Streams /\ Streams \subseteq Clients
      BY NamesDistinct DEF Clients
    <3> QED BY <1>2, <3>1 DEF Lookup, End, TypeOK
  <2>2. Quiet
    BY <2>1 DEF Quiet
  <2> QED BY <1>2, <2>2, CalmUpdates, RegistryStillKeeps DEF Lookup
<1>3. ASSUME NEW x \in Closers, NEW T, StartClose(x, T)
      PROVE  RegistryInv'
  <2>1. Monotone /\ \A f \in Entries : Calm(f)
    BY <1>3 DEF StartClose, Monotone, Calm, TypeOK, EntryRec
  <2>2. \A e \in T \cap Entries : entry'[e].closing
    BY <1>3 DEF StartClose, TypeOK, EntryRec
  <2>3. /\ closer'[x].pc = "next" /\ closer'[x].targets = T
        /\ \A y \in Closers \ {x} : closer'[y] = closer[y]
    BY <1>3 DEF StartClose, TypeOK, CloserRec
  <2>4. RemoversClosed'
    <3>1. UNCHANGED client
      BY <1>3 DEF StartClose
    <3> QED BY <2>1, <2>2, <2>3, <3>1 DEF RegistryInv, RemoversClosed, Monotone
  <2> QED BY <1>3, <2>1, <2>4, StillKeeps DEF StartClose, RegistryInv
<1> QED BY <1>1, <1>2, <1>3 DEF Arrive, CloseOne, CloseAll

\* The steps of a caller touch neither the registry nor a worker.
LEMMA CallerKeeps ==
  ASSUME TypeOK, RegistryInv, NEW c \in Callers, CallerStep(c)
  PROVE  RegistryInv'
<1> DEFINE e == client[c].entry
<1>p. e \in Entries => /\ entry[e].pending \cup {c} \in SUBSET Callers
                       /\ entry[e].pending \ {c} \in SUBSET Callers
  BY DEF TypeOK, EntryRec
<1>f. ASSUME entry' = Forgotten(c) \/ entry' = [entry EXCEPT ![e].pending = @ \cup {c}]
      PROVE  Monotone /\ \A f \in Entries : Calm(f)
  <2>1. CASE e \in Entries
    BY <1>f, <1>p, <2>1, CalmUpdates DEF Forgotten
  <2>2. CASE e \notin Entries
    <3>1. entry' = entry
      BY <1>f, <2>2 DEF Forgotten, TypeOK
    <3> QED BY <3>1, CalmUpdates
  <2> QED BY <2>1, <2>2
<1>1. /\ Monotone /\ \A f \in Entries : Calm(f)
      /\ UNCHANGED <<registry, worker, closer>>
  <2>1. CASE CallerClaim(c)
    <3>1. entry' = entry \/ entry' = [entry EXCEPT ![e].busy = TRUE]
      BY <2>1 DEF CallerClaim
    <3> QED BY <2>1, <3>1, CalmUpdates DEF CallerClaim
  <2>2. CASE Send(c)
    <3>1. entry' = entry \/ entry' = [entry EXCEPT ![e].busy = FALSE]
      BY <2>2 DEF Send
    <3> QED BY <2>2, <3>1, CalmUpdates DEF Send
  <2>3. CASE Insert(c)
    BY <2>3, <1>f DEF Insert
  <2>4. CASE Write(c)
    <3>1. entry' = entry \/ entry' = Forgotten(c)
      BY <2>4 DEF Write
    <3> QED BY <2>4, <3>1, <1>f, CalmUpdates DEF Write
  <2>5. CASE AnswerTimeout(c)
    BY <2>5, <1>f DEF AnswerTimeout
  <2> QED BY <2>1, <2>2, <2>3, <2>4, <2>5 DEF CallerStep
<1>2. Quiet
  <2>1. \A s \in Streams : client'[s] = client[s]
    BY NamesDistinct
       DEF CallerStep, CallerClaim, Send, Insert, Write, AnswerTimeout, At, End, TypeOK, Clients
  <2> QED BY <2>1 DEF Quiet
<1> QED BY <1>1, <1>2, RegistryStillKeeps

\* Starting a worker, and ending one.
LEMMA LifeKeeps ==
  ASSUME TypeOK, RegistryInv, NEW e \in Entries,
         \/ Boot(e) \/ Candidate(e) \/ Spawn(e) \/ Install(e) \/ Handshake(e)
         \/ Receive(e) \/ IdleTimeout(e) \/ Reap(e) \/ Quit(e) \/ Exit(e)
         \/ Drain(e) \/ Finish(e) \/ Drop(e)
  PROVE  RegistryInv'
<1> USE DEF StartPc, ServePc, LivePc, OpenPc, LoopPc
<1>i. /\ entry[e].process = "spawned" => worker[e].pc = "install"
      /\ entry[e].process = "alive" => worker[e].pc \in LivePc
      /\ entry[e].done => worker[e].pc \in {"dropping", "gone"}
      /\ Open(e) => worker[e].key \in Keys
  BY DEF RegistryInv, ChildHasWorker, OpenIsRegistered
<1>k. /\ \A f \in Entries : Killed(f) \in {entry[f].process, "dead"}
      /\ Killed(e) # "alive"
  BY DEF Killed
<1>1. CASE Boot(e)
  <2>1. Moved(e) /\ Quiet
    BY <1>1, <1>i DEF Boot, To, Moved, Monotone, Calm, Quiet, Open, TypeOK, WorkerRec
  <2> QED BY <1>1, <2>1, MovedKeeps, QuietKeeps DEF Boot, RegistryInv, Moved
<1>2. CASE Candidate(e)
  <2>1. Moved(e) /\ Quiet
    BY <1>2, <1>i DEF Candidate, To, Moved, Monotone, Calm, Quiet, Open, TypeOK, WorkerRec
  <2> QED BY <1>2, <2>1, MovedKeeps, QuietKeeps DEF Candidate, RegistryInv, Moved
<1>3. CASE Spawn(e)
  <2>1. Moved(e) /\ Quiet
    <3>1. CASE To(e, "candidate") /\ UNCHANGED entry
      BY <1>3, <1>i, <3>1, ToMoves DEF Spawn, Moved, Monotone, Calm, Quiet, Open
    <3>2. CASE To(e, "install") /\ entry' = [entry EXCEPT ![e].process = "spawned"]
      <4>1. /\ Monotone /\ \A f \in Entries \ {e} : Calm(f)
            /\ entry'[e].process = "spawned" /\ entry'[e].done = entry[e].done
        BY <3>2 DEF Monotone, Calm, TypeOK, EntryRec
      <4> QED BY <1>3, <1>i, <3>2, <4>1, ToMoves DEF Spawn, Moved, Quiet, Open
    <3> QED BY <1>3, <3>1, <3>2 DEF Spawn
  <2> QED BY <1>3, <2>1, MovedKeeps, QuietKeeps DEF Spawn, RegistryInv, Moved
<1>4. CASE Install(e)
  <2>1. Moved(e) /\ Quiet
    BY <1>4, <1>i DEF Install, To, Moved, Monotone, Calm, Quiet, Open, TypeOK, WorkerRec, EntryRec
  <2> QED BY <1>4, <2>1, MovedKeeps, QuietKeeps DEF Install, RegistryInv, Moved
<1>5. CASE Handshake(e)
  <2>1. Moved(e) /\ Quiet
    <3>1. ASSUME NEW p \in {"exit", "candidate"}, To(e, p),
                 entry' = [entry EXCEPT ![e].process = Killed(e)]
          PROVE  Moved(e) /\ Quiet
      <4>1. Monotone /\ \A f \in Entries : Calm(f)
        BY <3>1, CalmUpdates
      <4>2. entry'[e].process = Killed(e)
        BY <3>1 DEF TypeOK, EntryRec
      <4>3. entry[e].process # "spawned"
        BY <1>5, <1>i DEF Handshake
      <4> QED BY <1>5, <1>i, <1>k, <3>1, <4>1, <4>2, <4>3, ToMoves
              DEF Handshake, Moved, Quiet, Open, Calm
    <3>2. CASE /\ entry' = [entry EXCEPT ![e].stdin = TRUE, ![e].initialized = TRUE]
               /\ worker' = [worker EXCEPT ![e].pc = "idle", ![e].session = worker[e].key]
      <4>1. Monotone /\ \A f \in Entries : Calm(f)
        BY <3>2 DEF Monotone, Calm, TypeOK, EntryRec
      <4>2. entry'[e].process = entry[e].process
        BY <3>2 DEF TypeOK, EntryRec
      <4>3. /\ worker'[e].pc = "idle" /\ worker'[e].key = worker[e].key
            /\ \A f \in Entries \ {e} : worker'[f] = worker[f]
        BY <3>2 DEF TypeOK, WorkerRec
      <4> QED BY <1>5, <1>i, <4>1, <4>2, <4>3 DEF Handshake, Moved, Quiet, Open, Calm
    <3> QED BY <1>5, <3>1, <3>2 DEF Handshake
  <2> QED BY <1>5, <2>1, MovedKeeps, QuietKeeps DEF Handshake, RegistryInv, Moved
<1>6. CASE Receive(e)
  <2>1. Moved(e)
    <3>1. entry' = entry \/ entry' = [entry EXCEPT ![e].busy = FALSE]
      BY <1>6 DEF Receive
    <3>2. Monotone /\ \A f \in Entries : Calm(f)
      BY <3>1, CalmUpdates
    <3>3. entry'[e].process = entry[e].process
      BY <3>1 DEF TypeOK, EntryRec
    <3>4. \A c, p : worker' = [worker EXCEPT ![e].cmd = c, ![e].pc = p] =>
            /\ worker'[e].pc = p /\ worker'[e].key = worker[e].key
            /\ \A f \in Entries \ {e} : worker'[f] = worker[f]
      BY DEF TypeOK, WorkerRec
    <3>5. /\ worker'[e].pc \in {"reap", "control", "prompt"} /\ worker'[e].key = worker[e].key
          /\ \A f \in Entries \ {e} : worker'[f] = worker[f]
      <4>1. CASE To(e, "reap")
        BY <4>1, ToMoves
      <4>2. CASE ~To(e, "reap")
        <5>1. PICK p \in {"control", "prompt"} :
                worker' = [worker EXCEPT ![e].cmd = Head(queue[e]), ![e].pc = p]
          BY <1>6, <4>2 DEF Receive
        <5> QED BY <3>4, <5>1
      <4> QED BY <4>1, <4>2
    <3> QED BY <1>6, <1>i, <3>2, <3>3, <3>5 DEF Receive, Moved, Calm, Open
  <2>2. Quiet
    BY <1>6, QuietUpdates DEF Receive, StreamPc, Outcomes
  <2> QED BY <1>6, <2>1, <2>2, MovedKeeps, QuietKeeps DEF Receive, RegistryInv, Moved
<1>7. CASE IdleTimeout(e)
  <2>1. Moved(e) /\ Quiet
    BY <1>7, <1>i DEF IdleTimeout, To, Moved, Monotone, Calm, Quiet, Open, TypeOK, WorkerRec
  <2> QED BY <1>7, <2>1, MovedKeeps, QuietKeeps DEF IdleTimeout, RegistryInv, Moved
<1>8. CASE Reap(e)
  <2>1. Moved(e) /\ Quiet
    BY <1>8, <1>i, <1>k DEF Reap, To, Moved, Monotone, Calm, Quiet, Open, TypeOK, WorkerRec, EntryRec
  <2> QED BY <1>8, <2>1, MovedKeeps, QuietKeeps DEF Reap, RegistryInv, Moved
<1>9. CASE Quit(e)
  <2>1. Moved(e) /\ Quiet
    BY <1>9, <1>i DEF Quit, To, Moved, Monotone, Calm, Quiet, Open, TypeOK, WorkerRec
  <2> QED BY <1>9, <2>1, MovedKeeps, QuietKeeps DEF Quit, RegistryInv, Moved
<1>10. CASE Exit(e)
  <2>1. entry[e].process \notin {"spawned", "alive"} /\ ~entry[e].done
    BY <1>10, <1>i DEF Exit
  <2> QED BY <1>10, <2>1, ExitKeeps DEF Exit
<1>11. CASE Drain(e)
  <2>1. Moved(e)
    <3>1. entry' = entry \/ entry' = [entry EXCEPT ![e].busy = FALSE]
      BY <1>11 DEF Drain
    <3>2. Monotone /\ \A f \in Entries : Calm(f)
      BY <3>1, CalmUpdates
    <3>3. /\ worker'[e].pc \in {"drain", "finish"} /\ worker'[e].key = worker[e].key
          /\ \A f \in Entries \ {e} : worker'[f] = worker[f]
      BY <1>11, ToMoves DEF Drain
    <3> QED BY <1>11, <1>i, <3>2, <3>3 DEF Drain, Moved, Calm, Open
  <2>2. Quiet
    BY <1>11, QuietUpdates DEF Drain, Outcomes
  <2> QED BY <1>11, <2>1, <2>2, MovedKeeps, QuietKeeps DEF Drain, RegistryInv, Moved
<1>12. CASE Finish(e)
  <2>1. Moved(e) /\ Quiet
    BY <1>12, <1>i DEF Finish, To, Moved, Monotone, Calm, Quiet, Open, TypeOK, WorkerRec, EntryRec
  <2> QED BY <1>12, <2>1, MovedKeeps, QuietKeeps DEF Finish, RegistryInv, Moved
<1>13. CASE Drop(e)
  <2>1. Moved(e)
    BY <1>13, <1>i DEF Drop, To, Moved, Monotone, Calm, Open, TypeOK, WorkerRec
  <2>2. Quiet
    <3>1. \A c \in Clients : client'[c] = client[c] \/ client'[c].pc = "end"
      <4>1. ASSUME NEW c \in Clients, NEW o PROVE Ended(client[c], o).pc = "end"
        BY DEF Ended, TypeOK, ClientRec
      <4> QED BY <1>13, <4>1 DEF Drop, TypeOK
    <3> QED BY <3>1 DEF Quiet, Clients
  <2> QED BY <1>13, <2>1, <2>2, MovedKeeps, QuietKeeps DEF Drop, RegistryInv, Moved
<1> QED
  BY <1>1, <1>2, <1>3, <1>4, <1>5, <1>6, <1>7, <1>8, <1>9, <1>10, <1>11, <1>12, <1>13

\* A failed prompt kills the child and leaves the loop.
LEMMA PromptFailsKeeps ==
  ASSUME TypeOK, RegistryInv, NEW e \in Entries, worker[e].pc \in ServePc,
         NEW a, NEW cause \in {"process", "failed"}, PromptFails(e, a, cause)
  PROVE  RegistryInv'
<1> USE DEF StartPc, ServePc, LivePc, OpenPc, LoopPc
<1>1. /\ Monotone /\ \A f \in Entries : Calm(f)
      /\ entry'[e].process = Killed(e)
  BY DEF PromptFails, Monotone, Calm, Killed, TypeOK, EntryRec
<1>2. /\ worker'[e].pc = "exit" /\ worker'[e].key = worker[e].key
      /\ \A f \in Entries \ {e} : worker'[f] = worker[f]
  BY DEF PromptFails, TypeOK, WorkerRec
<1>3. ~entry[e].done /\ Killed(e) \notin {"spawned", "alive"}
  BY DEF Killed, RegistryInv, ChildHasWorker
<1>4. UNCHANGED <<registry, closer>>
  BY DEF PromptFails
<1>5. Moved(e)
  BY <1>1, <1>2, <1>3, <1>4 DEF Moved, Calm, Open
<1>6. Quiet
  <2>1. PromptOutcome(a, cause) \in Outcomes
    BY DEF PromptOutcome, Outcomes
  <2> QED BY <2>1, QuietUpdates DEF PromptFails
<1> QED BY <1>1, <1>4, <1>5, <1>6, MovedKeeps, QuietKeeps DEF RegistryInv

\* The steps of prompt_once and of the worker after it.
LEMMA PromptKeeps ==
  ASSUME TypeOK, RegistryInv, NEW e \in Entries,
         \/ StartPrompt(e) \/ PromptNotWritten(e) \/ PromptCancelled(e) \/ PromptEof(e)
         \/ PromptOutput(e) \/ DrainTimeout(e) \/ Settled(e) \/ Postcheck(e)
  PROVE  RegistryInv'
<1> USE DEF StartPc, ServePc, LivePc, OpenPc, LoopPc
<1>i. /\ entry[e].process = "spawned" => worker[e].pc = "install"
      /\ entry[e].process = "alive" => worker[e].pc \in LivePc
      /\ entry[e].done => worker[e].pc \in {"dropping", "gone"}
      /\ Open(e) => worker[e].key \in Keys
  BY DEF RegistryInv, ChildHasWorker, OpenIsRegistered
<1>1. CASE StartPrompt(e)
  <2>1. /\ Monotone /\ \A f \in Entries : Calm(f)
        /\ entry'[e].process = entry[e].process
    BY <1>1 DEF StartPrompt, Monotone, Calm, TypeOK, EntryRec
  <2>2. Moved(e)
    <3>1. worker[e].pc = "prompt" /\ To(e, "prompting") /\ UNCHANGED registry
      BY <1>1 DEF StartPrompt
    <3> QED BY <1>i, <2>1, <3>1, ToMoves DEF Moved, Calm, Open
  <2>3. Quiet
    BY <1>1, QuietUpdates DEF StartPrompt
  <2> QED BY <1>1, <2>2, <2>3, MovedKeeps, QuietKeeps DEF StartPrompt, RegistryInv, Moved
<1>2. CASE PromptNotWritten(e)
  BY <1>2, PromptFailsKeeps DEF PromptNotWritten
<1>3. CASE PromptCancelled(e)
  BY <1>3, PromptFailsKeeps DEF PromptCancelled
<1>4. CASE PromptEof(e)
  BY <1>4, PromptFailsKeeps DEF PromptEof
<1>5. CASE PromptOutput(e)
  <2>1. CASE /\ worker[e].pc = "prompting"
             /\ entry' = [entry EXCEPT ![e].prompt_active = FALSE]
             /\ To(e, "draining")
             /\ UNCHANGED <<registry, queue, client, closer>>
    <3>1. /\ Monotone /\ \A f \in Entries : Calm(f)
      BY <2>1, CalmUpdates
    <3>2. entry'[e].process = entry[e].process
      BY <2>1 DEF TypeOK, EntryRec
    <3>3. Moved(e) /\ Quiet
      BY <1>i, <2>1, <3>1, <3>2, ToMoves DEF Moved, Calm, Open, Quiet
    <3> QED BY <2>1, <3>3, MovedKeeps, QuietKeeps DEF RegistryInv, Moved
  <2> QED BY <1>5, <2>1, PromptFailsKeeps DEF PromptOutput
<1>6. CASE DrainTimeout(e)
  BY <1>6, PromptFailsKeeps DEF DrainTimeout
<1>7. CASE Settled(e)
  <2>1. CASE PromptFails(e, FALSE, "failed")
    BY <1>7, <2>1, PromptFailsKeeps DEF Settled
  <2>2. CASE ~PromptFails(e, FALSE, "failed")
    <3>1. /\ entry' = [entry EXCEPT ![e].prompt_acknowledged = FALSE,
                                    ![e].prompt_active = FALSE, ![e].busy = FALSE]
          /\ End(worker[e].cmd, "done")
          /\ worker' = [worker EXCEPT ![e].pc = "postcheck", ![e].cmd = None]
          /\ UNCHANGED <<registry, closer>>
      BY <1>7, <2>2 DEF Settled
    <3>2. /\ Monotone /\ \A f \in Entries : Calm(f)
          /\ entry'[e].process = entry[e].process
      BY <3>1 DEF Monotone, Calm, TypeOK, EntryRec
    <3>3. /\ worker'[e].pc = "postcheck" /\ worker'[e].key = worker[e].key
          /\ \A f \in Entries \ {e} : worker'[f] = worker[f]
      BY <3>1 DEF TypeOK, WorkerRec
    <3>4. Moved(e)
      BY <1>7, <1>i, <3>1, <3>2, <3>3 DEF Settled, Moved, Calm, Open
    <3>5. Quiet
      BY <3>1, QuietUpdates DEF Outcomes
    <3> QED BY <3>1, <3>4, <3>5, MovedKeeps, QuietKeeps DEF RegistryInv, Moved
  <2> QED BY <2>1, <2>2
<1>8. CASE Postcheck(e)
  <2>1. CASE entry[e].process = "dead"
    BY <1>8, <1>i, <2>1, ExitKeeps DEF Postcheck
  <2>2. CASE entry[e].process # "dead"
    <3>1. PICK p \in {"reap", "idle"} : To(e, p)
      BY <1>8, <2>2 DEF Postcheck
    <3>2. UNCHANGED <<entry, registry, client, closer>>
      BY <1>8, <2>2 DEF Postcheck
    <3>3. Moved(e) /\ Quiet
      BY <1>8, <1>i, <3>1, <3>2, ToMoves DEF Postcheck, Moved, Monotone, Calm, Open, Quiet
    <3> QED BY <3>2, <3>3, MovedKeeps, QuietKeeps DEF RegistryInv, Moved
  <2> QED BY <2>1, <2>2
<1> QED
  BY <1>1, <1>2, <1>3, <1>4, <1>5, <1>6, <1>7, <1>8

\* The worker answers a control command: its key and the registry stay.
LEMMA AnswerKeeps ==
  ASSUME TypeOK, RegistryInv, NEW e \in Entries,
         worker[e].pc \in {"control", "ctlWait", "ctlState"},
         Monotone, \A f \in Entries : Calm(f), Quiet, UNCHANGED <<registry, closer>>,
         worker'[e].pc \in {"reap", "idle"}, worker'[e].key = worker[e].key,
         \A f \in Entries \ {e} : worker'[f] = worker[f]
  PROVE  RegistryInv'
<1> USE DEF StartPc, ServePc, LivePc, OpenPc, LoopPc
<1>1. /\ entry[e].process # "spawned" /\ ~entry[e].done
  BY DEF RegistryInv, ChildHasWorker
<1>2. Moved(e)
  BY <1>1 DEF Moved, Calm, Open
<1> QED BY <1>2, MovedKeeps, QuietKeeps DEF RegistryInv

\* What the answer to a control command changes.
LEMMA ReplyMoves ==
  ASSUME TypeOK, NEW e \in Entries, NEW o \in Outcomes, NEW b, Reply(e, o, b)
  PROVE  /\ Quiet
         /\ worker'[e].pc = IF b THEN "reap" ELSE "idle"
         /\ worker'[e].key = worker[e].key
         /\ \A f \in Entries \ {e} : worker'[f] = worker[f]
<1>1. Quiet
  BY QuietUpdates DEF Reply
<1>2. worker' = [worker EXCEPT ![e].cmd = None, ![e].pc = IF b THEN "reap" ELSE "idle"]
  BY DEF Reply
<1> QED BY <1>1, <1>2 DEF TypeOK, WorkerRec

\* A control command that fails leaves the session as it is.
LEMMA ControlFailsKeeps ==
  ASSUME TypeOK, RegistryInv, NEW e \in Entries,
         worker[e].pc \in {"control", "ctlWait", "ctlState"}, ControlFails(e)
  PROVE  RegistryInv'
<1>1. /\ Quiet
      /\ worker'[e].pc \in {"reap", "idle"} /\ worker'[e].key = worker[e].key
      /\ \A f \in Entries \ {e} : worker'[f] = worker[f]
  BY ReplyMoves DEF ControlFails, Outcomes
<1>2. Monotone /\ \A f \in Entries : Calm(f)
  BY CalmUpdates DEF ControlFails
<1> QED BY <1>1, <1>2, AnswerKeeps DEF ControlFails

\* rekey_session moves the entry of an open worker to a key that was free.
LEMMA KeyMoves ==
  ASSUME TypeOK, RegistryInv, NEW e \in Entries, NEW k \in Keys,
         Open(e), ~RekeyRefused(e, k), entry[e].process # "spawned", ~entry[e].done,
         registry' = [registry EXCEPT ![worker[e].key] = None, ![k] = e], UNCHANGED closer,
         Monotone, \A f \in Entries : Calm(f), Quiet,
         worker'[e].pc \in {"reap", "idle", "publish"}, worker'[e].key = k,
         \A f \in Entries \ {e} : worker'[f] = worker[f]
  PROVE  RegistryInv'
<1> USE DEF StartPc, ServePc, LivePc, OpenPc, LoopPc
<1> DEFINE w == worker[e]
<1>1. /\ w.key \in Keys /\ registry[w.key] = e /\ registry[k] \in {e, None}
  BY DEF RekeyRefused, RegistryInv, OpenIsRegistered
<1>2. /\ registry'[k] = e
      /\ w.key # k => registry'[w.key] = None
      /\ \A j \in Keys \ {w.key, k} : registry'[j] = registry[j]
  BY <1>1 DEF TypeOK
<1>3. \A j \in Keys : registry[j] = e => j = w.key
  BY NamesDistinct DEF RegistryInv, RegisteredIsRunning
<1>4. RegisteredIsRunning'
  <2> SUFFICES ASSUME NEW j \in Keys, registry'[j] # None
               PROVE  /\ worker'[registry'[j]].key = j
                      /\ worker'[registry'[j]].pc \in LoopPc
    BY DEF RegisteredIsRunning
  <2>1. CASE j = k
    BY <1>2, <2>1
  <2>2. CASE j # k
    <3>1. j # w.key /\ registry'[j] = registry[j] /\ registry[j] \in Entries \ {e}
      BY <1>2, <1>3, <2>2 DEF TypeOK
    <3> QED BY <3>1 DEF RegistryInv, RegisteredIsRunning
  <2> QED BY <2>1, <2>2
<1>5. ChildHasWorker'
  BY DEF RegistryInv, ChildHasWorker, Calm
<1>6. OpenIsRegistered'
  <2> SUFFICES ASSUME NEW f \in Entries
               PROVE  /\ Open(f)' => worker'[f].key \in Keys
                      /\ worker'[f].pc = "ctlState" => worker'[f].session \in Keys
                      /\ Open(f)' /\ ~entry'[f].closing => registry'[worker'[f].key] = f
    BY DEF OpenIsRegistered
  <2>1. CASE f = e
    BY <1>2, <2>1
  <2>2. CASE f # e
    <3>1. worker'[f] = worker[f] /\ (Open(f)' <=> Open(f))
      BY <2>2 DEF Open
    <3>2. entry[f].closing => entry'[f].closing
      BY DEF Monotone
    <3>3. Open(f) /\ ~entry[f].closing => worker[f].key \notin {w.key, k}
      BY <1>1, <2>2, NamesDistinct DEF RegistryInv, OpenIsRegistered
    <3>4. /\ Open(f) => worker[f].key \in Keys
          /\ worker[f].pc = "ctlState" => worker[f].session \in Keys
          /\ Open(f) /\ ~entry[f].closing => registry[worker[f].key] = f
      BY DEF RegistryInv, OpenIsRegistered
    <3>5. Open(f) /\ ~entry[f].closing => registry'[worker[f].key] = f
      BY <1>2, <3>3, <3>4
    <3> QED BY <3>1, <3>2, <3>4, <3>5
  <2> QED BY <2>1, <2>2
<1> QED BY <1>4, <1>5, <1>6, QuietKeeps DEF RegistryInv

\* After a control command the entry moves, or is given up.
LEMMA RekeyKeeps ==
  ASSUME TypeOK, RegistryInv, NEW e \in Entries, Rekey(e)
  PROVE  RegistryInv'
<1> USE DEF StartPc, ServePc, LivePc, OpenPc, LoopPc
<1> DEFINE w == worker[e]
<1>i. /\ w.pc = "ctlState" /\ w.session \in Keys /\ w.key \in Keys
      /\ entry[e].process \notin {"spawned"} /\ ~entry[e].done
  BY DEF Rekey, RegistryInv, ChildHasWorker, OpenIsRegistered, Open
<1>1. CASE Abandon(e)
  <2>1. /\ entry' = [entry EXCEPT ![e].closing = TRUE, ![e].process = Killed(e),
                                  ![e].busy = FALSE]
        /\ registry' = RemoveIdentity(e)
        /\ Reply(e, "failed", TRUE)
        /\ UNCHANGED closer
    BY <1>1 DEF Rekey, Abandon
  <2>2. /\ Monotone /\ \A f \in Entries : Calm(f)
        /\ entry'[e].closing /\ entry'[e].process = Killed(e)
    BY <2>1 DEF Monotone, Calm, Killed, TypeOK, EntryRec
  <2>3. /\ Quiet
        /\ worker'[e].pc = "reap" /\ worker'[e].key = w.key
        /\ \A f \in Entries \ {e} : worker'[f] = worker[f]
    BY <2>1, ReplyMoves DEF Outcomes
  <2>4. /\ \A k \in Keys : registry'[k] \in {registry[k], None}
        /\ \A k \in Keys : registry[k] # e => registry'[k] = registry[k]
        /\ \A k \in Keys : registry'[k] # e
    BY <2>1, NamesDistinct DEF RemoveIdentity, TypeOK
  <2>5. RegisteredIsRunning'
    BY <2>3, <2>4 DEF RegistryInv, RegisteredIsRunning, TypeOK
  <2>6. ChildHasWorker'
    BY <1>i, <2>2, <2>3 DEF RegistryInv, ChildHasWorker, Calm
  <2>7. OpenIsRegistered'
    <3> SUFFICES ASSUME NEW f \in Entries
                 PROVE  /\ Open(f)' => worker'[f].key \in Keys
                        /\ worker'[f].pc = "ctlState" => worker'[f].session \in Keys
                        /\ Open(f)' /\ ~entry'[f].closing => registry'[worker'[f].key] = f
      BY DEF OpenIsRegistered
    <3>1. CASE f = e
      BY <2>3, <3>1 DEF Open
    <3>2. CASE f # e
      <4>1. worker'[f] = worker[f] /\ (Open(f)' <=> Open(f))
        BY <2>3, <3>2 DEF Open
      <4>2. entry[f].closing => entry'[f].closing
        BY <2>2 DEF Monotone
      <4> QED BY <2>4, <3>2, <4>1, <4>2 DEF RegistryInv, OpenIsRegistered
    <3> QED BY <3>1, <3>2
  <2>8. RemoversClosed'
    BY <2>1, <2>2, <2>3, QuietKeeps
  <2> QED BY <2>5, <2>6, <2>7, <2>8 DEF RegistryInv
<1>2. CASE ~RekeyRefused(e, w.session) /\ Adopt(e)
  <2>1. /\ registry' = [registry EXCEPT ![w.key] = None, ![w.session] = e]
        /\ worker' = [worker EXCEPT ![e].key = w.session, ![e].cmd = None,
                        ![e].pc = IF entry[e].closing THEN "reap" ELSE "idle"]
        /\ End(w.cmd, "done")
        /\ entry' = [entry EXCEPT ![e].busy = FALSE]
        /\ UNCHANGED closer
    BY <1>2 DEF Rekey, Adopt
  <2>2. /\ Monotone /\ \A f \in Entries : Calm(f)
    BY <2>1, CalmUpdates
  <2>3. Quiet
    BY <2>1, QuietUpdates DEF Outcomes
  <2>4. /\ worker'[e].pc \in {"reap", "idle"} /\ worker'[e].key = w.session
        /\ \A f \in Entries \ {e} : worker'[f] = worker[f]
    BY <2>1 DEF TypeOK, WorkerRec
  <2> QED BY <1>2, <1>i, <2>1, <2>2, <2>3, <2>4, KeyMoves DEF Open
<1> QED BY <1>1, <1>2 DEF Rekey

\* The steps of control_once and of the worker around it.
LEMMA ControlKeeps ==
  ASSUME TypeOK, RegistryInv, NEW e \in Entries,
         \/ ControlWrite(e) \/ ControlRefused(e) \/ ControlTimeout(e) \/ ControlDone(e)
         \/ Rekey(e) \/ ProcessExits(e)
         \/ \E k \in Keys : ControlMoved(e, k)
         \/ \E c \in Callers : Route(e, c)
  PROVE  RegistryInv'
<1> USE DEF StartPc, ServePc, LivePc, OpenPc, LoopPc
<1>i. worker[e].pc \in ServePc => /\ entry[e].process # "spawned" /\ ~entry[e].done
                                  /\ worker[e].pc # "reap" => worker[e].key \in Keys
  BY DEF RegistryInv, ChildHasWorker, OpenIsRegistered, Open
<1>1. CASE ControlWrite(e)
  <2>1. CASE ControlFails(e)
    BY <1>1, <2>1, ControlFailsKeeps DEF ControlWrite
  <2>2. CASE ~ControlFails(e)
    <3>1. /\ worker[e].pc = "control" /\ To(e, "ctlWait")
          /\ client' = [client EXCEPT ![worker[e].cmd].sent = TRUE]
          /\ UNCHANGED <<registry, entry, closer>>
      BY <1>1, <2>2 DEF ControlWrite
    <3>2. Monotone /\ (\A f \in Entries : Calm(f)) /\ Quiet
      BY <3>1, CalmUpdates, QuietUpdates
    <3>3. Moved(e)
      BY <1>i, <3>1, <3>2, ToMoves DEF Moved, Calm, Open
    <3> QED BY <3>1, <3>2, <3>3, MovedKeeps, QuietKeeps DEF RegistryInv
  <2> QED BY <2>1, <2>2
<1>2. CASE ControlRefused(e)
  BY <1>2, ControlFailsKeeps DEF ControlRefused
<1>3. CASE ControlTimeout(e)
  <2> DEFINE c == worker[e].cmd
  <2>1. Monotone /\ \A f \in Entries : Calm(f)
    BY <1>3 DEF ControlTimeout, Monotone, Calm, Killed, TypeOK, EntryRec
  <2>2. /\ worker'[e].pc = "reap" /\ worker'[e].key = worker[e].key
        /\ \A f \in Entries \ {e} : worker'[f] = worker[f]
    BY <1>3 DEF ControlTimeout, TypeOK, WorkerRec
  <2>3. Quiet
    <3>1. FailPending(e) \in [Clients -> ClientRec]
      BY FailPendingType
    <3>2. \A d \in Clients : FailPending(e)[d] = client[d] \/ FailPending(e)[d].pc = "end"
      BY EndedPc DEF FailPending, TypeOK, Outcomes
    <3>3. Ended(FailPending(e)[c], "failed").pc = "end" \/ c \notin Clients
      BY <3>1, EndedPc DEF Outcomes
    <3>4. \A d \in Clients : client'[d] = client[d] \/ client'[d].pc = "end"
      BY <1>3, <3>1, <3>2, <3>3 DEF ControlTimeout
    <3> QED BY <3>4 DEF Quiet, Clients
  <2> QED BY <1>3, <2>1, <2>2, <2>3, AnswerKeeps DEF ControlTimeout
<1>4. CASE ControlDone(e)
  <2>1. Monotone /\ \A f \in Entries : Calm(f)
    BY <1>4, CalmUpdates DEF ControlDone
  <2>2. /\ Quiet
        /\ worker'[e].pc \in {"reap", "idle"} /\ worker'[e].key = worker[e].key
        /\ \A f \in Entries \ {e} : worker'[f] = worker[f]
    BY <1>4, ReplyMoves DEF ControlDone, Outcomes
  <2> QED BY <1>4, <2>1, <2>2, AnswerKeeps DEF ControlDone
<1>5. CASE Rekey(e)
  BY <1>5, RekeyKeeps
<1>6. CASE ProcessExits(e)
  <2>1. Monotone /\ \A f \in Entries : Calm(f)
    BY <1>6 DEF ProcessExits, Monotone, Calm, TypeOK, EntryRec
  <2>2. Quiet
    BY <1>6, QuietUpdates DEF ProcessExits
  <2> QED BY <1>6, <2>1, <2>2, RegistryStillKeeps DEF ProcessExits
<1>7. ASSUME NEW k \in Keys, ControlMoved(e, k)
      PROVE  RegistryInv'
  <2>0. worker[e].pc = "ctlWait" /\ UNCHANGED <<registry, closer>>
    BY <1>7 DEF ControlMoved
  <2>1. CASE /\ worker' = [worker EXCEPT ![e].session = k, ![e].pc = "ctlState"]
             /\ UNCHANGED <<entry, client>>
    <3>1. Monotone /\ (\A f \in Entries : Calm(f)) /\ Quiet
      BY <2>1, CalmUpdates, QuietUpdates
    <3>2. /\ worker'[e].pc = "ctlState" /\ worker'[e].key = worker[e].key
          /\ worker'[e].session = k
          /\ \A f \in Entries \ {e} : worker'[f] = worker[f]
      BY <2>1 DEF TypeOK, WorkerRec
    <3>3. Moved(e)
      BY <1>i, <2>0, <3>1, <3>2 DEF Moved, Calm, Open
    <3> QED BY <2>0, <3>1, <3>3, MovedKeeps, QuietKeeps DEF RegistryInv
  <2>2. CASE /\ worker' = [worker EXCEPT ![e].session = k, ![e].cmd = None,
                             ![e].pc = IF entry[e].closing THEN "reap" ELSE "idle"]
             /\ End(worker[e].cmd, "failed")
             /\ entry' = [entry EXCEPT ![e].busy = FALSE]
    <3>1. Monotone /\ (\A f \in Entries : Calm(f)) /\ Quiet
      BY <2>2, CalmUpdates, QuietUpdates DEF Outcomes
    <3>2. /\ worker'[e].pc \in {"reap", "idle"} /\ worker'[e].key = worker[e].key
          /\ \A f \in Entries \ {e} : worker'[f] = worker[f]
      BY <2>2 DEF TypeOK, WorkerRec
    <3> QED BY <2>0, <3>1, <3>2, AnswerKeeps
  <2> QED BY <1>7, <2>1, <2>2 DEF ControlMoved
<1>8. ASSUME NEW c \in Callers, Route(e, c)
      PROVE  RegistryInv'
  <2>1. Monotone /\ \A f \in Entries : Calm(f)
    <3>1. entry[e].pending \ {c} \in SUBSET Callers
      BY DEF TypeOK, EntryRec
    <3> QED BY <1>8, <3>1, CalmUpdates DEF Route
  <2>2. Quiet
    BY <1>8, QuietUpdates DEF Route, Outcomes
  <2> QED BY <1>8, <2>1, <2>2, RegistryStillKeeps DEF Route
<1> QED
  BY <1>1, <1>2, <1>3, <1>4, <1>5, <1>6, <1>7, <1>8

\* The steps of a closer and of its two helper threads.
LEMMA CloserKeeps ==
  ASSUME TypeOK, RegistryInv,
         \/ \E x \in Closers : CloserStep(x)
         \/ \E e \in Entries : TakeStdin(e) \/ Watchdog(e)
  PROVE  RegistryInv'
<1>1. ASSUME NEW x \in Closers, CloseNext(x)
      PROVE  RegistryInv'
  <2>1. Monotone /\ \A f \in Entries : Calm(f)
    <3>1. ASSUME NEW e \in closer[x].targets,
                 entry' = [entry EXCEPT ![e].watchdog = TRUE, ![e].taker = TRUE]
          PROVE  Monotone /\ \A f \in Entries : Calm(f)
      <4>1. e \in Entries
        BY DEF TypeOK, CloserRec
      <4> QED BY <3>1, <4>1 DEF Monotone, Calm, TypeOK, EntryRec
    <3> QED BY <1>1, <3>1, CalmUpdates DEF CloseNext
  <2>2. RemoversClosed'
    <3>1. /\ \A y \in Closers \ {x} : closer'[y] = closer[y]
          /\ closer'[x].targets = closer[x].targets
          /\ closer'[x].pc = "end" \/ closer'[x].entry \in closer[x].targets
          /\ UNCHANGED client
      <4>1. PICK p \in {"wait", "end"}, e \in closer[x].targets \cup {None} :
              /\ closer' = [closer EXCEPT ![x].pc = p, ![x].entry = e]
              /\ p = "wait" => e \in closer[x].targets
        BY <1>1 DEF CloseNext
      <4>2. UNCHANGED client
        BY <1>1 DEF CloseNext
      <4>3. /\ closer'[x].pc = p /\ closer'[x].entry = e
            /\ closer'[x].targets = closer[x].targets
            /\ \A y \in Closers \ {x} : closer'[y] = closer[y]
        BY <4>1 DEF TypeOK, CloserRec
      <4> QED BY <4>1, <4>2, <4>3
    <3> QED BY <2>1, <3>1 DEF RegistryInv, RemoversClosed, Monotone
  <2> QED BY <1>1, <2>1, <2>2, StillKeeps DEF CloseNext, RegistryInv
<1>2. ASSUME NEW x \in Closers, CloseWait(x)
      PROVE  RegistryInv'
  <2>1. Monotone /\ \A f \in Entries : Calm(f)
    <3>1. entry' = entry \/ entry' = [entry EXCEPT ![closer[x].entry].process = Killed(closer[x].entry)]
      BY <1>2 DEF CloseWait, TypeOK, EntryRec
    <3> QED BY <3>1, CalmUpdates
  <2>2. RemoversClosed'
    <3>1. /\ \A y \in Closers \ {x} : closer'[y] = closer[y]
          /\ closer'[x].targets = closer[x].targets
          /\ closer'[x].entry = closer[x].entry /\ closer[x].pc = "wait"
          /\ UNCHANGED client
      BY <1>2 DEF CloseWait, TypeOK, CloserRec
    <3> QED BY <2>1, <3>1 DEF RegistryInv, RemoversClosed, Monotone
  <2> QED BY <1>2, <2>1, <2>2, StillKeeps DEF CloseWait, RegistryInv
<1>3. ASSUME NEW x \in Closers, CloseFinal(x)
      PROVE  RegistryInv'
  <2> DEFINE e == closer[x].entry
  <2>1. Monotone /\ \A f \in Entries : Calm(f)
    BY <1>3, CalmUpdates DEF CloseFinal
  <2>2. /\ \A k \in Keys : registry'[k] \in {registry[k], None}
        /\ \A k \in Keys : registry[k] # e => registry'[k] = registry[k]
    BY <1>3 DEF CloseFinal, RemoveIdentity, TypeOK
  <2>3. e \in Entries => entry'[e].closing
    BY <1>3, <2>1 DEF CloseFinal, RegistryInv, RemoversClosed, Monotone
  <2>4. RemoversClosed'
    <3>1. /\ \A y \in Closers \ {x} : closer'[y] = closer[y]
          /\ closer'[x].targets \subseteq closer[x].targets
          /\ closer'[x].pc = "next"
      BY <1>3 DEF CloseFinal, TypeOK, CloserRec
    <3>2. \A d \in Clients : client'[d] = client[d] \/ client'[d].pc = "end"
      BY <1>3, EndedPc DEF CloseFinal, FailPending, TypeOK, Outcomes
    <3> QED BY <2>1, <3>1, <3>2 DEF RegistryInv, RemoversClosed, Monotone, Clients
  <2> QED BY <1>3, <2>1, <2>2, <2>3, <2>4, RemoveKeeps DEF CloseFinal, RegistryInv
<1>4. ASSUME NEW e \in Entries, TakeStdin(e) \/ Watchdog(e)
      PROVE  RegistryInv'
  <2>1. Monotone /\ \A f \in Entries : Calm(f)
    <3> USE DEF Monotone, Calm, TypeOK, EntryRec
    <3>1. CASE entry' = [entry EXCEPT ![e].taker = FALSE, ![e].stdin = FALSE]
      BY <3>1
    <3>2. CASE entry' = [entry EXCEPT ![e].taker = FALSE, ![e].process = Killed(e)]
      BY <3>2 DEF Killed
    <3>3. CASE Watchdog(e)
      BY <3>3 DEF Watchdog, Killed
    <3> QED BY <1>4, <3>1, <3>2, <3>3 DEF TakeStdin
  <2>2. Quiet
    BY <1>4, QuietUpdates DEF TakeStdin, Watchdog
  <2> QED BY <1>4, <2>1, <2>2, RegistryStillKeeps DEF TakeStdin, Watchdog
<1> QED BY <1>1, <1>2, <1>3, <1>4 DEF CloserStep

\* The initial states satisfy the invariant.
LEMMA RegistryInit == Init => RegistryInv
  BY DEF Init, RegistryInv, RegisteredIsRunning, ChildHasWorker, OpenIsRegistered,
         RemoversClosed, Open, OpenPc, StartPc, ServePc, LivePc, FreshEntry, Clients

\* Every step keeps the invariant.
LEMMA RegistryStep == TypeOK /\ RegistryInv /\ [Next]_vars => RegistryInv'
<1> SUFFICES ASSUME TypeOK, RegistryInv, [Next]_vars PROVE RegistryInv'
  OBVIOUS
<1>1. CASE UNCHANGED vars
  BY <1>1 DEF vars, RegistryInv, RegisteredIsRunning, ChildHasWorker, OpenIsRegistered,
              RemoversClosed, Open
<1>2. CASE Arrive
  BY <1>2, ArriveKeeps
<1>3. CASE \E s \in Streams : Cancel(s) \/ StreamStep(s)
  BY <1>3, StreamKeeps
<1>4. CASE \E c \in Callers : CallerStep(c)
  BY <1>4, CallerKeeps
<1>5. CASE \/ \E x \in Closers : CloserStep(x)
           \/ \E e \in Entries : TakeStdin(e) \/ Watchdog(e)
  BY <1>5, CloserKeeps
<1>6. ASSUME NEW e \in Entries, WorkerStep(e) \/ PiOutput(e) \/ ProcessExits(e)
      PROVE  RegistryInv'
  BY <1>6, LifeKeeps, PromptKeeps, ControlKeeps DEF WorkerStep, PiOutput
<1> QED BY <1>1, <1>2, <1>3, <1>4, <1>5, <1>6 DEF Next

\* The registry invariant holds for every number of keys, entries, streams,
\* callers and closers.
THEOREM RegistryCorrect == Spec => []RegistryInv
<1>1. Init => TypeOK /\ RegistryInv
  BY TypeInit, RegistryInit
<1>2. TypeOK /\ RegistryInv /\ [Next]_vars => (TypeOK /\ RegistryInv)'
  BY TypeStep, RegistryStep
<1> QED BY <1>1, <1>2, PTL DEF Spec

\* reserve_session and rekey_session never leave two open workers that are not
\* closing with the same session key.
THEOREM SessionsDistinct == Spec => []OpenSessionsDistinct
<1>1. RegistryInv => OpenSessionsDistinct
  BY DEF RegistryInv, OpenIsRegistered, OpenSessionsDistinct
<1> QED BY <1>1, RegistryCorrect, PTL

\* A worker that reported done has no running child and is registered nowhere.
THEOREM DoneIsClean == Spec => []DoneLeavesNothing
<1>1. RegistryInv => DoneLeavesNothing
  <2> SUFFICES ASSUME RegistryInv, NEW e \in Entries, entry[e].done
               PROVE  ~Running(e) /\ \A k \in Keys : registry[k] # e
    BY DEF DoneLeavesNothing
  <2> USE DEF StartPc, ServePc, LivePc
  <2>1. worker[e].pc \in {"dropping", "gone"}
    BY DEF RegistryInv, ChildHasWorker
  <2>2. ~Running(e)
    BY <2>1 DEF RegistryInv, ChildHasWorker, Running
  <2>3. \A k \in Keys : registry[k] # e
    BY <2>1, NamesDistinct DEF RegistryInv, RegisteredIsRunning
  <2> QED BY <2>2, <2>3
<1> QED BY <1>1, RegistryCorrect, PTL
=============================================================================
