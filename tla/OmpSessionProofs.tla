--------------------------- MODULE OmpSessionProofs ---------------------------
(***************************************************************************)
(* The sessions of omp: the registry and the calls are in order as they    *)
(* are for Pi, and the id that an entry stores is the key that it is       *)
(* registered under, and the id that every prompt on its way was told.     *)
(***************************************************************************)
EXTENDS OmpSession, PiCallProofs

\* The states of a stream between its report of a session and its answer.
ReportedPc == {"enqueue", "queued", "served"}

OmpTypes ==
  /\ omp_session_id \in [Entries -> Keys \cup {None}]
  /\ reported \in [Streams -> Keys \cup {None}]

\* What the handshake learned, until Publish stores it; nothing is stored before.
Learned(e) == LET w == worker[e] IN
  /\ w.pc \in {"absent"} \cup StartPc => ~entry[e].initialized /\ omp_session_id[e] = None
  /\ w.pc \in {"rekey", "publish"} => w.session \in Keys
  /\ w.pc = "publish" => w.session = w.key

\* An entry that can be prompted stores its key.
Stored(e) == entry[e].initialized => omp_session_id[e] = worker[e].key

\* Nothing moves the entry of a prompt between its report and its answer.
Reported(s) ==
  client[s].pc \in ReportedPc =>
    /\ omp_session_id[client[s].entry] # None
    /\ reported[s] = omp_session_id[client[s].entry]

IdInv ==
  /\ OmpTypes
  /\ \A e \in Entries : Learned(e) /\ Stored(e)
  /\ \A s \in Streams : Reported(s)

OmpInv == TypeOK /\ RegistryInv /\ CallInv /\ IdInv

-----------------------------------------------------------------------------
(* The steps of omp's threads that Pi's do not take.                       *)

\* The stream finds no stored id, lets go of busy and gives up.
AnnounceRefused(s) == LET e == client[s].entry IN
  /\ client[s].pc = "announce" /\ omp_session_id[e] = None
  /\ entry' = [entry EXCEPT ![e].prompt_active = FALSE, ![e].busy = FALSE]
  /\ End(s, "refused")
  /\ UNCHANGED <<registry, worker, queue, closer, omp_session_id, reported>>

\* The handshake is accepted.
Accepted(e, k) == LET w == worker[e] IN
  /\ w.pc = "handshake" /\ Expected(e, k)
  /\ worker' = [worker EXCEPT ![e].session = k,
                  ![e].pc = IF w.key \in Ids THEN "publish" ELSE "rekey"]
  /\ UNCHANGED <<registry, entry, queue, client, closer, omp_session_id, reported>>

\* rekey_session refuses.
RekeyFails(e) ==
  /\ worker[e].pc = "rekey"
  /\ entry' = [entry EXCEPT ![e].process = Killed(e)]
  /\ To(e, "exit")
  /\ UNCHANGED <<registry, queue, client, closer, omp_session_id, reported>>

\* rekey_session moves the entry.
RekeyMoves(e) == LET w == worker[e] IN
  /\ w.pc = "rekey" /\ ~RekeyRefused(e, w.session)
  /\ registry' = [registry EXCEPT ![w.key] = None, ![w.session] = e]
  /\ worker' = [worker EXCEPT ![e].key = w.session, ![e].pc = "publish"]
  /\ UNCHANGED <<entry, queue, client, closer, omp_session_id, reported>>

StartStep(e) ==
  \/ \E k \in Ids : Accepted(e, k)
  \/ RekeyFails(e) \/ RekeyMoves(e) \/ Publish(e)
OwnStep == (\E s \in Streams : AnnounceRefused(s)) \/ \E e \in Entries : StartStep(e)

\* All other steps are steps of PiSession.
LEMMA OmpSteps == OmpNext => [Next]_vars \/ OwnStep
<1> SUFFICES ASSUME OmpNext PROVE Next \/ OwnStep
  OBVIOUS
<1>i. Ids \subseteq Keys
  BY DEF Ids
<1>1. CASE Environment
  BY <1>1 DEF Environment, Next
<1>2. ASSUME NEW s \in Streams,
             \/ \E k \in Keys : OmpReserve(s, k)
             \/ OmpAnnounce(s) \/ StreamPrompt(s)
      PROVE  Next \/ OwnStep
  <2>1. CASE \E k \in Keys : OmpReserve(s, k)
    BY <2>1 DEF OmpReserve, Next, Arrive
  <2>2. CASE OmpAnnounce(s)
    <3>1. Announce(s) \/ AnnounceRefused(s)
      BY <2>2 DEF OmpAnnounce, Announce, AnnounceRefused
    <3> QED BY <3>1 DEF Next, StreamStep, OwnStep
  <2>3. CASE StreamPrompt(s)
    BY <2>3 DEF StreamPrompt, Next, StreamStep
  <2> QED BY <1>2, <2>1, <2>2, <2>3
<1>3. ASSUME NEW c \in Callers, SendCommand(c) \/ SendBusyControl(c)
      PROVE  Next
  <2>1. (\E k \in Ids, kind \in Kinds : Lookup(c, k, kind)) \/ CallerStep(c)
    BY <1>3 DEF SendCommand, SendBusyControl, CallerStep
  <2> QED BY <1>i, <2>1 DEF Next, Arrive
<1>4. ASSUME NEW x \in Closers, CloseSessions(x) \/ CloseSessionEntry(x)
      PROVE  Next
  <2>1. CloseOne(x) \/ CloseAll(x) \/ CloserStep(x)
    BY <1>i, <1>4 DEF CloseSessions, CloseSessionEntry, CloseOne
  <2> QED BY <2>1 DEF Next, Arrive
<1>5. ASSUME NEW e \in Entries, LeavePlaceholder(e) \/ Publish(e)
      PROVE  OwnStep
  <2>1. RekeyFails(e) \/ RekeyMoves(e) \/ Publish(e)
    BY <1>5 DEF LeavePlaceholder, RekeyFails, RekeyMoves
  <2> QED BY <2>1 DEF OwnStep, StartStep
<1>6. ASSUME NEW e \in Entries, NEW k \in Ids, OmpHandshake(e, k)
      PROVE  Next \/ OwnStep
  <2>1. Handshake(e) \/ Accepted(e, k)
    BY <1>6 DEF OmpHandshake, Handshake, Accepted
  <2> QED BY <2>1 DEF Next, WorkerStep, OwnStep, StartStep
<1>7. ASSUME NEW e \in Entries,
             \/ SpawnCandidate(e) \/ WorkerLoop(e) \/ RunWorker(e) \/ PromptOnce(e)
             \/ HostToolCall(e) \/ ControlOnce(e) \/ OmpRekey(e) \/ CloserThreads(e)
      PROVE  Next
  <2>1. CASE SpawnCandidate(e) \/ WorkerLoop(e) \/ RunWorker(e) \/ OmpRekey(e)
    <3>1. WorkerStep(e)
      BY <2>1 DEF SpawnCandidate, WorkerLoop, RunWorker, OmpRekey, WorkerStep
    <3> QED BY <3>1 DEF Next
  <2>2. CASE PromptOnce(e) \/ HostToolCall(e)
    <3>1. WorkerStep(e) \/ PiOutput(e)
      BY <2>2 DEF PromptOnce, HostToolCall, WorkerStep, PiOutput, PromptOutput
    <3> QED BY <3>1 DEF Next
  <2>3. CASE ControlOnce(e) \/ CloserThreads(e)
    <3>1. WorkerStep(e) \/ PiOutput(e) \/ TakeStdin(e) \/ Watchdog(e)
      BY <1>i, <2>3 DEF ControlOnce, CloserThreads, WorkerStep, PiOutput
    <3> QED BY <3>1 DEF Next
  <2> QED BY <1>7, <2>1, <2>2, <2>3
<1> QED BY <1>1, <1>2, <1>3, <1>4, <1>5, <1>6, <1>7 DEF OmpNext

-----------------------------------------------------------------------------
(* They keep the types, the registry and the calls in order.               *)

\* What a step of omp's worker before its first prompt changes.
LEMMA StartMoves ==
  ASSUME TypeOK, RegistryInv, NEW e \in Entries, StartStep(e)
  PROVE  /\ Monotone /\ \A f \in Entries : Calm(f) /\ SameFlags(f)
         /\ entry'[e].process = "alive" => worker'[e].pc \in LivePc
         /\ UNCHANGED <<queue, client, closer>>
         /\ worker'[e].pc \in {"rekey", "publish", "idle", "exit"}
         /\ \A f \in Entries \ {e} : worker'[f] = worker[f]
<1>1. UNCHANGED <<queue, client, closer>>
  BY DEF StartStep, Accepted, RekeyFails, RekeyMoves, Publish
<1>2. Monotone /\ \A f \in Entries : Calm(f) /\ SameFlags(f)
  <2>1. CASE UNCHANGED entry
    BY <2>1, CalmUpdates DEF SameFlags
  <2>2. CASE entry' = [entry EXCEPT ![e].process = Killed(e)]
    BY <2>2, CalmUpdates DEF SameFlags, TypeOK, EntryRec
  <2>3. CASE entry' = [entry EXCEPT ![e].stdin = TRUE, ![e].initialized = TRUE]
    BY <2>3 DEF Monotone, Calm, SameFlags, TypeOK, EntryRec
  <2> QED BY <2>1, <2>2, <2>3 DEF StartStep, Accepted, RekeyFails, RekeyMoves, Publish
<1>3. /\ worker'[e].pc \in {"rekey", "publish", "idle", "exit"}
      /\ \A f \in Entries \ {e} : worker'[f] = worker[f]
  <2>1. ASSUME NEW k \in Ids, Accepted(e, k)
        PROVE  /\ worker'[e].pc \in {"rekey", "publish"}
               /\ \A f \in Entries \ {e} : worker'[f] = worker[f]
    BY <2>1 DEF Accepted, TypeOK, WorkerRec
  <2>2. CASE RekeyFails(e) \/ Publish(e)
    BY <2>2, ToMoves DEF RekeyFails, Publish
  <2>3. CASE RekeyMoves(e)
    BY <2>3 DEF RekeyMoves, TypeOK, WorkerRec
  <2> QED BY <2>1, <2>2, <2>3 DEF StartStep
<1>4. entry'[e].process = "alive" => worker'[e].pc \in LivePc
  <2>1. CASE RekeyFails(e)
    <3>1. entry'[e].process = Killed(e)
      BY <2>1 DEF RekeyFails, TypeOK, EntryRec
    <3> QED BY <3>1 DEF Killed
  <2>2. CASE ~RekeyFails(e)
    <3>1. worker'[e].pc \in {"rekey", "publish", "idle"}
      <4>1. ASSUME NEW k \in Ids, Accepted(e, k)
            PROVE  worker'[e].pc \in {"rekey", "publish"}
        BY <4>1 DEF Accepted, TypeOK, WorkerRec
      <4>2. CASE RekeyMoves(e)
        BY <4>2 DEF RekeyMoves, TypeOK, WorkerRec
      <4>3. CASE Publish(e)
        BY <4>3, ToMoves DEF Publish
      <4> QED BY <2>2, <4>1, <4>2, <4>3 DEF StartStep
    <3> QED BY <3>1 DEF LivePc, ServePc
  <2> QED BY <2>1, <2>2
<1> QED BY <1>1, <1>2, <1>3, <1>4

\* The types.
LEMMA OwnTypes ==
  ASSUME TypeOK, IdInv, OwnStep
  PROVE  TypeOK' /\ OmpTypes'
<1> USE DEF WorkerPc, StartPc, ServePc, ExitPc
<1>1. ASSUME NEW s \in Streams, AnnounceRefused(s)
      PROVE  TypeOK' /\ OmpTypes'
  <2>1. client' \in [Clients -> ClientRec]
    BY <1>1, ClientUpdates DEF AnnounceRefused, Outcomes
  <2>2. entry' \in [Entries -> EntryRec]
    <3>1. [entry EXCEPT ![client[s].entry].prompt_active = FALSE] \in [Entries -> EntryRec]
      BY EntryField DEF TypeOK
    <3> DEFINE f == [entry EXCEPT ![client[s].entry].prompt_active = FALSE]
    <3>2. [f EXCEPT ![client[s].entry].busy = FALSE] \in [Entries -> EntryRec]
      BY <3>1, EntryField
    <3>3. entry' = [f EXCEPT ![client[s].entry].busy = FALSE]
      BY <1>1 DEF AnnounceRefused, TypeOK
    <3> QED BY <3>2, <3>3
  <2> QED BY <1>1, <2>1, <2>2 DEF AnnounceRefused, TypeOK, IdInv, OmpTypes
<1>2. ASSUME NEW e \in Entries, StartStep(e)
      PROVE  TypeOK' /\ OmpTypes'
  <2>1. worker[e] \in WorkerRec /\ worker[e].session \in Keys \cup {None}
    BY DEF TypeOK, WorkerRec
  <2>2. ASSUME NEW k \in Ids, Accepted(e, k)
        PROVE  TypeOK' /\ OmpTypes'
    <3>1. \A p \in {"publish", "rekey"} : [worker[e] EXCEPT !.session = k, !.pc = p] \in WorkerRec
      <4>1. k \in Keys /\ \A p \in {"publish", "rekey"} : p \in WorkerPc
        BY DEF Ids
      <4> HIDE DEF WorkerPc
      <4> QED BY <2>1, <4>1 DEF WorkerRec
    <3>2. worker' \in [Entries -> WorkerRec]
      BY <2>2, <3>1 DEF Accepted, TypeOK
    <3> QED BY <2>2, <3>2 DEF Accepted, TypeOK, IdInv, OmpTypes
  <2>3. CASE RekeyFails(e)
    <3>1. entry' \in [Entries -> EntryRec]
      BY <2>3, KilledType, EntryField DEF RekeyFails, TypeOK
    <3> QED BY <2>3, <3>1, WorkerUpdates DEF RekeyFails, TypeOK, IdInv, OmpTypes
  <2>4. CASE RekeyMoves(e)
    <3>1. [worker[e] EXCEPT !.key = worker[e].session, !.pc = "publish"] \in WorkerRec
      <4>1. "publish" \in WorkerPc
        OBVIOUS
      <4> HIDE DEF WorkerPc
      <4> QED BY <2>1, <4>1 DEF WorkerRec
    <3>2. worker' \in [Entries -> WorkerRec]
      BY <2>4, <3>1 DEF RekeyMoves, TypeOK
    <3>3. registry' \in [Keys -> Entries \cup {None}]
      BY <2>4 DEF RekeyMoves, TypeOK
    <3> QED BY <2>4, <3>2, <3>3 DEF RekeyMoves, TypeOK, IdInv, OmpTypes
  <2>5. CASE Publish(e)
    <3>1. entry' \in [Entries -> EntryRec]
      <4>1. [entry[e] EXCEPT !.stdin = TRUE, !.initialized = TRUE] \in EntryRec
        BY InRecords DEF EntryRec
      <4> QED BY <2>5, <4>1 DEF Publish, TypeOK
    <3>2. worker' \in [Entries -> WorkerRec]
      BY <2>5, WorkerUpdates DEF Publish
    <3>3. omp_session_id' \in [Entries -> Keys \cup {None}]
      BY <2>1, <2>5 DEF Publish, IdInv, OmpTypes
    <3> QED BY <2>5, <3>1, <3>2, <3>3 DEF Publish, TypeOK, IdInv, OmpTypes
  <2> QED BY <1>2, <2>2, <2>3, <2>4, <2>5 DEF StartStep
<1> QED BY <1>1, <1>2 DEF OwnStep

\* The registry.
LEMMA OwnKeepsRegistry ==
  ASSUME TypeOK, RegistryInv, IdInv, OwnStep
  PROVE  RegistryInv'
<1>1. ASSUME NEW s \in Streams, AnnounceRefused(s)
      PROVE  RegistryInv'
  BY <1>1, CalmUpdates, QuietUpdates, RegistryStillKeeps DEF AnnounceRefused, Outcomes
<1>2. ASSUME NEW e \in Entries, StartStep(e)
      PROVE  RegistryInv'
  <2>1. /\ Monotone /\ \A f \in Entries : Calm(f)
        /\ entry'[e].process = "alive" => worker'[e].pc \in LivePc
        /\ UNCHANGED <<client, closer>>
        /\ worker'[e].pc \in {"rekey", "publish", "idle", "exit"}
        /\ \A f \in Entries \ {e} : worker'[f] = worker[f]
    BY <1>2, StartMoves
  <2>2. Quiet
    BY <2>1 DEF Quiet
  <2>3. worker[e].pc \in {"handshake", "rekey", "publish"}
    BY <1>2 DEF StartStep, Accepted, RekeyFails, RekeyMoves, Publish
  <2>4. Open(e) /\ entry[e].process # "spawned" /\ ~entry[e].done
    BY <2>3 DEF Open, OpenPc, StartPc, RegistryInv, ChildHasWorker
  <2>5. CASE RekeyMoves(e)
    <3>1. /\ worker'[e].key = worker[e].session /\ worker'[e].pc = "publish"
          /\ ~RekeyRefused(e, worker[e].session)
          /\ registry' = [registry EXCEPT ![worker[e].key] = None, ![worker[e].session] = e]
      BY <2>5 DEF RekeyMoves, TypeOK, WorkerRec
    <3>2. worker[e].session \in Keys
      BY <2>5 DEF RekeyMoves, IdInv, Learned
    <3> QED BY <2>1, <2>2, <2>4, <3>1, <3>2, KeyMoves
  <2>6. CASE ~RekeyMoves(e)
    <3>1. UNCHANGED registry
      BY <1>2, <2>6 DEF StartStep, Accepted, RekeyFails, Publish
    <3>2. worker'[e].key = worker[e].key
      <4>1. ASSUME NEW k \in Ids, Accepted(e, k)
            PROVE  worker'[e].key = worker[e].key
        BY <4>1 DEF Accepted, TypeOK, WorkerRec
      <4>2. CASE RekeyFails(e) \/ Publish(e)
        BY <4>2, ToMoves DEF RekeyFails, Publish
      <4> QED BY <1>2, <2>6, <4>1, <4>2 DEF StartStep
    <3>3. Moved(e)
      BY <2>1, <2>4, <3>1, <3>2 DEF Moved, Calm, LivePc, LoopPc, StartPc, ServePc
    <3> QED BY <2>1, <2>2, <3>3, MovedKeeps, QuietKeeps DEF RegistryInv
  <2> QED BY <2>5, <2>6
<1> QED BY <1>1, <1>2 DEF OwnStep

\* The calls: the stream that lets go of busy was its only owner.
LEMMA OwnKeepsCalls ==
  ASSUME TypeOK, RegistryInv, CallInv, OwnStep
  PROVE  CallInv' /\ Answered
<1>1. ASSUME NEW s \in Streams, AnnounceRefused(s)
      PROVE  Kept /\ UNCHANGED closer
  <2>1. /\ s \in Clients /\ client[s].pc = "announce" /\ End(s, "refused")
        /\ UNCHANGED <<queue, worker, closer>>
    BY <1>1 DEF AnnounceRefused, Clients
  <2>2. PICK e \in Entries : e = client[s].entry /\ worker[e].pc # "absent"
    BY <2>1, KnownHasWorker
  <2>9. entry' = [entry EXCEPT ![e].prompt_active = FALSE, ![e].busy = FALSE]
    BY <1>1, <2>2 DEF AnnounceRefused
  <2>3. ~client[s].sent
    BY <2>1 DEF CallInv, Coherent
  <2>4. OthersStay({s}) /\ client'[s].pc = "end" /\ client'[s].entry = None /\ Coherent(s)'
    BY <2>1, <2>3, Ending
  <2>5. /\ ~entry'[e].busy /\ entry'[e].pending = entry[e].pending
        /\ entry'[e].prompt_acknowledged = entry[e].prompt_acknowledged
        /\ \A f \in Entries \ {e} : SameFlags(f)
    BY <2>9 DEF SameFlags, TypeOK, EntryRec
  <2>6. Queued(e)'
    BY <2>1, <2>2, <2>4, QueueStays
  <2>7. Locked(e)'
    <3>1. Open(e) => Holders(e) \subseteq {s}
      BY <2>1, <2>2 DEF CallInv, CallEntries, EntryInv, Locked, Holders
    <3>2. Holders(e)' \subseteq Holders(e) \ {s}
      BY <2>2, <2>4, NamesDistinct DEF Holders, OthersStay
    <3>3. Open(e)' => Holders(e)' = {}
      BY <2>1, <3>1, <3>2 DEF Open
    <3> QED BY <2>1, <2>2, <2>5, <3>3 DEF Locked
  <2>8. Waited(e)'
    <3>1. s \notin entry[e].pending
      BY <2>1, <2>2 DEF CallInv, CallEntries, EntryInv, Waited
    <3> QED BY <2>2, <2>4, <2>5, <3>1, WaitersStay
  <2> QED BY <2>1, <2>2, <2>4, <2>5, <2>6, <2>7, <2>8, CallAtEntry
<1>2. ASSUME NEW e \in Entries, StartStep(e)
      PROVE  Kept /\ UNCHANGED closer
  <2>1. worker[e].pc \in {"handshake", "rekey", "publish"}
    BY <1>2 DEF StartStep, Accepted, RekeyFails, RekeyMoves, Publish
  <2>2. worker[e].pc \in IdlePc
    BY <2>1 DEF IdlePc, StartPc
  <2>3. /\ \A f \in Entries : SameFlags(f)
        /\ UNCHANGED <<queue, client, closer>>
        /\ worker'[e].pc \in {"rekey", "publish", "idle", "exit"}
        /\ \A f \in Entries \ {e} : worker'[f] = worker[f]
    BY <1>2, StartMoves
  <2>4. worker'[e].pc \in IdlePc \cup LeftPc
    BY <2>3 DEF IdlePc, StartPc, LeftPc
  <2> QED BY <2>2, <2>3, <2>4, WorkerIdles
<1>3. Kept /\ UNCHANGED closer
  BY <1>1, <1>2 DEF OwnStep
<1>4. ClosersHold'
  BY <1>3 DEF CallInv, ClosersHold
<1> QED BY <1>3, <1>4 DEF Kept, CallInv, CallEntries

-----------------------------------------------------------------------------
(* Most steps leave the ids alone: they initialize no entry, keep the key  *)
(* of an initialized one, and bring no stream past its report.             *)

SteadyEntries == \A e \in Entries : entry'[e].initialized = entry[e].initialized

SteadyWorker(e) == LET v == worker'[e]
                       w == worker[e] IN
  /\ v.pc \in {"absent"} \cup StartPc => w.pc \in {"absent"} \cup StartPc
  /\ v.pc \in {"rekey", "publish"} => v = w
  /\ entry[e].initialized => v.key = w.key

SteadyCall(s) ==
  client'[s].pc \in ReportedPc =>
    client[s].pc \in ReportedPc /\ client'[s].entry = client[s].entry

Steady ==
  /\ SteadyEntries
  /\ \A e \in Entries : SteadyWorker(e)
  /\ \A s \in Streams : SteadyCall(s)

LEMMA SteadyKeepsIds ==
  ASSUME IdInv, Steady, UNCHANGED <<omp_session_id, reported>>
  PROVE  IdInv'
<1>1. OmpTypes'
  BY DEF IdInv, OmpTypes
<1>2. ASSUME NEW e \in Entries PROVE Learned(e)' /\ Stored(e)'
  <2>1. Learned(e) /\ Stored(e) /\ SteadyWorker(e) /\ entry'[e].initialized = entry[e].initialized
    BY DEF IdInv, Steady, SteadyEntries
  <2>2. Learned(e)'
    BY <2>1 DEF Learned, SteadyWorker
  <2>3. Stored(e)'
    BY <2>1 DEF Stored, SteadyWorker
  <2> QED BY <2>2, <2>3
<1>3. ASSUME NEW s \in Streams PROVE Reported(s)'
  BY DEF IdInv, Steady, Reported, SteadyCall
<1> QED BY <1>1, <1>2, <1>3 DEF IdInv

\* One call moves.
LEMMA CallSteady ==
  ASSUME NEW c, OthersStay({c}),
         \/ c \in Callers
         \/ client'[c].pc \notin ReportedPc
         \/ client[c].pc \in ReportedPc /\ client'[c].entry = client[c].entry
  PROVE  \A s \in Streams : SteadyCall(s)
  BY NamesDistinct DEF OthersStay, SteadyCall, Clients

\* The updates of clients that bring no stream past its report.
LEMMA CallUpdates ==
  ASSUME TypeOK, NEW c \in Clients,
         \/ client' = client
         \/ \E p \in (StreamPc \cup CallerPc) \ ReportedPc : At(c, p)
         \/ client[c].pc \in ReportedPc /\ \E p \in ReportedPc : At(c, p)
         \/ \E o \in Outcomes : End(c, o)
         \/ client' = [client EXCEPT ![c].sent = TRUE]
         \/ client' = [client EXCEPT ![c].cancelled = TRUE]
         \/ c \in Callers /\ OthersStay({c})
  PROVE  \A s \in Streams : SteadyCall(s)
<1>1. CASE client' = client
  BY <1>1 DEF SteadyCall
<1>2. ASSUME NEW p \in (StreamPc \cup CallerPc) \ ReportedPc, At(c, p)
      PROVE  \A s \in Streams : SteadyCall(s)
  <2>1. OthersStay({c}) /\ client'[c].pc = p
    BY <1>2, Going
  <2> QED BY <1>2, <2>1, CallSteady
<1>3. ASSUME client[c].pc \in ReportedPc, NEW p \in ReportedPc, At(c, p)
      PROVE  \A s \in Streams : SteadyCall(s)
  BY <1>3, Going, CallSteady
<1>4. ASSUME NEW o \in Outcomes, End(c, o)
      PROVE  \A s \in Streams : SteadyCall(s)
  <2>1. Ended(client[c], o).pc = "end"
    BY EndedPc DEF TypeOK
  <2>2. client' = [client EXCEPT ![c] = Ended(client[c], o)]
    BY <1>4 DEF End, TypeOK
  <2>3. OthersStay({c}) /\ client'[c].pc = "end"
    BY <2>1, <2>2 DEF OthersStay, TypeOK
  <2> QED BY <2>3, CallSteady DEF ReportedPc
<1>5. CASE client' = [client EXCEPT ![c].sent = TRUE]
  <2>1. \A d \in Clients : client'[d].pc = client[d].pc /\ client'[d].entry = client[d].entry
    BY <1>5 DEF TypeOK, ClientRec
  <2> QED BY <2>1 DEF SteadyCall, Clients
<1>6. CASE client' = [client EXCEPT ![c].cancelled = TRUE]
  <2>1. \A d \in Clients : client'[d].pc = client[d].pc /\ client'[d].entry = client[d].entry
    BY <1>6 DEF TypeOK, ClientRec
  <2> QED BY <2>1 DEF SteadyCall, Clients
<1>7. CASE c \in Callers /\ OthersStay({c})
  BY <1>7, CallSteady
<1> QED BY <1>1, <1>2, <1>3, <1>4, <1>5, <1>6, <1>7

\* The updates of entries that initialize none.
LEMMA EntryUpdates ==
  ASSUME TypeOK, NEW e,
         \/ entry' = entry
         \/ entry' = [entry EXCEPT ![e].busy = TRUE]
         \/ entry' = [entry EXCEPT ![e].busy = FALSE]
         \/ entry' = [entry EXCEPT ![e].prompt_active = FALSE]
         \/ entry' = [entry EXCEPT ![e].prompt_active = TRUE]
         \/ entry' = [entry EXCEPT ![e].prompt_active = FALSE, ![e].busy = FALSE]
         \/ entry' = [entry EXCEPT ![e].closing = TRUE]
         \/ entry' = [entry EXCEPT ![e].done = TRUE]
         \/ \E P \in SUBSET Callers : entry' = [entry EXCEPT ![e].pending = P]
         \/ entry' = [entry EXCEPT ![e].watchdog = TRUE, ![e].taker = TRUE]
         \/ entry' = [entry EXCEPT ![e].taker = FALSE, ![e].stdin = FALSE]
         \/ \E p \in {"none", "spawned", "alive", "dead"} :
              \/ entry' = [entry EXCEPT ![e].process = p]
              \/ entry' = [entry EXCEPT ![e].taker = FALSE, ![e].process = p]
              \/ entry' = [entry EXCEPT ![e].watchdog = FALSE, ![e].process = p]
  PROVE  SteadyEntries
<1> USE DEF TypeOK, EntryRec, SteadyEntries
<1>1. CASE e \notin Entries \/ entry' = entry
  BY <1>1
<1>2. CASE e \in Entries /\ entry' = [entry EXCEPT ![e].busy = TRUE]
  BY <1>2
<1>3. CASE e \in Entries /\ entry' = [entry EXCEPT ![e].busy = FALSE]
  BY <1>3
<1>4. CASE e \in Entries /\ entry' = [entry EXCEPT ![e].prompt_active = FALSE]
  BY <1>4
<1>5. CASE e \in Entries /\ entry' = [entry EXCEPT ![e].prompt_active = TRUE]
  BY <1>5
<1>6. CASE e \in Entries /\ entry' = [entry EXCEPT ![e].prompt_active = FALSE, ![e].busy = FALSE]
  BY <1>6
<1>7. CASE e \in Entries /\ entry' = [entry EXCEPT ![e].closing = TRUE]
  BY <1>7
<1>8. CASE e \in Entries /\ entry' = [entry EXCEPT ![e].done = TRUE]
  BY <1>8
<1>9. ASSUME e \in Entries, NEW P \in SUBSET Callers, entry' = [entry EXCEPT ![e].pending = P]
      PROVE  SteadyEntries
  BY <1>9
<1>10. CASE e \in Entries /\ entry' = [entry EXCEPT ![e].watchdog = TRUE, ![e].taker = TRUE]
  BY <1>10
<1>11. CASE e \in Entries /\ entry' = [entry EXCEPT ![e].taker = FALSE, ![e].stdin = FALSE]
  BY <1>11
<1>12. ASSUME e \in Entries, NEW p \in {"none", "spawned", "alive", "dead"},
              entry' = [entry EXCEPT ![e].process = p]
       PROVE  SteadyEntries
  BY <1>12
<1>13. ASSUME e \in Entries, NEW p \in {"none", "spawned", "alive", "dead"},
              entry' = [entry EXCEPT ![e].taker = FALSE, ![e].process = p]
       PROVE  SteadyEntries
  BY <1>13
<1>14. ASSUME e \in Entries, NEW p \in {"none", "spawned", "alive", "dead"},
              entry' = [entry EXCEPT ![e].watchdog = FALSE, ![e].process = p]
       PROVE  SteadyEntries
  BY <1>14
<1> QED
  BY <1>1, <1>2, <1>3, <1>4, <1>5, <1>6, <1>7, <1>8, <1>9, <1>10, <1>11, <1>12, <1>13, <1>14

\* One worker moves and keeps its key; it does not go back to its startup.
LEMMA WorkerSteady ==
  ASSUME NEW e \in Entries, \A f \in Entries \ {e} : worker'[f] = worker[f],
         worker'[e].key = worker[e].key,
         worker'[e].pc \in {"candidate", "spawn", "install", "handshake"} => worker[e].pc \in StartPc,
         worker'[e].pc \notin {"absent", "boot", "rekey", "publish"}
  PROVE  \A f \in Entries : SteadyWorker(f)
  BY DEF SteadyWorker, StartPc

\* The steps of other threads than the worker.
LEMMA StreamSteady ==
  ASSUME TypeOK, NEW s \in Streams,
         \/ Cancel(s) \/ StartCancelled(s) \/ Await(s) \/ GiveUp(s) \/ Kill(s)
         \/ Settle(s) \/ Claim(s) \/ Enqueue(s)
  PROVE  Steady
<1>1. s \in Clients /\ \A e \in Entries : Killed(e) \in {"none", "spawned", "alive", "dead"}
  BY KilledType DEF Clients
<1>2. UNCHANGED worker
  BY DEF Cancel, StartCancelled, Await, GiveUp, Kill, Settle, Claim, Enqueue
<1>3. \A e \in Entries : SteadyWorker(e)
  BY <1>2 DEF SteadyWorker
<1>4. SteadyEntries
  <2>1. CASE Kill(s) /\ client[s].entry \in Entries
    BY <1>1, <2>1, EntryUpdates DEF Kill
  <2>2. CASE Kill(s) /\ client[s].entry \notin Entries
    BY <2>2 DEF Kill, SteadyEntries, TypeOK
  <2>3. CASE ~Kill(s)
    BY <2>3, EntryUpdates DEF Cancel, StartCancelled, Await, GiveUp, Settle, Claim, Enqueue
  <2> QED BY <2>1, <2>2, <2>3
<1>5. \A t \in Streams : SteadyCall(t)
  <2>1. CASE Cancel(s) \/ StartCancelled(s) \/ Await(s)
    BY <1>1, <2>1, CallUpdates DEF Cancel, StartCancelled, Await, StreamPc, ReportedPc, Outcomes
  <2>2. CASE GiveUp(s) \/ Kill(s) \/ Settle(s)
    BY <1>1, <2>2, CallUpdates DEF GiveUp, Kill, Settle, StreamPc, ReportedPc, Outcomes
  <2>3. CASE Claim(s)
    BY <1>1, <2>3, CallUpdates DEF Claim, StreamPc, ReportedPc, Outcomes
  <2>4. CASE Enqueue(s)
    BY <1>1, <2>4, CallUpdates DEF Enqueue, ReportedPc, Outcomes
  <2> QED BY <2>1, <2>2, <2>3, <2>4
<1> QED BY <1>3, <1>4, <1>5 DEF Steady

LEMMA CallerSteady ==
  ASSUME TypeOK, NEW c \in Callers,
         CallerStep(c) \/ \E k \in Keys, kind \in Kinds : Lookup(c, k, kind)
  PROVE  Steady
<1>1. UNCHANGED worker
  BY DEF CallerStep, CallerClaim, Send, Insert, Write, AnswerTimeout, Lookup
<1>2. \A e \in Entries : SteadyWorker(e)
  BY <1>1 DEF SteadyWorker
<1>3. OthersStay({c})
  BY DEF CallerStep, CallerClaim, Send, Insert, Write, AnswerTimeout, Lookup, At, End,
         OthersStay, TypeOK
<1>4. \A s \in Streams : SteadyCall(s)
  BY <1>3, CallSteady
<1>5. SteadyEntries
  <2>1. CASE \E k \in Keys, kind \in Kinds : Lookup(c, k, kind)
    BY <2>1, EntryUpdates DEF Lookup
  <2>2. CASE CallerClaim(c) \/ Send(c)
    BY <2>2, EntryUpdates DEF CallerClaim, Send
  <2>3. CASE entry' = Forgotten(c) \/ Insert(c)
    <3>1. CASE client[c].entry \in Entries
      <4>1. /\ entry[client[c].entry].pending \cup {c} \in SUBSET Callers
            /\ entry[client[c].entry].pending \ {c} \in SUBSET Callers
        BY <3>1 DEF TypeOK, EntryRec
      <4> QED BY <2>3, <3>1, <4>1, EntryUpdates DEF Forgotten, Insert, TypeOK
    <3>2. CASE client[c].entry \notin Entries
      BY <2>3, <3>2 DEF Forgotten, Insert, SteadyEntries, TypeOK
    <3> QED BY <3>1, <3>2
  <2>4. CASE UNCHANGED entry
    BY <2>4, EntryUpdates
  <2> QED BY <2>1, <2>2, <2>3, <2>4 DEF CallerStep, Write, AnswerTimeout
<1> QED BY <1>2, <1>4, <1>5 DEF Steady

LEMMA CloserSteady ==
  ASSUME TypeOK,
         \/ \E x \in Closers : CloserStep(x) \/ \E T : StartClose(x, T)
         \/ \E e \in Entries : TakeStdin(e) \/ Watchdog(e) \/ ProcessExits(e)
  PROVE  Steady
<1>1. UNCHANGED worker
  BY DEF CloserStep, CloseNext, CloseWait, CloseFinal, StartClose, TakeStdin, Watchdog, ProcessExits
<1>2. \A e \in Entries : SteadyWorker(e)
  BY <1>1 DEF SteadyWorker
<1>3. \A s \in Streams : SteadyCall(s)
  <2>1. CASE UNCHANGED client
    BY <2>1 DEF SteadyCall
  <2>2. ASSUME NEW e, client' = FailPending(e) PROVE \A s \in Streams : SteadyCall(s)
    <3>1. \A c \in Clients : Ended(client[c], "failed").pc = "end"
      BY EndedPc DEF TypeOK, Outcomes
    <3>2. \A c \in Clients : client'[c] = client[c] \/ client'[c].pc = "end"
      BY <2>2, <3>1 DEF FailPending
    <3> QED BY <3>2 DEF SteadyCall, ReportedPc, Clients
  <2> QED BY <2>1, <2>2
          DEF CloserStep, CloseNext, CloseWait, CloseFinal, StartClose, TakeStdin, Watchdog, ProcessExits
<1>4. SteadyEntries
  <2>k. \A e \in Entries : /\ Killed(e) \in {"none", "spawned", "alive", "dead"}
                           /\ entry[e].process \in {"none", "spawned", "alive", "dead"}
    BY KilledType DEF TypeOK, EntryRec
  <2>1. ASSUME NEW x \in Closers, NEW T, StartClose(x, T) PROVE SteadyEntries
    BY <2>1 DEF StartClose, SteadyEntries, TypeOK, EntryRec
  <2>2. ASSUME NEW x \in Closers, CloseNext(x) PROVE SteadyEntries
    BY <2>2, EntryUpdates DEF CloseNext
  <2>3. ASSUME NEW x \in Closers, CloseWait(x) \/ CloseFinal(x) PROVE SteadyEntries
    <3>1. CASE closer[x].entry \in Entries
      <4> DEFINE e == closer[x].entry
      <4>1. CASE CloseWait(x)
        <5>1. PICK p \in {"none", "spawned", "alive", "dead"} :
                entry' = [entry EXCEPT ![e].process = p]
          BY <2>k, <3>1, <4>1 DEF CloseWait
        <5> QED BY <5>1, EntryUpdates
      <4>2. CASE CloseFinal(x)
        <5>1. {} \in SUBSET Callers
          OBVIOUS
        <5> QED BY <4>2, <5>1, EntryUpdates DEF CloseFinal
      <4> QED BY <2>3, <4>1, <4>2
    <3>2. CASE closer[x].entry \notin Entries
      BY <2>3, <3>2 DEF CloseWait, CloseFinal, SteadyEntries, TypeOK
    <3> QED BY <3>1, <3>2
  <2>4. ASSUME NEW e \in Entries, TakeStdin(e) PROVE SteadyEntries
    BY <2>k, <2>4, EntryUpdates DEF TakeStdin
  <2>5. ASSUME NEW e \in Entries, Watchdog(e) PROVE SteadyEntries
    <3>1. PICK p \in {"none", "spawned", "alive", "dead"} :
            entry' = [entry EXCEPT ![e].watchdog = FALSE, ![e].process = p]
      BY <2>k, <2>5 DEF Watchdog
    <3> QED BY <3>1, EntryUpdates
  <2>6. ASSUME NEW e \in Entries, ProcessExits(e) PROVE SteadyEntries
    BY <2>6, EntryUpdates DEF ProcessExits
  <2> QED BY <2>1, <2>2, <2>3, <2>4, <2>5, <2>6 DEF CloserStep
<1> QED BY <1>2, <1>3, <1>4 DEF Steady

LEMMA ReserveSteady ==
  ASSUME TypeOK, IdInv, NEW s \in Streams, NEW k \in Keys, Reserve(s, k)
  PROVE  Steady
<1>1. SteadyEntries
  BY EntryUpdates DEF Reserve
<1>2. \A e \in Entries : SteadyWorker(e)
  <2>1. CASE UNCHANGED worker
    BY <2>1 DEF SteadyWorker
  <2>2. ASSUME NEW e \in Entries, worker[e].pc = "absent",
               worker' = [worker EXCEPT ![e].pc = "boot", ![e].key = k, ![e].creator = s]
        PROVE  \A f \in Entries : SteadyWorker(f)
    <3>1. worker'[e].pc = "boot" /\ \A f \in Entries \ {e} : worker'[f] = worker[f]
      BY <2>2 DEF TypeOK, WorkerRec
    <3>2. ~entry[e].initialized
      BY <2>2 DEF IdInv, Learned
    <3> QED BY <2>2, <3>1, <3>2 DEF SteadyWorker
  <2> QED BY <2>1, <2>2 DEF Reserve
<1>3. \A t \in Streams : SteadyCall(t)
  <2>1. s \in Clients
    BY DEF Clients
  <2>2. CASE End(s, "refused")
    BY <2>1, <2>2, CallUpdates DEF Outcomes
  <2>3. ASSUME NEW e,
               client' = [client EXCEPT ![s].pc = "await", ![s].key = k, ![s].entry = e]
        PROVE  \A t \in Streams : SteadyCall(t)
    <3>1. OthersStay({s}) /\ client'[s].pc = "await"
      BY <2>1, <2>3 DEF OthersStay, TypeOK, ClientRec
    <3> QED BY <3>1, CallSteady DEF ReportedPc
  <2> QED BY <2>2, <2>3 DEF Reserve
<1> QED BY <1>1, <1>2, <1>3 DEF Steady

\* The worker's startup up to the handshake that fails.
HandshakeFails(e) ==
  /\ worker[e].pc = "handshake"
  /\ entry' = [entry EXCEPT ![e].process = Killed(e)]
  /\ To(e, "exit") \/ To(e, "candidate")
  /\ UNCHANGED client

LEMMA StartupSteady ==
  ASSUME TypeOK, NEW e \in Entries,
         Boot(e) \/ Candidate(e) \/ Spawn(e) \/ Install(e) \/ HandshakeFails(e)
  PROVE  Steady
<1>k. /\ Killed(e) \in {"none", "spawned", "alive", "dead"}
      /\ entry[e].process \in {"none", "spawned", "alive", "dead"}
  BY KilledType DEF TypeOK, EntryRec
<1>1. SteadyEntries
  <2>1. CASE UNCHANGED entry
    BY <2>1, EntryUpdates
  <2>2. CASE ~UNCHANGED entry
    <3>1. PICK p \in {"none", "spawned", "alive", "dead"} : entry' = [entry EXCEPT ![e].process = p]
      BY <1>k, <2>2 DEF Boot, Candidate, Spawn, Install, HandshakeFails
    <3> QED BY <3>1, EntryUpdates
  <2> QED BY <2>1, <2>2
<1>2. \A f \in Entries : SteadyWorker(f)
  <2>1. worker[e].pc \in {"boot", "candidate", "spawn", "install", "handshake"}
    BY DEF Boot, Candidate, Spawn, Install, HandshakeFails
  <2>2. ASSUME NEW p \in {"exit", "candidate", "install", "handshake"}, To(e, p)
        PROVE  \A f \in Entries : SteadyWorker(f)
    <3>1. /\ worker'[e].pc = p /\ worker'[e].key = worker[e].key
          /\ \A f \in Entries \ {e} : worker'[f] = worker[f]
      BY <2>2, ToMoves
    <3> QED BY <2>1, <3>1, WorkerSteady DEF StartPc
  <2>3. CASE worker' = [worker EXCEPT ![e].pc = "spawn", ![e].candidate = @ + 1]
    <3>1. /\ worker'[e].pc = "spawn" /\ worker'[e].key = worker[e].key
          /\ \A f \in Entries \ {e} : worker'[f] = worker[f]
      BY <2>3 DEF TypeOK, WorkerRec
    <3> QED BY <2>1, <3>1, WorkerSteady DEF StartPc
  <2> QED BY <2>2, <2>3 DEF Boot, Candidate, Spawn, Install, HandshakeFails
<1>3. \A s \in Streams : SteadyCall(s)
  BY DEF Boot, Candidate, Spawn, Install, HandshakeFails, SteadyCall
<1> QED BY <1>1, <1>2, <1>3 DEF Steady

\* The loop of the worker.
LEMMA LoopSteady ==
  ASSUME TypeOK, NEW e \in Entries,
         \/ IdleTimeout(e) \/ Reap(e) \/ Quit(e) \/ Exit(e) \/ Finish(e) \/ Postcheck(e)
  PROVE  Steady
<1>k. Killed(e) \in {"none", "spawned", "alive", "dead"}
  BY KilledType
<1>1. SteadyEntries
  <2>1. CASE Reap(e)
    BY <1>k, <2>1, EntryUpdates DEF Reap
  <2>2. CASE ~Reap(e)
    BY <2>2, EntryUpdates DEF IdleTimeout, Quit, Exit, Finish, Postcheck
  <2> QED BY <2>1, <2>2
<1>2. \A f \in Entries : SteadyWorker(f)
  <2>1. PICK p \in {"reap", "exit", "finish", "drain", "dropping", "quit", "idle"} : To(e, p)
    BY DEF IdleTimeout, Reap, Quit, Exit, Finish, Postcheck
  <2>2. /\ worker'[e].pc = p /\ worker'[e].key = worker[e].key
        /\ \A f \in Entries \ {e} : worker'[f] = worker[f]
    BY <2>1, ToMoves
  <2> QED BY <2>2, WorkerSteady
<1>3. \A s \in Streams : SteadyCall(s)
  BY DEF IdleTimeout, Reap, Quit, Exit, Finish, Postcheck, SteadyCall
<1> QED BY <1>1, <1>2, <1>3 DEF Steady

\* Its channel: a call that is served was queued.
LEMMA ChannelSteady ==
  ASSUME TypeOK, CallInv, NEW e \in Entries, Receive(e) \/ Drain(e) \/ Drop(e)
  PROVE  Steady
<1>1. SteadyEntries
  BY EntryUpdates DEF Receive, Drain, Drop
<1>2. \A f \in Entries : SteadyWorker(f)
  <2>1. CASE UNCHANGED worker
    BY <2>1 DEF SteadyWorker
  <2>2. ASSUME NEW p \in {"reap", "finish", "gone"}, To(e, p)
        PROVE  \A f \in Entries : SteadyWorker(f)
    <3>1. /\ worker'[e].pc = p /\ worker'[e].key = worker[e].key
          /\ \A f \in Entries \ {e} : worker'[f] = worker[f]
      BY <2>2, ToMoves
    <3> QED BY <3>1, WorkerSteady
  <2>3. ASSUME NEW p \in {"control", "prompt"}, NEW c,
               worker' = [worker EXCEPT ![e].cmd = c, ![e].pc = p]
        PROVE  \A f \in Entries : SteadyWorker(f)
    <3>1. /\ worker'[e].pc = p /\ worker'[e].key = worker[e].key
          /\ \A f \in Entries \ {e} : worker'[f] = worker[f]
      BY <2>3 DEF TypeOK, WorkerRec
    <3> QED BY <3>1, WorkerSteady
  <2>4. CASE Receive(e) /\ ~To(e, "reap")
    <3>1. PICK p \in {"control", "prompt"} :
            worker' = [worker EXCEPT ![e].cmd = Head(queue[e]), ![e].pc = p]
      BY <2>4 DEF Receive
    <3> QED BY <2>3, <3>1
  <2> QED BY <2>1, <2>2, <2>4 DEF Receive, Drain, Drop
<1>3. \A s \in Streams : SteadyCall(s)
  <2>1. CASE UNCHANGED client
    BY <2>1 DEF SteadyCall
  <2>2. CASE Drop(e)
    <3>1. \A c \in Clients, o \in Outcomes : Ended(client[c], o).pc = "end"
      BY EndedPc DEF TypeOK
    <3>2. \A c \in Clients : client'[c] = client[c] \/ client'[c].pc = "end"
      BY <2>2, <3>1 DEF Drop, Outcomes
    <3> QED BY <3>2 DEF SteadyCall, ReportedPc, Clients
  <2>3. CASE queue[e] # <<>> /\ (Receive(e) \/ Drain(e))
    <3> DEFINE c == Head(queue[e])
    <3>1. c \in Clients
      BY <2>3, QueueUpdates
    <3>2. client[c].pc = "queued"
      <4>1. c = queue[e][1] /\ 1 \in 1..Len(queue[e])
        BY <2>3, CallTypes
      <4> QED BY <4>1 DEF CallInv, CallEntries, EntryInv, Queued
    <3>3. At(c, "served") \/ End(c, "refused")
      BY <2>3 DEF Receive, Drain
    <3> HIDE DEF c
    <3> QED BY <3>1, <3>2, <3>3, CallUpdates DEF ReportedPc, Outcomes
  <2> QED BY <2>1, <2>2, <2>3 DEF Receive, Drain
<1> QED BY <1>1, <1>2, <1>3 DEF Steady

\* The end of a call that the worker serves, and of nothing else.
LEMMA AnswerSteady ==
  ASSUME TypeOK, CallInv, NEW e \in Entries, worker[e].pc \in CmdPc, SteadyEntries,
         NEW o \in Outcomes, End(worker[e].cmd, o),
         NEW p \in {"exit", "postcheck", "reap", "idle"},
         worker' = [worker EXCEPT ![e].cmd = None, ![e].pc = p]
  PROVE  Steady
<1>1. worker[e].cmd \in Clients
  BY ServedHolds
<1>2. \A s \in Streams : SteadyCall(s)
  BY <1>1, CallUpdates
<1>3. /\ worker'[e].pc = p /\ worker'[e].key = worker[e].key
      /\ \A f \in Entries \ {e} : worker'[f] = worker[f]
  BY DEF TypeOK, WorkerRec
<1>4. \A f \in Entries : SteadyWorker(f)
  BY <1>3, WorkerSteady
<1> QED BY <1>2, <1>4 DEF Steady

LEMMA PromptFailsSteady ==
  ASSUME TypeOK, CallInv, NEW e \in Entries, worker[e].pc \in PromptPc,
         NEW a, NEW cause \in {"process", "failed"}, PromptFails(e, a, cause)
  PROVE  Steady
<1>1. SteadyEntries
  <2>1. \A f \in Entries : entry'[f].initialized = entry[f].initialized
    BY DEF PromptFails, TypeOK, EntryRec
  <2> QED BY <2>1 DEF SteadyEntries
<1>2. PromptOutcome(a, cause) \in Outcomes
  BY DEF PromptOutcome, Outcomes
<1>3. worker' = [worker EXCEPT ![e].cmd = None, ![e].pc = "exit"]
  <2>1. worker' = [worker EXCEPT ![e].pc = "exit", ![e].cmd = None]
    BY DEF PromptFails
  <2>2. worker \in [Entries -> WorkerRec]
    BY DEF TypeOK
  <2> QED BY <2>1, <2>2 DEF WorkerRec
<1> QED BY <1>1, <1>2, <1>3, AnswerSteady DEF PromptFails, CmdPc

\* The prompts.
LEMMA PromptSteady ==
  ASSUME TypeOK, CallInv, NEW e \in Entries,
         \/ StartPrompt(e) \/ PromptNotWritten(e) \/ PromptCancelled(e) \/ PromptEof(e)
         \/ PromptOutput(e) \/ DrainTimeout(e) \/ Settled(e)
  PROVE  Steady
<1>1. worker[e].pc \in PromptPc
  BY DEF PromptPc, StartPrompt, PromptNotWritten, PromptCancelled, PromptEof, PromptOutput,
         DrainTimeout, Settled
<1>2. ASSUME NEW p \in {"prompting", "draining"}, To(e, p)
      PROVE  \A f \in Entries : SteadyWorker(f)
  <2>1. /\ worker'[e].pc = p /\ worker'[e].key = worker[e].key
        /\ \A f \in Entries \ {e} : worker'[f] = worker[f]
    BY <1>2, ToMoves
  <2> QED BY <2>1, WorkerSteady
<1>3. CASE \E a \in BOOLEAN, cause \in {"process", "failed"} : PromptFails(e, a, cause)
  BY <1>1, <1>3, PromptFailsSteady
<1>4. CASE StartPrompt(e)
  <2>1. worker[e].cmd \in Clients
    BY <1>1, ServedHolds DEF CmdPc
  <2>2. \A s \in Streams : SteadyCall(s)
    BY <1>4, <2>1, CallUpdates DEF StartPrompt
  <2>3. SteadyEntries
    <3>1. \A f \in Entries : entry'[f].initialized = entry[f].initialized
      BY <1>4 DEF StartPrompt, TypeOK, EntryRec
    <3> QED BY <3>1 DEF SteadyEntries
  <2> QED BY <1>2, <1>4, <2>2, <2>3 DEF StartPrompt, Steady
<1>5. CASE /\ entry' = [entry EXCEPT ![e].prompt_active = FALSE]
           /\ To(e, "draining") /\ UNCHANGED client
  BY <1>2, <1>5, EntryUpdates DEF Steady, SteadyCall
<1>6. CASE /\ entry' = [entry EXCEPT ![e].prompt_acknowledged = FALSE,
                                     ![e].prompt_active = FALSE, ![e].busy = FALSE]
           /\ End(worker[e].cmd, "done")
           /\ worker' = [worker EXCEPT ![e].pc = "postcheck", ![e].cmd = None]
  <2>1. SteadyEntries
    <3>1. \A f \in Entries : entry'[f].initialized = entry[f].initialized
      BY <1>6 DEF TypeOK, EntryRec
    <3> QED BY <3>1 DEF SteadyEntries
  <2>2. worker' = [worker EXCEPT ![e].cmd = None, ![e].pc = "postcheck"]
    <3>1. worker \in [Entries -> WorkerRec]
      BY DEF TypeOK
    <3> QED BY <1>6, <3>1 DEF WorkerRec
  <2> QED BY <1>1, <1>6, <2>1, <2>2, AnswerSteady DEF CmdPc, Outcomes
<1>7. entry[e].prompt_acknowledged \in BOOLEAN
  BY DEF TypeOK, EntryRec
<1> QED
  BY <1>3, <1>4, <1>5, <1>6, <1>7
     DEF PromptNotWritten, PromptCancelled, PromptEof, PromptOutput, DrainTimeout, Settled

\* The control commands, until the session is rekeyed.
LEMMA ControlSteady ==
  ASSUME TypeOK, CallInv, NEW e \in Entries,
         \/ ControlWrite(e) \/ ControlRefused(e) \/ ControlTimeout(e) \/ ControlDone(e)
         \/ \E k \in Keys : ControlMoved(e, k)
         \/ \E c \in Callers : Route(e, c)
  PROVE  Steady
<1>c. worker[e].pc \in ControlPc => worker[e].cmd \in Callers /\ worker[e].cmd \in Clients
  BY CallTypes DEF CallInv, CallEntries, EntryInv, Served
<1>1. ASSUME worker[e].pc \in ControlPc, NEW o \in Outcomes, NEW b, Reply(e, o, b),
             entry' = [entry EXCEPT ![e].busy = FALSE]
      PROVE  Steady
  <2>1. SteadyEntries
    BY <1>1, EntryUpdates
  <2>2. PICK p \in {"reap", "idle"} : worker' = [worker EXCEPT ![e].cmd = None, ![e].pc = p]
    BY <1>1 DEF Reply
  <2> QED BY <1>1, <2>1, <2>2, AnswerSteady DEF Reply, CmdPc
<1>2. CASE worker[e].pc \in ControlPc /\ ControlFails(e)
  BY <1>1, <1>2 DEF ControlFails, Outcomes
<1>3. CASE ControlDone(e)
  BY <1>1, <1>3 DEF ControlDone, Outcomes, ControlPc
<1>4. CASE ControlWrite(e) /\ ~ControlFails(e)
  <2>1. /\ client' = [client EXCEPT ![worker[e].cmd].sent = TRUE]
        /\ To(e, "ctlWait") /\ UNCHANGED entry
    BY <1>4 DEF ControlWrite
  <2>2. \A s \in Streams : SteadyCall(s)
    BY <1>c, <1>4, <2>1, CallUpdates DEF ControlWrite, ControlPc
  <2>3. /\ worker'[e].pc = "ctlWait" /\ worker'[e].key = worker[e].key
        /\ \A f \in Entries \ {e} : worker'[f] = worker[f]
    BY <2>1, ToMoves
  <2> QED BY <2>1, <2>2, <2>3, WorkerSteady, EntryUpdates DEF Steady
<1>5. CASE ControlTimeout(e)
  <2>1. SteadyEntries
    <3>1. \A f \in Entries : entry'[f].initialized = entry[f].initialized
      BY <1>5 DEF ControlTimeout, TypeOK, EntryRec
    <3> QED BY <3>1 DEF SteadyEntries
  <2>2. \A s \in Streams : SteadyCall(s)
    <3>1. worker[e].cmd \in Callers /\ entry[e].pending \subseteq Callers
      BY <1>c, <1>5, CallTypes DEF ControlTimeout, ControlPc
    <3>2. \A s \in Streams : client'[s] = client[s]
      BY <1>5, <3>1, NamesDistinct DEF ControlTimeout, FailPending, Clients
    <3> QED BY <3>2 DEF SteadyCall
  <2>3. /\ worker'[e].pc = "reap" /\ worker'[e].key = worker[e].key
        /\ \A f \in Entries \ {e} : worker'[f] = worker[f]
    BY <1>5 DEF ControlTimeout, TypeOK, WorkerRec
  <2> QED BY <2>1, <2>2, <2>3, WorkerSteady DEF Steady
<1>6. ASSUME NEW k \in Keys, ControlMoved(e, k)
      PROVE  Steady
  <2>1. SteadyEntries
    BY <1>6, EntryUpdates DEF ControlMoved
  <2>2. \A s \in Streams : SteadyCall(s)
    BY <1>c, <1>6, CallUpdates DEF ControlMoved, ControlPc, Outcomes
  <2>3. /\ worker'[e].pc \in {"ctlState", "reap", "idle"} /\ worker'[e].key = worker[e].key
        /\ \A f \in Entries \ {e} : worker'[f] = worker[f]
    <3>1. \/ worker' = [worker EXCEPT ![e].session = k, ![e].pc = "ctlState"]
          \/ \E p \in {"reap", "idle"} :
               worker' = [worker EXCEPT ![e].session = k, ![e].cmd = None, ![e].pc = p]
      BY <1>6 DEF ControlMoved
    <3>2. CASE worker' = [worker EXCEPT ![e].session = k, ![e].pc = "ctlState"]
      BY <3>2 DEF TypeOK, WorkerRec
    <3>3. ASSUME NEW p \in {"reap", "idle"},
                 worker' = [worker EXCEPT ![e].session = k, ![e].cmd = None, ![e].pc = p]
          PROVE  /\ worker'[e].pc = p /\ worker'[e].key = worker[e].key
                 /\ \A f \in Entries \ {e} : worker'[f] = worker[f]
      BY <3>3 DEF TypeOK, WorkerRec
    <3> QED BY <3>1, <3>2, <3>3
  <2> QED BY <2>1, <2>2, <2>3, WorkerSteady DEF Steady
<1>7. ASSUME NEW c \in Callers, Route(e, c)
      PROVE  Steady
  <2>1. SteadyEntries
    <3>1. entry[e].pending \ {c} \in SUBSET Callers
      BY DEF TypeOK, EntryRec
    <3>2. \E P \in SUBSET Callers : entry' = [entry EXCEPT ![e].pending = P]
      BY <1>7, <3>1 DEF Route, TypeOK
    <3> QED BY <3>2, EntryUpdates
  <2>2. \A s \in Streams : SteadyCall(s)
    BY <1>7, CallUpdates DEF Route, Outcomes, Clients
  <2>3. \A f \in Entries : SteadyWorker(f)
    BY <1>7 DEF Route, SteadyWorker
  <2> QED BY <2>1, <2>2, <2>3 DEF Steady
<1> QED
  BY <1>2, <1>3, <1>4, <1>5, <1>6, <1>7 DEF ControlWrite, ControlRefused, ControlPc

-----------------------------------------------------------------------------
(* The other steps.                                                        *)

\* The stream reports the stored id.
LEMMA AnnounceIds ==
  ASSUME TypeOK, CallInv, IdInv, NEW s \in Streams, OmpAnnounce(s)
  PROVE  IdInv'
<1>1. s \in Clients /\ client[s].pc = "announce" /\ UNCHANGED <<worker, omp_session_id>>
  BY DEF OmpAnnounce, Clients
<1>2. PICK e \in Entries : e = client[s].entry
  BY <1>1, KnownHasWorker
<1>3. SteadyEntries
  BY <1>2, EntryUpdates DEF OmpAnnounce
<1>4. \A f \in Entries : SteadyWorker(f)
  BY <1>1 DEF SteadyWorker
<1>5. CASE omp_session_id[e] = None
  <2>1. \A t \in Streams : SteadyCall(t)
    BY <1>1, <1>2, <1>5, CallUpdates DEF OmpAnnounce, Outcomes
  <2>2. UNCHANGED reported
    BY <1>2, <1>5 DEF OmpAnnounce
  <2> QED BY <1>1, <1>3, <1>4, <2>1, <2>2, SteadyKeepsIds DEF Steady
<1>6. CASE omp_session_id[e] # None
  <2>1. At(s, "enqueue") /\ reported' = [reported EXCEPT ![s] = omp_session_id[e]]
    BY <1>2, <1>6 DEF OmpAnnounce
  <2>2. OmpTypes'
    BY <1>1, <2>1 DEF IdInv, OmpTypes
  <2>3. ASSUME NEW f \in Entries PROVE Learned(f)' /\ Stored(f)'
    BY <1>1, <1>3 DEF IdInv, SteadyEntries, Learned, Stored
  <2>4. ASSUME NEW t \in Streams PROVE Reported(t)'
    <3>1. /\ OthersStay({s}) /\ client'[s].entry = e
          /\ reported'[s] = omp_session_id[e]
          /\ \A u \in Streams \ {s} : reported'[u] = reported[u]
      BY <1>1, <1>2, <2>1, Going DEF IdInv, OmpTypes
    <3> QED BY <1>1, <1>6, <3>1 DEF IdInv, Reported, OthersStay, Clients
  <2> QED BY <2>2, <2>3, <2>4 DEF IdInv
<1> QED BY <1>5, <1>6

\* The worker learns the id, moves to it and stores it.
LEMMA StartIds ==
  ASSUME TypeOK, RegistryInv, CallInv, IdInv, NEW e \in Entries, StartStep(e)
  PROVE  IdInv'
<1>1. /\ worker[e].pc \in {"handshake", "rekey", "publish"}
      /\ UNCHANGED <<client, reported>>
  BY DEF StartStep, Accepted, RekeyFails, RekeyMoves, Publish
<1>2. /\ Learned(e) /\ ~entry[e].initialized /\ omp_session_id[e] = None
      /\ \A f \in Entries \ {e} : worker'[f] = worker[f]
  BY <1>1, StartMoves DEF IdInv, Learned, StartPc
<1>3. \A s \in Streams : client[s].pc \in ReportedPc => client[s].entry # e
  BY <1>2 DEF IdInv, Reported
<1>4. TypeOK' /\ OmpTypes'
  BY OwnTypes DEF OwnStep
<1>5. \A f \in Entries \ {e} : /\ entry'[f] = entry[f]
                               /\ omp_session_id'[f] = omp_session_id[f]
  BY DEF StartStep, Accepted, RekeyFails, RekeyMoves, Publish, TypeOK, IdInv, OmpTypes
<1>6. \A f \in Entries \ {e} : Learned(f)' /\ Stored(f)'
  BY <1>2, <1>5 DEF IdInv, Learned, Stored
<1>7. \A s \in Streams : Reported(s)'
  <2> SUFFICES ASSUME NEW s \in Streams, client[s].pc \in ReportedPc
               PROVE  /\ omp_session_id'[client[s].entry] # None
                      /\ reported[s] = omp_session_id'[client[s].entry]
    BY <1>1 DEF Reported
  <2>1. omp_session_id'[client[s].entry] = omp_session_id[client[s].entry]
    <3>1. \/ UNCHANGED omp_session_id
          \/ omp_session_id' = [omp_session_id EXCEPT ![e] = worker[e].session]
      BY DEF StartStep, Accepted, RekeyFails, RekeyMoves, Publish
    <3>2. client[s].entry # e
      BY <1>3
    <3>3. client[s].entry \in Entries
      BY KnownHasWorker DEF ReportedPc, Clients
    <3> QED BY <3>1, <3>2, <3>3 DEF IdInv, OmpTypes
  <2> QED BY <2>1 DEF IdInv, Reported
<1>8. Learned(e)' /\ Stored(e)'
  <2>1. ASSUME NEW k \in Ids, Accepted(e, k)
        PROVE  Learned(e)' /\ Stored(e)'
    <3>1. /\ worker'[e].session = k /\ worker'[e].key = worker[e].key
          /\ worker'[e].pc = IF worker[e].key \in Ids THEN "publish" ELSE "rekey"
          /\ UNCHANGED <<entry, omp_session_id>>
      BY <2>1 DEF Accepted, TypeOK, WorkerRec
    <3>2. k \in Keys /\ (worker[e].key \in Ids => k = worker[e].key)
      BY <2>1 DEF Accepted, Expected, Ids
    <3> QED BY <1>2, <3>1, <3>2 DEF Learned, Stored
  <2>2. CASE RekeyFails(e)
    <3>1. worker'[e].pc = "exit" /\ worker'[e].key = worker[e].key /\ UNCHANGED omp_session_id
      BY <2>2, ToMoves DEF RekeyFails
    <3>2. ~entry'[e].initialized
      BY <1>2, <2>2 DEF RekeyFails, TypeOK, EntryRec
    <3> QED BY <3>1, <3>2 DEF Learned, Stored, StartPc
  <2>3. CASE RekeyMoves(e)
    <3>1. /\ worker'[e].session = worker[e].session /\ worker'[e].key = worker[e].session
          /\ worker'[e].pc = "publish"
          /\ UNCHANGED <<entry, omp_session_id>>
      BY <2>3 DEF RekeyMoves, TypeOK, WorkerRec
    <3>2. worker[e].session \in Keys
      BY <1>2, <2>3 DEF RekeyMoves, Learned
    <3> QED BY <1>2, <3>1, <3>2 DEF Learned, Stored
  <2>4. CASE Publish(e)
    <3>1. /\ worker'[e].pc = "idle" /\ worker'[e].key = worker[e].key
          /\ worker[e].session = worker[e].key
      BY <1>2, <2>4, ToMoves DEF Publish, Learned
    <3>2. omp_session_id'[e] = worker[e].session
      BY <2>4 DEF Publish, IdInv, OmpTypes
    <3> QED BY <3>1, <3>2 DEF Learned, Stored, StartPc
  <2> QED BY <2>1, <2>2, <2>3, <2>4 DEF StartStep
<1> QED BY <1>4, <1>6, <1>7, <1>8 DEF IdInv

\* The stored id moves with the entry, and no stream waits on it meanwhile: the
\* control command is the only owner of busy.
LEMMA RekeyIds ==
  ASSUME TypeOK, CallInv, IdInv, NEW e \in Entries, OmpRekey(e)
  PROVE  IdInv'
<1>1. worker[e].pc = "ctlState" /\ UNCHANGED reported
  BY DEF OmpRekey, Rekey
<1>2. /\ worker[e].cmd \in Callers /\ worker[e].cmd \in Clients
      /\ Holders(e) = {worker[e].cmd}
  BY <1>1, ServedHolds DEF CmdPc, ControlPc, CallInv, CallEntries, EntryInv, Served
<1>3. \A s \in Streams : client[s].pc \in ReportedPc => client[s].entry # e
  BY <1>2, NamesDistinct DEF Holders, ReportedPc, Clients
<1>4. \A s \in Streams : SteadyCall(s)
  BY <1>2, CallUpdates DEF OmpRekey, Rekey, Abandon, Adopt, Reply, Outcomes
<1>5. SteadyEntries
  <2>1. CASE entry' = [entry EXCEPT ![e].busy = FALSE]
    BY <2>1, EntryUpdates
  <2>2. CASE entry' = [entry EXCEPT ![e].closing = TRUE, ![e].process = Killed(e),
                                    ![e].busy = FALSE]
    <3>1. \A f \in Entries : entry'[f].initialized = entry[f].initialized
      BY <2>2 DEF TypeOK, EntryRec
    <3> QED BY <3>1 DEF SteadyEntries
  <2> QED BY <2>1, <2>2 DEF OmpRekey, Rekey, Abandon, Adopt
<1>6. /\ worker'[e].pc \in {"reap", "idle"}
      /\ worker'[e].key \in {worker[e].key, worker[e].session}
      /\ \A f \in Entries \ {e} : worker'[f] = worker[f]
  <2>1. CASE Abandon(e)
    BY <2>1, ReplyMoves DEF Abandon, Outcomes
  <2>2. CASE Adopt(e)
    <3>1. PICK p \in {"reap", "idle"} :
            worker' = [worker EXCEPT ![e].key = worker[e].session, ![e].cmd = None, ![e].pc = p]
      BY <2>2 DEF Adopt
    <3> QED BY <3>1 DEF TypeOK, WorkerRec
  <2> QED BY <2>1, <2>2 DEF OmpRekey, Rekey
<1>7. /\ \A f \in Entries \ {e} : omp_session_id'[f] = omp_session_id[f]
      /\ omp_session_id'[e] = IF worker'[e].key = worker[e].key THEN omp_session_id[e]
                                                                ELSE worker'[e].key
      /\ omp_session_id' \in [Entries -> Keys \cup {None}]
  <2>1. worker'[e].key \in Keys \cup {None}
    BY <1>6 DEF TypeOK, WorkerRec
  <2> QED BY <2>1 DEF OmpRekey, IdInv, OmpTypes
<1>8. ASSUME NEW f \in Entries PROVE Learned(f)' /\ Stored(f)'
  <2>1. Learned(f) /\ Stored(f) /\ entry'[f].initialized = entry[f].initialized
    BY <1>5 DEF IdInv, SteadyEntries
  <2>2. CASE f = e
    BY <1>6, <1>7, <2>1, <2>2 DEF Learned, Stored, StartPc
  <2>3. CASE f # e
    BY <1>6, <1>7, <2>1, <2>3 DEF Learned, Stored
  <2> QED BY <2>2, <2>3
<1>9. ASSUME NEW s \in Streams PROVE Reported(s)'
  <2>1. client'[s].pc \in ReportedPc =>
          client[s].pc \in ReportedPc /\ client'[s].entry = client[s].entry
    BY <1>4 DEF SteadyCall
  <2>2. client[s].pc \in ReportedPc => client[s].entry \in Entries \ {e}
    BY <1>3, KnownHasWorker DEF ReportedPc, Clients
  <2> QED BY <1>1, <1>7, <2>1, <2>2 DEF IdInv, Reported
<1>10. OmpTypes'
  BY <1>1, <1>7 DEF IdInv, OmpTypes
<1> QED BY <1>8, <1>9, <1>10 DEF IdInv

\* Every step keeps the ids in order.
LEMMA IdStep ==
  ASSUME OmpInv, OmpNext
  PROVE  IdInv'
<1> USE DEF OmpInv
<1>i. Ids \subseteq Keys
  BY DEF Ids
<1>1. CASE Environment
  BY <1>1, StreamSteady, CloserSteady, SteadyKeepsIds DEF Environment
<1>2. ASSUME NEW s \in Streams, NEW k \in Keys, OmpReserve(s, k)
      PROVE  IdInv'
  BY <1>2, ReserveSteady, SteadyKeepsIds DEF OmpReserve
<1>3. ASSUME NEW s \in Streams, OmpAnnounce(s) \/ StreamPrompt(s)
      PROVE  IdInv'
  BY <1>3, AnnounceIds, StreamSteady, SteadyKeepsIds DEF StreamPrompt
<1>4. ASSUME NEW c \in Callers, SendCommand(c) \/ SendBusyControl(c)
      PROVE  IdInv'
  BY <1>i, <1>4, CallerSteady, SteadyKeepsIds DEF SendCommand, SendBusyControl, CallerStep
<1>5. ASSUME NEW x \in Closers, CloseSessions(x) \/ CloseSessionEntry(x)
      PROVE  IdInv'
  BY <1>5, CloserSteady, SteadyKeepsIds DEF CloseSessions, CloseSessionEntry, CloseAll
<1>6. ASSUME NEW e \in Entries, LeavePlaceholder(e) \/ Publish(e)
      PROVE  IdInv'
  <2>1. StartStep(e)
    BY <1>6 DEF LeavePlaceholder, RekeyFails, RekeyMoves, StartStep
  <2> QED BY <2>1, StartIds
<1>7. ASSUME NEW e \in Entries, NEW k \in Ids, OmpHandshake(e, k)
      PROVE  IdInv'
  <2>1. Accepted(e, k) \/ (HandshakeFails(e) /\ UNCHANGED <<omp_session_id, reported>>)
    BY <1>7 DEF OmpHandshake, Accepted, HandshakeFails
  <2>2. CASE Accepted(e, k)
    BY <2>2, StartIds DEF StartStep
  <2>3. CASE HandshakeFails(e) /\ UNCHANGED <<omp_session_id, reported>>
    BY <2>3, StartupSteady, SteadyKeepsIds
  <2> QED BY <2>1, <2>2, <2>3
<1>8. ASSUME NEW e \in Entries,
             SpawnCandidate(e) \/ WorkerLoop(e) \/ RunWorker(e)
      PROVE  IdInv'
  <2>1. Steady
    <3>1. CASE SpawnCandidate(e) \/ Boot(e)
      BY <3>1, StartupSteady DEF SpawnCandidate
    <3>2. CASE WorkerLoop(e)
      BY <3>2, LoopSteady, ChannelSteady DEF WorkerLoop
    <3>3. CASE RunWorker(e) /\ ~Boot(e)
      BY <3>3, LoopSteady, ChannelSteady, PromptSteady DEF RunWorker
    <3> QED BY <1>8, <3>1, <3>2, <3>3
  <2> QED BY <1>8, <2>1, SteadyKeepsIds DEF SpawnCandidate, WorkerLoop, RunWorker
<1>9. ASSUME NEW e \in Entries, PromptOnce(e) \/ HostToolCall(e) \/ ControlOnce(e)
      PROVE  IdInv'
  <2>1. Steady
    <3>1. CASE PromptOnce(e)
      BY <3>1, PromptSteady DEF PromptOnce
    <3>2. CASE HostToolCall(e)
      <4>1. PromptOutput(e) \/ ControlRefused(e)
        BY <3>2 DEF HostToolCall, PromptOutput
      <4> QED BY <4>1, PromptSteady, ControlSteady
    <3>3. CASE ControlOnce(e)
      BY <1>i, <3>3, ControlSteady DEF ControlOnce
    <3> QED BY <1>9, <3>1, <3>2, <3>3
  <2> QED BY <1>9, <2>1, SteadyKeepsIds DEF PromptOnce, HostToolCall, ControlOnce
<1>10. ASSUME NEW e \in Entries, OmpRekey(e) \/ CloserThreads(e)
       PROVE  IdInv'
  BY <1>10, RekeyIds, CloserSteady, SteadyKeepsIds DEF CloserThreads
<1> QED
  BY <1>1, <1>2, <1>3, <1>4, <1>5, <1>6, <1>7, <1>8, <1>9, <1>10 DEF OmpNext

LEMMA OmpStep == OmpInv /\ [OmpNext]_ompVars => OmpInv' /\ Answered
<1> SUFFICES ASSUME OmpInv, [OmpNext]_ompVars PROVE OmpInv' /\ Answered
  OBVIOUS
<1>1. CASE UNCHANGED ompVars
  <2>1. UNCHANGED vars /\ UNCHANGED <<omp_session_id, reported>>
    BY <1>1 DEF ompVars
  <2>2. Steady
    BY <2>1 DEF vars, Steady, SteadyEntries, SteadyWorker, SteadyCall
  <2> QED BY <2>1, <2>2, TypeStep, RegistryStep, CallStep, SteadyKeepsIds DEF OmpInv
<1>2. CASE OmpNext
  <2>1. IdInv'
    BY <1>2, IdStep
  <2>2. CASE [Next]_vars
    BY <2>1, <2>2, TypeStep, RegistryStep, CallStep DEF OmpInv
  <2>3. CASE OwnStep
    BY <2>1, <2>3, OwnTypes, OwnKeepsRegistry, OwnKeepsCalls DEF OmpInv
  <2> QED BY <1>2, <2>2, <2>3, OmpSteps
<1> QED BY <1>1, <1>2

\* The registry, the calls and the ids of omp are in order in every reachable
\* state, however many sessions and calls there are.
THEOREM OmpCorrect == OmpSpec => []OmpInv
<1>1. OmpInit => OmpInv
  <2>1. OmpInit => TypeOK /\ RegistryInv /\ CallInv
    BY TypeInit, RegistryInit, CallInit DEF OmpInit
  <2>2. OmpInit => IdInv
    BY DEF OmpInit, Init, FreshEntry, IdInv, OmpTypes, Learned, Stored, Reported, ReportedPc, Clients
  <2> QED BY <2>1, <2>2 DEF OmpInv
<1>2. OmpInv /\ [OmpNext]_ompVars => OmpInv'
  BY OmpStep
<1> QED BY <1>1, <1>2, PTL DEF OmpSpec

\* Leaving a placeholder, resuming and moving never put two open workers that
\* are not closing under the same id.
THEOREM OmpSessionsDistinct == OmpSpec => []OpenSessionsDistinct
<1>1. OmpInv => OpenSessionsDistinct
  BY DEF OmpInv, RegistryInv, OpenIsRegistered, OpenSessionsDistinct
<1> QED BY <1>1, OmpCorrect, PTL

\* The id that an entry stores is the key it is registered under, from the
\* moment it can be prompted.
THEOREM IdsAreKeys == OmpSpec => []StoredIdIsKey
<1>1. OmpInv => StoredIdIsKey
  BY DEF OmpInv, RegistryInv, OpenIsRegistered, IdInv, Stored, StoredIdIsKey
<1> QED BY <1>1, OmpCorrect, PTL

\* Every prompt runs under the id that its stream reported.
THEOREM ReportsStand == OmpSpec => []ReportedIsStored
<1>1. OmpInv => ReportedIsStored
  <2> SUFFICES ASSUME OmpInv, NEW e \in Entries,
                      worker[e].pc \in {"prompt", "prompting", "draining"}
               PROVE  reported[worker[e].cmd] = omp_session_id[e]
    BY DEF ReportedIsStored
  <2>1. /\ worker[e].cmd \in Streams /\ client[worker[e].cmd].pc = "served"
        /\ client[worker[e].cmd].entry = e
    BY DEF OmpInv, CallInv, CallEntries, EntryInv, Served, CmdPc, PromptPc
  <2> QED BY <2>1 DEF OmpInv, IdInv, Reported, ReportedPc
<1> QED BY <1>1, OmpCorrect, PTL

\* What is proved of the calls of Pi holds for those of omp.
THEOREM OmpCallsCorrect ==
  OmpSpec => /\ []OneCommandAtATime
             /\ []RefusedNeverSent
             /\ []NoReplayAfterWrite
             /\ []WaitersAreWaiting
             /\ AnsweredOnce
<1>1. OmpInv => OneCommandAtATime /\ RefusedNeverSent /\ NoReplayAfterWrite /\ WaitersAreWaiting
  BY DEF OmpInv, CallInv, CallEntries, EntryInv, Locked, Waited, Coherent, Clients,
         OneCommandAtATime, RefusedNeverSent, NoReplayAfterWrite, WaitersAreWaiting
<1>2. OmpInv /\ [OmpNext]_ompVars => [Answered]_vars
  BY OmpStep
<1>3. OmpSpec => [][Answered]_vars
  BY <1>2, OmpCorrect, PTL DEF OmpSpec
<1>4. [][Answered]_vars => AnsweredOnce
  BY PTL DEF Answered, AnsweredOnce
<1> QED BY <1>1, <1>3, <1>4, OmpCorrect, PTL
=============================================================================
