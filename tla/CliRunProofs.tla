----------------------------- MODULE CliRunProofs -----------------------------
(***************************************************************************)
(* What a prompt run of the command line promises, for every               *)
(* configuration, whatever its backends say and whenever Ctrl-C comes.     *)
(*                                                                         *)
(* The log says what was started.  Why nothing more is started follows     *)
(* from what the run knows beside it: how the last drain ended, whether    *)
(* the backend's thread is still there, and the providers that were left.  *)
(***************************************************************************)
EXTENDS CliRun, ResolveProofs

\* The type of every variable.
TypeOK ==
  /\ res \in ResRec
  /\ cli \in CliRec
  /\ cancel \in BOOLEAN
  /\ stream \in StreamRec
  /\ log \in Seq(LogRec)

\* Where the run is on a provider, and where on a stream of its backend.
OnEntry == cli.pc \in {"dispatch", "top", "recv", "outcome", "backoff", "switch"}
OnStream == cli.pc \in {"top", "recv", "outcome", "backoff", "switch"}

Progress ==
  /\ cli.pc = "start" => log = <<>> /\ cli.last_server_error = Unset /\ cli.excluded = {}
  /\ cli.pc = "resolve" => res.pc # "idle"
  /\ OnEntry => res.pc = "found"
  /\ OnEntry \/ cli.pc = "resolve" => cli.opts \in Options
  /\ OnStream => log # <<>>
  /\ cli.pc # "end" => cli.result = Unset

\* The outcomes after which another backend may be started.
MovesOn == {"Limit", "server", "throttled", "client"}

\* The backend's thread is gone where the next one is about to start: its
\* terminal chunk or the end of its channel was read.
ThreadEnds ==
  /\ cli.pc \in {"start", "resolve", "dispatch", "backoff"} => stream.worker # "running"
  /\ cli.pc \in {"outcome", "switch"} /\ cli.outcome \in MovesOn => stream.worker # "running"
  /\ \A i \in 1..Len(stream.channel) : stream.channel[i] # "delta" => stream.worker = "ended"

\* How the drains ended, and what the last one means for the run.
History ==
  /\ \A i \in 1..Len(log) : i < Len(log) => log[i].outcome \in MovesOn
  /\ cli.pc \in {"resolve", "dispatch"} /\ log # <<>> => log[Len(log)].outcome \in MovesOn
  /\ cli.pc \in {"outcome", "backoff"} => log[Len(log)].outcome = cli.outcome
  /\ cli.pc = "backoff" => cli.outcome \in MovesOn
  /\ cli.pc = "switch" /\ cli.outcome # "Cancelled" => log[Len(log)].outcome = cli.outcome

\* A server error that is remembered while a provider is sought is the last one.
Remembered ==
  cli.pc = "resolve" /\ cli.last_server_error # Unset =>
    log # <<>> /\ log[Len(log)].outcome = "server"

\* Only the last backend can have been started after Ctrl-C, and then the run
\* does not look at what it says.
LateIsLast ==
  \A i \in 1..Len(log) : log[i].late =>
    /\ i = Len(log) /\ cancel
    /\ cli.pc \in {"top", "outcome", "switch", "end"}
    /\ cli.pc \in {"outcome", "switch"} => cli.outcome = "Cancelled"

\* A resumed run resolves once, before its first stream.
Pinned ==
  Resume =>
    /\ cli.pc \in {"start", "resolve"} => log = <<>>
    /\ OnEntry => Compatible(Config[res.picked].sdk, cli.owner)
    /\ \A i \in 1..Len(log) :
         log[i].entry = res.picked /\ Compatible(Config[log[i].entry].sdk, cli.owner)

\* The streams of an entry: only the one the run is on can have more.
Tried(e) == {i \in 1..Len(log) : log[i].entry = e}
Counting ==
  /\ \A e \in ConfigEntries :
       /\ Cardinality(Tried(e)) <= effective_max_attempts(e)
       /\ Tried(e) # {} /\ cli.pc # "end" =>
            (OnEntry /\ e = res.picked) \/ Provider(e) \in cli.excluded
  /\ cli.pc = "dispatch" => /\ Cardinality(Tried(res.picked)) = cli.attempt - 1
                            /\ cli.attempt <= effective_max_attempts(res.picked)
  /\ cli.pc \in {"top", "recv", "outcome", "backoff"} =>
       Cardinality(Tried(res.picked)) = cli.attempt
  /\ cli.pc = "backoff" => cli.attempt < effective_max_attempts(res.picked)

CliInv ==
  /\ TypeOK /\ Resolution /\ Offers(cli.excluded)
  /\ Progress /\ ThreadEnds /\ History /\ Remembered /\ ServerErrorIsFresh
  /\ LateIsLast /\ Pinned /\ Counting
-----------------------------------------------------------------------------
(* Facts about the data *)

\* Every policy allows an attempt.
LEMMA MaxIsPositive ==
  ASSUME NEW e \in ConfigEntries
  PROVE  effective_max_attempts(e) \in Nat /\ effective_max_attempts(e) >= 1
BY RetryShape DEF RetryRec, effective_max_attempts

LEMMA UnsetIsNone == Unset # "server" /\ Unset \notin Outcomes /\ Unset # "Cancelled"
BY UnsetIsNoResult DEF Results, Outcomes, MessageClasses

LEMMA MovesOnAreOutcomes == MovesOn \subseteq Outcomes /\ "Cancelled" \notin MovesOn
BY DEF MovesOn, Outcomes, MessageClasses

\* What the run is on while it is on an entry.
LEMMA PickedIsEntry ==
  ASSUME CliInv, OnEntry
  PROVE  res.picked \in ConfigEntries /\ Provider(res.picked) \notin cli.excluded
BY DEF CliInv, Progress, Resolution, Offers, TypeOK, ResRec

LEMMA TriedIsFinite ==
  ASSUME TypeOK, NEW e PROVE IsFiniteSet(Tried(e)) /\ Cardinality(Tried(e)) \in Nat
<1>1. Len(log) \in Nat
  BY DEF TypeOK
<1>2. IsFiniteSet(1..Len(log)) /\ Tried(e) \subseteq 1..Len(log)
  BY <1>1, FS_Interval DEF Tried
<1> QED BY <1>2, FS_Subset, FS_CardinalityType

\* What a step says of the past is kept when it leaves the log alone.
LEMMA SameLog ==
  ASSUME UNCHANGED log
  PROVE  \A e : Tried(e)' = Tried(e)
BY DEF Tried

-----------------------------------------------------------------------------
(* Steps that leave the log alone *)

LEMMA CliStarts == Init => CliInv
<1> SUFFICES ASSUME Init PROVE CliInv
  OBVIOUS
<1>1. log = <<>> /\ Len(log) = 0 /\ cli.pc = "start" /\ res = NoResolution /\ cli.result = Unset
      /\ cli.last_server_error = Unset /\ cli.owner = Unset /\ cli.excluded = {}
      /\ stream = [worker |-> "none", deltas |-> 0, channel |-> <<>>]
  BY DEF Init
<1>2. TypeOK
  <2>1. res \in ResRec
    BY <1>1, ResolveConstants DEF NoResolution, Unprobed, ResRec, ResPc
  <2>2. cli \in CliRec
    <3>1. (\E P : P = {}) /\ 1 \in Nat
      OBVIOUS
    <3>2. PICK P : P = {}
      BY <3>1
    <3>3. P \subseteq Providers
      BY <3>2
    <3> HIDE DEF Providers, Results, Outcomes
    <3> QED BY <3>1, <3>2, <3>3 DEF Init, CliRec, CliPc
  <2>3. stream \in StreamRec
    <3>1. <<>> \in Seq(Chunks) /\ 0 \in 0..MaxDeltas
      BY EmptySeq, MaxDeltasNat
    <3> QED BY <1>1, <3>1 DEF StreamRec
  <2>4. log \in Seq(LogRec)
    BY <1>1, EmptySeq
  <2> QED BY <2>1, <2>2, <2>3, <2>4 DEF Init, TypeOK
<1>3. Resolution /\ Offers(cli.excluded)
  BY <1>1 DEF Resolution, Offers, PickedIsBest, NoResolution
<1>4. Counting
  <2>1. \A e : Tried(e) = {}
    BY <1>1 DEF Tried
  <2>2. \A e \in ConfigEntries : Cardinality(Tried(e)) <= effective_max_attempts(e)
    BY <2>1, MaxIsPositive, FS_EmptySet
  <2> QED BY <1>1, <2>1, <2>2 DEF Counting
<1>5. ThreadEnds
  BY <1>1 DEF ThreadEnds
<1>6. Progress /\ History /\ Remembered /\ ServerErrorIsFresh /\ LateIsLast /\ Pinned
  BY <1>1, UnsetIsNone
  DEF Progress, OnEntry, OnStream, History, Remembered, ServerErrorIsFresh, LateIsLast, Pinned,
      Resume
<1> QED BY <1>2, <1>3, <1>4, <1>5, <1>6 DEF CliInv

\* Whatever ends the run: it says "server" only of its last stream.
LEMMA ExitKeeps ==
  ASSUME CliInv, NEW r \in Results \cup {Unset}, Exit(r), UNCHANGED <<res, cancel, stream, log>>,
         r = "server" => log # <<>> /\ log[Len(log)].outcome = "server"
  PROVE  CliInv'
<1>1. /\ cli'.pc = "end" /\ cli'.result = r /\ cli'.owner = cli.owner
      /\ cli'.excluded = cli.excluded /\ cli' \in CliRec
      /\ UNCHANGED <<res, cancel, stream, log>>
  BY DEF CliInv, TypeOK, CliRec, CliPc, Exit
<1>2. TypeOK' /\ Resolution' /\ Offers(cli.excluded)'
  BY <1>1, SameResolution DEF CliInv, TypeOK, Offers, Provider
<1>3. Progress' /\ ThreadEnds' /\ Remembered' /\ ServerErrorIsFresh'
  BY <1>1
  DEF CliInv, Progress, OnEntry, OnStream, ThreadEnds, Remembered, ServerErrorIsFresh
<1>4. History' /\ LateIsLast'
  BY <1>1 DEF CliInv, History, LateIsLast
<1>5. Pinned'
  BY <1>1 DEF CliInv, Pinned, Resume, OnEntry, Compatible
<1>6. Counting'
  BY <1>1, SameLog DEF CliInv, Counting, OnEntry, effective_max_attempts
<1> QED BY <1>2, <1>3, <1>4, <1>5, <1>6 DEF CliInv

LEMMA SessionNotFoundKeeps == ASSUME CliInv, SessionNotFound PROVE CliInv'
<1>1. "notFound" \in Results /\ Exit("notFound") /\ UNCHANGED <<res, cancel, stream, log>>
  BY DEF SessionNotFound, Results
<1> QED BY <1>1, ExitKeeps

LEMMA StartKeeps ==
  ASSUME CliInv, NEW o \in Options, NEW deadline \in BOOLEAN, NEW owner \in Owners \cup {Unset},
         Start(o, deadline, owner)
  PROVE  CliInv'
<1>1. /\ cli.pc = "start" /\ log = <<>> /\ Len(log) = 0 /\ UNCHANGED <<cancel, stream, log>>
      /\ cli \in CliRec /\ cli.last_server_error = Unset /\ cli.result = Unset
      /\ cli.excluded = {} /\ Begin(o, cli.excluded)
      /\ cli' = [cli EXCEPT !.pc = "resolve", !.opts = o, !.deadline = deadline, !.owner = owner]
  BY DEF CliInv, TypeOK, Progress, Start
<1>2. /\ cli' \in CliRec /\ cli'.pc = "resolve" /\ cli'.opts = o /\ cli'.result = Unset
      /\ cli'.last_server_error = Unset /\ cli'.excluded = cli.excluded
  BY <1>1 DEF CliRec, CliPc
<1>3. /\ res' \in ResRec /\ res'.pc \in {"top", "noMatch"} /\ Resolution'
      /\ \A e \in res'.candidates : Provider(e) \notin cli.excluded
  BY <1>1, BeginResolves
<1>4. TypeOK' /\ Offers(cli.excluded)'
  BY <1>1, <1>2, <1>3 DEF CliInv, TypeOK, Offers, Provider
<1>5. Progress' /\ ThreadEnds' /\ Remembered' /\ ServerErrorIsFresh'
  BY <1>1, <1>2, <1>3, UnsetIsNone
  DEF CliInv, Progress, OnEntry, OnStream, ThreadEnds, Remembered, ServerErrorIsFresh
<1>6. History' /\ LateIsLast' /\ Pinned'
  BY <1>1, <1>2 DEF History, LateIsLast, Pinned, OnEntry, Resume
<1>7. Counting'
  <2>1. \A e : Tried(e)' = Tried(e) /\ Tried(e) = {}
    BY <1>1 DEF Tried
  <2> QED BY <1>2, <2>1 DEF Counting, CliInv, effective_max_attempts
<1> QED BY <1>3, <1>4, <1>5, <1>6, <1>7 DEF CliInv

\* Ctrl-C changes the token only.
LEMMA CancelKeeps ==
  ASSUME CliInv, UNCHANGED <<res, cli, stream, log>>, cancel' \in BOOLEAN, cancel => cancel'
  PROVE  CliInv'
<1>1. TypeOK' /\ Resolution' /\ Offers(cli.excluded)'
  BY SameResolution DEF CliInv, TypeOK, Offers, Provider
<1>2. Progress' /\ ThreadEnds' /\ Remembered' /\ ServerErrorIsFresh'
  BY DEF CliInv, Progress, OnEntry, OnStream, ThreadEnds, Remembered, ServerErrorIsFresh
<1>3. History' /\ LateIsLast' /\ Pinned'
  BY DEF CliInv, History, LateIsLast, Pinned, OnEntry, Resume, Compatible
<1>4. Counting'
  BY SameLog DEF CliInv, Counting, OnEntry, effective_max_attempts, Provider
<1> QED BY <1>1, <1>2, <1>3, <1>4 DEF CliInv

\* The backend sends while its thread runs; only its last chunk is not a delta.
LEMMA SendsKeep ==
  ASSUME CliInv, UNCHANGED <<res, cli, cancel, log>>, stream' \in StreamRec,
         stream.worker = "running" \/ stream' = stream,
         \A i \in 1..Len(stream'.channel) :
           stream'.channel[i] # "delta" => stream'.worker = "ended"
  PROVE  CliInv'
<1>1. TypeOK' /\ Resolution' /\ Offers(cli.excluded)'
  BY SameResolution DEF CliInv, TypeOK, Offers, Provider
<1>2. ThreadEnds'
  BY DEF CliInv, ThreadEnds
<1>3. Progress' /\ Remembered' /\ ServerErrorIsFresh'
  BY DEF CliInv, Progress, OnEntry, OnStream, Remembered, ServerErrorIsFresh
<1>4. History' /\ LateIsLast' /\ Pinned'
  BY DEF CliInv, History, LateIsLast, Pinned, OnEntry, Resume, Compatible
<1>5. Counting'
  BY SameLog DEF CliInv, Counting, OnEntry, effective_max_attempts, Provider
<1> QED BY <1>1, <1>2, <1>3, <1>4, <1>5 DEF CliInv

LEMMA WorkerKeeps ==
  ASSUME CliInv, SendDelta \/ SendTerminal \/ DropSender PROVE CliInv'
<1>1. /\ UNCHANGED <<res, cli, cancel, log>> /\ stream.worker = "running"
      /\ stream \in StreamRec /\ stream.channel \in Seq(Chunks) /\ MaxDeltas \in Nat
      /\ stream.deltas \in 0..MaxDeltas /\ Len(stream.channel) \in Nat
  <2>1. UNCHANGED <<res, cli, cancel, log>> /\ stream.worker = "running"
    BY DEF SendDelta, SendTerminal, DropSender
  <2>2. stream \in StreamRec /\ MaxDeltas \in Nat
    BY MaxDeltasNat DEF CliInv, TypeOK
  <2>3. stream.channel \in Seq(Chunks) /\ stream.deltas \in 0..MaxDeltas
    BY <2>2 DEF StreamRec
  <2> QED BY <2>1, <2>2, <2>3
<1>2. \A i \in 1..Len(stream.channel) : stream.channel[i] = "delta"
  BY <1>1 DEF CliInv, ThreadEnds
<1>3. CASE SendDelta
  <2>1. /\ stream' = [stream EXCEPT !.deltas = stream.deltas + 1,
                                    !.channel = Append(stream.channel, "delta")]
        /\ stream.deltas + 1 \in 0..MaxDeltas
    BY <1>1, <1>3 DEF SendDelta
  <2>2. "delta" \in Chunks /\ Append(stream.channel, "delta") \in Seq(Chunks)
    BY <1>1 DEF Chunks
  <2>3. stream' \in StreamRec /\ stream'.channel = Append(stream.channel, "delta")
    BY <1>1, <2>1, <2>2 DEF StreamRec
  <2>4. \A i \in 1..Len(stream'.channel) : stream'.channel[i] = "delta"
    BY <1>1, <1>2, <2>3
  <2> QED BY <1>1, <2>3, <2>4, SendsKeep
<1>4. CASE SendTerminal
  <2>1. PICK chunk \in Chunks \ {"delta"} :
          stream' = [stream EXCEPT !.worker = "ended", !.channel = Append(stream.channel, chunk)]
    BY <1>1, <1>4 DEF SendTerminal
  <2>2. Append(stream.channel, chunk) \in Seq(Chunks)
    BY <1>1, <2>1
  <2>3. stream' \in StreamRec /\ stream'.worker = "ended"
    BY <1>1, <2>1, <2>2 DEF StreamRec
  <2> QED BY <1>1, <2>3, SendsKeep
<1>5. CASE DropSender
  <2>1. stream' \in StreamRec /\ stream'.worker = "ended"
    BY <1>1, <1>5 DEF DropSender, StreamRec
  <2> QED BY <1>1, <2>1, SendsKeep
<1> QED BY <1>3, <1>4, <1>5

-----------------------------------------------------------------------------
(* Resolving *)

LEMMA ResolvingKeeps == ASSUME CliInv, Resolving PROVE CliInv'
<1>1. cli.pc = "resolve" /\ ResolveStep(cancel) /\ UNCHANGED <<cli, cancel, stream, log>>
      /\ cancel \in BOOLEAN /\ res.pc # "idle" /\ res \in ResRec /\ Resolution
  BY DEF Resolving, CliInv, TypeOK, Progress
<1>2. /\ res' \in ResRec /\ Resolution'
      /\ res'.opts = res.opts /\ res'.candidates = res.candidates /\ res'.pc # "idle"
  BY <1>1, ResolveTypes, ResolveKeeps, ResolveFrame
<1>3. TypeOK' /\ Offers(cli.excluded)'
  BY <1>1, <1>2 DEF CliInv, TypeOK, Offers, Provider
<1>4. Progress' /\ ThreadEnds' /\ Remembered' /\ ServerErrorIsFresh'
  BY <1>1, <1>2
  DEF CliInv, Progress, OnEntry, OnStream, ThreadEnds, Remembered, ServerErrorIsFresh
<1>5. History' /\ LateIsLast'
  BY <1>1 DEF CliInv, History, LateIsLast
<1>6. Pinned'
  <2>1. Resume => log = <<>> /\ Len(log) = 0
    BY <1>1 DEF CliInv, Pinned
  <2> QED BY <1>1, <2>1 DEF Pinned, OnEntry, Resume
<1>7. Counting'
  BY <1>1, SameLog DEF CliInv, Counting, OnEntry, effective_max_attempts, Provider
<1> QED BY <1>2, <1>3, <1>4, <1>5, <1>6, <1>7 DEF CliInv

\* A provider is found: its first stream is about to start.
LEMMA FoundKeeps ==
  ASSUME CliInv, cli.pc = "resolve", res.pc = "found",
         Resume => Compatible(Config[res.picked].sdk, cli.owner),
         cli' = [cli EXCEPT !.pc = "dispatch", !.attempt = 1],
         UNCHANGED <<res, cancel, stream, log>>
  PROVE  CliInv'
<1>1. /\ cli' \in CliRec /\ cli'.pc = "dispatch" /\ cli'.attempt = 1 /\ cli'.owner = cli.owner
      /\ cli'.excluded = cli.excluded /\ cli'.opts = cli.opts /\ cli'.result = cli.result
  BY DEF CliInv, TypeOK, CliRec, CliPc
<1>2. res.picked \in res.candidates /\ res.picked \in ConfigEntries
      /\ Provider(res.picked) \notin cli.excluded
  BY DEF CliInv, Resolution, Offers, TypeOK, ResRec
<1>3. TypeOK' /\ Resolution' /\ Offers(cli.excluded)'
  BY <1>1, SameResolution DEF CliInv, TypeOK, Offers, Provider
<1>4. Progress' /\ ThreadEnds' /\ Remembered' /\ ServerErrorIsFresh'
  BY <1>1, UnsetIsNone
  DEF CliInv, Progress, OnEntry, OnStream, ThreadEnds, Remembered, ServerErrorIsFresh
<1>5. History'
  BY <1>1 DEF CliInv, History
<1>6. LateIsLast' /\ Pinned'
  BY <1>1 DEF CliInv, LateIsLast, Pinned, OnEntry, Resume, Compatible
<1>7. Counting'
  <2>1. \A e \in ConfigEntries :
          /\ Cardinality(Tried(e)) <= effective_max_attempts(e)
          /\ Tried(e) # {} => Provider(e) \in cli.excluded
    BY DEF CliInv, Counting, OnEntry
  <2>2. Tried(res.picked) = {} /\ Cardinality(Tried(res.picked)) = 0
    BY <1>2, <2>1, FS_EmptySet
  <2>3. effective_max_attempts(res.picked) >= 1
    BY <1>2, MaxIsPositive
  <2>4. Tried(res.picked)' = Tried(res.picked) /\ \A e : Tried(e)' = Tried(e)
    BY DEF Tried
  <2> QED BY <1>1, <2>1, <2>2, <2>3, <2>4 DEF Counting, OnEntry, effective_max_attempts, Provider
<1> QED BY <1>3, <1>4, <1>5, <1>6, <1>7 DEF CliInv

LEMMA ResolvedKeeps == ASSUME CliInv, Resolved PROVE CliInv'
<1>1. cli.pc = "resolve" /\ UNCHANGED <<res, cancel, stream, log>>
  BY DEF Resolved
<1>2. \/ /\ res.pc = "found" /\ (Resume => Compatible(Config[res.picked].sdk, cli.owner))
         /\ cli' = [cli EXCEPT !.pc = "dispatch", !.attempt = 1]
      \/ \E r \in {"otherBackend", "noMatch", "allLimited"} : Exit(r)
      \/ cli.last_server_error # Unset /\ Exit("server")
  BY DEF Resolved
<1>3. ASSUME NEW r \in {"otherBackend", "noMatch", "allLimited"}, Exit(r) PROVE CliInv'
  BY <1>1, <1>3, ExitKeeps DEF Results
<1>4. CASE cli.last_server_error # Unset /\ Exit("server")
  <2>1. log # <<>> /\ log[Len(log)].outcome = "server" /\ "server" \in Results
    BY <1>1, <1>4 DEF CliInv, Remembered, Results, Outcomes, MessageClasses
  <2> QED BY <1>1, <1>4, <2>1, ExitKeeps
<1> QED BY <1>1, <1>2, <1>3, <1>4, FoundKeeps

-----------------------------------------------------------------------------
(* A stream starts *)

LEMMA DispatchIsLogged ==
  ASSUME CliInv, Dispatch
  PROVE  /\ cli.pc = "dispatch" /\ UNCHANGED <<res, cancel>> /\ res.picked \in ConfigEntries
         /\ log' \in Seq(LogRec) /\ Len(log) \in Nat /\ Len(log') = Len(log) + 1 /\ log' # <<>>
         /\ \A i \in 1..Len(log) : log'[i] = log[i]
         /\ log'[Len(log) + 1].entry = res.picked /\ log'[Len(log) + 1].late = cancel
<1> DEFINE r == [entry |-> res.picked, outcome |-> Unset, late |-> cancel]
<1>1. cli.pc = "dispatch" /\ UNCHANGED <<res, cancel>> /\ log' = Append(log, r)
  BY DEF Dispatch
<1>2. res.picked \in ConfigEntries
  BY <1>1, PickedIsEntry DEF OnEntry
<1>3. log \in Seq(LogRec) /\ r \in LogRec
  BY <1>2 DEF CliInv, TypeOK, LogRec
<1>4. r.entry = res.picked /\ r.late = cancel
  OBVIOUS
<1> HIDE DEF r
<1>5. /\ log' \in Seq(LogRec) /\ Len(log) \in Nat /\ Len(log') = Len(log) + 1 /\ log' # <<>>
      /\ \A i \in 1..Len(log) : log'[i] = log[i]
      /\ log'[Len(log')] = r
  BY <1>1, <1>3, Appending
<1> QED BY <1>1, <1>2, <1>4, <1>5

\* It counts for its entry and for no other.
LEMMA DispatchCounts ==
  ASSUME CliInv, Dispatch
  PROVE  /\ \A e \in ConfigEntries \ {res.picked} : Tried(e)' = Tried(e)
         /\ Cardinality(Tried(res.picked)') = cli.attempt
         /\ cli.attempt <= effective_max_attempts(res.picked)
<1> DEFINE n == Len(log) + 1
<1>1. /\ Len(log) \in Nat /\ Len(log') = n
      /\ \A i \in 1..Len(log) : log'[i] = log[i]
      /\ log'[n].entry = res.picked
      /\ UNCHANGED res /\ cli.pc = "dispatch"
  BY DispatchIsLogged
<1>2. 1..Len(log') = (1..Len(log)) \cup {n} /\ n \notin 1..Len(log)
  BY <1>1
<1>3. \A e \in ConfigEntries \ {res.picked} : Tried(e)' = Tried(e)
  BY <1>1, <1>2 DEF Tried
<1>4. Tried(res.picked)' = Tried(res.picked) \cup {n}
  BY <1>1, <1>2 DEF Tried
<1>5. n \notin Tried(res.picked)
  BY <1>2 DEF Tried
<1>6. cli.attempt \in Nat /\ Cardinality(Tried(res.picked)) = cli.attempt - 1
      /\ cli.attempt <= effective_max_attempts(res.picked)
  BY <1>1 DEF CliInv, Counting, TypeOK, CliRec
<1>7. IsFiniteSet(Tried(res.picked))
  BY TriedIsFinite DEF CliInv
<1>8. Cardinality(Tried(res.picked) \cup {n}) = cli.attempt
  <2> HIDE DEF n
  <2>1. Cardinality(Tried(res.picked) \cup {n}) = Cardinality(Tried(res.picked)) + 1
    BY <1>5, <1>7, FS_AddElement
  <2> QED BY <1>6, <2>1
<1> QED BY <1>3, <1>4, <1>6, <1>8

LEMMA DispatchKeeps == ASSUME CliInv, Dispatch PROVE CliInv'
<1> DEFINE n == Len(log)
<1>1. /\ cli.pc = "dispatch" /\ UNCHANGED <<res, cancel>> /\ res.picked \in ConfigEntries
      /\ log' \in Seq(LogRec) /\ n \in Nat /\ Len(log') = n + 1 /\ log' # <<>>
      /\ \A i \in 1..n : log'[i] = log[i]
      /\ log'[n + 1].entry = res.picked /\ log'[n + 1].late = cancel
  BY DispatchIsLogged
<1>2. /\ cli' \in CliRec /\ cli'.pc = "top" /\ cli'.owner = cli.owner /\ cli'.opts = cli.opts
      /\ cli'.excluded = cli.excluded /\ cli'.attempt = cli.attempt /\ cli'.result = cli.result
  BY DEF Dispatch, CliInv, TypeOK, CliRec, CliPc
<1>3. stream' \in StreamRec /\ stream'.channel = <<>> /\ Len(stream'.channel) = 0
  <2>1. <<>> \in Seq(Chunks) /\ 0 \in 0..MaxDeltas
    BY EmptySeq, MaxDeltasNat
  <2> QED BY <2>1 DEF Dispatch, StreamRec
<1>4. TypeOK' /\ Resolution' /\ Offers(cli.excluded)'
  BY <1>1, <1>2, <1>3, SameResolution DEF CliInv, TypeOK, Offers, Provider
<1>5. Progress' /\ ThreadEnds' /\ Remembered' /\ ServerErrorIsFresh'
  BY <1>1, <1>2, <1>3, UnsetIsNone
  DEF CliInv, Progress, OnEntry, OnStream, ThreadEnds, Remembered, ServerErrorIsFresh
<1>6. History'
  <2>1. \A i \in 1..n : log[i].outcome \in MovesOn
    <3>1. n # 0 => log # <<>>
      OBVIOUS
    <3> QED BY <1>1, <3>1 DEF CliInv, History
  <2>2. \A i \in 1..n+1 : i < n + 1 => i \in 1..n
    BY <1>1
  <2> QED BY <1>1, <1>2, <2>1, <2>2 DEF History
<1>7. LateIsLast'
  <2>1. \A i \in 1..n : ~log[i].late
    BY <1>1 DEF CliInv, LateIsLast
  <2>2. \A i \in 1..n+1 : i = n + 1 \/ i \in 1..n
    BY <1>1
  <2> QED BY <1>1, <1>2, <2>1, <2>2 DEF LateIsLast
<1>8. Pinned'
  <2>1. \A i \in 1..n+1 : i = n + 1 \/ i \in 1..n
    BY <1>1
  <2> QED BY <1>1, <1>2, <2>1 DEF CliInv, Pinned, Resume, OnEntry, Compatible
<1>9. Counting'
  <2>1. /\ \A e \in ConfigEntries \ {res.picked} : Tried(e)' = Tried(e)
        /\ Cardinality(Tried(res.picked)') = cli.attempt
        /\ cli.attempt <= effective_max_attempts(res.picked)
    BY DispatchCounts
  <2>2. ASSUME NEW e \in ConfigEntries, e # res.picked
        PROVE  /\ Cardinality(Tried(e)') <= effective_max_attempts(e)
               /\ Tried(e)' # {} => Provider(e) \in cli.excluded
    <3>1. Tried(e)' = Tried(e)
      BY <2>1, <2>2
    <3> QED BY <1>1, <2>2, <3>1 DEF CliInv, Counting, OnEntry
  <2> QED BY <1>1, <1>2, <2>1, <2>2
      DEF Counting, OnEntry, effective_max_attempts, Provider
<1> QED BY <1>4, <1>5, <1>6, <1>7, <1>8, <1>9 DEF CliInv

-----------------------------------------------------------------------------
(* The drain of a stream *)

\* What the end of a drain writes into the log.
LEMMA DrainIsLogged ==
  ASSUME log \in Seq(LogRec), log # <<>>, NEW o \in Outcomes, Drained(o)
  PROVE  /\ log' \in Seq(LogRec) /\ Len(log') = Len(log) /\ log' # <<>>
         /\ Len(log) \in Nat /\ Len(log) \in 1..Len(log)
         /\ \A i \in 1..Len(log) : log'[i].entry = log[i].entry /\ log'[i].late = log[i].late
         /\ \A i \in 1..Len(log) : i < Len(log) => log'[i] = log[i]
         /\ log'[Len(log)].outcome = o
<1> DEFINE n == Len(log)
           r == [log[n] EXCEPT !.outcome = o]
<1>1. n \in Nat /\ n \in 1..n /\ log[n] \in LogRec
  OBVIOUS
<1>2. r \in LogRec /\ r.entry = log[n].entry /\ r.late = log[n].late /\ r.outcome = o
  BY <1>1 DEF LogRec
<1>3. log' = [log EXCEPT ![n] = r]
  BY <1>1 DEF Drained
<1> HIDE DEF r
<1>4. log' \in Seq(LogRec) /\ Len(log') = n /\ log'[n] = r
      /\ \A i \in 1..n : i # n => log'[i] = log[i]
  BY <1>1, <1>2, <1>3
<1>5. log' # <<>>
  BY <1>1, <1>4
<1> QED BY <1>1, <1>2, <1>4, <1>5

\* Whatever ends the drain: when another backend may start after it the thread
\* of this one is gone, and a stream started after Ctrl-C is cancelled.
LEMMA DrainedKeeps ==
  ASSUME CliInv, cli.pc \in {"top", "recv"}, NEW o \in Outcomes, Drained(o),
         UNCHANGED <<res, cancel>>, stream' \in StreamRec, stream'.worker = stream.worker,
         \A i \in 1..Len(stream'.channel) :
           stream'.channel[i] # "delta" => stream.worker = "ended",
         o \in MovesOn => stream.worker # "running",
         cli.pc = "top" /\ cancel => o = "Cancelled"
  PROVE  CliInv'
<1> DEFINE n == Len(log)
<1>1. /\ log' \in Seq(LogRec) /\ Len(log') = n /\ log' # <<>>
      /\ n \in Nat /\ n \in 1..n
      /\ \A i \in 1..n : log'[i].entry = log[i].entry /\ log'[i].late = log[i].late
      /\ \A i \in 1..n : i < n => log'[i] = log[i]
      /\ log'[n].outcome = o
  <2>1. log \in Seq(LogRec) /\ log # <<>>
    BY DEF CliInv, TypeOK, Progress, OnStream
  <2> QED BY <2>1, DrainIsLogged
<1>2. /\ cli' \in CliRec /\ cli'.pc = "outcome" /\ cli'.outcome = o /\ cli'.owner = cli.owner
      /\ cli'.opts = cli.opts /\ cli'.excluded = cli.excluded /\ cli'.attempt = cli.attempt
      /\ cli'.result = cli.result
  BY DEF Drained, CliInv, TypeOK, CliRec, CliPc
<1>3. TypeOK' /\ Resolution' /\ Offers(cli.excluded)'
  BY <1>1, <1>2, SameResolution DEF CliInv, TypeOK, Offers, Provider
<1>4. Progress' /\ Remembered' /\ ServerErrorIsFresh'
  BY <1>1, <1>2, UnsetIsNone
  DEF CliInv, Progress, OnEntry, OnStream, Remembered, ServerErrorIsFresh
<1>5. ThreadEnds'
  BY <1>2 DEF ThreadEnds
<1>6. History'
  <2>1. \A i \in 1..n : i < n => log'[i].outcome \in MovesOn
    BY <1>1 DEF CliInv, History
  <2> QED BY <1>1, <1>2, <2>1 DEF History
<1>7. LateIsLast'
  BY <1>1, <1>2 DEF CliInv, LateIsLast
<1>8. Pinned'
  BY <1>1, <1>2 DEF CliInv, Pinned, Resume, OnEntry, Compatible
<1>9. Counting'
  <2>1. \A e : Tried(e)' = Tried(e)
    BY <1>1 DEF Tried
  <2>2. Tried(res.picked)' = Tried(res.picked)
    BY <1>1 DEF Tried
  <2> QED BY <1>2, <2>1, <2>2 DEF CliInv, Counting, OnEntry, effective_max_attempts, Provider
<1> QED BY <1>3, <1>4, <1>5, <1>6, <1>7, <1>8, <1>9 DEF CliInv

\* The drain goes on: from the head of its loop only when Ctrl-C has not come.
LEMMA DrainingKeeps ==
  ASSUME CliInv, cli.pc \in {"top", "recv"}, cli.pc = "top" => ~cancel,
         NEW pc \in {"top", "recv"}, cli' = [cli EXCEPT !.pc = pc],
         UNCHANGED <<res, cancel, log>>, stream' \in StreamRec, stream'.worker = stream.worker,
         \A i \in 1..Len(stream'.channel) :
           stream'.channel[i] # "delta" => stream.worker = "ended"
  PROVE  CliInv'
<1>1. /\ cli' \in CliRec /\ cli'.pc = pc /\ cli'.owner = cli.owner
      /\ cli'.opts = cli.opts /\ cli'.excluded = cli.excluded /\ cli'.attempt = cli.attempt
      /\ cli'.result = cli.result
  BY DEF CliInv, TypeOK, CliRec, CliPc
<1>2. TypeOK' /\ Resolution' /\ Offers(cli.excluded)'
  BY <1>1, SameResolution DEF CliInv, TypeOK, Offers, Provider
<1>3. Progress' /\ Remembered' /\ ServerErrorIsFresh' /\ ThreadEnds'
  BY <1>1, UnsetIsNone
  DEF CliInv, Progress, OnEntry, OnStream, Remembered, ServerErrorIsFresh, ThreadEnds
<1>4. History'
  BY <1>1 DEF CliInv, History
<1>5. LateIsLast'
  BY <1>1 DEF CliInv, LateIsLast
<1>6. Pinned'
  BY <1>1 DEF CliInv, Pinned, Resume, OnEntry, Compatible
<1>7. Counting'
  <2>1. \A e : Tried(e)' = Tried(e)
    BY DEF Tried
  <2>2. Tried(res.picked)' = Tried(res.picked)
    BY DEF Tried
  <2> QED BY <1>1, <2>1, <2>2 DEF CliInv, Counting, OnEntry, effective_max_attempts, Provider
<1> QED BY <1>2, <1>3, <1>4, <1>5, <1>6, <1>7 DEF CliInv

\* What is left of the channel after a chunk was taken.
LEMMA TailOfChannel ==
  ASSUME CliInv, stream.channel # <<>>, stream' = [stream EXCEPT !.channel = Tail(stream.channel)]
  PROVE  /\ stream' \in StreamRec /\ stream'.worker = stream.worker
         /\ \A i \in 1..Len(stream'.channel) :
              stream'.channel[i] # "delta" => stream.worker = "ended"
         /\ Head(stream.channel) \in Chunks
         /\ Head(stream.channel) # "delta" => stream.worker = "ended"
<1>1. stream \in StreamRec /\ stream.channel \in Seq(Chunks)
  BY DEF CliInv, TypeOK, StreamRec
<1>2. /\ Tail(stream.channel) \in Seq(Chunks) /\ Len(stream.channel) \in Nat
      /\ Len(Tail(stream.channel)) = Len(stream.channel) - 1
      /\ 1 \in 1..Len(stream.channel) /\ Head(stream.channel) = stream.channel[1]
      /\ Head(stream.channel) \in Chunks
      /\ \A i \in 1..Len(Tail(stream.channel)) :
           i + 1 \in 1..Len(stream.channel) /\ Tail(stream.channel)[i] = stream.channel[i + 1]
  BY <1>1
<1>3. stream' \in StreamRec /\ stream'.worker = stream.worker
      /\ stream'.channel = Tail(stream.channel)
  BY <1>1, <1>2 DEF StreamRec
<1> QED BY <1>2, <1>3 DEF CliInv, ThreadEnds

LEMMA SameStream ==
  ASSUME CliInv, UNCHANGED stream
  PROVE  /\ stream' \in StreamRec /\ stream'.worker = stream.worker
         /\ \A i \in 1..Len(stream'.channel) :
              stream'.channel[i] # "delta" => stream.worker = "ended"
BY DEF CliInv, TypeOK, ThreadEnds

LEMMA DrainKeeps ==
  ASSUME CliInv, LoopTop \/ TakeDelta \/ TakeTerminal \/ Disconnected \/ Expire
  PROVE  CliInv'
<1> USE DEF Outcomes, MessageClasses, MovesOn
<1>1. CASE LoopTop
  <2>1. cli.pc = "top" /\ UNCHANGED <<res, cancel, stream>>
        /\ \/ Drained("Cancelled")
           \/ ~cancel /\ Drained("Timeout")
           \/ ~cancel /\ cli' = [cli EXCEPT !.pc = "recv"] /\ UNCHANGED log
    BY <1>1 DEF LoopTop, StopsAtTop
  <2>2. CASE Drained("Cancelled")
    BY <2>1, <2>2, SameStream, DrainedKeeps
  <2>3. CASE ~cancel /\ Drained("Timeout")
    BY <2>1, <2>3, SameStream, DrainedKeeps
  <2>4. CASE ~cancel /\ cli' = [cli EXCEPT !.pc = "recv"] /\ UNCHANGED log
    BY <2>1, <2>4, SameStream, DrainingKeeps
  <2> QED BY <2>1, <2>2, <2>3, <2>4
<1>2. CASE TakeDelta
  <2>1. cli.pc = "recv" /\ UNCHANGED <<res, cancel>> /\ stream.channel # <<>>
        /\ stream' = [stream EXCEPT !.channel = Tail(stream.channel)]
        /\ \/ cli' = [cli EXCEPT !.pc = "top"] /\ UNCHANGED log
           \/ \E o \in {"Done", "other"} : Drained(o)
    BY <1>2 DEF TakeDelta, Arrived, WriteFailure
  <2>2. CASE cli' = [cli EXCEPT !.pc = "top"] /\ UNCHANGED log
    BY <2>1, <2>2, TailOfChannel, DrainingKeeps
  <2>3. ASSUME NEW o \in {"Done", "other"}, Drained(o) PROVE CliInv'
    BY <2>1, <2>3, TailOfChannel, DrainedKeeps
  <2> QED BY <2>1, <2>2, <2>3
<1>3. CASE TakeTerminal
  <2>1. cli.pc = "recv" /\ UNCHANGED <<res, cancel>> /\ stream.channel # <<>>
        /\ Head(stream.channel) # "delta"
        /\ stream' = [stream EXCEPT !.channel = Tail(stream.channel)]
        /\ \E o \in Outcomes : Drained(o)
    BY <1>3 DEF TakeTerminal, Arrived, WriteFailure
  <2>2. PICK o \in Outcomes : Drained(o)
    BY <2>1
  <2>3. stream.worker = "ended"
    BY <2>1, TailOfChannel
  <2> QED BY <2>1, <2>2, <2>3, TailOfChannel, DrainedKeeps
<1>4. CASE Disconnected
  <2>1. cli.pc = "recv" /\ Drained("other") /\ UNCHANGED <<res, cancel, stream>>
    BY <1>4 DEF Disconnected
  <2> QED BY <2>1, SameStream, DrainedKeeps
<1>5. CASE Expire
  <2>1. cli.pc = "recv" /\ UNCHANGED <<res, cancel, stream>>
        /\ \E o \in {"Timeout", "Cancelled"} : Drained(o)
    BY <1>5 DEF Expire, Expires
  <2>2. PICK o \in {"Timeout", "Cancelled"} : Drained(o)
    BY <2>1
  <2> QED BY <2>1, <2>2, SameStream, DrainedKeeps
<1> QED BY <1>1, <1>2, <1>3, <1>4, <1>5

-----------------------------------------------------------------------------
(* After the drain *)

\* Between the drain and the next start the run only decides.
LEMMA DecidingKeeps ==
  ASSUME CliInv, cli.pc \in {"outcome", "backoff"}, UNCHANGED <<res, cancel, stream, log>>,
         cli' \in CliRec, cli'.owner = cli.owner, cli'.opts = cli.opts,
         cli'.excluded = cli.excluded, cli'.result = cli.result,
         \/ /\ cli'.pc = "backoff" /\ cli.pc = "outcome" /\ cli'.outcome = cli.outcome
            /\ cli'.attempt = cli.attempt /\ cli.outcome \in MovesOn
            /\ cli.attempt < effective_max_attempts(res.picked)
         \/ /\ cli'.pc = "switch"
            /\ \/ cli'.outcome = cli.outcome /\ cli.pc = "outcome"
               \/ cli'.outcome = "Cancelled"
         \/ /\ cli'.pc = "dispatch" /\ cli.pc = "backoff" /\ cli'.attempt = cli.attempt + 1
  PROVE  CliInv'
<1>1. TypeOK' /\ Resolution' /\ Offers(cli.excluded)'
  BY SameResolution DEF CliInv, TypeOK, Offers, Provider
<1>2. Progress' /\ Remembered' /\ ServerErrorIsFresh'
  BY UnsetIsNone DEF CliInv, Progress, OnEntry, OnStream, Remembered, ServerErrorIsFresh
<1>3. ThreadEnds'
  BY MovesOnAreOutcomes DEF CliInv, ThreadEnds
<1>4. History'
  BY DEF CliInv, History
<1>5. LateIsLast'
  BY MovesOnAreOutcomes DEF CliInv, LateIsLast
<1>6. Pinned'
  BY DEF CliInv, Pinned, Resume, OnEntry, Compatible
<1>7. Counting'
  <2>1. \A e : Tried(e)' = Tried(e)
    BY DEF Tried
  <2>2. Tried(res.picked)' = Tried(res.picked)
    BY DEF Tried
  <2>3. cli.attempt \in Nat /\ res.picked \in ConfigEntries
    BY PickedIsEntry DEF CliInv, TypeOK, CliRec, OnEntry
  <2>4. effective_max_attempts(res.picked) \in Nat
    BY <2>3, MaxIsPositive
  <2>5. \A e \in ConfigEntries :
          /\ Cardinality(Tried(e)') <= effective_max_attempts(e)
          /\ Tried(e)' # {} => e = res.picked \/ Provider(e) \in cli.excluded
    BY <2>1 DEF CliInv, Counting, OnEntry
  <2>6. cli'.pc = "dispatch" => cli'.attempt <= effective_max_attempts(res.picked)
                             /\ Cardinality(Tried(res.picked)) = cli'.attempt - 1
    BY <2>3, <2>4 DEF CliInv, Counting
  <2>7. cli'.pc = "backoff" => Cardinality(Tried(res.picked)) = cli'.attempt
    BY DEF CliInv, Counting
  <2> QED BY <2>2, <2>5, <2>6, <2>7 DEF Counting, OnEntry, effective_max_attempts, Provider
<1> QED BY <1>1, <1>2, <1>3, <1>4, <1>5, <1>6, <1>7 DEF CliInv

LEMMA HttpRetryKeeps == ASSUME CliInv, HttpRetry PROVE CliInv'
<1>1. cli.pc = "outcome" /\ UNCHANGED <<res, cancel, stream, log>> /\ cli \in CliRec
  BY DEF HttpRetry, CliInv, TypeOK
<1>2. CASE Retries /\ cli' = [cli EXCEPT !.pc = "backoff"]
  <2>1. cli.outcome \in MovesOn
    BY <1>2 DEF Retries, MayRetryMessage, is_non_retryable_error, is_retryable_message,
                is_transient_http_error, is_server_error_message, is_client_error_retryable,
                MovesOn
  <2>2. cli.attempt < effective_max_attempts(res.picked)
    BY <1>2 DEF Retries
  <2>3. /\ cli' \in CliRec /\ cli'.pc = "backoff" /\ cli'.outcome = cli.outcome
        /\ cli'.owner = cli.owner /\ cli'.opts = cli.opts /\ cli'.attempt = cli.attempt
        /\ cli'.excluded = cli.excluded /\ cli'.result = cli.result
    BY <1>1, <1>2 DEF CliRec, CliPc
  <2> QED BY <1>1, <2>1, <2>2, <2>3, DecidingKeeps
<1>3. CASE cli' = [cli EXCEPT !.pc = "switch"]
  <2>1. /\ cli' \in CliRec /\ cli'.pc = "switch" /\ cli'.outcome = cli.outcome
        /\ cli'.owner = cli.owner /\ cli'.opts = cli.opts
        /\ cli'.excluded = cli.excluded /\ cli'.result = cli.result
    BY <1>1, <1>3 DEF CliRec, CliPc
  <2> QED BY <1>1, <2>1, DecidingKeeps
<1> QED BY <1>2, <1>3 DEF HttpRetry

LEMMA BackoffKeeps == ASSUME CliInv, Backoff PROVE CliInv'
<1>1. cli.pc = "backoff" /\ UNCHANGED <<res, cancel, stream, log>> /\ cli \in CliRec
      /\ cli.attempt \in Nat
  BY DEF Backoff, CliInv, TypeOK, CliRec
<1>2. CASE cli' = [cli EXCEPT !.pc = "switch", !.outcome = "Cancelled"]
  <2>1. /\ cli' \in CliRec /\ cli'.pc = "switch" /\ cli'.outcome = "Cancelled"
        /\ cli'.owner = cli.owner /\ cli'.opts = cli.opts
        /\ cli'.excluded = cli.excluded /\ cli'.result = cli.result
    BY <1>1, <1>2 DEF CliRec, CliPc, Outcomes
  <2> QED BY <1>1, <2>1, DecidingKeeps
<1>3. CASE cli' = [cli EXCEPT !.pc = "dispatch", !.attempt = cli.attempt + 1]
  <2>1. cli.attempt + 1 \in Nat
    BY <1>1
  <2>2. /\ cli' \in CliRec /\ cli'.pc = "dispatch" /\ cli'.attempt = cli.attempt + 1
        /\ cli'.owner = cli.owner /\ cli'.opts = cli.opts
        /\ cli'.excluded = cli.excluded /\ cli'.result = cli.result
    BY <1>1, <1>3, <2>1 DEF CliRec, CliPc
  <2> QED BY <1>1, <2>2, DecidingKeeps
<1> QED BY <1>1, <1>2, <1>3 DEF Backoff

LEMMA SwitchExits == ASSUME CliInv, Switch, ~Moves PROVE CliInv'
<1> DEFINE r == IF Resume /\ cli.outcome = "Limit" THEN "pinnedLimit" ELSE cli.outcome
<1>1. cli.pc = "switch" /\ UNCHANGED <<res, cancel, stream, log>> /\ Exit(r)
  BY DEF Switch
<1>2. r \in Results \cup {Unset}
  BY DEF CliInv, TypeOK, CliRec, Results
<1>3. r = "server" => log # <<>> /\ log[Len(log)].outcome = "server"
  BY <1>1 DEF CliInv, History, Progress, OnStream
<1> HIDE DEF r
<1> QED BY <1>1, <1>2, <1>3, ExitKeeps

\* The provider is left: no entry of it is a candidate again.
LEMMA SwitchMoves == ASSUME CliInv, Switch, Moves PROVE CliInv'
<1> DEFINE left == cli.excluded \cup {Provider(res.picked)}
<1>1. /\ cli.pc = "switch" /\ cli.outcome \in {"Limit", "server"} /\ ~Resume
      /\ UNCHANGED <<cancel, stream, log>> /\ Begin(cli.opts, cli'.excluded)
      /\ cli' = [cli EXCEPT !.pc = "resolve", !.last_server_error = ServerError,
                            !.excluded = left]
      /\ cli \in CliRec /\ cli.opts \in Options
  BY DEF Switch, Moves, CliInv, TypeOK, Progress, OnEntry
<1>2. res.picked \in ConfigEntries
  BY <1>1, PickedIsEntry DEF OnEntry
<1>3. left \subseteq Providers /\ ServerError \in {"server", Unset}
      /\ (ServerError # Unset => cli.outcome = "server")
  BY <1>1, <1>2 DEF CliRec, Providers, ServerError
<1>4. /\ cli'.pc = "resolve" /\ cli'.last_server_error = ServerError /\ cli'.excluded = left
      /\ cli'.owner = cli.owner /\ cli'.opts = cli.opts /\ cli'.result = cli.result
  BY <1>1 DEF CliRec
<1>5. cli' \in CliRec
  <2> HIDE DEF left
  <2> QED BY <1>1, <1>3 DEF CliRec, CliPc
<1>6. /\ res' \in ResRec /\ res'.pc \in {"top", "noMatch"} /\ Resolution'
      /\ \A e \in res'.candidates : Provider(e) \notin cli'.excluded
  BY <1>1, BeginResolves
<1>7. log # <<>> /\ log[Len(log)].outcome = cli.outcome /\ cli.outcome \in MovesOn
  BY <1>1 DEF CliInv, History, Progress, OnStream, MovesOn
<1>8. TypeOK' /\ Offers(cli.excluded)'
  BY <1>1, <1>5, <1>6 DEF CliInv, TypeOK, Offers, Provider
<1>9. Progress' /\ Remembered' /\ ServerErrorIsFresh'
  BY <1>1, <1>3, <1>4, <1>6, <1>7, UnsetIsNone
  DEF CliInv, Progress, OnEntry, OnStream, Remembered, ServerErrorIsFresh
<1>10. ThreadEnds' /\ History'
  BY <1>1, <1>4, <1>7 DEF CliInv, ThreadEnds, History
<1>11. LateIsLast' /\ Pinned'
  BY <1>1, <1>4 DEF CliInv, LateIsLast, Pinned, Resume
<1>12. Counting'
  <2>1. \A e : Tried(e)' = Tried(e)
    BY <1>1 DEF Tried
  <2>2. \A e \in ConfigEntries :
          /\ Cardinality(Tried(e)) <= effective_max_attempts(e)
          /\ Tried(e) # {} => e = res.picked \/ Provider(e) \in cli.excluded
    BY <1>1 DEF CliInv, Counting, OnEntry
  <2> QED BY <1>4, <2>1, <2>2 DEF Counting, OnEntry, effective_max_attempts, Provider
<1> QED BY <1>6, <1>8, <1>9, <1>10, <1>11, <1>12 DEF CliInv

-----------------------------------------------------------------------------
(* The theorems *)

LEMMA CliKeeps == CliInv /\ [Next]_vars => CliInv'
<1> SUFFICES ASSUME CliInv, [Next]_vars PROVE CliInv'
  OBVIOUS
<1>1. CASE \E o \in Options, deadline \in BOOLEAN, owner \in Owners \cup {Unset} :
             Start(o, deadline, owner)
  BY <1>1, StartKeeps
<1>2. CASE SessionNotFound
  BY <1>2, SessionNotFoundKeeps
<1>3. CASE CtrlC
  BY <1>3, CancelKeeps DEF CtrlC
<1>4. CASE Resolving \/ Resolved \/ Dispatch
  BY <1>4, ResolvingKeeps, ResolvedKeeps, DispatchKeeps
<1>5. CASE LoopTop \/ TakeDelta \/ TakeTerminal \/ Disconnected \/ Expire
  BY <1>5, DrainKeeps
<1>6. CASE HttpRetry \/ Backoff
  BY <1>6, HttpRetryKeeps, BackoffKeeps
<1>7. CASE Switch
  BY <1>7, SwitchExits, SwitchMoves
<1>8. CASE SendDelta \/ SendTerminal \/ DropSender
  BY <1>8, WorkerKeeps
<1>9. CASE UNCHANGED vars
  BY <1>9, CancelKeeps DEF vars, CliInv, TypeOK
<1> QED BY <1>1, <1>2, <1>3, <1>4, <1>5, <1>6, <1>7, <1>8, <1>9 DEF Next, CliStep

\* A run is in order in every reachable state, for every configuration and every
\* schedule of backend, drain and Ctrl-C.
THEOREM CliRunCorrect == Spec => []CliInv
BY CliStarts, CliKeeps, PTL DEF Spec

\* For every schedule of the backend, the drain and Ctrl-C: another backend starts
\* only when the thread of the one before it has ended.
THEOREM NeverTwoStreams == Spec => []OneStreamAtATime
<1>1. CliInv => OneStreamAtATime
  BY DEF CliInv, ThreadEnds, OneStreamAtATime
<1> QED BY <1>1, CliRunCorrect, PTL

\* Whenever Ctrl-C comes: at most one backend is started after it.
THEOREM CancelStops == Spec => []CancelStopsSoon
<1>1. CliInv => CancelStopsSoon
  <2> SUFFICES ASSUME CliInv PROVE CancelStopsSoon
    OBVIOUS
  <2> DEFINE late == {i \in 1..Len(log) : log[i].late}
  <2>1. late \subseteq {Len(log)}
    BY DEF CliInv, LateIsLast
  <2>2. IsFiniteSet({Len(log)}) /\ Cardinality({Len(log)}) = 1
    BY FS_Singleton
  <2>3. Cardinality(late) <= 1
    BY <2>1, <2>2, FS_Subset
  <2> QED BY <2>3 DEF CancelStopsSoon
<1> QED BY <1>1, CliRunCorrect, PTL

\* The server error that a run reports is that of its last stream, however many
\* providers were tried and limited before.
THEOREM ServerErrorsAreFresh == Spec => []ServerErrorIsFresh
<1>1. CliInv => ServerErrorIsFresh
  BY DEF CliInv
<1> QED BY <1>1, CliRunCorrect, PTL

\* For every configuration: a resumed session runs on one entry, and that entry's
\* backend can open it.
THEOREM ResumeStaysOnOwner == Spec => []ResumedOnOwner
<1>1. CliInv => ResumedOnOwner
  <2> SUFFICES ASSUME CliInv, Resume, NEW i \in 1..Len(log)
               PROVE  /\ \/ Config[log[i].entry].sdk = cli.owner
                         \/ {Config[log[i].entry].sdk, cli.owner} \subseteq ClaudeSdks
                      /\ log[i].entry = log[1].entry
    BY DEF ResumedOnOwner
  <2>1. Len(log) \in Nat /\ 1 \in 1..Len(log)
    BY DEF CliInv, TypeOK
  <2> QED BY <2>1 DEF CliInv, Pinned, Compatible
<1> QED BY <1>1, CliRunCorrect, PTL

\* For every retry policy: only transient failures are repeated, and no entry is
\* streamed more often than its policy allows.
THEOREM RepeatsStayBounded == Spec => []RepeatsAreBounded
<1>1. CliInv => RepeatsAreBounded
  BY DEF CliInv, History, MovesOn, Counting, Tried, RepeatsAreBounded
<1> QED BY <1>1, CliRunCorrect, PTL
=============================================================================
