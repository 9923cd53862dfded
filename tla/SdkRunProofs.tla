----------------------------- MODULE SdkRunProofs -----------------------------
(***************************************************************************)
(* What run_with_provider_fallback promises, for every configuration: the  *)
(* resolver picks the best free provider, only what may be repeated is     *)
(* repeated, a provider that was left stays left, and the error reported   *)
(* is that of the last attempt.                                            *)
(*                                                                         *)
(* The log alone does not say why no attempt comes back: it does together  *)
(* with the set of excluded providers, of which no candidate is a member.  *)
(***************************************************************************)
EXTENDS SdkRun, ResolveProofs

Attempts == [entry : ConfigEntries, outcome : RunOutcomes]
Repeatable == {"limit", "network", "server", "throttled", "client"}

\* Where the call stands, and what its resolution has come to.
OnEntry == call.pc \in {"attempt", "backoff", "failed"}
Progress ==
  /\ call.pc = "idle" => log = <<>>
  /\ call.pc # "idle" => res.pc # "idle"
  /\ OnEntry => res.pc = "found" /\ ~res.opts.poll

\* The attempts made on an entry: only the one the call is on can have more.
Tried(e) == {i \in 1..Len(log) : log[i].entry = e}
Counting ==
  /\ \A e \in ConfigEntries :
       /\ Cardinality(Tried(e)) <= effective_max_attempts(e)
       /\ Tried(e) # {} /\ call.pc # "done" =>
            (OnEntry /\ e = res.picked) \/ Provider(e) \in call.excluded
  /\ call.pc = "attempt" => /\ Cardinality(Tried(res.picked)) = call.attempt - 1
                            /\ call.attempt <= effective_max_attempts(res.picked)
  /\ call.pc = "backoff" => /\ Cardinality(Tried(res.picked)) = call.attempt
                            /\ call.attempt < effective_max_attempts(res.picked)

\* The attempt at which the call has left its provider.
LeftAt(i) ==
  /\ ~call.resume
  /\ log[i].outcome \in {"network", "server"}
  /\ Provider(log[i].entry) \in call.excluded

\* The order of the attempts, and what the last of them means for the call.
History ==
  /\ \A i \in 1..Len(log) : i < Len(log) => log[i].outcome \in Repeatable
  /\ \A i \in 1..Len(log) : i < Len(log) /\ log[i].entry # log[i+1].entry => LeftAt(i)
  /\ NoWayBack
  /\ LastErrorReported

LastAttempt ==
  log # <<>> => LET n == Len(log) IN
    /\ call.pc = "resolve" => /\ LeftAt(n) /\ ~res.opts.poll
                              /\ call.last_fallback_error = log[n].outcome
    /\ call.pc = "attempt" => /\ log[n].outcome \in Repeatable
                              /\ log[n].entry = res.picked \/ LeftAt(n)
    /\ call.pc = "backoff" => log[n].outcome \in Repeatable /\ log[n].entry = res.picked
    /\ call.pc = "failed" => log[n].outcome = call.error /\ log[n].entry = res.picked

SdkInv ==
  /\ TypeOK /\ Resolution /\ Offers(call.excluded)
  /\ Progress /\ Counting /\ History /\ LastAttempt

-----------------------------------------------------------------------------
(* Facts about the data *)

\* Every policy allows an attempt.
LEMMA MaxIsPositive ==
  ASSUME NEW e \in ConfigEntries
  PROVE  effective_max_attempts(e) \in Nat /\ effective_max_attempts(e) >= 1
BY RetryShape DEF RetryRec, effective_max_attempts

LEMMA TriedIsFinite ==
  ASSUME TypeOK, NEW e PROVE IsFiniteSet(Tried(e)) /\ Cardinality(Tried(e)) \in Nat
<1>1. Len(log) \in Nat
  BY DEF TypeOK
<1>2. IsFiniteSet(1..Len(log)) /\ Tried(e) \subseteq 1..Len(log)
  BY <1>1, FS_Interval DEF Tried
<1> QED BY <1>2, FS_Subset, FS_CardinalityType

-----------------------------------------------------------------------------
(* Steps that make no attempt *)

\* They change neither the log nor what is read off it.
LEMMA SameLog ==
  ASSUME UNCHANGED log, call'.resume = call.resume, call.excluded \subseteq call'.excluded,
         History, LastErrorReported'
  PROVE  History' /\ (\A e : Tried(e)' = Tried(e)) /\ (\A i : LeftAt(i) => LeftAt(i)')
<1>1. \A i : LeftAt(i) => LeftAt(i)'
  BY DEF LeftAt, Provider
<1>2. NoWayBack'
  BY DEF History, NoWayBack, Provider
<1>3. \A e : Tried(e)' = Tried(e)
  BY DEF Tried
<1> QED BY <1>1, <1>2, <1>3 DEF History

LEMMA SdkStarts == Init => SdkInv
<1> SUFFICES ASSUME Init PROVE SdkInv
  OBVIOUS
<1>1. TypeOK
  <2>1. res \in ResRec
    BY ResolveConstants DEF Init, NoResolution, Unprobed, ResRec, ResPc
  <2>2. call \in CallRec
    <3>1. ExcludeProviders \in SUBSET (Providers \cup ExcludeProviders) /\ 1 \in Nat
      OBVIOUS
    <3> HIDE DEF Providers, Results, ErrorKinds
    <3> QED BY <3>1 DEF Init, CallRec
  <2>3. log \in Seq([entry : ConfigEntries, outcome : RunOutcomes])
    BY EmptySeq DEF Init
  <2> QED BY <2>1, <2>2, <2>3 DEF Init, TypeOK
<1>2. log = <<>> /\ Len(log) = 0 /\ call.pc = "idle" /\ res = NoResolution
  BY DEF Init
<1>3. Resolution /\ Offers(call.excluded)
  BY <1>2 DEF Resolution, Offers, PickedIsBest, NoResolution
<1>4. Counting
  <2>1. \A e : Tried(e) = {}
    BY <1>2 DEF Tried
  <2>2. \A e \in ConfigEntries : Cardinality(Tried(e)) <= effective_max_attempts(e)
    BY <2>1, MaxIsPositive, FS_EmptySet
  <2> QED BY <1>2, <2>1, <2>2 DEF Counting
<1>5. History /\ LastAttempt /\ Progress
  BY <1>2 DEF History, LastAttempt, Progress, OnEntry, NoWayBack, LastErrorReported
<1> QED BY <1>1, <1>3, <1>4, <1>5 DEF SdkInv

LEMMA StartKeeps ==
  ASSUME SdkInv, NEW o \in Options, NEW resume \in BOOLEAN, Start(o, resume)
  PROVE  SdkInv'
<1>1. call \in CallRec /\ res \in ResRec /\ log = <<>> /\ Len(log) = 0 /\ log' = log /\ cancel' = cancel
  BY DEF SdkInv, TypeOK, Progress, Start
<1>2. call' = [call EXCEPT !.pc = "resolve", !.resume = resume] /\ Begin(o, call.excluded)
  BY DEF Start
<1>3. call' \in CallRec /\ call'.pc = "resolve" /\ call'.excluded = call.excluded
  BY <1>1, <1>2 DEF CallRec
<1>4. /\ res' \in ResRec /\ res'.pc \in {"top", "noMatch"} /\ res'.opts = o
      /\ Resolution'
      /\ \A e \in res'.candidates : Provider(e) \notin call.excluded
  BY <1>2, BeginResolves
<1>5. TypeOK'
  BY <1>1, <1>3, <1>4 DEF TypeOK, SdkInv
<1>6. Resolution' /\ Offers(call.excluded)'
  BY <1>3, <1>4 DEF Offers, Provider
<1>7. Counting'
  <2>1. \A e : Tried(e)' = Tried(e) /\ Tried(e) = {}
    BY <1>1 DEF Tried
  <2> QED BY <1>3, <2>1 DEF Counting, SdkInv, effective_max_attempts
<1>8. History' /\ LastAttempt' /\ Progress'
  BY <1>1, <1>3, <1>4 DEF History, LastAttempt, Progress, OnEntry, NoWayBack, LastErrorReported
<1> QED BY <1>5, <1>6, <1>7, <1>8 DEF SdkInv

\* Only the flag of poll_for_agent may change.
LEMMA CancelKeeps ==
  ASSUME SdkInv, UNCHANGED <<res, call, log>>, cancel' \in BOOLEAN PROVE SdkInv'
<1>1. UNCHANGED <<res, call, log>> /\ cancel' \in BOOLEAN
  OBVIOUS
<1>2. LastErrorReported'
  BY <1>1 DEF SdkInv, History, LastErrorReported
<1>3. History' /\ (\A e : Tried(e)' = Tried(e)) /\ (\A i : LeftAt(i) => LeftAt(i)')
  BY <1>1, <1>2, SameLog DEF SdkInv
<1>4. TypeOK' /\ Progress'
  BY <1>1 DEF SdkInv, TypeOK, Progress, OnEntry
<1>5. Resolution' /\ Offers(call.excluded)'
  BY <1>1, SameResolution DEF SdkInv, Offers, Provider
<1>6. Counting'
  BY <1>1, <1>3 DEF SdkInv, Counting, OnEntry, effective_max_attempts, Provider
<1>7. LastAttempt'
  BY <1>1, <1>3 DEF SdkInv, LastAttempt
<1> QED BY <1>3, <1>4, <1>5, <1>6, <1>7 DEF SdkInv

LEMMA ResolvingKeeps == ASSUME SdkInv, Resolving PROVE SdkInv'
<1>1. call.pc = "resolve" /\ ResolveStep(cancel) /\ UNCHANGED <<call, cancel, log>>
      /\ cancel \in BOOLEAN /\ res.pc # "idle" /\ TypeOK /\ Resolution
  BY DEF Resolving, SdkInv, TypeOK, Progress
<1>2. /\ res' \in ResRec /\ Resolution'
      /\ res'.opts = res.opts /\ res'.candidates = res.candidates /\ res'.pc # "idle"
  BY <1>1, ResolveTypes, ResolveKeeps, ResolveFrame DEF TypeOK
<1>3. TypeOK'
  BY <1>1, <1>2 DEF TypeOK
<1>4. LastErrorReported'
  BY <1>1 DEF LastErrorReported
<1>5. History' /\ (\A e : Tried(e)' = Tried(e)) /\ (\A i : LeftAt(i) => LeftAt(i)')
  BY <1>1, <1>4, SameLog DEF SdkInv
<1>6. Progress'
  BY <1>1, <1>2 DEF Progress, OnEntry
<1>7. Counting'
  BY <1>1, <1>5 DEF SdkInv, Counting, OnEntry, effective_max_attempts, Provider
<1>8. LastAttempt'
  BY <1>1, <1>2, <1>5 DEF SdkInv, LastAttempt
<1>9. Offers(call.excluded)'
  BY <1>1, <1>2 DEF SdkInv, Offers, Provider
<1> QED BY <1>2, <1>3, <1>5, <1>6, <1>7, <1>8, <1>9 DEF SdkInv

LEMMA ResolvedKeeps == ASSUME SdkInv, Resolved PROVE SdkInv'
<1>1. call.pc = "resolve" /\ UNCHANGED <<res, cancel, log>> /\ TypeOK /\ Resolution
      /\ call \in CallRec /\ res.pc # "idle"
  BY DEF Resolved, SdkInv, TypeOK, Progress
<1>2. \/ /\ call'.pc = "attempt" /\ call'.attempt = 1
         /\ res.pc = "found" /\ ~res.opts.poll
      \/ /\ call'.pc = "done"
         /\ log # <<>> => call'.result \in {log[Len(log)].outcome, "allLimited"}
  <2>1. log # <<>> => /\ call.last_fallback_error = log[Len(log)].outcome
                      /\ log[Len(log)].outcome \in {"network", "server"} /\ ~res.opts.poll
    BY <1>1 DEF SdkInv, LastAttempt, LeftAt
  <2>2. log # <<>> => call.last_fallback_error # Unset
    BY <2>1, UnsetIsNoError DEF ErrorKinds, MessageClasses
  <2>3. res.pc = "canceled" => res.opts.poll
    BY <1>1 DEF Resolution
  <2> QED BY <1>1, <2>1, <2>2, <2>3 DEF Resolved, Return, CallRec
<1>3. call'.resume = call.resume /\ call'.excluded = call.excluded /\ call' \in CallRec
  <2>1. \/ \E r \in Results : Return(r)
        \/ call' = [call EXCEPT !.pc = "attempt", !.attempt = 1]
    <3>1. call.last_fallback_error \in ErrorKinds \cup {Unset}
      BY <1>1 DEF CallRec
    <3> QED BY <1>1, <3>1 DEF Resolved, Results, RunOutcomes
  <2>2. ASSUME NEW r \in Results, Return(r)
        PROVE  call'.resume = call.resume /\ call'.excluded = call.excluded /\ call' \in CallRec
    BY <1>1, <2>2 DEF Return, CallRec
  <2>3. ASSUME call' = [call EXCEPT !.pc = "attempt", !.attempt = 1]
        PROVE  call'.resume = call.resume /\ call'.excluded = call.excluded /\ call' \in CallRec
    BY <1>1, <2>3 DEF CallRec
  <2> QED BY <2>1, <2>2, <2>3
<1>4. LastErrorReported'
  BY <1>1, <1>2 DEF LastErrorReported
<1>5. History' /\ (\A e : Tried(e)' = Tried(e)) /\ (\A i : LeftAt(i) => LeftAt(i)')
  BY <1>1, <1>3, <1>4, SameLog DEF SdkInv
<1>6. TypeOK' /\ Progress' /\ Resolution' /\ Offers(call.excluded)'
  BY <1>1, <1>2, <1>3, SameResolution DEF SdkInv, TypeOK, Progress, OnEntry, Offers, Provider
<1>7. Counting'
  <2>1. ASSUME NEW e \in ConfigEntries
        PROVE  /\ Cardinality(Tried(e)') <= effective_max_attempts(e)
               /\ Tried(e)' # {} => Provider(e) \in call'.excluded
    BY <1>1, <1>3, <1>5 DEF SdkInv, Counting, OnEntry
  <2>2. ASSUME call'.pc = "attempt"
        PROVE  Cardinality(Tried(res.picked)) = 0 /\ effective_max_attempts(res.picked) >= 1
    <3>1. res.picked \in res.candidates /\ res.picked \in ConfigEntries
      BY <1>1, <1>2, <2>2 DEF Resolution, TypeOK, ResRec
    <3>2. Provider(res.picked) \notin call'.excluded
      BY <1>1, <1>3, <3>1 DEF SdkInv, Offers
    <3>3. Tried(res.picked) = {}
      BY <1>5, <2>1, <3>1, <3>2
    <3> QED BY <3>1, <3>3, MaxIsPositive, FS_EmptySet
  <2> QED BY <1>1, <1>2, <1>5, <2>1, <2>2 DEF Counting, OnEntry, effective_max_attempts, Provider
<1>8. LastAttempt'
  BY <1>1, <1>2, <1>5 DEF SdkInv, LastAttempt, LeftAt, Repeatable
<1> QED BY <1>5, <1>6, <1>7, <1>8 DEF SdkInv

LEMMA RetryingKeeps == ASSUME SdkInv, Retrying PROVE SdkInv'
<1>1. call.pc = "backoff" /\ call' = [call EXCEPT !.pc = "attempt", !.attempt = @ + 1]
      /\ UNCHANGED <<res, cancel, log>> /\ TypeOK /\ call \in CallRec
  BY DEF Retrying, SdkInv, TypeOK
<1>2. call'.pc = "attempt" /\ call'.attempt = call.attempt + 1 /\ call.attempt \in Nat
      /\ call'.resume = call.resume /\ call'.excluded = call.excluded /\ call' \in CallRec
  <2>1. call.attempt \in Nat /\ call' = [call EXCEPT !.pc = "attempt", !.attempt = call.attempt + 1]
    BY <1>1 DEF CallRec
  <2>2. call.attempt + 1 \in Nat
    BY <2>1
  <2> QED BY <1>1, <2>1, <2>2 DEF CallRec
<1>3. LastErrorReported'
  BY <1>2 DEF LastErrorReported
<1>4. History' /\ (\A e : Tried(e)' = Tried(e)) /\ (\A i : LeftAt(i) => LeftAt(i)')
  BY <1>1, <1>2, <1>3, SameLog DEF SdkInv
<1>5. TypeOK' /\ Progress' /\ Resolution' /\ Offers(call.excluded)'
  BY <1>1, <1>2, SameResolution DEF SdkInv, TypeOK, Progress, OnEntry, Offers, Provider
<1>6. Counting'
  <2>1. res.picked \in ConfigEntries
    BY <1>1 DEF SdkInv, Progress, OnEntry, Resolution, TypeOK, ResRec
  <2>2. effective_max_attempts(res.picked) \in Nat
    BY <2>1, MaxIsPositive
  <2> QED BY <1>1, <1>2, <1>4, <2>2 DEF SdkInv, Counting, OnEntry, effective_max_attempts, Provider
<1>7. LastAttempt'
  BY <1>1, <1>2, <1>4 DEF SdkInv, LastAttempt
<1> QED BY <1>4, <1>5, <1>6, <1>7 DEF SdkInv

-----------------------------------------------------------------------------
(* An attempt *)

\* What the log says after one more attempt.
LEMMA AttemptIsLogged ==
  ASSUME SdkInv, NEW outcome \in RunOutcomes, Attempt(outcome)
  PROVE  /\ call.pc = "attempt" /\ UNCHANGED <<res, cancel>>
         /\ res.picked \in ConfigEntries /\ Provider(res.picked) \notin call.excluded
         /\ log' \in Seq(Attempts) /\ Len(log) \in Nat /\ Len(log') = Len(log) + 1
         /\ log' # <<>>
         /\ \A i \in 1..Len(log) : log'[i] = log[i] /\ log[i] \in Attempts
         /\ log'[Len(log')] = [entry |-> res.picked, outcome |-> outcome]
<1>1. call.pc = "attempt" /\ UNCHANGED <<res, cancel>> /\ TypeOK
      /\ log' = Append(log, [entry |-> res.picked, outcome |-> outcome])
  BY DEF SdkInv, Attempt
<1>2. res.picked \in res.candidates /\ res.picked \in ConfigEntries
  BY <1>1 DEF SdkInv, Progress, OnEntry, Resolution, TypeOK, ResRec
<1>3. Provider(res.picked) \notin call.excluded
  BY <1>2 DEF SdkInv, Offers
<1>4. log \in Seq(Attempts) /\ [entry |-> res.picked, outcome |-> outcome] \in Attempts
  BY <1>1, <1>2 DEF TypeOK, Attempts
<1>5. \A i \in 1..Len(log) : log[i] \in Attempts
  BY <1>4
<1> QED BY <1>1, <1>2, <1>3, <1>4, <1>5, Appending

\* The three ends of an attempt.
LEMMA AttemptMoves ==
  ASSUME SdkInv, NEW outcome \in RunOutcomes, Attempt(outcome)
  PROVE  /\ call' \in CallRec /\ call'.resume = call.resume /\ call'.excluded = call.excluded
         /\ call'.attempt = call.attempt
         /\ \/ call'.pc = "done" /\ outcome = "ok" /\ call'.result = outcome
            \/ call'.pc = "failed" /\ call'.error = outcome
            \/ /\ call'.pc = "backoff" /\ outcome \in Repeatable
               /\ call.attempt < effective_max_attempts(res.picked)
<1>1. call \in CallRec /\ call.attempt \in Nat
  BY DEF SdkInv, TypeOK, CallRec
<1>2. res.picked \in ConfigEntries
  BY AttemptIsLogged
<1>3. CASE outcome = "ok" /\ Return("ok")
  BY <1>1, <1>3 DEF Return, CallRec, Results, RunOutcomes
<1>4. CASE outcome # "ok" /\ call' = [call EXCEPT !.pc = "failed", !.error = outcome]
  <2>1. outcome \in ErrorKinds
    BY <1>4 DEF RunOutcomes
  <2> QED BY <1>1, <1>4, <2>1 DEF CallRec
<1>5. CASE outcome # "ok" /\ ~GivesUp(res.picked, outcome) /\ call' = [call EXCEPT !.pc = "backoff"]
  <2>1. outcome \in Repeatable
    BY <1>5 DEF GivesUp, RunOutcomes, ErrorKinds, MessageClasses, MayRetryMessage,
                is_non_retryable_error, is_retryable_message, is_transient_http_error,
                is_server_error_message, is_client_error_retryable, Repeatable
  <2>2. call.attempt < effective_max_attempts(res.picked)
    BY <1>1, <1>2, <1>5, MaxIsPositive DEF GivesUp
  <2> QED BY <1>1, <1>5, <2>1, <2>2 DEF CallRec
<1> QED BY <1>3, <1>4, <1>5 DEF Attempt

\* It counts for the entry it ran on, and for no other.
LEMMA AttemptCounts ==
  ASSUME SdkInv, NEW outcome \in RunOutcomes, Attempt(outcome)
  PROVE  /\ \A e \in ConfigEntries \ {res.picked} : Tried(e)' = Tried(e)
         /\ Cardinality(Tried(res.picked)') = call.attempt
         /\ call.attempt <= effective_max_attempts(res.picked)
<1> DEFINE n == Len(log) + 1
<1>1. /\ Len(log) \in Nat /\ Len(log') = n
      /\ \A i \in 1..Len(log) : log'[i] = log[i]
      /\ log'[n] = [entry |-> res.picked, outcome |-> outcome]
      /\ UNCHANGED res
  BY AttemptIsLogged
<1>2. 1..Len(log') = (1..Len(log)) \cup {n} /\ n \notin 1..Len(log)
  BY <1>1
<1>3. log'[n].entry = res.picked
  BY <1>1
<1>4. \A e \in ConfigEntries \ {res.picked} : Tried(e)' = Tried(e)
  BY <1>1, <1>2, <1>3 DEF Tried
<1>5. Tried(res.picked)' = Tried(res.picked) \cup {n}
  BY <1>1, <1>2, <1>3 DEF Tried
<1>6. n \notin Tried(res.picked)
  BY <1>2 DEF Tried
<1>7. call.attempt \in Nat /\ Cardinality(Tried(res.picked)) = call.attempt - 1
      /\ call.attempt <= effective_max_attempts(res.picked)
  BY AttemptIsLogged DEF SdkInv, Counting, TypeOK, CallRec
<1>8. IsFiniteSet(Tried(res.picked))
  BY TriedIsFinite DEF SdkInv
<1>9. Cardinality(Tried(res.picked) \cup {n}) = call.attempt
  <2> HIDE DEF n
  <2>1. Cardinality(Tried(res.picked) \cup {n}) = Cardinality(Tried(res.picked)) + 1
    BY <1>6, <1>8, FS_AddElement
  <2> QED BY <1>7, <2>1
<1> QED BY <1>4, <1>5, <1>7, <1>9

\* No entry of a provider that was left is among the candidates, so the new
\* attempt is none that comes back.
LEMMA AttemptLooksBack ==
  ASSUME SdkInv, NEW outcome \in RunOutcomes, Attempt(outcome)
  PROVE  History'
<1> DEFINE n == Len(log)
<1>1. /\ n \in Nat /\ Len(log') = n + 1
      /\ \A i \in 1..n : log'[i] = log[i] /\ log[i] \in Attempts
      /\ log'[n + 1] = [entry |-> res.picked, outcome |-> outcome]
      /\ call.pc = "attempt" /\ UNCHANGED res
      /\ Provider(res.picked) \notin call.excluded
  BY AttemptIsLogged
<1>2. log'[n + 1].entry = res.picked /\ log'[n + 1].outcome = outcome
  BY <1>1
<1>3. call'.resume = call.resume /\ call'.excluded = call.excluded
  BY AttemptMoves
<1>4. \A i \in 1..n : log[i].outcome \in Repeatable
  <2>1. n # 0 => log # <<>>
    OBVIOUS
  <2> QED BY <1>1, <2>1 DEF SdkInv, History, LastAttempt
<1>5. \A i \in 1..n : log[i].entry # log'[i+1].entry => LeftAt(i)
  <2>1. n # 0 => log # <<>>
    OBVIOUS
  <2>2. ASSUME NEW i \in 1..n, i < n, log[i].entry # log'[i+1].entry PROVE LeftAt(i)
    <3>1. i + 1 \in 1..n
      BY <1>1, <2>2
    <3> QED BY <1>1, <2>2, <3>1 DEF SdkInv, History
  <2>3. ASSUME n # 0, log[n].entry # log'[n+1].entry PROVE LeftAt(n)
    BY <1>1, <1>2, <2>1, <2>3 DEF SdkInv, LastAttempt
  <2>4. \A i \in 1..n : i < n \/ (i = n /\ n # 0)
    BY <1>1
  <2> QED BY <2>2, <2>3, <2>4
<1>6. \A i \in 1..n : LeftAt(i) => LeftAt(i)'
  BY <1>1, <1>3 DEF LeftAt, Provider
<1>7. \A i \in 1..n+1 : i < n + 1 => i \in 1..n
  BY <1>1
<1>8. \A i \in 1..n : LeftAt(i) => Provider(log'[n+1].entry) # Provider(log'[i].entry)
  BY <1>1, <1>2 DEF LeftAt
<1>9. ASSUME NEW i \in 1..n, log[i].entry # log'[i+1].entry, NEW j \in i+1..n+1
      PROVE  Provider(log'[j].entry) # Provider(log'[i].entry)
  <2>1. CASE j = n + 1
    BY <1>5, <1>8, <1>9, <2>1
  <2>2. CASE j # n + 1
    <3>1. j \in i+1..n /\ i < n /\ i + 1 \in 1..n /\ j \in 1..n
      BY <1>1, <2>2
    <3>2. log[i].entry # log[i+1].entry
      BY <1>1, <1>9, <3>1
    <3> QED BY <1>1, <3>1, <3>2 DEF SdkInv, History, NoWayBack
  <2> QED BY <2>1, <2>2
<1>10. NoWayBack'
  <2>1. \A i \in 1..n+1 : i < n + 1 /\ log'[i].entry # log'[i+1].entry =>
          /\ i \in 1..n /\ log[i].entry # log'[i+1].entry /\ LeftAt(i)
    BY <1>1, <1>5, <1>7
  <2>2. \A i \in 1..n+1 : i < n + 1 /\ log'[i].entry # log'[i+1].entry =>
          /\ ~call'.resume /\ log'[i].outcome \in {"network", "server"}
    BY <1>1, <1>3, <2>1 DEF LeftAt
  <2> QED BY <1>1, <1>9, <2>1, <2>2 DEF NoWayBack, Provider
<1>11. LastErrorReported'
  BY <1>1, <1>2, AttemptMoves DEF LastErrorReported
<1> QED BY <1>1, <1>4, <1>5, <1>6, <1>7, <1>10, <1>11 DEF History

LEMMA AttemptKeeps ==
  ASSUME SdkInv, NEW outcome \in RunOutcomes, Attempt(outcome)
  PROVE  SdkInv'
<1>1. /\ call.pc = "attempt" /\ UNCHANGED <<res, cancel>>
      /\ log' \in Seq(Attempts) /\ log' # <<>>
      /\ log'[Len(log')] = [entry |-> res.picked, outcome |-> outcome]
      /\ res.picked \in ConfigEntries
  BY AttemptIsLogged
<1>2. /\ call' \in CallRec /\ call'.resume = call.resume /\ call'.excluded = call.excluded
      /\ call'.attempt = call.attempt
      /\ \/ call'.pc = "done" /\ outcome = "ok" /\ call'.result = outcome
         \/ call'.pc = "failed" /\ call'.error = outcome
         \/ /\ call'.pc = "backoff" /\ outcome \in Repeatable
            /\ call.attempt < effective_max_attempts(res.picked)
  BY AttemptMoves
<1>3. TypeOK' /\ Progress'
  BY <1>1, <1>2 DEF SdkInv, TypeOK, Attempts, Progress, OnEntry
<1>4. Resolution' /\ Offers(call.excluded)'
  BY <1>1, <1>2, SameResolution DEF SdkInv, Offers, Provider
<1>5. Counting'
  <2>1. /\ \A e \in ConfigEntries \ {res.picked} : Tried(e)' = Tried(e)
        /\ Cardinality(Tried(res.picked)') = call.attempt
        /\ call.attempt <= effective_max_attempts(res.picked)
    BY AttemptCounts
  <2>2. \A e \in ConfigEntries : Cardinality(Tried(e)') <= effective_max_attempts(e)
    <3>1. ASSUME NEW e \in ConfigEntries, e # res.picked
          PROVE  Cardinality(Tried(e)') <= effective_max_attempts(e)
      <4>1. Tried(e)' = Tried(e)
        BY <2>1, <3>1
      <4> QED BY <4>1 DEF SdkInv, Counting
    <3>2. Cardinality(Tried(res.picked)') <= effective_max_attempts(res.picked)
      BY <2>1
    <3> QED BY <3>1, <3>2, <1>1
  <2>3. \A e \in ConfigEntries : Tried(e)' # {} /\ call'.pc # "done" =>
          (OnEntry' /\ e = res'.picked) \/ Provider(e) \in call'.excluded
    BY <1>1, <1>2, <2>1 DEF SdkInv, Counting, OnEntry
  <2> QED BY <1>1, <1>2, <2>1, <2>2, <2>3 DEF Counting, effective_max_attempts, Provider
<1>6. LastAttempt'
  BY <1>1, <1>2 DEF LastAttempt
<1>7. History'
  BY AttemptLooksBack
<1> QED BY <1>3, <1>4, <1>5, <1>6, <1>7 DEF SdkInv

-----------------------------------------------------------------------------
(* The run on a provider has failed *)

LEMMA FailedStops ==
  ASSUME SdkInv, Failed, ~FallsBack(call.error)
  PROVE  SdkInv'
<1>1. call.pc = "failed" /\ UNCHANGED <<res, cancel, log>> /\ TypeOK /\ call \in CallRec
      /\ call' = [call EXCEPT !.pc = "done", !.result = call.error]
  BY DEF Failed, Return, SdkInv, TypeOK
<1>2. log # <<>> => call.error = log[Len(log)].outcome
  BY <1>1 DEF SdkInv, LastAttempt
<1>3. res.picked \in ConfigEntries /\ log \in Seq(Attempts) /\ res.pc # "idle"
  BY <1>1 DEF SdkInv, Progress, OnEntry, Resolution, TypeOK, ResRec, Attempts
<1>4. /\ call'.pc = "done" /\ call'.result = call.error
      /\ call'.resume = call.resume /\ call'.excluded = call.excluded
      /\ call' \in CallRec
  BY <1>1 DEF CallRec, Results, RunOutcomes
<1>5. LastErrorReported'
  BY <1>1, <1>2, <1>4 DEF LastErrorReported
<1>6. History' /\ (\A e : Tried(e)' = Tried(e)) /\ (\A i : LeftAt(i) => LeftAt(i)')
  BY <1>1, <1>4, <1>5, SameLog DEF SdkInv
<1>7. TypeOK' /\ Progress'
  BY <1>1, <1>3, <1>4 DEF TypeOK, Progress, OnEntry
<1>8. Resolution' /\ Offers(call.excluded)'
  BY <1>1, <1>4, SameResolution DEF SdkInv, Offers, Provider
<1>9. Counting'
  BY <1>1, <1>4, <1>6 DEF SdkInv, Counting, OnEntry, effective_max_attempts, Provider
<1>10. LastAttempt'
  BY <1>4 DEF LastAttempt
<1> QED BY <1>6, <1>7, <1>8, <1>9, <1>10 DEF SdkInv

LEMMA FailedFallsBack ==
  ASSUME SdkInv, Failed, FallsBack(call.error)
  PROVE  SdkInv'
<1> DEFINE left == call.excluded \cup {Provider(res.picked)}
<1>1. call.pc = "failed" /\ UNCHANGED <<cancel, log>> /\ TypeOK /\ call \in CallRec
      /\ Begin(res.opts, call'.excluded)
      /\ call' = [call EXCEPT !.pc = "resolve", !.last_fallback_error = call.error,
                              !.excluded = left]
  BY DEF Failed, Remembered, SdkInv, TypeOK
<1>2. res.picked \in ConfigEntries /\ res.opts \in Options /\ res.pc # "idle" /\ ~res.opts.poll
  BY <1>1 DEF SdkInv, Progress, OnEntry, Resolution, TypeOK, ResRec
<1>3. left \subseteq Providers \cup ExcludeProviders
  BY <1>1, <1>2 DEF CallRec, Providers
<1>4. /\ call'.pc = "resolve" /\ call'.last_fallback_error = call.error
      /\ call'.resume = call.resume /\ call'.excluded = left
  BY <1>1 DEF CallRec
<1>5. call' \in CallRec
  <2> HIDE DEF left
  <2> QED BY <1>1, <1>3 DEF CallRec
<1>6. /\ res' \in ResRec /\ res'.pc \in {"top", "noMatch"} /\ res'.opts = res.opts
      /\ Resolution'
      /\ \A e \in res'.candidates : Provider(e) \notin call'.excluded
  BY <1>1, <1>2, BeginResolves
<1>7. LastErrorReported'
  BY <1>4 DEF LastErrorReported
<1>8. History' /\ (\A e : Tried(e)' = Tried(e)) /\ (\A i : LeftAt(i) => LeftAt(i)')
  BY <1>1, <1>4, <1>7, SameLog DEF SdkInv
<1>9. TypeOK' /\ Progress'
  BY <1>1, <1>4, <1>5, <1>6 DEF TypeOK, Progress, OnEntry
<1>10. Resolution' /\ Offers(call.excluded)'
  BY <1>6 DEF Offers, Provider
<1>11. Counting'
  BY <1>1, <1>4, <1>8 DEF SdkInv, Counting, OnEntry, effective_max_attempts, Provider
<1>12. LastAttempt'
  <2>1. SUFFICES ASSUME log # <<>>
                 PROVE  LeftAt(Len(log))' /\ call.error = log[Len(log)].outcome
    BY <1>1, <1>2, <1>4, <1>6 DEF LastAttempt
  <2>2. log[Len(log)].outcome = call.error /\ log[Len(log)].entry = res.picked
    BY <1>1, <2>1 DEF SdkInv, LastAttempt
  <2>3. ~call.resume /\ call.error \in {"network", "server"}
    BY DEF FallsBack, is_network_error_message, is_server_error_message
  <2> QED BY <1>1, <1>4, <2>2, <2>3 DEF LeftAt, Provider
<1> QED BY <1>8, <1>9, <1>10, <1>11, <1>12 DEF SdkInv

-----------------------------------------------------------------------------
(* The theorems *)

LEMMA SdkKeeps == SdkInv /\ [Next]_vars => SdkInv'
<1> SUFFICES ASSUME SdkInv, [Next]_vars PROVE SdkInv'
  OBVIOUS
<1>1. CASE \E o \in Options, resume \in BOOLEAN : Start(o, resume)
  BY <1>1, StartKeeps
<1>2. CASE CancelPoll
  BY <1>2, CancelKeeps DEF CancelPoll
<1>3. CASE Resolving \/ Resolved \/ Retrying
  BY <1>3, ResolvingKeeps, ResolvedKeeps, RetryingKeeps
<1>4. CASE \E o \in RunOutcomes : Attempt(o)
  BY <1>4, AttemptKeeps
<1>5. CASE Failed
  BY <1>5, FailedStops, FailedFallsBack
<1>6. CASE UNCHANGED vars
  BY <1>6, CancelKeeps DEF vars, SdkInv, TypeOK
<1> QED BY <1>1, <1>2, <1>3, <1>4, <1>5, <1>6 DEF Next, CallStep

\* A call is in order in every reachable state, for every configuration, retry
\* policy and answer of a provider.
THEOREM SdkRunCorrect == Spec => []SdkInv
BY SdkStarts, SdkKeeps, PTL DEF Spec

\* Whatever the configuration and the answers of the probes: the provider that is
\* picked is the first free one in the order of priorities.
THEOREM PickedIsAlwaysBest == Spec => []PickedIsBest
<1>1. SdkInv => PickedIsBest
  BY DEF SdkInv, Resolution
<1> QED BY <1>1, SdkRunCorrect, PTL

\* However often a run moves on: it never comes back to a provider it has left,
\* leaves one only after a network or a server error, and never its session.
THEOREM NeverWayBack == Spec => []NoWayBack
<1>1. SdkInv => NoWayBack
  BY DEF SdkInv, History
<1> QED BY <1>1, SdkRunCorrect, PTL

\* For every retry policy: only errors that are known to be transient are
\* repeated, and no entry is tried more often than its policy says.
THEOREM OnlyRepeatableIsRepeated == Spec => []OnlyRepeatableRepeated
<1>1. SdkInv => OnlyRepeatableRepeated
  BY DEF SdkInv, History, Repeatable, Counting, Tried, OnlyRepeatableRepeated
<1> QED BY <1>1, SdkRunCorrect, PTL

\* The error of a run is that of its last attempt, or that all are limited.
THEOREM LastErrorIsReported == Spec => []LastErrorReported
<1>1. SdkInv => LastErrorReported
  BY DEF SdkInv, History
<1> QED BY <1>1, SdkRunCorrect, PTL
=============================================================================
