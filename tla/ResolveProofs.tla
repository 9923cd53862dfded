----------------------------- MODULE ResolveProofs -----------------------------
(***************************************************************************)
(* What a resolution is worth at each of its steps, for every              *)
(* configuration and every answer of the probes, whoever started it: the   *)
(* lemmas that the proofs about SdkRun and CliRun share.                   *)
(***************************************************************************)
EXTENDS Resolve, Sequences, FiniteSetTheorems, TLAPS

\* A resolution: what the answers of its scan are worth.
Resolution ==
  /\ res.pc # "idle" => res.opts \in Options
  /\ res.pc = "wait" /\ ~res.opts.poll => res.rescans < MaxRescans
  /\ res.pc = "canceled" => res.opts.poll
  /\ res.pc = "scan" => res.answer \in [ConfigEntries -> (Answers \ {"free"}) \cup {Unset}]
  /\ res.pc = "found" => res.picked \in res.candidates
  /\ PickedIsBest

\* It offers only providers that its caller has not left.
Offers(excluded) == \A e \in res.candidates : Provider(e) \notin excluded

-----------------------------------------------------------------------------
(* Facts about the data *)

\* Priorities are numbers, so nothing comes before itself or both ways.
LEMMA BeforeIsAsymmetric ==
  ASSUME NEW e \in ConfigEntries, NEW f \in ConfigEntries, Before(e, f)
  PROVE  ~Before(f, e)
<1>1. Priority(e) \in Int /\ Priority(f) \in Int
  BY ConfigShape DEF Priority
<1>2. Config[e].order \in Nat /\ Config[f].order \in Nat
  BY ConfigShape
<1> QED BY <1>1, <1>2 DEF Before

LEMMA EmptySeq == ASSUME NEW S PROVE <<>> \in Seq(S)
OBVIOUS

\* A log grows at its end.
LEMMA Appending ==
  ASSUME NEW S, NEW s \in Seq(S), NEW r \in S, NEW t, t = Append(s, r)
  PROVE  /\ t \in Seq(S) /\ Len(s) \in Nat /\ Len(t) = Len(s) + 1 /\ t # <<>>
         /\ \A i \in 1..Len(s) : t[i] = s[i]
         /\ t[Len(t)] = r
OBVIOUS

-----------------------------------------------------------------------------
(* Types *)

\* Another round of the loop is counted and stays within the bound.
LEMMA AgainIsTyped ==
  ASSUME res \in ResRec, res.opts.poll \/ res.rescans < MaxRescans
  PROVE  Again \in ResRec /\ Again.pc = "top" /\ Again.opts = res.opts
         /\ Again.candidates = res.candidates
<1> USE DEF ResRec, ResPc
<1>1. MaxRescans \in Nat
  BY ResolveConstants
<1>2. res.rescans \in 0..MaxRescans
  OBVIOUS
<1>3. CASE res.opts.poll
  <2>1. Again = [res EXCEPT !.pc = "top", !.rescans = res.rescans]
    BY <1>3 DEF Again
  <2> QED BY <2>1
<1>4. CASE ~res.opts.poll
  <2>1. Again = [res EXCEPT !.pc = "top", !.rescans = res.rescans + 1]
    BY <1>4 DEF Again
  <2>2. res.rescans + 1 \in 0..MaxRescans
    BY <1>1, <1>2, <1>4
  <2> QED BY <2>1, <2>2
<1> QED BY <1>3, <1>4

LEMMA ResolveTypes ==
  ASSUME res \in ResRec, Resolution, NEW c \in BOOLEAN, ResolveStep(c), res.pc # "idle"
  PROVE  res' \in ResRec
<1>1. MaxRescans \in Nat /\ ProbeResults \subseteq Answers
  BY ResolveConstants
<1>2. res \in ResRec /\ res.opts \in Options
  BY DEF Resolution
<1>3. CASE Top(c)
  BY <1>2, <1>3 DEF Top, Unprobed, ResRec, ResPc
<1>4. CASE Probe
  <2>1. PICK e \in ConfigEntries, a \in ProbeResults :
          res' = [res EXCEPT !.answer[e] = a, !.pc = IF a = "free" THEN "found" ELSE "scan",
                             !.picked = IF a = "free" THEN e ELSE Unset]
    BY <1>4 DEF Probe
  <2>2. [res.answer EXCEPT ![e] = a] \in [ConfigEntries -> Answers \cup {Unset}]
    BY <1>1, <1>2 DEF ResRec
  <2>3. res' = [res EXCEPT !.answer = [res.answer EXCEPT ![e] = a],
                           !.pc = IF a = "free" THEN "found" ELSE "scan",
                           !.picked = IF a = "free" THEN e ELSE Unset]
    BY <2>1, <1>2 DEF ResRec
  <2> QED BY <1>2, <2>2, <2>3 DEF ResRec, ResPc
<1>5. CASE ScanEnds
  <2>1. \/ \E pc \in {"noMatch", "allLimited", "wait"} : res' = [res EXCEPT !.pc = pc]
        \/ ~OutOfScans /\ res' = Again
    BY <1>5 DEF ScanEnds
  <2>2. ~OutOfScans => res.rescans < MaxRescans
    BY <1>1, <1>2 DEF OutOfScans, ResRec
  <2>3. ASSUME ~OutOfScans, res' = Again PROVE res' \in ResRec
    BY <1>2, <2>2, <2>3, AgainIsTyped
  <2> QED BY <1>2, <2>1, <2>3 DEF ResRec, ResPc
<1>6. CASE Wait
  <2>1. res.opts.poll \/ res.rescans < MaxRescans
    BY <1>6 DEF Wait, Resolution
  <2> QED BY <1>2, <1>6, <2>1, AgainIsTyped DEF Wait
<1> QED BY <1>3, <1>4, <1>5, <1>6 DEF ResolveStep

-----------------------------------------------------------------------------
(* The steps of the resolver *)

\* What a step of the resolver leaves alone.
LEMMA ResolveFrame ==
  ASSUME res \in ResRec, Resolution, NEW c \in BOOLEAN, ResolveStep(c), res.pc # "idle"
  PROVE  res'.opts = res.opts /\ res'.candidates = res.candidates /\ res'.pc # "idle"
<1>1. res \in ResRec /\ MaxRescans \in Nat
  BY ResolveConstants
<1>2. CASE Top(c)
  BY <1>1, <1>2 DEF Top, ResRec
<1>3. CASE Probe
  BY <1>1, <1>3 DEF Probe, ResRec
<1>4. CASE ScanEnds
  <2>1. ~OutOfScans => res.rescans < MaxRescans
    BY <1>1 DEF OutOfScans, ResRec
  <2>2. ASSUME ~OutOfScans, res' = Again
        PROVE  res'.opts = res.opts /\ res'.candidates = res.candidates /\ res'.pc # "idle"
    BY <1>1, <2>1, <2>2, AgainIsTyped
  <2> QED BY <1>1, <1>4, <2>2 DEF ScanEnds, ResRec
<1>5. CASE Wait
  BY <1>1, <1>5, AgainIsTyped DEF Wait, Resolution
<1> QED BY <1>2, <1>3, <1>4, <1>5 DEF ResolveStep

\* A provider is picked when everything before it was probed and was not free.
LEMMA ProbePicks ==
  ASSUME res \in ResRec, Resolution, Probe
  PROVE  /\ res'.pc \in {"scan", "found"}
         /\ res'.pc = "scan" => res'.answer \in [ConfigEntries -> (Answers \ {"free"}) \cup {Unset}]
         /\ res'.pc = "found" => res'.picked \in res'.candidates
         /\ PickedIsBest'
<1>1. PICK e \in ConfigEntries, a \in ProbeResults :
        /\ res.pc = "scan" /\ IsNext(e)
        /\ res' = [res EXCEPT !.answer[e] = a, !.pc = IF a = "free" THEN "found" ELSE "scan",
                              !.picked = IF a = "free" THEN e ELSE Unset]
  BY DEF Probe
<1>2. res \in ResRec /\ ProbeResults \subseteq Answers
      /\ res.answer \in [ConfigEntries -> (Answers \ {"free"}) \cup {Unset}]
  BY <1>1, ResolveConstants DEF Resolution
<1>3. res' = [res EXCEPT !.answer = [res.answer EXCEPT ![e] = a],
                         !.pc = IF a = "free" THEN "found" ELSE "scan",
                         !.picked = IF a = "free" THEN e ELSE Unset]
  BY <1>1, <1>2 DEF ResRec
<1>4. CASE a = "free"
  <2>1. res'.pc = "found" /\ res'.picked = e /\ res'.candidates = res.candidates
        /\ res'.answer = [res.answer EXCEPT ![e] = a]
    BY <1>2, <1>3, <1>4 DEF ResRec
  <2>2. ASSUME NEW f \in res.candidates, Before(f, e)
        PROVE  res'.answer[f] \in Answers \ {"free"}
    <3>1. f \in ConfigEntries
      BY <1>2 DEF ResRec
    <3>2. ~Before(e, f) /\ f # e
      BY <2>2, <3>1, BeforeIsAsymmetric
    <3>3. res.answer[f] # Unset
      BY <1>1, <3>2 DEF IsNext
    <3>4. res'.answer[f] = res.answer[f]
      BY <1>2, <2>1, <3>1, <3>2
    <3> QED BY <1>2, <3>1, <3>3, <3>4
  <2>3. e \in res.candidates
    BY <1>1 DEF IsNext
  <2> QED BY <2>1, <2>2, <2>3 DEF PickedIsBest
<1>5. CASE a # "free"
  <2>1. res'.pc = "scan" /\ res'.answer = [res.answer EXCEPT ![e] = a]
    BY <1>2, <1>3, <1>5 DEF ResRec
  <2>2. a \in Answers \ {"free"}
    BY <1>2, <1>5
  <2> QED BY <1>2, <2>1, <2>2 DEF PickedIsBest
<1> QED BY <1>4, <1>5

\* Every step keeps what the resolution is worth.
LEMMA ResolveKeeps ==
  ASSUME res \in ResRec, Resolution, NEW c \in BOOLEAN, ResolveStep(c), res.pc # "idle"
  PROVE  Resolution'
<1>1. res'.opts = res.opts /\ res'.candidates = res.candidates
  BY ResolveFrame
<1>2. res \in ResRec /\ res.opts \in Options /\ MaxRescans \in Nat
  BY ResolveConstants DEF Resolution
<1>3. res'.pc # "idle" => res'.opts \in Options
  BY <1>1, <1>2
<1>4. CASE Top(c)
  <2>1. /\ res'.pc \in {"canceled", "scan"} /\ res'.answer = Unprobed
        /\ res'.pc = "canceled" => res.opts.poll
    BY <1>2, <1>4 DEF Top, StopPolling, ResRec
  <2>2. Unprobed \in [ConfigEntries -> (Answers \ {"free"}) \cup {Unset}]
    BY DEF Unprobed
  <2> QED BY <1>1, <1>3, <2>1, <2>2 DEF Resolution, PickedIsBest
<1>5. CASE Probe
  BY <1>1, <1>3, <1>5, ProbePicks DEF Resolution
<1>6. CASE ScanEnds
  <2>1. ~OutOfScans => res.rescans < MaxRescans
    BY <1>2 DEF OutOfScans, ResRec
  <2>2. CASE ~OutOfScans /\ res' = Again
    <3>1. res'.pc = "top"
      BY <1>2, <2>1, <2>2, AgainIsTyped
    <3> QED BY <1>3, <3>1 DEF Resolution, PickedIsBest
  <2>3. CASE \E pc \in {"noMatch", "allLimited"} : res' = [res EXCEPT !.pc = pc]
    <3>1. res'.pc \in {"noMatch", "allLimited"}
      BY <1>2, <2>3 DEF ResRec
    <3> QED BY <1>3, <3>1 DEF Resolution, PickedIsBest
  <2>4. CASE res' = [res EXCEPT !.pc = "wait"] /\ (res.opts.poll \/ ~OutOfScans)
    <3>1. res'.pc = "wait" /\ res'.rescans = res.rescans
      BY <1>2, <2>4 DEF ResRec
    <3> QED BY <1>1, <1>3, <2>1, <2>4, <3>1 DEF Resolution, PickedIsBest
  <2> QED BY <1>6, <2>2, <2>3, <2>4 DEF ScanEnds
<1>7. CASE Wait
  <2>1. res'.pc = "top"
    BY <1>2, <1>7, AgainIsTyped DEF Wait, Resolution
  <2> QED BY <1>3, <2>1 DEF Resolution, PickedIsBest
<1> QED BY <1>4, <1>5, <1>6, <1>7 DEF ResolveStep

\* A step of its caller leaves it as it is.
LEMMA SameResolution == ASSUME Resolution, UNCHANGED res PROVE Resolution'
BY DEF Resolution, PickedIsBest, Before, Priority

\* A resolution that begins offers nothing that is excluded.
LEMMA BeginResolves ==
  ASSUME NEW o \in Options, NEW X, Begin(o, X)
  PROVE  /\ res' \in ResRec /\ res'.pc \in {"top", "noMatch"} /\ res'.opts = o
         /\ Resolution'
         /\ \A e \in res'.candidates : Provider(e) \notin X
<1>1. Candidates(o, X) \subseteq ConfigEntries
      /\ \A e \in Candidates(o, X) : Provider(e) \notin X
  BY DEF Candidates, Eligible
<1>2. res' = [NoResolution EXCEPT !.pc = IF Candidates(o, X) = {} THEN "noMatch" ELSE "top",
                                  !.opts = o, !.candidates = Candidates(o, X)]
  BY DEF Begin
<1>3. NoResolution \in ResRec
  BY ResolveConstants DEF NoResolution, Unprobed, ResRec, ResPc
<1>4. res' \in ResRec /\ res'.pc \in {"top", "noMatch"} /\ res'.opts = o
      /\ res'.candidates = Candidates(o, X)
  BY <1>1, <1>2, <1>3 DEF ResRec, ResPc
<1> QED BY <1>1, <1>4 DEF Resolution, PickedIsBest
=============================================================================
