------------------------------- MODULE Resolve -------------------------------
(***************************************************************************)
(* Provider resolution (crates/seher-sdk/src/sdk/resolve.rs): which entry  *)
(* of the configuration runs a prompt.  Candidates are the entries that    *)
(* can run here, define the mode and are not excluded; a scan probes them  *)
(* in order until one is not rate limited.  When all are limited,          *)
(* resolve_agent waits for the earliest reset and scans again a bounded    *)
(* number of times, poll_for_agent for ever.  Probing is the external      *)
(* codexbar program: what it answers is a choice, made anew by each probe. *)
(*                                                                         *)
(* The module is a component: SdkRun and CliRun start resolutions with     *)
(* Begin and read their result from res.                                   *)
(***************************************************************************)
EXTENDS Integers, FiniteSets

CONSTANTS
  ConfigEntries,  \* entries of the providers map of config.yaml
  Config,         \* Config[e]: the fields of entry e that resolution reads
  Options,        \* the options of the calls of this instance
  MaxRescans,     \* how often resolve_agent scans again
  ProbeResults,   \* what the probe of this instance may answer
  Unset           \* Option::None

SupportedSdks == {"pi", "omp", "pi-rust", "claude", "claude-terminal", "claude-headless"}
ToolSdks == {"pi", "omp", "pi-rust", "claude"}

\* A probe finds the entry free, limited until a known or an unknown time, or
\* it fails.
Answers == {"free", "limitedUntil", "limited", "error"}
LimitAnswers == {"limitedUntil", "limited"}

(* provider: the name --provider and exclusion compare; several entries may
   share it.  defines: the entry has models[mode_key].  model_priority and
   priority may be unset.  order: position in the file, all different.     *)
ASSUME ConfigShape ==
  /\ \A e \in ConfigEntries :
       /\ Config[e].sdk \in STRING
       /\ Config[e].defines \in BOOLEAN
       /\ Config[e].model_priority \in Int \cup {Unset}
       /\ Config[e].priority \in Int \cup {Unset}
       /\ Config[e].order \in Nat
  /\ \A e, f \in ConfigEntries : Config[e].order = Config[f].order => e = f

(* poll: the call is poll_for_agent, not resolve_agent.  provider_filter: the
   --provider of the command line.  no_wait: return AllLimited at once.
   require_tools: the run passes custom tools.                             *)
ASSUME OptionsShape ==
  \A o \in Options :
    /\ o.poll \in BOOLEAN /\ o.no_wait \in BOOLEAN /\ o.require_tools \in BOOLEAN
    /\ o.provider_filter \in {Config[e].provider : e \in ConfigEntries} \cup {Unset}
ASSUME ResolveConstants ==
  /\ IsFiniteSet(ConfigEntries)
  /\ Unset \notin Int /\ Unset \notin ConfigEntries
  /\ MaxRescans \in Nat
  /\ ProbeResults \subseteq Answers

VARIABLE res  \* the resolution under way: the locals of resolve_agent

ResPc == {"idle", "top", "scan", "wait", "found", "noMatch", "allLimited", "canceled"}

ResRec == [pc : ResPc, opts : Options \cup {Unset}, candidates : SUBSET ConfigEntries,
           answer : [ConfigEntries -> Answers \cup {Unset}],
           rescans : 0..MaxRescans, picked : ConfigEntries \cup {Unset}]

Unprobed == [e \in ConfigEntries |-> Unset]

NoResolution ==
  [pc |-> "idle", opts |-> Unset, candidates |-> {}, answer |-> Unprobed,
   rescans |-> 0, picked |-> Unset]

-----------------------------------------------------------------------------
(* build_candidates and filter_candidates_for_tools. *)

Provider(e) == Config[e].provider

\* Mutant of Eligible: exclusion is forgotten.
MutEligible(e, o, excluded) ==
  Config[e].sdk \in SupportedSdks /\ Config[e].defines

Eligible(e, o, excluded) ==
  /\ Config[e].sdk \in SupportedSdks
  /\ o.provider_filter # Unset => Provider(e) = o.provider_filter
  /\ Provider(e) \notin excluded
  /\ Config[e].defines
  /\ o.require_tools => Config[e].sdk \in ToolSdks

Candidates(o, excluded) == {e \in ConfigEntries : Eligible(e, o, excluded)}

\* model.priority.or(entry.priority).unwrap_or(0)
Priority(e) ==
  CASE Config[e].model_priority # Unset -> Config[e].model_priority
    [] Config[e].model_priority = Unset /\ Config[e].priority # Unset -> Config[e].priority
    [] OTHER -> 0

\* The sort: priority descending, then order ascending.
Before(e, f) ==
  \/ Priority(e) > Priority(f)
  \/ Priority(e) = Priority(f) /\ Config[e].order < Config[f].order

-----------------------------------------------------------------------------
(* scan and the loops around it. *)

\* The candidate the scan probes next; the mutant takes any.
MutIsNext(e) == e \in res.candidates /\ res.answer[e] = Unset
IsNext(e) ==
  /\ e \in res.candidates /\ res.answer[e] = Unset
  /\ \A f \in res.candidates \ {e} : res.answer[f] = Unset => Before(e, f)

\* A call of resolve_agent or of poll_for_agent.
Begin(o, excluded) == LET candidates == Candidates(o, excluded) IN
  res' = [NoResolution EXCEPT !.pc = IF candidates = {} THEN "noMatch" ELSE "top",
                              !.opts = o, !.candidates = candidates]

\* The head of the loop.  Only poll_for_agent looks at its cancel flag, and
\* only here; the mutant has lost the test.
MutStopPolling(cancel) == FALSE
StopPolling(cancel) == res.opts.poll /\ cancel

Top(cancel) ==
  /\ res.pc = "top"
  /\ res' = [res EXCEPT !.pc = IF StopPolling(cancel) THEN "canceled" ELSE "scan",
                        !.answer = Unprobed]

Probe ==
  /\ res.pc = "scan"
  /\ \E e \in ConfigEntries, a \in ProbeResults :
       /\ IsNext(e)
       /\ res' = [res EXCEPT !.answer[e] = a,
                             !.pc = IF a = "free" THEN "found" ELSE "scan",
                             !.picked = IF a = "free" THEN e ELSE Unset]

Answered(as) == {e \in res.candidates : res.answer[e] \in as}

\* No more scans.
OutOfScans == res.opts.no_wait \/ res.rescans >= MaxRescans

\* The next round of the loop; the mutant does not count it.
MutAgain == [res EXCEPT !.pc = "top"]
Again == [res EXCEPT !.pc = "top", !.rescans = IF res.opts.poll THEN @ ELSE @ + 1]

\* Every candidate was probed and none is free.
ScanEnds ==
  /\ res.pc = "scan" /\ Answered({Unset}) = {}
  /\ \/ /\ Answered(LimitAnswers) = {}             \* every probe failed
        /\ res' = [res EXCEPT !.pc = "noMatch"]
     \/ /\ Answered(LimitAnswers) # {}
        /\ ~res.opts.poll /\ OutOfScans
        /\ res' = [res EXCEPT !.pc = "allLimited"]
     \/ /\ Answered(LimitAnswers) # {}             \* sleep, then scan again
        /\ res.opts.poll \/ (~OutOfScans /\ Answered({"limitedUntil"}) # {})
        /\ res' = [res EXCEPT !.pc = "wait"]
     \/ /\ Answered(LimitAnswers) # {}             \* no reset known: no sleep
        /\ ~res.opts.poll /\ ~OutOfScans /\ Answered({"limitedUntil"}) = {}
        /\ res' = Again

\* sleep_until; nothing interrupts it.
Wait ==
  /\ res.pc = "wait"
  /\ res' = Again

ResolveStep(cancel) == Top(cancel) \/ Probe \/ ScanEnds \/ Wait

-----------------------------------------------------------------------------
\* The resolver picks the best provider: everything that comes before the
\* picked entry was probed in the same scan and was not free.
PickedIsBest ==
  res.pc = "found" =>
    \A f \in res.candidates : Before(f, res.picked) => res.answer[f] \in Answers \ {"free"}
=============================================================================
