------------------------------- MODULE Codexbar -------------------------------
(***************************************************************************)
(* The probe for a rate limit (codexbar/client.rs, limit.rs): codexbar is  *)
(* run in a process group of its own, polled under a deadline while two    *)
(* threads read its pipes, and its usage windows are classified.  The      *)
(* helpers that codexbar starts inherit the pipes, and may outlive it.     *)
(***************************************************************************)
EXTENDS Integers, FiniteSets, FiniteSetsExt

CONSTANTS
  Probes,         \* one probe at a time belongs to each
  Windows,        \* the usage windows codexbar may report: a set of WindowRec
  FallbackReset,  \* FALLBACK_RESET_SECS
  NoReset         \* no resetsAt that can be parsed

VARIABLES
  probe,  \* the blocking task of each probe
  bar     \* its codexbar, and whether helpers hold the pipes

\* Times are relative to the present.
WindowRec == [used : 0..100, resets : Int \cup {NoReset}]
ASSUME WindowsAreRecs == Windows \subseteq WindowRec
ASSUME FallbackIsAhead == FallbackReset \in Nat \ {0}
ASSUME NoResetIsNoTime == NoReset \notin Int

FreeAnswer == [limited |-> FALSE, reset |-> 0]

ProbeRec == [pc : {"off", "poll", "timedOut", "join", "end"},
             windows : SUBSET Windows, answer : [limited : BOOLEAN, reset : Int]]
BarRec == [state : {"none", "running", "usage", "failed", "killed"}, helpers : BOOLEAN]

ProbeInit ==
  /\ probe = [c \in Probes |-> [pc |-> "off", windows |-> {}, answer |-> FreeAnswer]]
  /\ bar = [c \in Probes |-> [state |-> "none", helpers |-> FALSE]]

ProbeGoes(c, from, to) ==
  /\ probe[c].pc = from
  /\ probe' = [probe EXCEPT ![c].pc = to]

BarClosed(c) == bar[c].state # "running" /\ ~bar[c].helpers

-----------------------------------------------------------------------------
(* limit.rs *)

parse_resets_at(w) == IF w.resets = NoReset THEN FallbackReset ELSE w.resets
is_limited(w) == w.used >= 100

\* The resets that are still ahead; the mutant counts stale ones as well.
MutResetsAhead(ws) == {parse_resets_at(w) : w \in {v \in ws : is_limited(v)}}
ResetsAhead(ws) == {r \in {parse_resets_at(w) : w \in {v \in ws : is_limited(v)}} : r > 0}

classify(ws) ==
  IF ResetsAhead(ws) = {} THEN FreeAnswer
  ELSE [limited |-> TRUE, reset |-> Min(ResetsAhead(ws))]

-----------------------------------------------------------------------------
(* run_blocking.  Every error of the probe counts as no limit. *)

ProbeSpawns(c) ==
  /\ ProbeGoes(c, "off", "poll")
  /\ bar' = [bar EXCEPT ![c].state = "running"]

\* No codexbar (NotFound), or no process (Spawn).
ProbeSpawnFails(c) == ProbeGoes(c, "off", "end") /\ UNCHANGED bar

ProbeSeesExit(c) ==
  /\ bar[c].state \in {"usage", "failed"}
  /\ ProbeGoes(c, "poll", "join")
  /\ UNCHANGED bar

\* try_wait fails; codexbar is left alone.
ProbeWaitFails(c) == ProbeGoes(c, "poll", "end") /\ UNCHANGED bar

\* kill_process_group takes the helpers along; the mutant kills the child only.
MutKilled(b) == [b EXCEPT !.state = "killed"]
kill_process_group(b) == [state |-> "killed", helpers |-> FALSE]

ProbeTimeout(c) ==
  /\ bar[c].state = "running"
  /\ ProbeGoes(c, "poll", "timedOut")
  /\ bar' = [bar EXCEPT ![c] = kill_process_group(@)]

ProbeTimedOut(c) == BarClosed(c) /\ ProbeGoes(c, "timedOut", "end") /\ UNCHANGED bar

\* The readers end, which only the end of the helpers brings about once codexbar
\* has exited; parse_response: exit codes, among them that of a timeout,
\* and output that is no array or has no entry of the provider are errors.
ProbeReads(c) ==
  /\ probe[c].pc = "join" /\ BarClosed(c)
  /\ \E ws \in SUBSET Windows :
       /\ bar[c].state = "failed" => ws = {}
       /\ probe' = [probe EXCEPT ![c] = [pc |-> "end", windows |-> ws, answer |-> classify(ws)]]
  /\ UNCHANGED bar

ProbeStep(c) ==
  \/ ProbeSpawns(c) \/ ProbeSpawnFails(c) \/ ProbeSeesExit(c)
  \/ ProbeTimeout(c) \/ ProbeTimedOut(c) \/ ProbeReads(c)

-----------------------------------------------------------------------------
(* codexbar (external).  It asks the command lines of the agents through    *)
(* helpers of its process group, and ends well or not.  A helper that is   *)
(* left behind ends when it likes.                                         *)

BarHelps(c) ==
  /\ \/ bar[c].state = "running"
     \/ bar[c].state # "none" /\ bar[c].helpers
  /\ bar' = [bar EXCEPT ![c].helpers = ~@]
  /\ UNCHANGED probe

BarExits(c) ==
  /\ bar[c].state = "running"
  /\ \E s \in {"usage", "failed"} : bar' = [bar EXCEPT ![c].state = s]
  /\ UNCHANGED probe

ProbeEnvironment(c) == ProbeWaitFails(c) \/ BarHelps(c) \/ BarExits(c)

-----------------------------------------------------------------------------
(* Properties. *)

\* The deadline ends every probe whose codexbar has not exited, also when it
\* hangs on a helper that has inherited its pipes.  Only a helper that outlives
\* a codexbar that has exited by itself can hold the probe.
ProbeEnds ==
  \A c \in Probes :
    probe[c].pc = "poll"
      ~> probe[c].pc = "end" \/ (probe[c].pc = "join" /\ bar[c].helpers)

\* A limit is never older than the probe: its reset is ahead, no full window
\* frees up earlier, and one without a known reset is a limit by itself.
LimitIsAhead ==
  \A c \in Probes : LET full == {w \in probe[c].windows : w.used >= 100} IN
    /\ probe[c].answer.limited =>
         /\ probe[c].answer.reset > 0
         /\ \A w \in full : w.resets # NoReset /\ w.resets > 0 => w.resets >= probe[c].answer.reset
    /\ (\E w \in full : w.resets = NoReset) => probe[c].answer.limited
=============================================================================
