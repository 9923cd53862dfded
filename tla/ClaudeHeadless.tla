---------------------------- MODULE ClaudeHeadless ----------------------------
(***************************************************************************)
(* claude -p as a child process (claude_headless/runner.rs): the thread of *)
(* stream_headless runs the child, polls it under a cancel token and a     *)
(* deadline, joins the two threads that read its pipes, and reports what   *)
(* came out.  A reader ends when nobody holds the write end of its pipe:   *)
(* neither the child nor a process the child has started.                  *)
(***************************************************************************)
EXTENDS Channel

VARIABLES
  head,   \* the thread of each call
  child   \* its child process, and whether a grandchild holds the pipes

HeadRec == [pc : {"off", "start", "poll", "timedOut", "join", "delta", "done", "fail", "end"},
            message : {"none", "other", "limit"}]
ChildRec == [state : {"none", "running", "ok", "bad", "limited", "killed"}, heir : BOOLEAN]

HeadInit ==
  /\ head = [c \in Calls |-> [pc |-> "off", message |-> "none"]]
  /\ child = [c \in Calls |-> [state |-> "none", heir |-> FALSE]]

HeadGoes(c, from, to) ==
  /\ head[c].pc = from
  /\ head' = [head EXCEPT ![c].pc = to]

\* run returns Err; only what the child has said on stderr can name a limit.
HeadFails(c, from, message) ==
  /\ head[c].pc = from
  /\ head' = [head EXCEPT ![c] = [pc |-> "fail", message |-> message]]

Ended(c) == child[c].state \in {"ok", "bad", "limited"}
PipesClosed(c) == child[c].state # "running" /\ ~child[c].heir

-----------------------------------------------------------------------------
\* stream_headless.
HeadStart(c) == HeadGoes(c, "off", "start") /\ OpenChannel(c) /\ UNCHANGED child

\* The token is looked at before the child exists.
HeadRefused(c, cancelled) ==
  /\ cancelled /\ HeadFails(c, "start", "other")
  /\ UNCHANGED <<chan, child>>

HeadSpawnFails(c, cancelled) ==
  /\ ~cancelled /\ HeadFails(c, "start", "other")
  /\ UNCHANGED <<chan, child>>

HeadSpawn(c, cancelled) ==
  /\ ~cancelled /\ HeadGoes(c, "start", "poll")
  /\ child' = [child EXCEPT ![c].state = "running"]
  /\ UNCHANGED chan

\* try_wait finds the child's exit, which is never lost to a cancel or a deadline.
HeadExited(c) ==
  /\ Ended(c) /\ HeadGoes(c, "poll", "join")
  /\ UNCHANGED <<chan, child>>

\* try_wait fails; the child is left alone.
HeadWaitFails(c) ==
  /\ HeadFails(c, "poll", "other")
  /\ UNCHANGED <<chan, child>>

\* After a cancel the readers are left to themselves.  The mutant joins them.
MutHeadCancelled(c, cancelled) ==
  /\ cancelled /\ child[c].state = "running"
  /\ HeadGoes(c, "poll", "timedOut")
  /\ child' = [child EXCEPT ![c].state = "killed"]
  /\ UNCHANGED chan
HeadCancelled(c, cancelled) ==
  /\ cancelled /\ child[c].state = "running"
  /\ HeadFails(c, "poll", "other")
  /\ child' = [child EXCEPT ![c].state = "killed"]
  /\ UNCHANGED chan

\* The deadline comes second, and after it the readers are joined.
HeadTimeout(c, cancelled) ==
  /\ ~cancelled /\ child[c].state = "running"
  /\ HeadGoes(c, "poll", "timedOut")
  /\ child' = [child EXCEPT ![c].state = "killed"]
  /\ UNCHANGED chan

HeadTimedOut(c) ==
  /\ PipesClosed(c) /\ HeadFails(c, "timedOut", "other")
  /\ UNCHANGED <<chan, child>>

\* wait, and the join of both readers.
HeadJoined(c) ==
  /\ PipesClosed(c)
  /\ \/ child[c].state = "ok" /\ HeadGoes(c, "join", "delta")
     \/ child[c].state = "bad" /\ HeadFails(c, "join", "other")
     \/ child[c].state = "limited" /\ HeadFails(c, "join", "limit")
  /\ UNCHANGED <<chan, child>>

HeadDelta(c) == HeadGoes(c, "delta", "done") /\ Send(c, "Delta") /\ UNCHANGED child

HeadDone(c) == HeadGoes(c, "done", "end") /\ SendLast(c, "Done") /\ UNCHANGED child

HeadFail(c) ==
  /\ HeadGoes(c, "fail", "end")
  /\ SendLast(c, IF head[c].message = "limit" THEN "Limit" ELSE "Error")
  /\ UNCHANGED child

HeadStep(c, cancelled) ==
  \/ HeadRefused(c, cancelled) \/ HeadSpawnFails(c, cancelled) \/ HeadSpawn(c, cancelled)
  \/ HeadExited(c) \/ HeadCancelled(c, cancelled) \/ HeadTimeout(c, cancelled)
  \/ HeadTimedOut(c) \/ HeadJoined(c)
  \/ HeadDelta(c) \/ HeadDone(c) \/ HeadFail(c)

-----------------------------------------------------------------------------
(* The claude command line (external). *)

\* It starts a process that inherits its pipes.
ChildForks(c) ==
  /\ child[c].state = "running" /\ ~child[c].heir
  /\ child' = [child EXCEPT ![c].heir = TRUE]
  /\ UNCHANGED <<chan, head>>

ChildExits(c) ==
  /\ child[c].state = "running"
  /\ \E s \in {"ok", "bad", "limited"} : child' = [child EXCEPT ![c].state = s]
  /\ UNCHANGED <<chan, head>>

HeirEnds(c) ==
  /\ child[c].heir
  /\ child' = [child EXCEPT ![c].heir = FALSE]
  /\ UNCHANGED <<chan, head>>

HeadEnvironment(c) == HeadWaitFails(c) \/ ChildForks(c) \/ ChildExits(c) \/ HeirEnds(c)
=============================================================================
