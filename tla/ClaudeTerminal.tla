---------------------------- MODULE ClaudeTerminal ----------------------------
(***************************************************************************)
(* claude in a tmux pane (claude_terminal/): the thread of a call starts a *)
(* pane, waits for its prompt, pastes, waits until the paste is visible,   *)
(* submits, finds the transcript that claude writes for the session, polls *)
(* it for the end of the turn, and stops the pane.                         *)
(*                                                                         *)
(* The calls share the project's directory of transcripts.  dir lists its  *)
(* sessions by the time of their last change, log[s] the messages of one.  *)
(* A message carries the time of its writing, or none; time passes when a  *)
(* call starts.                                                            *)
(***************************************************************************)
EXTENDS Channel, Naturals, FiniteSets, SequencesExt

CONSTANTS
  Sessions,             \* ids of claude sessions
  Resumed,              \* the session a call with resume continues
  CaptureFailureLimit,  \* CAPTURE_FAILURE_LIMIT (3)
  MaxMessages           \* bound: messages of each transcript

ASSUME ResumedIsSession == Resumed \in Sessions

VARIABLES
  term,   \* the thread of each call
  pane,   \* the tmux pane of each call
  dir, log, now

NoSession == "no session"
NoTime == 0

MessageRec == [type : {"assistant", "result", "turn_duration"}, at : Nat]
TermRec == [pc : {"off", "list", "start", "ready", "paste", "visible", "submit", "find",
                  "wait", "stop", "Session", "Delta", "Done", "Limit", "Error", "end"},
            resume : BOOLEAN, after : Nat, exclude : SUBSET Sessions, failures : Nat,
            session : Sessions \cup {NoSession}, verdict : {"none", "Session", "Limit", "Error"},
            texts : SUBSET Nat, marker : Nat, behind : Nat]

\* A resumed session has one turn behind it; the mark of its end carries no time.
EarlierTurn == <<[type |-> "assistant", at |-> 1], [type |-> "result", at |-> NoTime],
                 [type |-> "turn_duration", at |-> NoTime]>>

TermInit ==
  /\ term = [c \in Calls |->
               [pc |-> "off", resume |-> FALSE, after |-> 0, exclude |-> {}, failures |-> 0,
                session |-> NoSession, verdict |-> "none", texts |-> {}, marker |-> 0,
                behind |-> 0]]
  /\ pane = [c \in Calls |-> [state |-> "none", session |-> NoSession]]
  /\ dir = <<Resumed>>
  /\ log = [s \in Sessions |-> IF s = Resumed THEN EarlierTurn ELSE <<>>]
  /\ now = 1

shared == <<dir, log, now>>
InDir == {dir[i] : i \in 1..Len(dir)}

TermGoes(c, from, to) ==
  /\ term[c].pc = from
  /\ term' = [term EXCEPT ![c].pc = to, ![c].failures = 0]

\* run_session is over, well or with an error; the pane is stopped either way.
TermEnds(c, from, v) ==
  /\ term[c].pc = from
  /\ term' = [term EXCEPT ![c].pc = "stop", ![c].verdict = v, ![c].failures = 0]

-----------------------------------------------------------------------------
\* stream_via_thread.
TermStart(c, resume) ==
  /\ term[c].pc = "off"
  /\ term' = [term EXCEPT ![c].pc = "list", ![c].resume = resume]
  /\ OpenChannel(c)
  /\ UNCHANGED <<pane, shared>>

\* list_session_names and the time of the start.  behind is history: how many
\* messages the session to resume has by then.
TermList(c) ==
  /\ term[c].pc = "list"
  /\ now' = now + 1
  /\ term' = [term EXCEPT ![c].pc = "start", ![c].exclude = InDir, ![c].after = now',
                          ![c].behind = Len(log[Resumed])]
  /\ UNCHANGED <<chan, pane, dir, log>>

\* backend.start; without a pane there is nothing to stop.
TermStartPane(c) ==
  /\ \/ TermGoes(c, "start", "ready") /\ pane' = [pane EXCEPT ![c].state = "loading"]
     \/ TermGoes(c, "start", "Error") /\ UNCHANGED pane
  /\ UNCHANGED <<chan, shared>>

\* capture_screen fails; at the limit of failures in a row the call gives up.
CaptureFails(c) ==
  /\ term[c].pc \in {"ready", "visible"}
  /\ IF term[c].failures + 1 >= CaptureFailureLimit
     THEN TermEnds(c, term[c].pc, "Error")
     ELSE term' = [term EXCEPT ![c].failures = @ + 1]
  /\ UNCHANGED <<chan, pane, shared>>

\* A capture that shows nothing of interest ends a row of failures.
Waiting(c) ==
  \/ term[c].pc = "ready" /\ pane[c].state \notin {"limit", "prompt"}
  \/ term[c].pc = "visible" /\ pane[c].state # "shown"
CaptureShowsNothing(c) ==
  /\ Waiting(c) /\ TermGoes(c, term[c].pc, term[c].pc)
  /\ UNCHANGED <<chan, pane, shared>>

\* wait_for_ready: the limit banner comes before the prompt of the pane.
WaitForReady(c) ==
  /\ \/ pane[c].state = "limit" /\ TermEnds(c, "ready", "Limit")
     \/ pane[c].state = "prompt" /\ TermGoes(c, "ready", "paste")
  /\ UNCHANGED <<chan, pane, shared>>

\* load-buffer, paste-buffer and delete-buffer: the text may be in the pane
\* although the call fails.
PasteText(c) ==
  /\ \/ TermGoes(c, "paste", "visible")
     \/ TermEnds(c, "paste", "Error")
  /\ \/ pane[c].state = "prompt" /\ pane' = [pane EXCEPT ![c].state = "pasted"]
     \/ UNCHANGED pane
  /\ UNCHANGED <<chan, shared>>

\* wait_for_paste_visible looks for the text, or a mark for it.
WaitForPasteVisible(c) ==
  /\ pane[c].state = "shown" /\ TermGoes(c, "visible", "submit")
  /\ UNCHANGED <<chan, pane, shared>>

\* The deadlines of both waits: the last capture has failed or shown nothing.
ScreenTimeout(c) ==
  /\ term[c].pc \in {"ready", "visible"} /\ (Waiting(c) \/ term[c].failures > 0)
  /\ TermEnds(c, term[c].pc, "Error")
  /\ UNCHANGED <<chan, pane, shared>>

\* send-keys Enter; with resume the transcript is known.
Submit(c) ==
  /\ term[c].pc = "submit"
  /\ \/ /\ term' = IF term[c].resume
                   THEN [term EXCEPT ![c].pc = "wait", ![c].session = Resumed]
                   ELSE [term EXCEPT ![c].pc = "find"]
        /\ pane' = [pane EXCEPT ![c].state = IF @ = "shown" THEN "submitted" ELSE @]
     \/ TermEnds(c, "submit", "Error") /\ UNCHANGED pane
  /\ UNCHANGED <<chan, shared>>

\* find_session: of the sessions that did not exist when the call started, the
\* one whose transcript has not changed for the longest time.  The mutant takes
\* any session.
MutIsCandidate(c, s) == TRUE
IsCandidate(c, s) == s \notin term[c].exclude
FindSession(c) ==
  /\ term[c].pc = "find"
  /\ \E i \in 1..Len(dir) :
       /\ IsCandidate(c, dir[i]) /\ \A j \in 1..(i - 1) : ~IsCandidate(c, dir[j])
       /\ term' = [term EXCEPT ![c].pc = "wait", ![c].session = dir[i]]
  /\ UNCHANGED <<chan, pane, shared>>

FindTimeout(c) ==
  /\ \A s \in InDir : ~IsCandidate(c, s)
  /\ TermEnds(c, "find", "Error")
  /\ UNCHANGED <<chan, pane, shared>>

\* scan_transcript: messages of earlier turns do not count.  A message without
\* a time does, but not as the mark of the end of the turn; for the mutant it does.
msg_in_window(c, m) == m.at = NoTime \/ m.at >= term[c].after
MutMarkerInWindow(c, m) == msg_in_window(c, m)
marker_in_window(c, m) == m.at # NoTime /\ m.at >= term[c].after

Scanned(c, type) ==
  {i \in 1..Len(log[term[c].session]) :
     LET m == log[term[c].session][i] IN
       /\ m.type = type
       /\ IF type = "assistant" THEN msg_in_window(c, m) ELSE marker_in_window(c, m)}

Answers(c, marker) ==
  /\ term[c].pc = "wait"
  /\ term' = [term EXCEPT ![c].pc = "stop", ![c].verdict = "Session",
                          ![c].texts = Scanned(c, "assistant"), ![c].marker = marker]
  /\ UNCHANGED <<chan, pane, shared>>

\* wait_for_assistant_response: a result ends the turn, or the mark of its end
\* once there is some text.
TurnEnded(c) ==
  \/ \E i \in Scanned(c, "result") : Answers(c, i)
  \/ /\ Scanned(c, "result") = {} /\ Scanned(c, "assistant") # {}
     /\ \E i \in Scanned(c, "turn_duration") : Answers(c, i)

\* At the deadline what is there counts as the answer, and nothing as a timeout.
TurnTimeout(c) ==
  /\ Scanned(c, "result") = {}
  /\ \/ Scanned(c, "assistant") # {} /\ Scanned(c, "turn_duration") = {} /\ Answers(c, 0)
     \/ /\ Scanned(c, "assistant") = {} /\ TermEnds(c, "wait", "Error")
        /\ UNCHANGED <<chan, pane, shared>>

\* stop: kill-session, whose failure is ignored.
StopPane(c) ==
  /\ TermGoes(c, "stop", term[c].verdict)
  /\ pane' = [pane EXCEPT ![c].state = "gone"]
  /\ UNCHANGED <<chan, shared>>

TermChunk(c, pc, next) == TermGoes(c, pc, next) /\ Send(c, pc) /\ UNCHANGED <<pane, shared>>
TermLast(c, pc) == TermGoes(c, pc, "end") /\ SendLast(c, pc) /\ UNCHANGED <<pane, shared>>

\* Mutant of TermSends: the text before the session.
MutTermSends(c) ==
  \/ TermGoes(c, "Session", "Delta") /\ Send(c, "Delta") /\ UNCHANGED <<pane, shared>>
  \/ TermGoes(c, "Delta", "Done") /\ Send(c, "Session") /\ UNCHANGED <<pane, shared>>
  \/ TermLast(c, "Done") \/ TermLast(c, "Limit") \/ TermLast(c, "Error")

TermSends(c) ==
  \/ TermChunk(c, "Session", "Delta") \/ TermChunk(c, "Delta", "Done")
  \/ TermLast(c, "Done") \/ TermLast(c, "Limit") \/ TermLast(c, "Error")

TermStep(c) ==
  \/ TermList(c) \/ TermStartPane(c) \/ CaptureFails(c) \/ CaptureShowsNothing(c)
  \/ WaitForReady(c) \/ PasteText(c)
  \/ WaitForPasteVisible(c) \/ ScreenTimeout(c) \/ Submit(c)
  \/ FindSession(c) \/ FindTimeout(c) \/ (term[c].pc = "wait" /\ TurnEnded(c))
  \/ (term[c].pc = "wait" /\ TurnTimeout(c))
  \/ StopPane(c) \/ TermSends(c)

-----------------------------------------------------------------------------
(* The claude command line in its pane, and its transcripts (external). *)

PaneShows(c) ==
  /\ \/ /\ pane[c].state = "loading"
        /\ \E s \in {"limit", "prompt"} : pane' = [pane EXCEPT ![c].state = s]
     \/ pane[c].state = "pasted" /\ pane' = [pane EXCEPT ![c].state = "shown"]
  /\ UNCHANGED <<chan, term, shared>>

\* A transcript is written to: it becomes the last of the directory.
Touched(s) == Append(RemoveFirst(dir, s), s)

\* Claude begins the turn that was submitted, in the session it resumes or in
\* a new one.
TurnBegins(c) ==
  /\ pane[c].state = "submitted"
  /\ \E s \in Sessions :
       /\ IF term[c].resume THEN s = Resumed ELSE s \notin InDir
       /\ pane' = [pane EXCEPT ![c] = [state |-> "working", session |-> s]]
       /\ dir' = Touched(s)
  /\ UNCHANGED <<chan, term, log, now>>

\* It writes a message; the mark of the end of the turn is the last.
Writes(c, type) ==
  /\ pane[c].state = "working"
  /\ Len(log[pane[c].session]) < MaxMessages[pane[c].session]
  /\ log' = [log EXCEPT ![pane[c].session] = Append(@, [type |-> type, at |-> now])]
  /\ dir' = Touched(pane[c].session)
  /\ pane' = [pane EXCEPT ![c].state = IF type = "assistant" THEN "working" ELSE "answered"]
  /\ UNCHANGED <<chan, term, now>>

TermEnvironment(c) ==
  PaneShows(c) \/ TurnBegins(c)
  \/ \E type \in {"assistant", "result", "turn_duration"} : Writes(c, type)
-----------------------------------------------------------------------------
(* Properties. *)

\* The answer of a resumed session is that of the turn just submitted: neither
\* its texts nor the mark that ended the wait were there before the call began.
AnswerIsFresh ==
  \A c \in Calls : term[c].resume =>
    \A i \in term[c].texts \cup ({term[c].marker} \ {0}) : i > term[c].behind

\* A new session that is reported is the one its claude works in, whatever other
\* sessions of the project are written to meanwhile, unless two appear at once.
Fresh(c) == term[c].pc # "off" /\ ~term[c].resume
ReportedIsOwn ==
  Cardinality({c \in Calls : Fresh(c)}) <= 1 =>
    \A c \in Calls : Fresh(c) /\ term[c].verdict = "Session" =>
      term[c].session = pane[c].session
=============================================================================
