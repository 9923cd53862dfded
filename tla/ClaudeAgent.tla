----------------------------- MODULE ClaudeAgent -----------------------------
(***************************************************************************)
(* One run of the claude command line through the claude-agent-sdk         *)
(* (crates/claude-agent-sdk/src/transport/subprocess_cli.rs, query.rs) by  *)
(* its users: run_async of crates/seher-sdk/src/claude_agent/mod.rs, with  *)
(* tools (streaming input, a control handler) or without (--print), and    *)
(* the public query().                                                     *)
(*                                                                         *)
(* The transport is three tasks around a child process: a writer of its    *)
(* stdin, a reader of its stdout that answers control requests itself and  *)
(* forwards the rest, and a reader of its stderr.  They are joined by      *)
(* bounded channels, and to the child by pipes.  All tasks run on one      *)
(* thread, so a step is what a task does between two awaits; when the run  *)
(* returns, the runtime is dropped and the tasks and the child with it.    *)
(***************************************************************************)
EXTENDS Naturals, Sequences, FiniteSets

CONSTANTS
  Modes,        \* how the transport is used: a subset of AllModes
  ChanCap,      \* the bound of the channels (64)
  PipeCap,      \* bound: what fits into a pipe
  TailLines,    \* STDERR_TAIL_LINES (64)
  MaxFrames,    \* bound: frames the child writes before its last
  MaxRequests,  \* bound: control requests the child makes
  MaxLines      \* bound: lines the child writes to stderr

AllModes == {"tools", "plain", "query"}
ASSUME ModesKnown == Modes \subseteq AllModes
ASSUME RoomForOne == {ChanCap, PipeCap, TailLines} \subseteq Nat \ {0}
ASSUME BoundsNat == {MaxFrames, MaxRequests, MaxLines} \subseteq Nat

VARIABLES
  user,    \* the task that uses the transport
  writer,  \* write_stdin_loop
  demux,   \* read_stdout_loop
  err,     \* read_stderr_loop
  tail,    \* the ring of stderr lines that the user's drain task fills
  buf,     \* the channels and the pipes
  cli      \* the child process

vars == <<user, writer, demux, err, tail, buf, cli>>

Channels == {"writes", "messages", "lines"}
Pipes == {"stdin", "stdout", "stderr"}

Finals == {"result", "failed", "limited"}           \* the Result frames
Frames == {"text", "request", "noise", "partial"} \cup Finals
Items == {"text", "garbage"} \cup Finals
Lines == {"limit", "other"}
Inputs == {"prompt", "response"}

Idle(p) == [pc |-> p, item |-> "none"]

UserRec == [pc : {"connect", "read", "wait", "drain", "verdict", "end"}, mode : AllModes,
            sender : BOOLEAN, named : BOOLEAN, deltas : 0..MaxFrames,
            terminal : Items \cup {"none", "eof"}, drained : BOOLEAN,
            verdict : {"none", "Done", "Error", "Limit"}]
CliRec == [pc : {"off", "waiting", "working", "done", "broken", "exited"},
           owed : 0..MaxRequests, asked : 0..MaxRequests, frames : 0..MaxFrames,
           said : Seq(Lines), writing : {<<>>} \cup (Pipes \X (Frames \cup Lines))]

Init ==
  /\ user \in {[pc |-> "connect", mode |-> m, sender |-> FALSE, named |-> FALSE,
                deltas |-> 0, terminal |-> "none", drained |-> FALSE,
                verdict |-> "none"] : m \in Modes}
  /\ writer = Idle("off") /\ demux = Idle("off") /\ err = Idle("off")
  /\ tail = <<>>
  /\ buf = [b \in Channels \cup Pipes |-> <<>>]
  /\ cli = [pc |-> "off", owed |-> 0, asked |-> 0, frames |-> 0, said |-> <<>>,
            writing |-> <<>>]

Empty(b) == buf[b] = <<>>

\* A send waits for room.
HasRoom(b) == Len(buf[b]) < IF b \in Channels THEN ChanCap ELSE PipeCap

Put(b, x) == buf' = [buf EXCEPT ![b] = Append(@, x)]
Take(b) == buf' = [buf EXCEPT ![b] = Tail(@)]

Streaming == user.mode = "tools"
Running == user.pc \notin {"connect", "end"}   \* the runtime drives the tasks
Alive == cli.pc \notin {"off", "exited"}

-----------------------------------------------------------------------------
(* The user: run_async, or a caller that reads the stream of query(). *)

\* The run returns: the runtime and the transport are dropped, which kills the
\* child (kill_on_drop).
Return(v) ==
  /\ user' = [user EXCEPT !.pc = "end", !.verdict = v, !.sender = FALSE]
  /\ cli' = [cli EXCEPT !.pc = "exited", !.writing = <<>>]

ConnectFails ==
  /\ user.pc = "connect"
  /\ Return("Error")
  /\ UNCHANGED <<writer, demux, err, tail, buf>>

\* connect, take_stderr_rx, and with tools write and end_input: no other task
\* runs before the first read waits.
Connect ==
  /\ user.pc = "connect"
  /\ user' = [user EXCEPT !.pc = "read", !.sender = ~Streaming]
  /\ writer' = Idle("recv") /\ demux' = Idle("read") /\ err' = Idle("read")
  /\ buf' = IF Streaming THEN [buf EXCEPT !["writes"] = <<"prompt">>] ELSE buf
  /\ cli' = [cli EXCEPT !.pc = IF Streaming THEN "waiting" ELSE "working"]
  /\ UNCHANGED tail

\* run_async announces the session of the first message that carries its id,
\* which is optional in assistant frames and in the Result: before the texts of
\* that message, which is still to be taken, but after those of the messages
\* before it.  Whether a message has an id is chosen here, where it is looked at.
ReadSession ==
  /\ user.pc = "read" /\ user.mode # "query" /\ ~user.named /\ ~Empty("messages")
  /\ Head(buf["messages"]) # "garbage"
  /\ user' = [user EXCEPT !.named = TRUE]
  /\ UNCHANGED <<writer, demux, err, tail, buf, cli>>

\* A text is handed on, or the embedder has dropped the receiver of the chunks
\* (the caller of query() its stream) and the run returns.
ReadText ==
  /\ user.pc = "read" /\ ~Empty("messages") /\ Head(buf["messages"]) = "text"
  /\ Take("messages")
  /\ \/ user' = [user EXCEPT !.deltas = @ + 1] /\ UNCHANGED cli
     \/ Return("none")
  /\ UNCHANGED <<writer, demux, err, tail>>

\* query() hands out every item and ends with the channel; run_async stops at
\* the first Result or error and starts close(): the stream is dropped, and
\* end_input drops the sender.
StopReading(t) ==
  user' = [user EXCEPT !.pc = "wait", !.terminal = t, !.sender = FALSE]

ReadLast == LET item == Head(buf["messages"]) IN
  /\ user.pc = "read" /\ ~Empty("messages") /\ item # "text"
  /\ Take("messages")
  /\ IF user.mode = "query" THEN UNCHANGED user ELSE StopReading(item)
  /\ UNCHANGED <<writer, demux, err, tail, cli>>

ReadEof ==
  /\ user.pc = "read" /\ Empty("messages") /\ demux.pc = "end"
  /\ \/ user.mode = "query" /\ Return("none")
     \/ user.mode # "query" /\ StopReading("eof") /\ UNCHANGED cli
  /\ UNCHANGED <<writer, demux, err, tail, buf>>

\* close waits 5 s for the child's exit, then kills it; the mutant only waits.
MutWait ==
  /\ user.pc = "wait" /\ ~Alive
  /\ user' = [user EXCEPT !.pc = "drain"]
  /\ UNCHANGED <<writer, demux, err, tail, buf, cli>>

Wait ==
  /\ user.pc = "wait"
  /\ user' = [user EXCEPT !.pc = "drain"]
  /\ cli' = [cli EXCEPT !.pc = "exited", !.writing = <<>>]
  /\ UNCHANGED <<writer, demux, err, tail, buf>>

\* The drain task has seen the end of the lines; the mutant does not look.
MutLinesEnded == TRUE
LinesEnded == err.pc = "end" /\ Empty("lines")

\* await_stderr_drain: the task ends, or 2 s are over.
AwaitDrain ==
  /\ user.pc = "drain"
  /\ \/ LinesEnded /\ user' = [user EXCEPT !.pc = "verdict", !.drained = TRUE]
     \/ ~LinesEnded /\ user' = [user EXCEPT !.pc = "verdict"]
  /\ UNCHANGED <<writer, demux, err, tail, buf, cli>>

\* send_error_with_stderr, or limit_from_stderr after a stream that ended well.
Limited == user.terminal = "limited" \/ \E i \in 1..Len(tail) : tail[i] = "limit"

Verdict ==
  /\ user.pc = "verdict"
  /\ Return(IF Limited THEN "Limit"
            ELSE IF user.terminal \in {"result", "eof"} THEN "Done" ELSE "Error")
  /\ UNCHANGED <<writer, demux, err, tail, buf>>

UserStep ==
  \/ ConnectFails \/ Connect \/ ReadSession \/ ReadText \/ ReadLast \/ ReadEof
  \/ Wait \/ AwaitDrain \/ Verdict

-----------------------------------------------------------------------------
(* The tasks of the transport. *)

\* DemuxSender::upgrade: strong with a handler, that is with tools, and weak
\* without.  The mutant is always weak.
MutUpgrades == user.sender
Upgrades == Streaming \/ user.sender

\* The channel to the writer is open while somebody holds a strong sender.
WritesOpen == user.sender \/ (Streaming /\ demux.pc # "end")

Receive ==
  /\ Running /\ writer.pc = "recv"
  /\ \/ /\ ~Empty("writes")
        /\ writer' = [pc |-> "write", item |-> Head(buf["writes"])]
        /\ Take("writes")
     \/ /\ Empty("writes") /\ ~WritesOpen
        /\ writer' = Idle("end")
        /\ UNCHANGED buf
  /\ UNCHANGED <<user, demux, err, tail, cli>>

\* write_all: an error ends the task, and either way stdin is shut at its end.
WriteLine ==
  /\ Running /\ writer.pc = "write"
  /\ \/ Alive /\ HasRoom("stdin") /\ Put("stdin", writer.item) /\ writer' = Idle("recv")
     \/ ~Alive /\ writer' = Idle("end") /\ UNCHANGED buf
  /\ UNCHANGED <<user, demux, err, tail, cli>>

\* What a frame becomes: "noise" is a line that is no JSON.  A partial frame
\* waits in the accumulator for its rest.
ReadFrame == LET frame == Head(buf["stdout"]) IN
  /\ Running /\ demux.pc = "read" /\ ~Empty("stdout")
  /\ Take("stdout")
  /\ demux' = CASE frame = "request" -> Idle("answer")
                [] frame = "noise" -> [pc |-> "forward", item |-> "garbage"]
                [] frame = "partial" -> [pc |-> "read", item |-> "partial"]
                [] OTHER -> [pc |-> "forward", item |-> frame]
  /\ UNCHANGED <<user, writer, err, tail, cli>>

\* End of stdout: what is left in the accumulator is reported.
ReadStdoutEof ==
  /\ Running /\ demux.pc = "read" /\ Empty("stdout") /\ ~Alive
  /\ demux' = IF demux.item = "partial" THEN [pc |-> "forward", item |-> "garbage"]
              ELSE Idle("end")
  /\ UNCHANGED <<user, writer, err, tail, buf, cli>>

\* Mutant of Forward: a try_send that drops the item when there is no room.
MutForward ==
  /\ Running /\ demux.pc = "forward"
  /\ \/ user.pc = "read" /\ HasRoom("messages") /\ Put("messages", demux.item)
     \/ user.pc = "read" /\ ~HasRoom("messages") /\ UNCHANGED buf
  /\ demux' = Idle("read")
  /\ UNCHANGED <<user, writer, err, tail, cli>>

\* tx.send: waits for room; fails once the user has dropped the stream.
Forward ==
  /\ Running /\ demux.pc = "forward"
  /\ \/ /\ user.pc = "read" /\ HasRoom("messages")
        /\ Put("messages", demux.item) /\ demux' = Idle("read")
     \/ user.pc # "read" /\ demux' = Idle("end") /\ UNCHANGED buf
  /\ UNCHANGED <<user, writer, err, tail, cli>>

\* The handler has run; its response goes to the writer, or nowhere.
Answer ==
  /\ Running /\ demux.pc = "answer"
  /\ \/ Upgrades /\ writer.pc # "end" /\ HasRoom("writes") /\ Put("writes", "response")
     \/ (~Upgrades \/ writer.pc = "end") /\ UNCHANGED buf
  /\ demux' = Idle("read")
  /\ UNCHANGED <<user, writer, err, tail, cli>>

ReadLine ==
  /\ Running /\ err.pc = "read"
  /\ \/ ~Empty("stderr") /\ err' = [pc |-> "send", item |-> Head(buf["stderr"])]
        /\ Take("stderr")
     \/ Empty("stderr") /\ ~Alive /\ err' = Idle("end") /\ UNCHANGED buf
  /\ UNCHANGED <<user, writer, demux, tail, cli>>

SendLine ==
  /\ Running /\ err.pc = "send"
  /\ HasRoom("lines") /\ Put("lines", err.item) /\ err' = Idle("read")
  /\ UNCHANGED <<user, writer, demux, tail, cli>>

\* push_stderr_line; the mutant drops the new line when the ring is full.
MutPushed(line) == IF Len(tail) >= TailLines THEN tail ELSE Append(tail, line)
Pushed(line) == Append(IF Len(tail) >= TailLines THEN Tail(tail) ELSE tail, line)

\* The drain task of run_async; a user of query() has none.
Drain ==
  /\ Running /\ user.mode # "query" /\ ~Empty("lines")
  /\ tail' = Pushed(Head(buf["lines"]))
  /\ Take("lines")
  /\ UNCHANGED <<user, writer, demux, err, cli>>

-----------------------------------------------------------------------------
(* The claude command line (external). *)

\* It stops for a pipe that is full, and reads nothing meanwhile.
CliReads ==
  /\ Alive /\ cli.writing = <<>> /\ ~Empty("stdin")
  /\ Take("stdin")
  /\ cli' = IF Head(buf["stdin"]) = "prompt" THEN [cli EXCEPT !.pc = "working"]
            ELSE [cli EXCEPT !.owed = @ - 1]
  /\ UNCHANGED <<user, writer, demux, err, tail>>

CliWrites ==
  /\ Alive /\ cli.writing # <<>> /\ HasRoom(cli.writing[1])
  /\ Put(cli.writing[1], cli.writing[2])
  /\ cli' = [cli EXCEPT !.writing = <<>>,
                        !.said = IF cli.writing[1] = "stderr"
                                 THEN Append(@, cli.writing[2]) ELSE @]
  /\ UNCHANGED <<user, writer, demux, err, tail>>

Begins(to, item, next) ==
  /\ cli.writing = <<>>
  /\ cli' = [next EXCEPT !.writing = <<to, item>>]
  /\ UNCHANGED <<user, writer, demux, err, tail, buf>>

CliText ==
  /\ cli.pc = "working" /\ cli.frames < MaxFrames
  /\ Begins("stdout", "text", [cli EXCEPT !.frames = @ + 1])

CliNoise ==
  /\ cli.pc = "working" /\ cli.frames < MaxFrames
  /\ Begins("stdout", "noise", [cli EXCEPT !.frames = @ + 1])

\* The MCP handshake may come before the prompt is read, tool calls later.
CliAsks ==
  /\ Streaming /\ cli.pc \in {"waiting", "working"} /\ cli.asked < MaxRequests
  /\ Begins("stdout", "request", [cli EXCEPT !.asked = @ + 1, !.owed = @ + 1])

CliSays ==
  /\ Alive /\ Len(cli.said) < MaxLines
  /\ \E line \in Lines : Begins("stderr", line, cli)

CliFinishes ==
  /\ cli.pc = "working" /\ cli.owed = 0
  /\ \E r \in Finals : Begins("stdout", r, [cli EXCEPT !.pc = "done"])

\* It gives up in the middle of a frame.
CliTruncates ==
  /\ cli.pc = "working"
  /\ Begins("stdout", "partial", [cli EXCEPT !.pc = "broken"])

\* With streaming input it goes on until its stdin ends.
CliExits ==
  /\ cli.pc \in {"waiting", "done", "broken"} /\ cli.writing = <<>>
  /\ Streaming /\ cli.pc # "broken" => writer.pc = "end" /\ Empty("stdin")
  /\ cli' = [cli EXCEPT !.pc = "exited"]
  /\ UNCHANGED <<user, writer, demux, err, tail, buf>>

CliDies ==
  /\ Alive
  /\ cli' = [cli EXCEPT !.pc = "exited", !.writing = <<>>]
  /\ UNCHANGED <<user, writer, demux, err, tail, buf>>

-----------------------------------------------------------------------------
Next ==
  \/ UserStep
  \/ Receive \/ WriteLine
  \/ ReadFrame \/ ReadStdoutEof \/ Forward \/ Answer
  \/ ReadLine \/ SendLine \/ Drain
  \/ CliReads \/ CliWrites \/ CliText \/ CliNoise \/ CliAsks \/ CliSays
  \/ CliFinishes \/ CliTruncates \/ CliExits \/ CliDies

Spec == Init /\ [][Next]_vars

\* The runtime drives every task that can go on.  The command line reads and
\* writes, finishes what it works on and exits when it can.
FairSpec ==
  /\ Spec
  /\ WF_vars(UserStep)
  /\ WF_vars(Receive \/ WriteLine)
  /\ WF_vars(ReadFrame \/ ReadStdoutEof \/ Forward \/ Answer)
  /\ WF_vars(ReadLine \/ SendLine)
  /\ WF_vars(Drain)
  /\ WF_vars(CliReads) /\ WF_vars(CliWrites) /\ WF_vars(CliFinishes) /\ WF_vars(CliExits)

-----------------------------------------------------------------------------
(* Properties. *)

Count(b, x) == Cardinality({i \in 1..Len(buf[b]) : buf[b][i] = x})

\* No control request is lost while its answer matters: every answer the
\* command line waits for is on its way to it, or the request is on its way to
\* the handler, although end_input was called long before.
RequestsAnswered ==
  user.pc = "read" /\ Alive =>
    cli.owed = Count("stdout", "request") + Count("writes", "response")
               + Count("stdin", "response")
               + Cardinality({w \in {"request"} : cli.writing = <<"stdout", w>>})
               + Cardinality({d \in {"answer"} : demux.pc = d})
               + Cardinality({r \in {"response"} : writer.item = r})

\* The bounded channel delays frames and loses none: a run that has seen the
\* Result has reported every text that was written before it, and there was no
\* line before it that is no JSON.
TextsBeforeResult == user.terminal \in Finals => user.deltas = cli.frames

\* A rate limit that the command line reports in the last lines of its stderr is
\* reported as a limit, whatever became of stdout, unless the drain of stderr
\* ran into its deadline.
LimitSeen == LET n == Len(cli.said) IN
  user.pc = "end" /\ user.drained
  /\ (\E i \in 1..n : i + TailLines > n /\ cli.said[i] = "limit")
  => user.verdict = "Limit"

\* Every run ends, provided the command line does not work forever.
AgentEnds == user.pc # "connect" ~> user.pc = "end"

\* A line of stderr that nobody takes is dropped: the reader never waits for
\* room, and the command line not for the reader.
LinesAreDropped == err.pc = "send" ~> (err.pc # "send" \/ user.pc = "end")
=============================================================================
