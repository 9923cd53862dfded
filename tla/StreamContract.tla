---------------------------- MODULE StreamContract ----------------------------
(***************************************************************************)
(* What a backend promises to whoever reads its stream of StreamChunks     *)
(* (sdk/pi_runner.rs: StreamChunk, seher-cli stream.rs: drain_stream): the *)
(* session once and before any text, then texts, then one terminal chunk   *)
(* and nothing after it.  A stream that stops without a terminal chunk has *)
(* lost its reader, or its thread has panicked.  LateSpec is the weaker    *)
(* promise of a backend that learns the session only after the first text. *)
(***************************************************************************)
CONSTANT Calls

VARIABLES
  stream,  \* how far the stream of each call has come
  hungUp   \* the reader of the stream has dropped its receiver

Terminals == {"Done", "Limit", "Error"}
Live == {"open", "named", "text", "namedText"}

Moves(c, from, to) ==
  /\ stream[c] \in from
  /\ stream' = [stream EXCEPT ![c] = to]
  /\ UNCHANGED hungUp

Refuse(c) == Moves(c, {"idle"}, "Error")
Open(c) == Moves(c, {"idle"}, "open")
Name(c) == Moves(c, {"open"}, "named")
NameLate(c) == Moves(c, {"text"}, "namedText")
Say(c) ==
  \/ Moves(c, {"open", "text"}, "text")
  \/ Moves(c, {"named", "namedText"}, "namedText")
Finish(c) == \E t \in Terminals : Moves(c, Live, t)
Panic(c) == Moves(c, Live, "panicked")
Lose(c) == hungUp[c] /\ Moves(c, Live, "lost")

HangUp(c) ==
  /\ ~hungUp[c]
  /\ hungUp' = [hungUp EXCEPT ![c] = TRUE]
  /\ UNCHANGED stream

Init ==
  /\ stream = [c \in Calls |-> "idle"]
  /\ hungUp = [c \in Calls |-> FALSE]

Next == \E c \in Calls :
  Refuse(c) \/ Open(c) \/ Name(c) \/ Say(c) \/ Finish(c) \/ Panic(c) \/ Lose(c) \/ HangUp(c)

Spec == Init /\ [][Next]_<<stream, hungUp>>
LateSpec == Init /\ [][Next \/ \E c \in Calls : NameLate(c)]_<<stream, hungUp>>
=============================================================================
