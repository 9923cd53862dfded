------------------------------- MODULE Channel -------------------------------
(***************************************************************************)
(* The channel of StreamChunks between the thread of a backend and the     *)
(* reader of a call.  It is unbounded, so a send never waits and its       *)
(* result is ignored; what matters of the past is the last chunk, whether  *)
(* the session was named, and whether there was text.                      *)
(***************************************************************************)
CONSTANT Calls

VARIABLE chan

Terminals == {"Done", "Limit", "Error"}
Chunks == {"none", "Session", "Delta"} \cup Terminals

ChanRec == [last : Chunks, session : {"none", "sent", "again"}, text : BOOLEAN,
            sender : {"none", "alive", "dropped", "panicked"}, receiver : BOOLEAN]

NewChannel == [last |-> "none", session |-> "none", text |-> FALSE,
               sender |-> "none", receiver |-> TRUE]
ChanInit == chan = [c \in Calls |-> NewChannel]

\* The channel after one more chunk.
With(ch, chunk) ==
  [ch EXCEPT !.last = chunk,
             !.session = IF chunk # "Session" THEN @ ELSE IF @ = "none" THEN "sent" ELSE "again",
             !.text = @ \/ chunk = "Delta"]

OpenChannel(c) == chan' = [chan EXCEPT ![c].sender = "alive"]
Send(c, chunk) == chan' = [chan EXCEPT ![c] = With(@, chunk)]
DropSender(c) == chan' = [chan EXCEPT ![c].sender = "dropped"]

\* The thread sends its last chunk and ends.
SendLast(c, chunk) == chan' = [chan EXCEPT ![c].last = chunk, ![c].sender = "dropped"]

\* The thread ends in a panic, which drops the sender.
PanicSender(c) == chan' = [chan EXCEPT ![c].sender = "panicked"]

\* The reader drops its receiver: drain_stream after a timeout, a cancel or a
\* failed write, or an embedder that has seen enough.
HangUp(c) ==
  /\ chan[c].sender = "alive" /\ chan[c].receiver
  /\ chan' = [chan EXCEPT ![c].receiver = FALSE]

\* The channel in the words of the contract.
StreamOf(c) == LET ch == chan[c] IN
  IF ch.sender = "none" THEN "idle"
  ELSE IF ch.last \in Terminals THEN ch.last
  ELSE CASE ch.sender = "panicked" -> "panicked"
         [] ch.sender = "dropped" -> "lost"
         [] ch.sender = "alive" /\ ch.session = "again" -> "renamed"
         [] ch.sender = "alive" /\ ch.session = "sent" -> IF ch.text THEN "namedText" ELSE "named"
         [] OTHER -> IF ch.text THEN "text" ELSE "open"

Contract == INSTANCE StreamContract
              WITH stream <- [c \in Calls |-> StreamOf(c)],
                   hungUp <- [c \in Calls |-> ~chan[c].receiver]
=============================================================================
