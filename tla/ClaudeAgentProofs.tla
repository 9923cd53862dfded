-------------------------- MODULE ClaudeAgentProofs --------------------------
(***************************************************************************)
(* What a run of claude through the SDK reports, for any size of the       *)
(* channels and pipes and any command line: no text before the Result is   *)
(* lost, no control request goes unanswered, and no limit in the last      *)
(* lines of stderr is overlooked.                                          *)
(*                                                                         *)
(* Each of them is about a line of queues between the command line and the *)
(* user.  The invariants say what is on its way in each: of the texts and  *)
(* the requests how many, of the frame that ends stdout that nothing comes *)
(* behind it, and of the lines of stderr which.                            *)
(***************************************************************************)
EXTENDS ClaudeAgent, FiniteSetTheorems, SequenceTheorems, TLAPS

\* How many elements of q are in X.
Number(q, X) == Cardinality({i \in 1..Len(q) : q[i] \in X})
One(b) == IF b THEN 1 ELSE 0
Has(q, X) == \E i \in 1..Len(q) : q[i] \in X

Writing(X) == \E f \in X : cli.writing = <<"stdout", f>>

-----------------------------------------------------------------------------
(* Counting in sequences *)

LEMMA NumberIsNat ==
  ASSUME NEW S, NEW q \in Seq(S), NEW X
  PROVE  /\ IsFiniteSet({i \in 1..Len(q) : q[i] \in X})
         /\ Number(q, X) \in Nat
         /\ Number(q, X) = 0 <=> ~Has(q, X)
<1>1. Len(q) \in Nat
  OBVIOUS
<1>2. IsFiniteSet({i \in 1..Len(q) : q[i] \in X})
  <2>1. IsFiniteSet(1..Len(q))
    BY <1>1, FS_Interval
  <2> QED BY <2>1, FS_Subset
<1>3. Number(q, X) \in Nat
  BY <1>2, FS_CardinalityType DEF Number
<1>4. Number(q, X) = 0 <=> {i \in 1..Len(q) : q[i] \in X} = {}
  BY <1>2, FS_EmptySet DEF Number
<1> QED BY <1>2, <1>3, <1>4 DEF Has

LEMMA NumberOfNone ==
  ASSUME NEW X
  PROVE  Number(<<>>, X) = 0
<1>1. {i \in 1..Len(<<>>) : <<>>[i] \in X} = {}
  OBVIOUS
<1> QED BY <1>1, FS_EmptySet DEF Number

LEMMA NumberAppend ==
  ASSUME NEW S, NEW q \in Seq(S), NEW x \in S, NEW X
  PROVE  Number(Append(q, x), X) = Number(q, X) + One(x \in X)
<1> DEFINE n == Len(q) + 1
           old == {i \in 1..Len(q) : q[i] \in X}
           new == {i \in 1..Len(Append(q, x)) : Append(q, x)[i] \in X}
<1>1. /\ n \in Nat /\ Len(Append(q, x)) = n /\ Append(q, x)[n] = x
      /\ \A i \in 1..Len(q) : Append(q, x)[i] = q[i]
  OBVIOUS
<1>2. IsFiniteSet(old) /\ n \notin old
  <2>1. IsFiniteSet(old)
    BY NumberIsNat
  <2> QED BY <2>1
<1>3. Number(q, X) = Cardinality(old) /\ Number(q, X) \in Nat
  BY NumberIsNat DEF Number
<1>4. Number(Append(q, x), X) = Cardinality(new)
  BY DEF Number
<1>5. CASE x \in X
  <2>1. new = old \cup {n}
    BY <1>1, <1>5
  <2>2. Cardinality(new) = Cardinality(old) + 1
    <3> HIDE DEF old, new, n
    <3> QED BY <1>2, <2>1, FS_AddElement
  <2> HIDE DEF old, new
  <2> QED BY <1>3, <1>4, <1>5, <2>2 DEF One
<1>6. CASE x \notin X
  <2>1. new = old
    BY <1>1, <1>6
  <2> HIDE DEF old, new
  <2> QED BY <1>3, <1>4, <1>6, <2>1 DEF One
<1> QED BY <1>5, <1>6

LEMMA NumberTail ==
  ASSUME NEW S, NEW q \in Seq(S), q # <<>>, NEW X
  PROVE  Number(q, X) = Number(Tail(q), X) + One(Head(q) \in X)
<1> DEFINE all == {i \in 1..Len(q) : q[i] \in X}
           rest == {i \in 1..Len(Tail(q)) : Tail(q)[i] \in X}
           f == [i \in rest |-> i + 1]
<1>1. /\ Len(q) \in Nat \ {0} /\ Tail(q) \in Seq(S) /\ Len(Tail(q)) = Len(q) - 1
      /\ Head(q) = q[1] /\ \A i \in 1..Len(Tail(q)) : Tail(q)[i] = q[i + 1]
  OBVIOUS
<1>2. IsFiniteSet(all) /\ IsFiniteSet(rest) /\ Cardinality(all) \in Nat /\ Cardinality(rest) \in Nat
  BY <1>1, NumberIsNat DEF Number
<1>3. Cardinality(rest) = Cardinality(all \ {1})
  <2>1. \A i \in rest : i \in Nat /\ i + 1 \in all \ {1}
    BY <1>1
  <2>2. \A j \in all \ {1} : j - 1 \in rest /\ j = (j - 1) + 1
    <3> SUFFICES ASSUME NEW j \in all \ {1} PROVE j - 1 \in rest /\ j = (j - 1) + 1
      OBVIOUS
    <3>1. j \in 2..Len(q) /\ q[j] \in X
      BY <1>1
    <3>2. j - 1 \in 1..Len(Tail(q)) /\ (j - 1) + 1 = j
      BY <1>1, <3>1
    <3>3. Tail(q)[j - 1] = q[j]
      BY <1>1, <3>2
    <3> QED BY <3>1, <3>2, <3>3
  <2>3. f \in [rest -> all \ {1}]
    BY <2>1
  <2>4. \A a, b \in rest : f[a] = f[b] => a = b
    BY <2>1
  <2>5. \A j \in all \ {1} : \E i \in rest : f[i] = j
    BY <2>2
  <2>6. f \in Bijection(rest, all \ {1})
    <3> HIDE DEF all, rest, f
    <3> QED BY <2>3, <2>4, <2>5 DEF Bijection, Injection, IsInjective, Surjection
  <2> HIDE DEF all, rest, f
  <2>7. ExistsBijection(rest, all \ {1})
    BY <2>6 DEF ExistsBijection
  <2>8. IsFiniteSet(all \ {1})
    BY <1>2, FS_Subset
  <2> QED BY <1>2, <2>7, <2>8, FS_Bijection
<1>4. 1 \in all <=> Head(q) \in X
  BY <1>1
<1>5. Cardinality(all \ {1}) = IF 1 \in all THEN Cardinality(all) - 1 ELSE Cardinality(all)
  BY <1>2, FS_RemoveElement
<1>6. Number(q, X) = Cardinality(all) /\ Number(Tail(q), X) = Cardinality(rest)
  BY DEF Number
<1> HIDE DEF all, rest
<1> QED BY <1>2, <1>3, <1>4, <1>5, <1>6 DEF One

-----------------------------------------------------------------------------
(* The invariant *)

Content(b) == CASE b \in {"writes", "stdin"} -> Inputs
                [] b = "stdout" -> Frames
                [] b = "messages" -> Items
                [] OTHER -> Lines

UserTypes == [pc : {"connect", "read", "wait", "drain", "verdict", "end"}, mode : AllModes,
              sender : BOOLEAN, named : BOOLEAN, deltas : Nat,
              terminal : Items \cup {"none", "eof"}, drained : BOOLEAN,
              verdict : {"none", "Done", "Error", "Limit"}]
CliTypes == [pc : {"off", "waiting", "working", "done", "broken", "exited"},
             owed : Int, asked : Nat, frames : Nat, said : Seq(Lines),
             writing : {<<>>} \cup ({"stdout"} \X Frames) \cup ({"stderr"} \X Lines)]

Tasks ==
  /\ \/ writer.pc = "write" /\ writer.item \in Inputs
     \/ writer.pc \in {"off", "recv", "end"} /\ writer.item = "none"
  /\ \/ demux.pc = "forward" /\ demux.item \in Items
     \/ demux.pc = "read" /\ demux.item = "partial"
     \/ demux.pc \in {"off", "read", "answer", "end"} /\ demux.item = "none"
  /\ \/ err.pc = "send" /\ err.item \in Lines
     \/ err.pc \in {"off", "read", "end"} /\ err.item = "none"

Buffers ==
  /\ DOMAIN buf = Channels \cup Pipes
  /\ \A b \in Channels \cup Pipes : buf[b] \in Seq(Content(b))

AgentTypes ==
  user \in UserTypes /\ cli \in CliTypes /\ Tasks /\ tail \in Seq(Lines) /\ Buffers

Phases ==
  /\ user.pc = "connect" =>
       /\ cli = [pc |-> "off", owed |-> 0, asked |-> 0, frames |-> 0, said |-> <<>>,
                 writing |-> <<>>]
       /\ \A b \in Channels \cup Pipes : Empty(b)
       /\ tail = <<>> /\ user.deltas = 0
       /\ writer.pc = "off" /\ demux.pc = "off" /\ err.pc = "off"
  /\ user.pc # "connect" => cli.pc # "off"
  /\ user.pc = "end" => cli.pc = "exited"
  /\ user.pc \in {"connect", "read"} => user.terminal = "none"

\* While the user reads a live command line, the tasks between them run.
Driven ==
  user.pc = "read" =>
    /\ user.sender = ~Streaming
    /\ Alive => writer.pc \in {"recv", "write"} /\ demux.pc \in {"read", "forward", "answer"}

Owed ==
  user.pc = "read" /\ Alive =>
    cli.owed = Number(buf["stdout"], {"request"}) + Number(buf["writes"], {"response"})
               + Number(buf["stdin"], {"response"}) + One(Writing({"request"}))
               + One(demux.pc = "answer") + One(writer.item = "response")

RequestInv == Driven /\ Owed

\* Frames behind which the command line writes no other.
Enders == Finals \cup {"partial"}
EndsWith(q, X) == \A i \in 1..Len(q) : q[i] \in X => i = Len(q)
Over == {"done", "broken", "exited"}

EndersLast ==
  /\ EndsWith(buf["messages"], Finals) /\ EndsWith(buf["stdout"], Enders)
  /\ Has(buf["messages"], Finals) => demux.item = "none"
  /\ Has(buf["messages"], Finals) \/ demux.item \in Enders => Empty("stdout")
  /\ Has(buf["messages"], Finals) \/ demux.item \in Enders \/ Has(buf["stdout"], Enders) =>
       ~Writing(Frames) /\ cli.pc \in Over
  /\ Writing(Enders) => cli.pc \in Over

\* The prompt is read once, so the command line begins no second turn.
Prompts == Number(buf["writes"], {"prompt"}) + One(writer.item = "prompt")
           + Number(buf["stdin"], {"prompt"})
OnePrompt ==
  /\ cli.pc = "waiting" => Prompts <= 1
  /\ cli.pc \in {"working", "done", "broken"} => Prompts = 0

\* What the command line has counted as a frame, in all places it may be.
Texts == {"text", "noise", "garbage"}
Unread == Number(buf["messages"], Texts) + One(demux.item \in Texts)
          + Number(buf["stdout"], Texts) + One(Writing(Texts))
FinalAhead ==
  \/ Has(buf["messages"], Finals) \/ demux.item \in Finals
  \/ Has(buf["stdout"], Finals) \/ Writing(Finals)

TextsCounted ==
  /\ user.pc = "read" /\ user.mode # "query" /\ (Alive \/ FinalAhead) =>
       user.deltas + Unread = cli.frames
  /\ user.terminal \in Finals => user.deltas = cli.frames /\ cli.pc \in Over

TextInv == EndersLast /\ OnePrompt /\ TextsCounted

\* The ring holds the end of the first p lines, the others are on their way.
Placed(p, said, ring, lines, held, pipe) ==
  /\ Len(said) = p + Len(lines) + Len(held) + Len(pipe)
  /\ \A i \in 1..Len(lines) : lines[i] = said[p + i]
  /\ \A i \in 1..Len(held) : held[i] = said[p + Len(lines) + i]
  /\ \A i \in 1..Len(pipe) : pipe[i] = said[p + Len(lines) + Len(held) + i]
  /\ Len(ring) <= p /\ (Len(ring) < p => Len(ring) >= TailLines)
  /\ \A i \in 1..Len(ring) : ring[i] = said[p - Len(ring) + i]

HeldLine == IF err.pc = "send" THEN <<err.item>> ELSE <<>>

LinesPlaced ==
  \E p \in 0..Len(cli.said) : Placed(p, cli.said, tail, buf["lines"], HeldLine, buf["stderr"])

LinesOver ==
  /\ err.pc = "end" => cli.pc = "exited" /\ Empty("stderr")
  /\ user.drained => LinesEnded /\ user.pc \in {"verdict", "end"}
  /\ user.drained /\ user.pc = "end" => (Has(tail, {"limit"}) => user.verdict = "Limit")

LineInv == LinesPlaced /\ LinesOver

AgentInv == AgentTypes /\ Phases /\ RequestInv /\ TextInv /\ LineInv

-----------------------------------------------------------------------------
(* Lines on their way *)

\* The command line writes a line.
LEMMA PlacedWrite ==
  ASSUME NEW said \in Seq(Lines), NEW ring \in Seq(Lines), NEW lines \in Seq(Lines),
         NEW held \in Seq(Lines), NEW pipe \in Seq(Lines), NEW p \in Nat,
         Placed(p, said, ring, lines, held, pipe), NEW x \in Lines
  PROVE  Placed(p, Append(said, x), ring, lines, held, Append(pipe, x))
<1> DEFINE more == Append(said, x)
           wider == Append(pipe, x)
<1>1. /\ more \in Seq(Lines) /\ Len(more) = Len(said) + 1 /\ more[Len(said) + 1] = x
      /\ \A i \in 1..Len(said) : more[i] = said[i]
      /\ wider \in Seq(Lines) /\ Len(wider) = Len(pipe) + 1 /\ wider[Len(pipe) + 1] = x
      /\ \A i \in 1..Len(pipe) : wider[i] = pipe[i]
      /\ Len(said) \in Nat /\ Len(ring) \in Nat /\ Len(lines) \in Nat /\ Len(held) \in Nat /\ Len(pipe) \in Nat
  OBVIOUS
<1> HIDE DEF more, wider
<1>2. /\ Len(said) = p + Len(lines) + Len(held) + Len(pipe)
      /\ Len(more) = p + Len(lines) + Len(held) + Len(wider)
      /\ Len(ring) <= p /\ (Len(ring) < p => Len(ring) >= TailLines)
  BY <1>1 DEF Placed
<1>3. \A i \in 1..Len(lines) : lines[i] = more[p + i]
  <2>1. \A i \in 1..Len(lines) : p + i \in 1..Len(said) /\ lines[i] = said[p + i]
    BY <1>1, <1>2 DEF Placed
  <2> QED BY <1>1, <2>1
<1>4. \A i \in 1..Len(held) : held[i] = more[p + Len(lines) + i]
  <2>1. \A i \in 1..Len(held) :
          p + Len(lines) + i \in 1..Len(said) /\ held[i] = said[p + Len(lines) + i]
    BY <1>1, <1>2 DEF Placed
  <2> QED BY <1>1, <2>1
<1>5. \A i \in 1..Len(wider) : wider[i] = more[p + Len(lines) + Len(held) + i]
  <2>1. ASSUME NEW i \in 1..Len(pipe)
        PROVE  wider[i] = more[p + Len(lines) + Len(held) + i]
    <3>1. p + Len(lines) + Len(held) + i \in 1..Len(said)
      BY <1>1, <1>2
    <3>2. pipe[i] = said[p + Len(lines) + Len(held) + i]
      BY DEF Placed
    <3> QED BY <1>1, <3>1, <3>2
  <2>2. wider[Len(wider)] = more[p + Len(lines) + Len(held) + Len(wider)]
    BY <1>1, <1>2
  <2>3. \A i \in 1..Len(wider) : i \in 1..Len(pipe) \/ i = Len(wider)
    BY <1>1
  <2> QED BY <2>1, <2>2, <2>3
<1>6. \A i \in 1..Len(ring) : ring[i] = more[p - Len(ring) + i]
  <2>1. \A i \in 1..Len(ring) :
          p - Len(ring) + i \in 1..Len(said) /\ ring[i] = said[p - Len(ring) + i]
    BY <1>1, <1>2 DEF Placed
  <2> QED BY <1>1, <2>1
<1>7. Placed(p, more, ring, lines, held, wider)
  BY <1>2, <1>3, <1>4, <1>5, <1>6 DEF Placed
<1> QED BY <1>7 DEF more, wider

\* Its reader takes one.
LEMMA PlacedTake ==
  ASSUME NEW said \in Seq(Lines), NEW ring \in Seq(Lines), NEW lines \in Seq(Lines),
         NEW pipe \in Seq(Lines), NEW p \in Nat, pipe # <<>>,
         Placed(p, said, ring, lines, <<>>, pipe)
  PROVE  Placed(p, said, ring, lines, <<Head(pipe)>>, Tail(pipe))
<1> DEFINE less == Tail(pipe)
           held == <<Head(pipe)>>
<1>1. /\ less \in Seq(Lines) /\ Len(less) = Len(pipe) - 1 /\ Len(pipe) \in Nat \ {0}
      /\ \A i \in 1..Len(less) : less[i] = pipe[i + 1]
      /\ Len(held) = 1 /\ held[1] = pipe[1] /\ Len(<<>>) = 0
      /\ Len(said) \in Nat /\ Len(ring) \in Nat /\ Len(lines) \in Nat
  OBVIOUS
<1> HIDE DEF less, held
<1>2. Len(said) = p + Len(lines) + Len(held) + Len(less)
  BY <1>1 DEF Placed
<1>3. \A i \in 1..Len(held) : held[i] = said[p + Len(lines) + i]
  BY <1>1 DEF Placed
<1>4. \A i \in 1..Len(less) : less[i] = said[p + Len(lines) + Len(held) + i]
  <2> SUFFICES ASSUME NEW i \in 1..Len(less)
               PROVE  less[i] = said[p + Len(lines) + Len(held) + i]
    OBVIOUS
  <2>1. i + 1 \in 1..Len(pipe) /\ less[i] = pipe[i + 1]
    BY <1>1
  <2>2. pipe[i + 1] = said[p + Len(lines) + 0 + (i + 1)]
    BY <1>1, <2>1 DEF Placed
  <2>3. p + Len(lines) + 0 + (i + 1) = p + Len(lines) + Len(held) + i
    BY <1>1
  <2> QED BY <2>1, <2>2, <2>3
<1>5. Placed(p, said, ring, lines, held, less)
  BY <1>2, <1>3, <1>4 DEF Placed
<1> QED BY <1>5 DEF less, held

\* It sends it on.
LEMMA PlacedSend ==
  ASSUME NEW said \in Seq(Lines), NEW ring \in Seq(Lines), NEW lines \in Seq(Lines),
         NEW pipe \in Seq(Lines), NEW p \in Nat, NEW x \in Lines,
         Placed(p, said, ring, lines, <<x>>, pipe)
  PROVE  Placed(p, said, ring, Append(lines, x), <<>>, pipe)
<1> DEFINE more == Append(lines, x)
<1>1. /\ more \in Seq(Lines) /\ Len(more) = Len(lines) + 1 /\ more[Len(lines) + 1] = x
      /\ \A i \in 1..Len(lines) : more[i] = lines[i]
      /\ Len(<<x>>) = 1 /\ <<x>>[1] = x /\ Len(<<>>) = 0
      /\ Len(said) \in Nat /\ Len(ring) \in Nat /\ Len(lines) \in Nat /\ Len(pipe) \in Nat
  OBVIOUS
<1> HIDE DEF more
<1>2. x = said[p + Len(lines) + 1]
  BY <1>1 DEF Placed
<1>3. \A i \in 1..Len(more) : more[i] = said[p + i]
  <2>1. \A i \in 1..Len(lines) : more[i] = said[p + i]
    BY <1>1 DEF Placed
  <2>2. more[Len(more)] = said[p + Len(more)]
    <3>1. p + Len(more) = p + Len(lines) + 1
      BY <1>1
    <3> QED BY <1>1, <1>2, <3>1
  <2>3. \A i \in 1..Len(more) : i \in 1..Len(lines) \/ i = Len(more)
    BY <1>1
  <2> QED BY <2>1, <2>2, <2>3
<1>4. \A i \in 1..Len(pipe) : pipe[i] = said[p + Len(more) + Len(<<>>) + i]
  <2>1. p + Len(more) + Len(<<>>) = p + Len(lines) + Len(<<x>>)
    BY <1>1
  <2> QED BY <2>1 DEF Placed
<1>5. Len(said) = p + Len(more) + Len(<<>>) + Len(pipe)
  BY <1>1 DEF Placed
<1>6. \A i \in 1..Len(<<>>) : <<>>[i] = said[p + Len(more) + i]
  BY <1>1
<1>7. Placed(p, said, ring, more, <<>>, pipe)
  BY <1>3, <1>4, <1>5, <1>6 DEF Placed
<1> QED BY <1>7 DEF more

\* The drain task puts it into the ring.
LEMMA PlacedDrain ==
  ASSUME NEW said \in Seq(Lines), NEW lines \in Seq(Lines), NEW held \in Seq(Lines),
         NEW pipe \in Seq(Lines), NEW p \in Nat, tail \in Seq(Lines), lines # <<>>,
         Placed(p, said, tail, lines, held, pipe)
  PROVE  /\ p + 1 <= Len(said) /\ Pushed(Head(lines)) \in Seq(Lines)
         /\ Placed(p + 1, said, Pushed(Head(lines)), Tail(lines), held, pipe)
<1> DEFINE less == Tail(lines)
           kept == IF Len(tail) >= TailLines THEN Tail(tail) ELSE tail
           ring == Append(kept, Head(lines))
<1>1. /\ less \in Seq(Lines) /\ Len(less) = Len(lines) - 1 /\ Len(lines) \in Nat \ {0}
      /\ Head(lines) = lines[1] /\ Head(lines) \in Lines
      /\ \A i \in 1..Len(less) : less[i] = lines[i + 1]
      /\ Len(said) \in Nat /\ Len(tail) \in Nat /\ Len(held) \in Nat /\ Len(pipe) \in Nat
      /\ TailLines \in Nat \ {0}
  BY RoomForOne
<1>2. /\ kept \in Seq(Lines) /\ Len(kept) \in Nat
      /\ Len(kept) = IF Len(tail) >= TailLines THEN Len(tail) - 1 ELSE Len(tail)
      /\ \A i \in 1..Len(kept) : kept[i] = tail[Len(tail) - Len(kept) + i]
  <2>1. CASE Len(tail) >= TailLines
    <3>1. tail # <<>>
      BY <1>1, <2>1
    <3> QED BY <1>1, <2>1, <3>1
  <2>2. CASE ~(Len(tail) >= TailLines)
    BY <1>1, <2>2
  <2> QED BY <2>1, <2>2
<1> HIDE DEF kept
<1>3. /\ ring \in Seq(Lines) /\ Len(ring) = Len(kept) + 1 /\ ring[Len(kept) + 1] = Head(lines)
      /\ \A i \in 1..Len(kept) : ring[i] = kept[i]
  BY <1>1, <1>2
<1> HIDE DEF less, ring
<1>4. /\ Len(said) = p + 1 + Len(less) + Len(held) + Len(pipe)
      /\ p + 1 <= Len(said)
  BY <1>1 DEF Placed
<1>5. \A i \in 1..Len(less) : less[i] = said[p + 1 + i]
  <2> SUFFICES ASSUME NEW i \in 1..Len(less) PROVE less[i] = said[p + 1 + i]
    OBVIOUS
  <2>1. i + 1 \in 1..Len(lines) /\ p + (i + 1) = p + 1 + i
    BY <1>1
  <2> QED BY <1>1, <2>1 DEF Placed
<1>6. p + 1 + Len(less) = p + Len(lines)
  BY <1>1
<1>7. /\ \A i \in 1..Len(held) : held[i] = said[p + 1 + Len(less) + i]
      /\ \A i \in 1..Len(pipe) : pipe[i] = said[p + 1 + Len(less) + Len(held) + i]
  BY <1>6 DEF Placed
<1>8. Len(ring) <= p + 1 /\ (Len(ring) < p + 1 => Len(ring) >= TailLines)
  <2>1. Len(tail) <= p /\ (Len(tail) < p => Len(tail) >= TailLines)
    BY DEF Placed
  <2> QED BY <1>1, <1>2, <1>3, <2>1
<1>9. \A i \in 1..Len(ring) : ring[i] = said[p + 1 - Len(ring) + i]
  <2> SUFFICES ASSUME NEW i \in 1..Len(ring) PROVE ring[i] = said[p + 1 - Len(ring) + i]
    OBVIOUS
  <2>1. CASE i = Len(kept) + 1
    <3>1. ring[i] = lines[1]
      BY <1>1, <1>3, <2>1
    <3>2. lines[1] = said[p + 1]
      <4>1. 1 \in 1..Len(lines)
        BY <1>1
      <4> QED BY <4>1 DEF Placed
    <3>3. p + 1 - Len(ring) + i = p + 1
      BY <1>2, <1>3, <2>1
    <3> QED BY <3>1, <3>2, <3>3
  <2>2. CASE i \in 1..Len(kept)
    <3> DEFINE j == Len(tail) - Len(kept) + i
    <3>1. j \in 1..Len(tail)
      BY <1>1, <1>2, <2>2
    <3>2. ring[i] = tail[j]
      BY <1>2, <1>3, <2>2
    <3>3. tail[j] = said[p - Len(tail) + j]
      BY <3>1 DEF Placed
    <3>4. p - Len(tail) + j = p + 1 - Len(ring) + i
      BY <1>1, <1>2, <1>3
    <3> QED BY <3>2, <3>3, <3>4
  <2> QED BY <1>2, <1>3, <2>1, <2>2
<1>10. Placed(p + 1, said, ring, less, held, pipe)
  <2>1. /\ Len(said) = (p + 1) + Len(less) + Len(held) + Len(pipe)
        /\ \A i \in 1..Len(less) : less[i] = said[(p + 1) + i]
    BY <1>4, <1>5
  <2>2. /\ \A i \in 1..Len(held) : held[i] = said[(p + 1) + Len(less) + i]
        /\ \A i \in 1..Len(pipe) : pipe[i] = said[(p + 1) + Len(less) + Len(held) + i]
    BY <1>7
  <2>3. \A i \in 1..Len(ring) : ring[i] = said[(p + 1) - Len(ring) + i]
    BY <1>9
  <2> QED BY <2>1, <2>2, <2>3, <1>8, Zenon DEF Placed
<1>11. ring = Pushed(Head(lines))
  BY DEF Pushed, ring, kept
<1> QED BY <1>3, <1>4, <1>10, <1>11 DEF less

\* With nothing on its way the ring has the last lines.
LEMMA PlacedAll ==
  ASSUME NEW said \in Seq(Lines), NEW ring \in Seq(Lines), NEW p \in Nat,
         Placed(p, said, ring, <<>>, <<>>, <<>>),
         NEW i \in 1..Len(said), i + TailLines > Len(said)
  PROVE  \E j \in 1..Len(ring) : ring[j] = said[i]
<1>1. /\ Len(said) = p /\ Len(ring) \in Nat /\ TailLines \in Nat \ {0} /\ i \in Nat
      /\ Len(ring) <= p /\ (Len(ring) < p => Len(ring) >= TailLines)
  BY RoomForOne DEF Placed
<1> DEFINE j == i - (p - Len(ring))
<1>2. j \in 1..Len(ring) /\ p - Len(ring) + j = i
  BY <1>1
<1>3. ring[j] = said[p - Len(ring) + j]
  BY <1>2 DEF Placed
<1> QED BY <1>2, <1>3

-----------------------------------------------------------------------------
(* Types *)

\* All that is put into a queue is put behind the rest, and the head is taken.
LEMMA PutDoes ==
  ASSUME Buffers, NEW b \in Channels \cup Pipes, NEW x \in Content(b), Put(b, x)
  PROVE  /\ Buffers' /\ buf'[b] = Append(buf[b], x)
         /\ \A d \in (Channels \cup Pipes) \ {b} : buf'[d] = buf[d]
<1>1. /\ DOMAIN buf' = Channels \cup Pipes /\ buf'[b] = Append(buf[b], x)
      /\ \A d \in (Channels \cup Pipes) \ {b} : buf'[d] = buf[d]
  BY DEF Buffers, Put
<1>2. Append(buf[b], x) \in Seq(Content(b))
  BY DEF Buffers
<1> QED BY <1>1, <1>2 DEF Buffers

LEMMA TakeDoes ==
  ASSUME Buffers, NEW b \in Channels \cup Pipes, ~Empty(b), Take(b)
  PROVE  /\ Buffers' /\ Head(buf[b]) \in Content(b) /\ buf'[b] = Tail(buf[b])
         /\ \A d \in (Channels \cup Pipes) \ {b} : buf'[d] = buf[d]
<1>1. /\ DOMAIN buf' = Channels \cup Pipes /\ buf'[b] = Tail(buf[b])
      /\ \A d \in (Channels \cup Pipes) \ {b} : buf'[d] = buf[d]
  BY DEF Buffers, Take
<1>2. buf[b] \in Seq(Content(b)) /\ buf[b] # <<>>
  BY DEF Buffers, Empty
<1>3. Tail(buf[b]) \in Seq(Content(b)) /\ Head(buf[b]) \in Content(b)
  BY <1>2
<1> QED BY <1>1, <1>3 DEF Buffers

LEMMA SixQueues ==
  ASSUME Buffers
  PROVE  /\ buf["writes"] \in Seq(Inputs) /\ buf["stdin"] \in Seq(Inputs)
         /\ buf["stdout"] \in Seq(Frames) /\ buf["messages"] \in Seq(Items)
         /\ buf["stderr"] \in Seq(Lines) /\ buf["lines"] \in Seq(Lines)
BY DEF Buffers, Content, Channels, Pipes

\* What the command line is about to write.
LEMMA WritingIs ==
  ASSUME cli \in CliTypes
  PROVE  \/ cli.writing = <<>>
         \/ \E f \in Frames : cli.writing = <<"stdout", f>>
         \/ \E l \in Lines : cli.writing = <<"stderr", l>>
BY DEF CliTypes

LEMMA WritesFrames ==
  ASSUME cli \in CliTypes, NEW X, Writing(X)
  PROVE  Writing(Frames)
<1>1. PICK f \in X : cli.writing = <<"stdout", f>>
  BY DEF Writing
<1>2. \E g \in Frames : cli.writing = <<"stdout", g>>
  <2>1. cli.writing # <<>> /\ cli.writing[1] # "stderr"
    BY <1>1
  <2> QED BY <2>1, WritingIs
<1> QED BY <1>2 DEF Writing

LEMMA AgentStartsTyped == Init => AgentTypes
<1> SUFFICES ASSUME Init PROVE AgentTypes
  OBVIOUS
<1>1. PICK m \in Modes :
        user = [pc |-> "connect", mode |-> m, sender |-> FALSE, named |-> FALSE, deltas |-> 0,
                terminal |-> "none", drained |-> FALSE, verdict |-> "none"]
  BY DEF Init
<1>2. m \in AllModes
  BY ModesKnown
<1>3. user \in UserTypes
  BY <1>1, <1>2 DEF UserTypes
<1>4. cli \in CliTypes
  BY DEF Init, CliTypes
<1>5. Tasks /\ tail \in Seq(Lines)
  BY DEF Init, Tasks, Idle
<1>6. Buffers
  <2>1. \A b \in Channels \cup Pipes : <<>> \in Seq(Content(b))
    OBVIOUS
  <2> QED BY <2>1 DEF Init, Buffers
<1> QED BY <1>3, <1>4, <1>5, <1>6 DEF AgentTypes

\* To announce the session moves nothing else.
LEMMA Naming ==
  ASSUME AgentTypes, ReadSession
  PROVE  /\ user.pc = "read" /\ user.mode # "query" /\ user'.pc = "read"
         /\ user'.mode = user.mode /\ user'.sender = user.sender /\ user'.deltas = user.deltas
         /\ user'.terminal = user.terminal /\ user'.drained = user.drained
         /\ user'.verdict = user.verdict /\ user'.named
         /\ user' \in UserTypes
         /\ UNCHANGED <<writer, demux, err, tail, buf, cli>>
BY DEF ReadSession, AgentTypes, UserTypes

LEMMA ReturnTypes ==
  ASSUME AgentTypes, NEW v \in {"none", "Done", "Error", "Limit"}, Return(v)
  PROVE  user' \in UserTypes /\ cli' \in CliTypes
BY DEF AgentTypes, Return, UserTypes, CliTypes

LEMMA UserTypesKeep ==
  ASSUME AgentTypes, UserStep
  PROVE  AgentTypes'
<1>1. ASSUME UNCHANGED <<writer, demux, err, tail, buf>>, user' \in UserTypes, cli' \in CliTypes
      PROVE  AgentTypes'
  BY <1>1 DEF AgentTypes, Tasks, Buffers
<1>2. CASE ConnectFails
  BY <1>1, <1>2, ReturnTypes DEF ConnectFails
<1>3. CASE Connect
  <2>1. user' \in UserTypes
    BY <1>3 DEF Connect, AgentTypes, UserTypes, Streaming
  <2>2. cli' \in CliTypes
    <3>1. PICK p \in {"waiting", "working"} : cli' = [cli EXCEPT !.pc = p]
      BY <1>3 DEF Connect
    <3> QED BY <3>1 DEF AgentTypes, CliTypes
  <2>3. Tasks' /\ (tail \in Seq(Lines))'
    BY <1>3 DEF Connect, Tasks, Idle, AgentTypes
  <2>4. Buffers'
    <3>1. CASE buf' = buf
      BY <3>1 DEF AgentTypes, Buffers
    <3>2. CASE buf' = [buf EXCEPT !["writes"] = <<"prompt">>]
      <4>1. <<"prompt">> \in Seq(Inputs) /\ Content("writes") = Inputs
        BY DEF Inputs, Content
      <4> QED BY <3>2, <4>1 DEF AgentTypes, Buffers
    <3> QED BY <1>3, <3>1, <3>2 DEF Connect
  <2> QED BY <2>1, <2>2, <2>3, <2>4 DEF AgentTypes
<1>4. CASE ReadText \/ ReadLast
  <2>1. /\ ~Empty("messages") /\ Take("messages")
    BY <1>4 DEF ReadText, ReadLast
  <2>2. Buffers' /\ Head(buf["messages"]) \in Items
    BY <2>1, TakeDoes DEF AgentTypes, Channels, Content
  <2>3. Tasks' /\ (tail \in Seq(Lines))'
    BY <1>4 DEF ReadText, ReadLast, Tasks, AgentTypes
  <2>4. user' \in UserTypes /\ cli' \in CliTypes
    <3>1. CASE \E v \in {"none"} : Return(v)
      BY <3>1, ReturnTypes
    <3>2. CASE user' = [user EXCEPT !.deltas = @ + 1] /\ UNCHANGED cli
      BY <3>2 DEF AgentTypes, UserTypes
    <3>3. CASE StopReading(Head(buf["messages"])) /\ UNCHANGED cli
      BY <2>2, <3>3 DEF AgentTypes, UserTypes, StopReading
    <3>4. CASE UNCHANGED <<user, cli>>
      BY <3>4 DEF AgentTypes
    <3> QED BY <1>4, <3>1, <3>2, <3>3, <3>4 DEF ReadText, ReadLast
  <2> QED BY <2>2, <2>3, <2>4 DEF AgentTypes
<1>5. CASE ReadEof
  <2>1. CASE Return("none")
    BY <1>1, <1>5, <2>1, ReturnTypes DEF ReadEof
  <2>2. CASE StopReading("eof") /\ UNCHANGED cli
    <3>1. user' \in UserTypes /\ cli' \in CliTypes
      BY <2>2 DEF StopReading, AgentTypes, UserTypes
    <3> QED BY <1>1, <1>5, <3>1 DEF ReadEof
  <2> QED BY <1>5, <2>1, <2>2 DEF ReadEof
<1>6. CASE Wait
  <2>1. user' \in UserTypes /\ cli' \in CliTypes
    BY <1>6 DEF Wait, AgentTypes, UserTypes, CliTypes
  <2> QED BY <1>1, <1>6, <2>1 DEF Wait
<1>7. CASE AwaitDrain
  <2>1. user' \in UserTypes /\ cli' \in CliTypes
    BY <1>7 DEF AwaitDrain, AgentTypes, UserTypes
  <2> QED BY <1>1, <1>7, <2>1 DEF AwaitDrain
<1>8. CASE Verdict
  <2>1. PICK v \in {"Limit", "Done", "Error"} : Return(v)
    BY <1>8 DEF Verdict
  <2> QED BY <1>1, <1>8, <2>1, ReturnTypes DEF Verdict
<1>9. CASE ReadSession
  <2>1. UNCHANGED <<writer, demux, err, tail, buf, cli>> /\ user' \in UserTypes
    BY <1>9, Naming
  <2> QED BY <1>1, <2>1 DEF AgentTypes
<1> QED BY <1>2, <1>3, <1>4, <1>5, <1>6, <1>7, <1>8, <1>9 DEF UserStep

LEMMA TaskTypesKeep ==
  ASSUME AgentTypes,
         \/ Receive \/ WriteLine \/ ReadFrame \/ ReadStdoutEof \/ Forward \/ Answer
         \/ ReadLine \/ SendLine \/ Drain
  PROVE  AgentTypes'
<1>1. UNCHANGED <<user, cli>>
  BY DEF Receive, WriteLine, ReadFrame, ReadStdoutEof, Forward, Answer, ReadLine, SendLine, Drain
<1>2. ASSUME Tasks', Buffers', (tail \in Seq(Lines))' PROVE AgentTypes'
  BY <1>1, <1>2 DEF AgentTypes
<1>3. ASSUME UNCHANGED buf PROVE Buffers'
  BY <1>3 DEF AgentTypes, Buffers
<1>4. CASE Receive
  <2>1. (tail \in Seq(Lines))' /\ UNCHANGED <<demux, err>>
    BY <1>4 DEF Receive, AgentTypes
  <2>2. CASE ~Empty("writes") /\ writer' = [pc |-> "write", item |-> Head(buf["writes"])] /\ Take("writes")
    <3>1. Buffers' /\ Head(buf["writes"]) \in Inputs
      BY <2>2, TakeDoes DEF AgentTypes, Channels, Content
    <3>2. Tasks'
      BY <2>1, <2>2, <3>1 DEF AgentTypes, Tasks
    <3> QED BY <1>2, <2>1, <3>1, <3>2
  <2>3. CASE writer' = Idle("end") /\ UNCHANGED buf
    <3>1. Tasks'
      BY <2>1, <2>3 DEF AgentTypes, Tasks, Idle
    <3> QED BY <1>2, <1>3, <2>1, <2>3, <3>1
  <2> QED BY <1>4, <2>2, <2>3 DEF Receive
<1>5. CASE WriteLine
  <2>1. (tail \in Seq(Lines))' /\ UNCHANGED <<demux, err>> /\ writer.item \in Inputs
    BY <1>5 DEF WriteLine, AgentTypes, Tasks
  <2>2. Tasks'
    BY <1>5, <2>1 DEF WriteLine, AgentTypes, Tasks, Idle
  <2>3. Put("stdin", writer.item) => Buffers'
    BY <2>1, PutDoes DEF AgentTypes, Pipes, Content
  <2> QED BY <1>2, <1>3, <1>5, <2>1, <2>2, <2>3 DEF WriteLine
<1>6. CASE ReadFrame
  <2>1. (tail \in Seq(Lines))' /\ UNCHANGED <<writer, err>>
    BY <1>6 DEF ReadFrame, AgentTypes
  <2>2. Buffers' /\ Head(buf["stdout"]) \in Frames
    BY <1>6, TakeDoes DEF ReadFrame, AgentTypes, Pipes, Content
  <2>3. Tasks'
    <3>1. \/ demux' = Idle("answer") \/ demux' = [pc |-> "read", item |-> "partial"]
          \/ \E i \in Items : demux' = [pc |-> "forward", item |-> i]
      BY <1>6, <2>2 DEF ReadFrame, Frames, Items
    <3> QED BY <2>1, <3>1 DEF AgentTypes, Tasks, Idle
  <2> QED BY <1>2, <2>1, <2>2, <2>3
<1>7. CASE ReadStdoutEof
  <2>1. (tail \in Seq(Lines))' /\ UNCHANGED <<writer, err, buf>>
    BY <1>7 DEF ReadStdoutEof, AgentTypes
  <2>2. \/ demux' = Idle("end") \/ \E i \in Items : demux' = [pc |-> "forward", item |-> i]
    BY <1>7 DEF ReadStdoutEof, Items
  <2>3. Tasks'
    BY <2>1, <2>2 DEF AgentTypes, Tasks, Idle
  <2> QED BY <1>2, <1>3, <2>1, <2>3
<1>8. CASE Forward
  <2>1. (tail \in Seq(Lines))' /\ UNCHANGED <<writer, err>> /\ demux.item \in Items
    BY <1>8 DEF Forward, AgentTypes, Tasks
  <2>2. Tasks'
    BY <1>8, <2>1 DEF Forward, AgentTypes, Tasks, Idle
  <2>3. Put("messages", demux.item) => Buffers'
    BY <2>1, PutDoes DEF AgentTypes, Channels, Content
  <2> QED BY <1>2, <1>3, <1>8, <2>1, <2>2, <2>3 DEF Forward
<1>9. CASE Answer
  <2>1. (tail \in Seq(Lines))' /\ UNCHANGED <<writer, err>>
    BY <1>9 DEF Answer, AgentTypes
  <2>2. Tasks'
    BY <1>9, <2>1 DEF Answer, AgentTypes, Tasks, Idle
  <2>3. Put("writes", "response") => Buffers'
    BY PutDoes DEF AgentTypes, Channels, Content, Inputs
  <2> QED BY <1>2, <1>3, <1>9, <2>1, <2>2, <2>3 DEF Answer
<1>10. CASE ReadLine
  <2>1. (tail \in Seq(Lines))' /\ UNCHANGED <<writer, demux>>
    BY <1>10 DEF ReadLine, AgentTypes
  <2>2. CASE ~Empty("stderr") /\ err' = [pc |-> "send", item |-> Head(buf["stderr"])] /\ Take("stderr")
    <3>1. Buffers' /\ Head(buf["stderr"]) \in Lines
      BY <2>2, TakeDoes DEF AgentTypes, Pipes, Content
    <3>2. Tasks'
      BY <2>1, <2>2, <3>1 DEF AgentTypes, Tasks
    <3> QED BY <1>2, <2>1, <3>1, <3>2
  <2>3. CASE err' = Idle("end") /\ UNCHANGED buf
    <3>1. Tasks'
      BY <2>1, <2>3 DEF AgentTypes, Tasks, Idle
    <3> QED BY <1>2, <1>3, <2>1, <2>3, <3>1
  <2> QED BY <1>10, <2>2, <2>3 DEF ReadLine
<1>11. CASE SendLine
  <2>1. (tail \in Seq(Lines))' /\ UNCHANGED <<writer, demux>> /\ err.item \in Lines
    BY <1>11 DEF SendLine, AgentTypes, Tasks
  <2>2. Tasks'
    BY <1>11, <2>1 DEF SendLine, AgentTypes, Tasks, Idle
  <2>3. Buffers'
    BY <1>11, <2>1, PutDoes DEF SendLine, AgentTypes, Channels, Content
  <2> QED BY <1>2, <2>1, <2>2, <2>3
<1>12. CASE Drain
  <2>1. Tasks'
    BY <1>12 DEF Drain, AgentTypes, Tasks
  <2>2. Buffers' /\ Head(buf["lines"]) \in Lines
    BY <1>12, TakeDoes DEF Drain, AgentTypes, Channels, Content
  <2>3. tail' \in Seq(Lines)
    <3>1. CASE Len(tail) >= TailLines
      <4>1. tail # <<>>
        BY <3>1, RoomForOne DEF AgentTypes
      <4> QED BY <1>12, <2>2, <3>1, <4>1 DEF Drain, Pushed, AgentTypes
    <3>2. CASE ~(Len(tail) >= TailLines)
      BY <1>12, <2>2, <3>2 DEF Drain, Pushed, AgentTypes
    <3> QED BY <3>1, <3>2
  <2> QED BY <1>2, <2>1, <2>2, <2>3
<1> QED BY <1>4, <1>5, <1>6, <1>7, <1>8, <1>9, <1>10, <1>11, <1>12

\* The command line begins to write a frame: what it counts, and where it is then.
Begun(f) ==
  /\ cli.writing = <<>> /\ cli'.writing = <<"stdout", f>>
  /\ cli' \in CliTypes /\ cli'.said = cli.said
  /\ UNCHANGED <<user, writer, demux, err, tail, buf>>
  /\ cli.pc \in {"waiting", "working"}
  /\ \/ f \in {"text", "noise"} /\ cli.pc = "working" /\ cli'.pc = cli.pc
        /\ cli'.frames = cli.frames + 1 /\ cli'.owed = cli.owed
     \/ f = "request" /\ cli'.pc = cli.pc
        /\ cli'.frames = cli.frames /\ cli'.owed = cli.owed + 1
     \/ f \in Enders /\ cli.pc = "working" /\ cli'.pc \in {"done", "broken"}
        /\ cli'.frames = cli.frames /\ cli'.owed = cli.owed

LEMMA FrameBegins ==
  ASSUME AgentTypes, CliText \/ CliNoise \/ CliAsks \/ CliFinishes \/ CliTruncates
  PROVE  \E f \in Frames : Begun(f)
<1>1. CASE CliText
  <2>1. cli' = [cli EXCEPT !.frames = cli.frames + 1, !.writing = <<"stdout", "text">>]
    BY <1>1 DEF CliText, Begins, AgentTypes, CliTypes
  <2>2. cli.frames + 1 \in Nat /\ <<"stdout", "text">> \in {"stdout"} \X Frames
    BY DEF AgentTypes, CliTypes, Frames
  <2>3. Begun("text")
    BY <1>1, <2>1, <2>2 DEF CliText, Begins, Begun, AgentTypes, CliTypes
  <2> QED BY <2>3 DEF Frames
<1>2. CASE CliNoise
  <2>1. cli' = [cli EXCEPT !.frames = cli.frames + 1, !.writing = <<"stdout", "noise">>]
    BY <1>2 DEF CliNoise, Begins, AgentTypes, CliTypes
  <2>2. cli.frames + 1 \in Nat /\ <<"stdout", "noise">> \in {"stdout"} \X Frames
    BY DEF AgentTypes, CliTypes, Frames
  <2>3. Begun("noise")
    BY <1>2, <2>1, <2>2 DEF CliNoise, Begins, Begun, AgentTypes, CliTypes
  <2> QED BY <2>3 DEF Frames
<1>3. CASE CliAsks
  <2>1. cli' = [cli EXCEPT !.asked = cli.asked + 1, !.owed = cli.owed + 1,
                           !.writing = <<"stdout", "request">>]
    BY <1>3 DEF CliAsks, Begins, AgentTypes, CliTypes
  <2>2. /\ cli.asked + 1 \in Nat /\ cli.owed + 1 \in Int
        /\ <<"stdout", "request">> \in {"stdout"} \X Frames
    BY DEF AgentTypes, CliTypes, Frames
  <2>3. Begun("request")
    BY <1>3, <2>1, <2>2 DEF CliAsks, Begins, Begun, AgentTypes, CliTypes
  <2> QED BY <2>3 DEF Frames
<1>4. CASE CliFinishes
  <2>1. PICK f \in Finals : Begins("stdout", f, [cli EXCEPT !.pc = "done"])
    BY <1>4 DEF CliFinishes
  <2>2. f \in Frames
    BY DEF Frames
  <2>3. Begun(f)
    BY <1>4, <2>1, <2>2 DEF CliFinishes, Begins, Begun, AgentTypes, CliTypes, Enders
  <2> QED BY <2>2, <2>3
<1>5. CASE CliTruncates
  <2>1. Begun("partial")
    BY <1>5 DEF CliTruncates, Begins, Begun, AgentTypes, CliTypes, Enders, Frames
  <2> QED BY <2>1 DEF Frames
<1> QED BY <1>1, <1>2, <1>3, <1>4, <1>5

\* It reads, writes what it has begun, or ends.
LEMMA CliReadsDoes ==
  ASSUME AgentTypes, CliReads
  PROVE  /\ AgentTypes' /\ Alive /\ buf["stdin"] # <<>> /\ Head(buf["stdin"]) \in Inputs
         /\ buf'["stdin"] = Tail(buf["stdin"])
         /\ \A d \in (Channels \cup Pipes) \ {"stdin"} : buf'[d] = buf[d]
         /\ cli'.writing = cli.writing /\ cli'.said = cli.said /\ cli'.frames = cli.frames
         /\ \/ Head(buf["stdin"]) = "prompt" /\ cli'.pc = "working" /\ cli'.owed = cli.owed
            \/ Head(buf["stdin"]) = "response" /\ cli'.pc = cli.pc /\ cli'.owed = cli.owed - 1
<1>1. /\ Buffers' /\ Head(buf["stdin"]) \in Inputs /\ buf'["stdin"] = Tail(buf["stdin"])
      /\ \A d \in (Channels \cup Pipes) \ {"stdin"} : buf'[d] = buf[d]
  BY TakeDoes DEF CliReads, AgentTypes, Pipes, Content
<1>2. CASE cli' = [cli EXCEPT !.pc = "working"] /\ Head(buf["stdin"]) = "prompt"
  BY <1>1, <1>2 DEF CliReads, AgentTypes, CliTypes, Tasks, Empty
<1>3. CASE cli' = [cli EXCEPT !.owed = @ - 1] /\ Head(buf["stdin"]) # "prompt"
  <2>1. Head(buf["stdin"]) = "response"
    BY <1>1, <1>3 DEF Inputs
  <2>2. cli.owed - 1 \in Int /\ cli' = [cli EXCEPT !.owed = cli.owed - 1]
    BY <1>3 DEF AgentTypes, CliTypes
  <2>3. /\ cli' \in CliTypes /\ cli'.pc = cli.pc /\ cli'.owed = cli.owed - 1
        /\ cli'.writing = cli.writing /\ cli'.said = cli.said /\ cli'.frames = cli.frames
    BY <2>2 DEF AgentTypes, CliTypes
  <2> QED BY <1>1, <2>1, <2>3 DEF CliReads, AgentTypes, Tasks, Empty
<1> QED BY <1>2, <1>3 DEF CliReads

LEMMA CliWritesDoes ==
  ASSUME AgentTypes, CliWrites
  PROVE  /\ AgentTypes' /\ Alive
         /\ cli'.writing = <<>> /\ cli'.pc = cli.pc
         /\ cli'.frames = cli.frames /\ cli'.owed = cli.owed
         /\ \/ \E f \in Frames :
                 /\ cli.writing = <<"stdout", f>> /\ cli'.said = cli.said
                 /\ buf'["stdout"] = Append(buf["stdout"], f)
                 /\ \A d \in (Channels \cup Pipes) \ {"stdout"} : buf'[d] = buf[d]
            \/ \E l \in Lines :
                 /\ cli.writing = <<"stderr", l>> /\ cli'.said = Append(cli.said, l)
                 /\ buf'["stderr"] = Append(buf["stderr"], l)
                 /\ \A d \in (Channels \cup Pipes) \ {"stderr"} : buf'[d] = buf[d]
<1>1. ASSUME NEW f \in Frames, cli.writing = <<"stdout", f>>
      PROVE  /\ AgentTypes' /\ cli'.writing = <<>> /\ cli'.pc = cli.pc
             /\ cli'.frames = cli.frames /\ cli'.owed = cli.owed /\ cli'.said = cli.said
             /\ buf'["stdout"] = Append(buf["stdout"], f)
             /\ \A d \in (Channels \cup Pipes) \ {"stdout"} : buf'[d] = buf[d]
  <2>1. cli.writing[1] = "stdout" /\ cli.writing[2] = f
    BY <1>1
  <2>2. /\ Buffers' /\ buf'["stdout"] = Append(buf["stdout"], f)
        /\ \A d \in (Channels \cup Pipes) \ {"stdout"} : buf'[d] = buf[d]
    BY <2>1, PutDoes DEF CliWrites, AgentTypes, Pipes, Content
  <2>3. cli' = [cli EXCEPT !.writing = <<>>, !.said = cli.said]
    BY <2>1 DEF CliWrites
  <2> QED BY <2>2, <2>3 DEF CliWrites, AgentTypes, CliTypes, Tasks
<1>2. ASSUME NEW l \in Lines, cli.writing = <<"stderr", l>>
      PROVE  /\ AgentTypes' /\ cli'.writing = <<>> /\ cli'.pc = cli.pc
             /\ cli'.frames = cli.frames /\ cli'.owed = cli.owed
             /\ cli'.said = Append(cli.said, l)
             /\ buf'["stderr"] = Append(buf["stderr"], l)
             /\ \A d \in (Channels \cup Pipes) \ {"stderr"} : buf'[d] = buf[d]
  <2>1. cli.writing[1] = "stderr" /\ cli.writing[2] = l
    BY <1>2
  <2>2. /\ Buffers' /\ buf'["stderr"] = Append(buf["stderr"], l)
        /\ \A d \in (Channels \cup Pipes) \ {"stderr"} : buf'[d] = buf[d]
    BY <2>1, PutDoes DEF CliWrites, AgentTypes, Pipes, Content
  <2>3. cli' = [cli EXCEPT !.writing = <<>>, !.said = Append(cli.said, l)]
    BY <2>1 DEF CliWrites
  <2>4. Append(cli.said, l) \in Seq(Lines)
    BY DEF AgentTypes, CliTypes
  <2> QED BY <2>2, <2>3, <2>4 DEF CliWrites, AgentTypes, CliTypes, Tasks
<1>3. Alive /\ cli.writing # <<>> /\ cli \in CliTypes
  BY DEF CliWrites, AgentTypes
<1> QED BY <1>1, <1>2, <1>3, WritingIs

LEMMA CliSaysDoes ==
  ASSUME AgentTypes, CliSays
  PROVE  /\ AgentTypes' /\ Alive /\ UNCHANGED <<user, writer, demux, err, tail, buf>>
         /\ cli.writing = <<>> /\ \E l \in Lines : cli'.writing = <<"stderr", l>>
         /\ cli'.pc = cli.pc /\ cli'.said = cli.said
         /\ cli'.frames = cli.frames /\ cli'.owed = cli.owed
<1>1. PICK l \in Lines : Begins("stderr", l, cli)
  BY DEF CliSays
<1> QED BY <1>1 DEF CliSays, Begins, AgentTypes, CliTypes, Tasks, Buffers

LEMMA CliEnds ==
  ASSUME AgentTypes, CliExits \/ CliDies
  PROVE  /\ AgentTypes' /\ Alive /\ UNCHANGED <<user, writer, demux, err, tail, buf>>
         /\ cli'.writing = <<>> /\ cli'.pc = "exited" /\ cli'.said = cli.said
         /\ cli'.frames = cli.frames /\ cli'.owed = cli.owed
BY DEF CliExits, CliDies, Alive, AgentTypes, CliTypes, Tasks, Buffers

LEMMA CliTypesKeep ==
  ASSUME AgentTypes,
         \/ CliReads \/ CliWrites \/ CliText \/ CliNoise \/ CliAsks \/ CliSays
         \/ CliFinishes \/ CliTruncates \/ CliExits \/ CliDies
  PROVE  AgentTypes'
<1>1. CASE CliText \/ CliNoise \/ CliAsks \/ CliFinishes \/ CliTruncates
  <2>1. cli' \in CliTypes /\ UNCHANGED <<user, writer, demux, err, tail, buf>>
    BY <1>1, FrameBegins DEF Begun
  <2> QED BY <2>1 DEF AgentTypes, Tasks, Buffers
<1> QED BY <1>1, CliReadsDoes, CliWritesDoes, CliSaysDoes, CliEnds

LEMMA NextKeepsTypes ==
  ASSUME AgentTypes, [Next]_vars
  PROVE  AgentTypes'
<1>1. CASE UNCHANGED vars
  BY <1>1 DEF vars, AgentTypes, Tasks, Buffers
<1> QED BY <1>1, UserTypesKeep, TaskTypesKeep, CliTypesKeep DEF Next

-----------------------------------------------------------------------------
(* The course of a run *)

LEMMA ReturnDoes ==
  ASSUME AgentTypes, NEW v, Return(v)
  PROVE  /\ user'.pc = "end" /\ user'.verdict = v /\ user'.mode = user.mode
         /\ user'.deltas = user.deltas /\ user'.terminal = user.terminal
         /\ user'.drained = user.drained
         /\ cli'.pc = "exited" /\ cli'.writing = <<>> /\ cli'.said = cli.said
         /\ cli'.frames = cli.frames /\ cli'.owed = cli.owed
BY DEF Return, AgentTypes, UserTypes, CliTypes

LEMMA StopDoes ==
  ASSUME AgentTypes, NEW x, StopReading(x)
  PROVE  /\ user'.pc = "wait" /\ user'.terminal = x /\ user'.mode = user.mode
         /\ user'.deltas = user.deltas /\ user'.drained = user.drained
         /\ user'.verdict = user.verdict
BY DEF StopReading, AgentTypes, UserTypes

\* How a run goes on that has connected: the user never reads again, and the
\* command line never lives again; with the user it ends.
GoesOn ==
  /\ user'.pc # "connect" /\ user'.mode = user.mode /\ cli'.pc # "off"
  /\ cli.pc = "exited" => cli'.pc = "exited"
  /\ user'.pc = "end" => cli'.pc = "exited"
  /\ user.pc = "end" => user'.pc = "end"
  /\ user'.pc = "read" =>
       user.pc = "read" /\ user'.terminal = user.terminal /\ user'.sender = user.sender

LEMMA RunGoesOn ==
  ASSUME AgentTypes, Phases, [Next]_vars, user.pc # "connect"
  PROVE  GoesOn
<1>1. cli.pc # "off" /\ (user.pc = "end" => cli.pc = "exited")
  BY DEF Phases
<1>2. ASSUME UNCHANGED <<user, cli>> PROVE GoesOn
  BY <1>1, <1>2 DEF GoesOn
<1>3. ASSUME UNCHANGED user, cli'.pc # "off", Alive PROVE GoesOn
  BY <1>1, <1>3 DEF GoesOn, Alive
<1>4. CASE UserStep
  <2>1. ASSUME NEW v, Return(v) PROVE GoesOn
    BY <1>1, <2>1, ReturnDoes DEF GoesOn
  <2>2. ASSUME NEW x, StopReading(x), UNCHANGED cli, user.pc = "read" PROVE GoesOn
    BY <1>1, <2>2, StopDoes DEF GoesOn
  <2>3. CASE ReadText /\ UNCHANGED cli
    BY <1>1, <2>3, ReturnDoes DEF ReadText, GoesOn, AgentTypes, UserTypes, Return
  <2>4. CASE Wait
    BY <1>1, <2>4 DEF Wait, GoesOn, AgentTypes, UserTypes, CliTypes
  <2>5. CASE AwaitDrain
    BY <1>1, <2>5 DEF AwaitDrain, GoesOn, AgentTypes, UserTypes
  <2>6. CASE ReadText /\ Return("none")
    BY <2>1, <2>6
  <2>7. CASE ReadEof
    BY <2>1, <2>2, <2>7 DEF ReadEof
  <2>8. CASE ReadLast
    BY <1>2, <2>2, <2>8 DEF ReadLast
  <2>9. CASE Verdict
    BY <2>1, <2>9 DEF Verdict
  <2>10. CASE ReadSession
    BY <1>1, <2>10, Naming DEF GoesOn
  <2> QED BY <1>4, <2>3, <2>4, <2>5, <2>6, <2>7, <2>8, <2>9, <2>10
      DEF UserStep, ConnectFails, Connect, ReadText
<1>5. CASE \/ Receive \/ WriteLine \/ ReadFrame \/ ReadStdoutEof \/ Forward \/ Answer
           \/ ReadLine \/ SendLine \/ Drain
  BY <1>2, <1>5 DEF Receive, WriteLine, ReadFrame, ReadStdoutEof, Forward, Answer, ReadLine,
                    SendLine, Drain
<1>6. CASE CliText \/ CliNoise \/ CliAsks \/ CliFinishes \/ CliTruncates
  <2>1. PICK f \in Frames : Begun(f)
    BY <1>6, FrameBegins
  <2>2. UNCHANGED user /\ cli'.pc # "off" /\ Alive
    BY <2>1 DEF Begun, Alive
  <2> QED BY <1>3, <2>2
<1>7. CASE CliReads
  <2>1. UNCHANGED user /\ cli'.pc # "off" /\ Alive
    BY <1>7, CliReadsDoes DEF CliReads, Alive
  <2> QED BY <1>3, <2>1
<1>8. CASE CliWrites
  <2>1. UNCHANGED user /\ cli'.pc # "off" /\ Alive
    BY <1>8, CliWritesDoes DEF CliWrites, Alive
  <2> QED BY <1>3, <2>1
<1>9. CASE CliSays
  <2>1. UNCHANGED user /\ cli'.pc # "off" /\ Alive
    BY <1>9, CliSaysDoes DEF Alive
  <2> QED BY <1>3, <2>1
<1>10. CASE CliExits \/ CliDies
  <2>1. UNCHANGED user /\ cli'.pc # "off" /\ Alive
    BY <1>10, CliEnds
  <2> QED BY <1>3, <2>1
<1>11. CASE UNCHANGED vars
  BY <1>2, <1>11 DEF vars
<1> QED BY <1>4, <1>5, <1>6, <1>7, <1>8, <1>9, <1>10, <1>11 DEF Next

\* Before the connection nothing else happens.
LEMMA FirstSteps ==
  ASSUME AgentTypes, Phases, Next, user.pc = "connect"
  PROVE  ConnectFails \/ Connect
<1>1. cli.pc = "off" /\ ~Running /\ ~Alive
  BY DEF Phases, Running, Alive
<1>2. ~(CliText \/ CliNoise \/ CliAsks \/ CliFinishes \/ CliTruncates)
  BY <1>1 DEF CliText, CliNoise, CliAsks, CliFinishes, CliTruncates
<1> QED BY <1>1, <1>2
    DEF Next, UserStep, ReadSession, ReadText, ReadLast, ReadEof, Wait, AwaitDrain, Verdict,
        Receive, WriteLine, ReadFrame, ReadStdoutEof, Forward, Answer, ReadLine, SendLine, Drain, CliReads, CliWrites,
        CliSays, CliExits, CliDies

LEMMA ConnectDoes ==
  ASSUME AgentTypes, Phases, Connect
  PROVE  /\ AgentTypes' /\ user'.pc = "read" /\ user'.sender = ~Streaming
         /\ user'.mode = user.mode /\ user'.deltas = 0 /\ user'.terminal = "none"
         /\ user'.drained = user.drained
         /\ writer' = Idle("recv") /\ demux' = Idle("read") /\ err' = Idle("read")
         /\ tail' = <<>>
         /\ cli'.pc = (IF Streaming THEN "waiting" ELSE "working")
         /\ cli'.owed = 0 /\ cli'.frames = 0 /\ cli'.said = <<>> /\ cli'.writing = <<>>
         /\ \A d \in (Channels \cup Pipes) \ {"writes"} : buf'[d] = <<>>
         /\ buf'["writes"] = IF Streaming THEN <<"prompt">> ELSE <<>>
<1>1. AgentTypes'
  BY UserTypesKeep DEF UserStep
<1>2. /\ cli = [pc |-> "off", owed |-> 0, asked |-> 0, frames |-> 0, said |-> <<>>,
                writing |-> <<>>]
      /\ \A b \in Channels \cup Pipes : buf[b] = <<>>
      /\ tail = <<>> /\ user.deltas = 0 /\ user.terminal = "none"
  BY DEF Connect, Phases, Empty
<1>3. /\ user'.pc = "read" /\ user'.sender = ~Streaming
      /\ user'.mode = user.mode /\ user'.deltas = 0 /\ user'.terminal = "none"
      /\ user'.drained = user.drained
  BY <1>2 DEF Connect, AgentTypes, UserTypes
<1>4. \A d \in (Channels \cup Pipes) \ {"writes"} : buf'[d] = <<>>
  BY <1>2 DEF Connect, AgentTypes, Buffers
<1>5. buf'["writes"] = IF Streaming THEN <<"prompt">> ELSE <<>>
  BY <1>2 DEF Connect, AgentTypes, Buffers, Channels
<1> QED BY <1>1, <1>2, <1>3, <1>4, <1>5 DEF Connect

LEMMA PhasesKeep ==
  ASSUME AgentTypes, Phases, [Next]_vars
  PROVE  Phases'
<1>1. CASE user.pc # "connect"
  <2>1. GoesOn
    BY <1>1, RunGoesOn
  <2> QED BY <1>1, <2>1 DEF GoesOn, Phases
<1>2. CASE ConnectFails
  <2>1. Return("Error")
    BY <1>2 DEF ConnectFails
  <2> QED BY <2>1, ReturnDoes DEF Phases
<1>3. CASE Connect
  BY <1>3, ConnectDoes DEF Phases
<1>4. CASE UNCHANGED vars
  BY <1>4 DEF vars, Phases, Empty
<1> QED BY <1>1, <1>2, <1>3, <1>4, FirstSteps

LEMMA PhasesStart == Init => Phases
BY DEF Init, Phases, Empty, Idle

-----------------------------------------------------------------------------
(* Requests *)

LEMMA DrivenKeeps ==
  ASSUME AgentTypes, Phases, Driven, [Next]_vars
  PROVE  Driven'
<1> SUFFICES ASSUME user'.pc = "read" PROVE Driven'
  BY DEF Driven
<1>1. CASE user.pc = "connect"
  <2>1. CASE Connect
    BY <2>1, ConnectDoes DEF Driven, Streaming, Idle
  <2>2. CASE ConnectFails
    BY <2>2, ReturnDoes DEF ConnectFails
  <2>3. CASE UNCHANGED vars
    BY <1>1, <2>3 DEF vars
  <2> QED BY <1>1, <2>1, <2>2, <2>3, FirstSteps
<1>2. CASE user.pc # "connect"
  <2>1. GoesOn
    BY <1>2, RunGoesOn
  <2>2. user.pc = "read" /\ user'.sender = ~(user'.mode = "tools")
    BY <2>1 DEF GoesOn, Driven, Streaming
  <2> SUFFICES ASSUME Alive'
               PROVE  writer'.pc \in {"recv", "write"} /\ demux'.pc \in {"read", "forward", "answer"}
    BY <2>2 DEF Driven, Streaming
  <2>3. Alive
    BY <1>2, <2>1 DEF GoesOn, Alive, Phases
  <2>4. writer.pc \in {"recv", "write"} /\ demux.pc \in {"read", "forward", "answer"}
    BY <2>2, <2>3 DEF Driven
  <2>5. WritesOpen
    BY <2>2, <2>4 DEF WritesOpen, Driven, Streaming
  <2>6. CASE UNCHANGED <<writer, demux>>
    BY <2>4, <2>6
  <2>7. CASE Receive \/ WriteLine
    BY <2>3, <2>4, <2>5, <2>7 DEF Receive, WriteLine, Idle
  <2>8. CASE ReadFrame
    <3>1. demux'.pc \in {"read", "forward", "answer"}
      BY <2>8 DEF ReadFrame, Idle
    <3> QED BY <2>4, <2>8, <3>1 DEF ReadFrame
  <2>9. CASE ReadStdoutEof \/ Forward \/ Answer
    BY <2>2, <2>3, <2>4, <2>9 DEF ReadStdoutEof, Forward, Answer, Idle
  <2>10. CASE CliText \/ CliNoise \/ CliAsks \/ CliFinishes \/ CliTruncates
    BY <2>6, <2>10, FrameBegins DEF Begun
  <2>11. CASE \/ ReadSession \/ ReadText \/ ReadLast \/ ReadEof \/ Wait \/ AwaitDrain \/ Verdict
              \/ ReadLine \/ SendLine \/ Drain
              \/ CliReads \/ CliWrites \/ CliSays \/ CliExits \/ CliDies \/ UNCHANGED vars
    BY <2>6, <2>11, CliSaysDoes
       DEF ReadSession, ReadText, ReadLast, ReadEof, Wait, AwaitDrain, Verdict, ReadLine, SendLine,
           Drain, CliReads, CliWrites, CliExits, CliDies, vars
  <2> QED BY <1>2, <2>7, <2>8, <2>9, <2>10, <2>11
      DEF Next, UserStep, ConnectFails, Connect
<1> QED BY <1>1, <1>2

\* What of the requests a step leaves alone.
OwedStays ==
  /\ UNCHANGED <<demux, writer>>
  /\ buf'["stdout"] = buf["stdout"] /\ buf'["writes"] = buf["writes"]
  /\ buf'["stdin"] = buf["stdin"]
  /\ cli'.writing = cli.writing /\ cli'.owed = cli.owed

LEMMA NumbersAreNat ==
  ASSUME AgentTypes, NEW X
  PROVE  /\ Number(buf["stdout"], X) \in Nat /\ Number(buf["messages"], X) \in Nat
         /\ Number(buf["writes"], X) \in Nat /\ Number(buf["stdin"], X) \in Nat
         /\ cli.owed \in Int /\ cli.frames \in Nat /\ user.deltas \in Nat
<1>1. cli.owed \in Int /\ cli.frames \in Nat /\ user.deltas \in Nat
  BY DEF AgentTypes, CliTypes, UserTypes
<1>2. Buffers
  BY DEF AgentTypes
<1>3. /\ Number(buf["stdout"], X) \in Nat /\ Number(buf["messages"], X) \in Nat
      /\ Number(buf["writes"], X) \in Nat /\ Number(buf["stdin"], X) \in Nat
  BY <1>2, SixQueues, NumberIsNat
<1> QED BY <1>1, <1>3

LEMMA OneIsNat ==
  ASSUME NEW b \in BOOLEAN
  PROVE  One(b) \in {0, 1} /\ (b => One(b) = 1) /\ (~b => One(b) = 0)
BY DEF One

LEMMA OwedKeeps ==
  ASSUME AgentTypes, Phases, RequestInv, [Next]_vars
  PROVE  Owed'
<1> SUFFICES ASSUME user'.pc = "read", Alive' PROVE Owed'
  BY DEF Owed
<1>1. AgentTypes' /\ Buffers
  BY NextKeepsTypes DEF AgentTypes
<1>2. CASE user.pc = "connect"
  <2>1. Connect
    BY <1>2, FirstSteps, ReturnDoes DEF ConnectFails, vars
  <2>2. /\ buf'["stdout"] = <<>> /\ buf'["stdin"] = <<>>
        /\ buf'["writes"] = <<>> \/ buf'["writes"] = <<"prompt">>
        /\ cli'.owed = 0 /\ cli'.writing = <<>> /\ demux'.pc = "read" /\ writer'.item = "none"
    BY <2>1, ConnectDoes DEF Channels, Pipes, Idle
  <2>3. Number(buf'["writes"], {"response"}) = 0
    <3>1. CASE buf'["writes"] = <<>>
      BY <3>1, NumberOfNone
    <3>2. CASE buf'["writes"] = <<"prompt">>
      <4>1. ~Has(<<"prompt">>, {"response"}) /\ <<"prompt">> \in Seq({"prompt"})
        BY DEF Has
      <4> QED BY <3>2, <4>1, NumberIsNat
    <3> QED BY <2>2, <3>1, <3>2
  <2>4. ~Writing({"request"})'
    BY <2>2 DEF Writing
  <2>5. Number(<<>>, {"request"}) = 0 /\ Number(<<>>, {"response"}) = 0
    BY NumberOfNone
  <2> QED BY <2>2, <2>3, <2>4, <2>5 DEF Owed, One
<1>3. CASE user.pc # "connect"
  <2>1. GoesOn
    BY <1>3, RunGoesOn
  <2>2. user.pc = "read" /\ Alive /\ user.sender = ~Streaming
    BY <1>3, <2>1 DEF GoesOn, Alive, Phases, RequestInv, Driven
  <2>3. cli.owed = Number(buf["stdout"], {"request"}) + Number(buf["writes"], {"response"})
                   + Number(buf["stdin"], {"response"}) + One(Writing({"request"}))
                   + One(demux.pc = "answer") + One(writer.item = "response")
    BY <2>2 DEF RequestInv, Owed
  <2>4. /\ Number(buf["stdout"], {"request"}) \in Nat /\ Number(buf["writes"], {"response"}) \in Nat
        /\ Number(buf["stdin"], {"response"}) \in Nat
    BY NumbersAreNat
  <2>5. /\ One(Writing({"request"})) \in {0, 1} /\ One(demux.pc = "answer") \in {0, 1}
        /\ One(writer.item = "response") \in {0, 1}
    BY OneIsNat DEF One
  <2>6. /\ buf["stdout"] \in Seq(Frames) /\ buf["writes"] \in Seq(Inputs)
        /\ buf["stdin"] \in Seq(Inputs) /\ Tasks
    BY <1>1, SixQueues DEF AgentTypes
  <2>7. CASE OwedStays
    <3>1. Writing({"request"})' = Writing({"request"})
      BY <2>7 DEF OwedStays, Writing
    <3> QED BY <2>3, <2>7, <3>1 DEF OwedStays, Owed
  <2>8. CASE Receive
    <3>1. WritesOpen
      BY <2>2 DEF WritesOpen, Streaming, RequestInv, Driven
    <3>2. /\ buf["writes"] # <<>> /\ writer' = [pc |-> "write", item |-> Head(buf["writes"])]
          /\ Take("writes") /\ ~Empty("writes") /\ UNCHANGED <<demux, cli>>
      BY <2>8, <3>1 DEF Receive, Empty
    <3>3. /\ buf'["writes"] = Tail(buf["writes"]) /\ buf'["stdout"] = buf["stdout"]
          /\ buf'["stdin"] = buf["stdin"]
      BY <1>1, <3>2, TakeDoes DEF Channels, Pipes
    <3>4. Number(buf["writes"], {"response"})
            = Number(buf'["writes"], {"response"}) + One(Head(buf["writes"]) \in {"response"})
      BY <2>6, <3>2, <3>3, NumberTail
    <3>5. One(Head(buf["writes"]) \in {"response"}) = One(writer'.item = "response")
      BY <3>2 DEF One
    <3>6. One(writer.item = "response") = 0
      BY <2>6, <2>8 DEF Receive, Tasks, One
    <3>7. Writing({"request"})' = Writing({"request"})
      BY <3>2 DEF Writing
    <3>8. Number(buf'["writes"], {"response"}) \in Nat
      <4>1. buf'["writes"] \in Seq(Inputs)
        BY <2>6, <3>2, <3>3
      <4> QED BY <4>1, NumberIsNat
    <3>9. One(writer'.item = "response") \in {0, 1}
      BY DEF One
    <3> QED BY <2>3, <2>4, <2>5, <3>2, <3>3, <3>4, <3>5, <3>6, <3>7, <3>8, <3>9 DEF Owed
  <2>9. CASE WriteLine
    <3>1. /\ Put("stdin", writer.item) /\ writer' = Idle("recv") /\ UNCHANGED <<demux, cli>>
          /\ writer.item \in Inputs
      BY <2>2, <2>6, <2>9 DEF WriteLine, Tasks
    <3>2. /\ buf'["stdin"] = Append(buf["stdin"], writer.item) /\ buf'["stdout"] = buf["stdout"]
          /\ buf'["writes"] = buf["writes"]
      BY <1>1, <3>1, PutDoes DEF Channels, Pipes, Content
    <3>3. Number(buf'["stdin"], {"response"})
            = Number(buf["stdin"], {"response"}) + One(writer.item \in {"response"})
      BY <2>6, <3>1, <3>2, NumberAppend
    <3>4. One(writer.item \in {"response"}) = One(writer.item = "response")
      BY DEF One
    <3>5. One(writer'.item = "response") = 0
      BY <3>1 DEF Idle, One
    <3>6. Writing({"request"})' = Writing({"request"})
      BY <3>1 DEF Writing
    <3> QED BY <2>3, <2>4, <2>5, <3>1, <3>2, <3>3, <3>4, <3>5, <3>6 DEF Owed
  <2>10. CASE ReadFrame
    <3>1. /\ Take("stdout") /\ ~Empty("stdout") /\ UNCHANGED <<writer, cli>>
          /\ buf["stdout"] # <<>> /\ demux.pc = "read"
      BY <2>10 DEF ReadFrame, Empty
    <3>2. /\ buf'["stdout"] = Tail(buf["stdout"]) /\ buf'["writes"] = buf["writes"]
          /\ buf'["stdin"] = buf["stdin"]
      BY <1>1, <3>1, TakeDoes DEF Channels, Pipes
    <3>3. Number(buf["stdout"], {"request"})
            = Number(buf'["stdout"], {"request"}) + One(Head(buf["stdout"]) \in {"request"})
      BY <2>6, <3>1, <3>2, NumberTail
    <3>4. One(Head(buf["stdout"]) \in {"request"}) = One(demux'.pc = "answer")
      BY <2>10 DEF ReadFrame, Idle, One
    <3>5. One(demux.pc = "answer") = 0
      BY <3>1 DEF One
    <3>6. Writing({"request"})' = Writing({"request"})
      BY <3>1 DEF Writing
    <3>7. Number(buf'["stdout"], {"request"}) \in Nat
      <4>1. buf'["stdout"] \in Seq(Frames)
        BY <2>6, <3>1, <3>2
      <4> QED BY <4>1, NumberIsNat
    <3>8. One(demux'.pc = "answer") \in {0, 1}
      BY DEF One
    <3> QED BY <2>3, <2>4, <2>5, <3>1, <3>2, <3>3, <3>4, <3>5, <3>6, <3>7, <3>8 DEF Owed
  <2>11. CASE Forward
    <3>1. /\ Put("messages", demux.item) /\ demux' = Idle("read") /\ UNCHANGED <<writer, cli>>
          /\ demux.item \in Items /\ demux.pc = "forward"
      BY <2>2, <2>6, <2>11 DEF Forward, Tasks
    <3>2. /\ buf'["stdout"] = buf["stdout"] /\ buf'["writes"] = buf["writes"]
          /\ buf'["stdin"] = buf["stdin"]
      BY <1>1, <3>1, PutDoes DEF Channels, Pipes, Content
    <3>3. One(demux.pc = "answer") = 0 /\ One(demux'.pc = "answer") = 0
      BY <3>1 DEF One, Idle
    <3>4. Writing({"request"})' = Writing({"request"})
      BY <3>1 DEF Writing
    <3> QED BY <2>3, <3>1, <3>2, <3>3, <3>4 DEF Owed
  <2>12. CASE Answer
    <3>1. Upgrades /\ writer.pc # "end"
      BY <2>2 DEF Upgrades, RequestInv, Driven
    <3>2. /\ Put("writes", "response") /\ demux' = Idle("read") /\ UNCHANGED <<writer, cli>>
          /\ demux.pc = "answer"
      BY <2>12, <3>1 DEF Answer
    <3>3. /\ buf'["writes"] = Append(buf["writes"], "response") /\ buf'["stdout"] = buf["stdout"]
          /\ buf'["stdin"] = buf["stdin"]
      BY <1>1, <3>2, PutDoes DEF Channels, Pipes, Content, Inputs
    <3>4. Number(buf'["writes"], {"response"}) = Number(buf["writes"], {"response"}) + 1
      <4>1. "response" \in Inputs /\ One("response" \in {"response"}) = 1
        BY DEF Inputs, One
      <4> QED BY <2>6, <3>3, <4>1, NumberAppend
    <3>5. One(demux.pc = "answer") = 1 /\ One(demux'.pc = "answer") = 0
      BY <3>2 DEF One, Idle
    <3>6. Writing({"request"})' = Writing({"request"})
      BY <3>2 DEF Writing
    <3> QED BY <2>3, <2>4, <2>5, <3>2, <3>3, <3>4, <3>5, <3>6 DEF Owed
  <2>13. CASE CliReads
    <3>1. /\ buf["stdin"] # <<>> /\ Head(buf["stdin"]) \in Inputs /\ UNCHANGED <<writer, demux>>
          /\ buf'["stdin"] = Tail(buf["stdin"]) /\ buf'["stdout"] = buf["stdout"]
          /\ buf'["writes"] = buf["writes"] /\ cli'.writing = cli.writing
          /\ cli'.owed = cli.owed - One(Head(buf["stdin"]) \in {"response"})
      <4>1. cli'.owed = cli.owed - One(Head(buf["stdin"]) \in {"response"})
        <5>1. cli.owed \in Int /\ One(FALSE) = 0 /\ One(TRUE) = 1
          BY DEF AgentTypes, CliTypes, One
        <5>2. \/ Head(buf["stdin"]) = "prompt" /\ cli'.owed = cli.owed
              \/ Head(buf["stdin"]) = "response" /\ cli'.owed = cli.owed - 1
          BY <2>13, CliReadsDoes
        <5> QED BY <5>1, <5>2 DEF One
      <4> QED BY <2>13, <4>1, CliReadsDoes DEF CliReads, Channels, Pipes
    <3>2. Number(buf["stdin"], {"response"})
            = Number(buf'["stdin"], {"response"}) + One(Head(buf["stdin"]) \in {"response"})
      BY <2>6, <3>1, NumberTail
    <3>3. Writing({"request"})' = Writing({"request"})
      BY <3>1 DEF Writing
    <3>4. Number(buf'["stdin"], {"response"}) \in Nat
      <4>1. buf'["stdin"] \in Seq(Inputs)
        BY <2>6, <3>1
      <4> QED BY <4>1, NumberIsNat
    <3>5. One(Head(buf["stdin"]) \in {"response"}) \in {0, 1}
      BY DEF One
    <3> QED BY <2>3, <2>4, <2>5, <3>1, <3>2, <3>3, <3>4, <3>5 DEF Owed
  <2>14. CASE CliWrites
    <3>1. cli'.writing = <<>> /\ cli'.owed = cli.owed /\ UNCHANGED <<writer, demux>>
      BY <2>14, CliWritesDoes DEF CliWrites
    <3>2. ~Writing({"request"})'
      BY <3>1 DEF Writing
    <3>3. ASSUME NEW f \in Frames, cli.writing = <<"stdout", f>>,
                 buf'["stdout"] = Append(buf["stdout"], f),
                 \A d \in (Channels \cup Pipes) \ {"stdout"} : buf'[d] = buf[d]
          PROVE  Owed'
      <4>1. buf'["writes"] = buf["writes"] /\ buf'["stdin"] = buf["stdin"]
        BY <3>3 DEF Channels, Pipes
      <4>2. Number(buf'["stdout"], {"request"})
              = Number(buf["stdout"], {"request"}) + One(f \in {"request"})
        BY <2>6, <3>3, NumberAppend
      <4>3. One(f \in {"request"}) = One(Writing({"request"}))
        BY <3>3 DEF Writing, One
      <4>4. One(Writing({"request"})') = 0
        BY <3>2 DEF One
      <4> QED BY <2>3, <2>4, <2>5, <3>1, <4>1, <4>2, <4>3, <4>4 DEF Owed
    <3>4. ASSUME NEW l \in Lines, cli.writing = <<"stderr", l>>,
                 \A d \in (Channels \cup Pipes) \ {"stderr"} : buf'[d] = buf[d]
          PROVE  Owed'
      <4>1. /\ buf'["writes"] = buf["writes"] /\ buf'["stdin"] = buf["stdin"]
            /\ buf'["stdout"] = buf["stdout"]
        BY <3>4 DEF Channels, Pipes
      <4>2. ~Writing({"request"})
        BY <3>4 DEF Writing
      <4>3. One(Writing({"request"})) = One(Writing({"request"})')
        BY <3>2, <4>2 DEF One
      <4> QED BY <2>3, <3>1, <4>1, <4>3 DEF Owed
    <3> QED BY <2>14, <3>3, <3>4, CliWritesDoes
  <2>15. CASE CliText \/ CliNoise \/ CliAsks \/ CliFinishes \/ CliTruncates
    <3>1. PICK f \in Frames : Begun(f)
      BY <2>15, FrameBegins
    <3>2. UNCHANGED <<buf, demux, writer>> /\ cli.writing = <<>> /\ cli'.writing = <<"stdout", f>>
      BY <3>1 DEF Begun
    <3>3. cli'.owed = cli.owed + One(f = "request")
      BY <2>4, <2>5, <2>3, <3>1 DEF Begun, One, Enders, Finals
    <3>4. One(Writing({"request"})) = 0 /\ One(Writing({"request"})') = One(f = "request")
      BY <3>2 DEF Writing, One
    <3>5. One(f = "request") \in {0, 1}
      BY DEF One
    <3> QED BY <2>3, <2>4, <2>5, <3>2, <3>3, <3>4, <3>5 DEF Owed
  <2>16. CASE CliSays
    <3>1. /\ UNCHANGED <<buf, demux, writer>> /\ cli'.owed = cli.owed
          /\ cli.writing = <<>> /\ \E l \in Lines : cli'.writing = <<"stderr", l>>
      BY <2>16, CliSaysDoes
    <3>2. ~Writing({"request"}) /\ ~Writing({"request"})'
      BY <3>1 DEF Writing
    <3>3. One(Writing({"request"})) = One(Writing({"request"})')
      BY <3>2 DEF One
    <3> QED BY <2>3, <3>1, <3>3 DEF Owed
  <2>17. CASE ReadText \/ ReadLast
    <3>1. /\ ~Empty("messages") /\ Take("messages") /\ UNCHANGED <<writer, demux>>
      BY <2>17 DEF ReadText, ReadLast
    <3>2. /\ buf'["stdout"] = buf["stdout"] /\ buf'["writes"] = buf["writes"]
          /\ buf'["stdin"] = buf["stdin"]
      BY <1>1, <3>1, TakeDoes DEF Channels, Pipes
    <3>3. UNCHANGED cli
      BY <2>17, ReturnDoes DEF ReadText, ReadLast
    <3> QED BY <2>7, <3>1, <3>2, <3>3 DEF OwedStays
  <2>18. CASE ReadLine \/ SendLine \/ Drain
    <3>1. UNCHANGED <<writer, demux, cli>>
      BY <2>18 DEF ReadLine, SendLine, Drain
    <3>2. /\ buf'["stdout"] = buf["stdout"] /\ buf'["writes"] = buf["writes"]
          /\ buf'["stdin"] = buf["stdin"]
      <4>1. CASE buf' = buf
        BY <4>1
      <4>2. ASSUME NEW b \in {"stderr", "lines"}, ~Empty(b), Take(b)
            PROVE  /\ buf'["stdout"] = buf["stdout"] /\ buf'["writes"] = buf["writes"]
                   /\ buf'["stdin"] = buf["stdin"]
        BY <1>1, <4>2, TakeDoes DEF Channels, Pipes
      <4>3. CASE SendLine
        <5>1. err.item \in Lines /\ Put("lines", err.item)
          BY <2>6, <4>3 DEF SendLine, Tasks
        <5> QED BY <1>1, <5>1, PutDoes DEF Channels, Pipes, Content
      <4> QED BY <2>18, <4>1, <4>2, <4>3 DEF ReadLine, Drain
    <3> QED BY <2>7, <3>1, <3>2 DEF OwedStays
  <2>19. CASE UNCHANGED vars
    BY <2>7, <2>19 DEF vars, OwedStays
  <2>20. ~(ReadStdoutEof \/ CliExits \/ CliDies)
    BY <2>2, CliEnds DEF ReadStdoutEof, Alive
  <2>21. ~(ReadEof \/ ConnectFails \/ Connect \/ Wait \/ AwaitDrain \/ Verdict)
    BY <2>2, ReturnDoes, StopDoes
       DEF ReadEof, ConnectFails, Connect, Wait, AwaitDrain, Verdict
  <2>22. CASE ReadSession
    BY <2>7, <2>22 DEF ReadSession, OwedStays
  <2> QED BY <2>8, <2>9, <2>10, <2>11, <2>12, <2>13, <2>14, <2>15, <2>16, <2>17, <2>18, <2>19,
             <2>20, <2>21, <2>22 DEF Next, UserStep
<1> QED BY <1>2, <1>3

-----------------------------------------------------------------------------
(* Texts *)

LEMMA HasNone ==
  ASSUME NEW X
  PROVE  ~Has(<<>>, X) /\ EndsWith(<<>>, X)
BY DEF Has, EndsWith

LEMMA HasAppend ==
  ASSUME NEW S, NEW q \in Seq(S), NEW x \in S, NEW X
  PROVE  /\ Has(Append(q, x), X) <=> Has(q, X) \/ x \in X
         /\ ~Has(q, X) => EndsWith(Append(q, x), X)
<1> DEFINE r == Append(q, x)
<1>1. /\ Len(q) \in Nat /\ Len(r) = Len(q) + 1 /\ r[Len(r)] = x
      /\ \A i \in 1..Len(q) : r[i] = q[i]
  OBVIOUS
<1> HIDE DEF r
<1>2. \A i \in 1..Len(r) : i \in 1..Len(q) \/ i = Len(r)
  BY <1>1
<1>3. 1..Len(q) \subseteq 1..Len(r) /\ Len(r) \in 1..Len(r)
  BY <1>1
<1>4. Has(r, X) <=> Has(q, X) \/ x \in X
  BY <1>1, <1>2, <1>3 DEF Has
<1>5. ~Has(q, X) => EndsWith(r, X)
  BY <1>1, <1>2 DEF Has, EndsWith
<1> QED BY <1>4, <1>5 DEF r

LEMMA HasTail ==
  ASSUME NEW S, NEW q \in Seq(S), q # <<>>, NEW X
  PROVE  /\ Has(Tail(q), X) => Has(q, X)
         /\ Head(q) \in X => Has(q, X)
         /\ EndsWith(q, X) => EndsWith(Tail(q), X)
         /\ EndsWith(q, X) /\ Head(q) \in X => Tail(q) = <<>>
<1> DEFINE r == Tail(q)
<1>1. /\ Len(q) \in Nat \ {0} /\ r \in Seq(S) /\ Len(r) = Len(q) - 1 /\ Head(q) = q[1]
      /\ \A i \in 1..Len(r) : r[i] = q[i + 1]
      /\ Len(r) = 0 => r = <<>>
  OBVIOUS
<1> HIDE DEF r
<1>2. \A i \in 1..Len(r) : i \in Nat /\ i + 1 \in 1..Len(q) /\ (i + 1 = Len(q) <=> i = Len(r))
  BY <1>1
<1>3. 1 \in 1..Len(q)
  BY <1>1
<1>4. Has(r, X) => Has(q, X)
  BY <1>1, <1>2 DEF Has
<1>5. Head(q) \in X => Has(q, X)
  BY <1>1, <1>3 DEF Has
<1>6. EndsWith(q, X) => EndsWith(r, X)
  BY <1>1, <1>2 DEF EndsWith
<1>7. EndsWith(q, X) /\ Head(q) \in X => r = <<>>
  BY <1>1, <1>3 DEF EndsWith
<1> QED BY <1>4, <1>5, <1>6, <1>7 DEF r

\* The command line begins no second turn.
LEMMA NoPromptLeft ==
  ASSUME AgentTypes, OnePrompt, cli.pc \in {"working", "done", "broken"}, buf["stdin"] # <<>>
  PROVE  Head(buf["stdin"]) # "prompt"
<1>1. Number(buf["stdin"], {"prompt"}) = 0
  <2>1. Prompts = 0
    BY DEF OnePrompt
  <2>2. Number(buf["stdin"], {"prompt"}) \in Nat /\ Number(buf["writes"], {"prompt"}) \in Nat
    BY NumbersAreNat
  <2>3. One(writer.item = "prompt") \in {0, 1}
    BY DEF One
  <2> QED BY <2>1, <2>2, <2>3 DEF Prompts
<1>2. buf["stdin"] \in Seq(Inputs)
  BY SixQueues DEF AgentTypes
<1>3. ~Has(buf["stdin"], {"prompt"})
  BY <1>1, <1>2, NumberIsNat
<1> QED BY <1>2, <1>3, HasTail

LEMMA OverStays ==
  ASSUME AgentTypes, Phases, OnePrompt, [Next]_vars, cli.pc \in Over
  PROVE  cli'.pc \in Over
<1>1. user.pc # "connect"
  BY DEF Phases, Over
<1>2. CASE cli.pc = "exited"
  BY <1>1, <1>2, RunGoesOn DEF GoesOn, Over
<1>3. CASE cli.pc \in {"done", "broken"}
  <2>1. CASE UserStep
    <3>1. cli'.pc = cli.pc \/ cli'.pc = "exited"
      <4>1. CASE ReadText \/ ReadLast \/ ReadEof \/ Wait
        BY <4>1, ReturnDoes DEF ReadText, ReadLast, ReadEof, Wait, AgentTypes, CliTypes
      <4>2. CASE ConnectFails \/ ReadSession \/ AwaitDrain \/ Verdict
        BY <4>2, ReturnDoes DEF ConnectFails, ReadSession, AwaitDrain, Verdict
      <4> QED BY <1>1, <2>1, <4>1, <4>2 DEF UserStep, Connect
    <3> QED BY <1>3, <3>1 DEF Over
  <2>2. CASE CliReads
    BY <1>3, <2>2, NoPromptLeft, CliReadsDoes DEF Over
  <2>3. CASE CliText \/ CliNoise \/ CliAsks \/ CliFinishes \/ CliTruncates
    BY <1>3, <2>3, FrameBegins DEF Begun
  <2>4. CASE CliWrites \/ CliSays \/ CliExits \/ CliDies
    BY <1>3, <2>4, CliWritesDoes, CliSaysDoes, CliEnds DEF Over
  <2>5. CASE \/ Receive \/ WriteLine \/ ReadFrame \/ ReadStdoutEof \/ Forward \/ Answer
             \/ ReadLine \/ SendLine \/ Drain \/ UNCHANGED vars
    BY <2>5 DEF Receive, WriteLine, ReadFrame, ReadStdoutEof, Forward, Answer, ReadLine, SendLine,
                Drain, vars
  <2> QED BY <2>1, <2>2, <2>3, <2>4, <2>5 DEF Next
<1> QED BY <1>2, <1>3 DEF Over

\* A step after which no more prompts are left than before.
PromptsStay ==
  /\ Prompts' = Prompts
  /\ \/ cli'.pc = cli.pc \/ cli'.pc = "exited"
     \/ cli.pc = "working" /\ cli'.pc \in {"done", "broken"}

LEMMA PromptQueues ==
  ASSUME buf'["writes"] = buf["writes"], buf'["stdin"] = buf["stdin"],
         writer'.item = writer.item
  PROVE  Prompts' = Prompts
BY DEF Prompts

LEMMA OnePromptKeeps ==
  ASSUME AgentTypes, Phases, OnePrompt, [Next]_vars
  PROVE  OnePrompt'
<1>1. Buffers /\ Tasks
  BY DEF AgentTypes
<1>2. buf["writes"] \in Seq(Inputs) /\ buf["stdin"] \in Seq(Inputs)
  BY <1>1, SixQueues
<1>3. /\ Number(buf["writes"], {"prompt"}) \in Nat /\ Number(buf["stdin"], {"prompt"}) \in Nat
      /\ One(writer.item = "prompt") \in {0, 1}
  BY NumbersAreNat DEF One
<1>4. CASE PromptsStay
  BY <1>4 DEF PromptsStay, OnePrompt
<1>5. CASE cli'.pc = "exited"
  BY <1>5 DEF OnePrompt
<1>6. CASE Connect
  <2>1. /\ cli'.pc = (IF Streaming THEN "waiting" ELSE "working") /\ writer'.item = "none"
        /\ buf'["stdin"] = <<>> /\ buf'["writes"] = IF Streaming THEN <<"prompt">> ELSE <<>>
    BY <1>6, ConnectDoes DEF Idle, Channels, Pipes
  <2>2. One(writer'.item = "prompt") = 0 /\ Number(<<>>, {"prompt"}) = 0
    BY <2>1, NumberOfNone DEF One
  <2>3. CASE Streaming
    <3>1. /\ <<>> \in Seq(Inputs) /\ "prompt" \in Inputs
          /\ buf'["writes"] = Append(<<>>, "prompt")
      BY <2>1, <2>3 DEF Inputs
    <3>2. One("prompt" \in {"prompt"}) = 1
      BY DEF One
    <3>3. Number(buf'["writes"], {"prompt"}) = 1
      <4>1. Number(Append(<<>>, "prompt"), {"prompt"})
              = Number(<<>>, {"prompt"}) + One("prompt" \in {"prompt"})
        BY <3>1, NumberAppend
      <4> QED BY <2>2, <3>1, <3>2, <4>1
    <3> QED BY <2>1, <2>2, <2>3, <3>3 DEF OnePrompt, Prompts
  <2>4. CASE ~Streaming
    BY <2>1, <2>2, <2>4 DEF OnePrompt, Prompts
  <2> QED BY <2>3, <2>4
<1>7. CASE Receive
  <2>1. UNCHANGED cli /\ writer.item = "none"
    BY <1>1, <1>7 DEF Receive, Tasks
  <2>2. CASE ~Empty("writes") /\ writer' = [pc |-> "write", item |-> Head(buf["writes"])] /\ Take("writes")
    <3>1. /\ buf["writes"] # <<>> /\ buf'["writes"] = Tail(buf["writes"])
          /\ buf'["stdin"] = buf["stdin"]
      BY <1>1, <2>2, TakeDoes DEF Channels, Pipes, Empty
    <3>2. Number(buf["writes"], {"prompt"})
            = Number(buf'["writes"], {"prompt"}) + One(Head(buf["writes"]) \in {"prompt"})
      BY <1>2, <3>1, NumberTail
    <3>3. One(Head(buf["writes"]) \in {"prompt"}) = One(writer'.item = "prompt")
      BY <2>2 DEF One
    <3>4. buf'["writes"] \in Seq(Inputs)
      BY <1>2, <3>1
    <3>5. Number(buf'["writes"], {"prompt"}) \in Nat /\ One(writer'.item = "prompt") \in {0, 1}
      BY <3>4, NumberIsNat DEF One
    <3>6. One(writer.item = "prompt") = 0
      BY <2>1 DEF One
    <3>7. Prompts' = Prompts
      BY <1>3, <3>1, <3>2, <3>3, <3>5, <3>6 DEF Prompts
    <3> QED BY <1>4, <2>1, <3>7 DEF PromptsStay
  <2>3. CASE writer' = Idle("end") /\ UNCHANGED buf
    BY <1>4, <2>1, <2>3, PromptQueues DEF PromptsStay, Idle
  <2> QED BY <1>7, <2>2, <2>3 DEF Receive
<1>8. CASE WriteLine
  <2>1. UNCHANGED cli /\ writer.item \in Inputs
    BY <1>1, <1>8 DEF WriteLine, Tasks
  <2>2. CASE Put("stdin", writer.item) /\ writer' = Idle("recv")
    <3>1. buf'["stdin"] = Append(buf["stdin"], writer.item) /\ buf'["writes"] = buf["writes"]
      BY <1>1, <2>1, <2>2, PutDoes DEF Channels, Pipes, Content
    <3>2. Number(buf'["stdin"], {"prompt"})
            = Number(buf["stdin"], {"prompt"}) + One(writer.item \in {"prompt"})
      BY <1>2, <2>1, <3>1, NumberAppend
    <3>3. One(writer.item \in {"prompt"}) = One(writer.item = "prompt")
      BY DEF One
    <3>4. One(writer'.item = "prompt") = 0
      BY <2>2 DEF One, Idle
    <3>5. Prompts' = Prompts
      BY <1>3, <3>1, <3>2, <3>3, <3>4 DEF Prompts
    <3> QED BY <1>4, <2>1, <3>5 DEF PromptsStay
  <2>3. CASE ~Alive
    <3>1. cli.pc = "exited"
      BY <1>8, <2>3 DEF WriteLine, Running, Phases, Alive
    <3> QED BY <1>5, <2>1, <3>1
  <2> QED BY <1>8, <2>2, <2>3 DEF WriteLine
<1>9. CASE CliReads
  <2>1. /\ buf["stdin"] # <<>> /\ Head(buf["stdin"]) \in Inputs /\ UNCHANGED writer
        /\ buf'["stdin"] = Tail(buf["stdin"]) /\ buf'["writes"] = buf["writes"]
        /\ \/ Head(buf["stdin"]) = "prompt" /\ cli'.pc = "working"
           \/ Head(buf["stdin"]) = "response" /\ cli'.pc = cli.pc
        /\ Alive
    BY <1>9, CliReadsDoes DEF CliReads, Channels, Pipes
  <2>2. Number(buf["stdin"], {"prompt"})
          = Number(buf'["stdin"], {"prompt"}) + One(Head(buf["stdin"]) \in {"prompt"})
    BY <1>2, <2>1, NumberTail
  <2>3. buf'["stdin"] \in Seq(Inputs)
    BY <1>2, <2>1
  <2>4. Number(buf'["stdin"], {"prompt"}) \in Nat
    BY <2>3, NumberIsNat
  <2>5. CASE Head(buf["stdin"]) = "prompt" /\ cli'.pc = "working"
    <3>1. cli.pc = "waiting"
      BY <2>1, <2>5, NoPromptLeft DEF Alive, AgentTypes, CliTypes
    <3>2. One(Head(buf["stdin"]) \in {"prompt"}) = 1
      BY <2>5 DEF One
    <3>3. Prompts' = Prompts - 1 /\ Prompts <= 1 /\ Prompts' \in Nat
      BY <1>3, <2>1, <2>2, <2>4, <3>1, <3>2 DEF Prompts, OnePrompt
    <3>4. Prompts \in Nat
      BY <1>3 DEF Prompts
    <3> QED BY <2>5, <3>3, <3>4 DEF OnePrompt
  <2>6. CASE Head(buf["stdin"]) = "response" /\ cli'.pc = cli.pc
    <3>1. One(Head(buf["stdin"]) \in {"prompt"}) = 0
      BY <2>6 DEF One
    <3>2. Prompts' = Prompts
      BY <1>3, <2>1, <2>2, <2>4, <3>1 DEF Prompts
    <3> QED BY <1>4, <2>6, <3>2 DEF PromptsStay
  <2> QED BY <2>1, <2>5, <2>6
<1>10. CASE Answer
  <2>1. UNCHANGED <<writer, cli>>
    BY <1>10 DEF Answer
  <2>2. CASE UNCHANGED buf
    BY <1>4, <2>1, <2>2, PromptQueues DEF PromptsStay
  <2>3. CASE Put("writes", "response")
    <3>1. "response" \in Inputs /\ One("response" \in {"prompt"}) = 0
      BY DEF Inputs, One
    <3>2. buf'["writes"] = Append(buf["writes"], "response") /\ buf'["stdin"] = buf["stdin"]
      BY <1>1, <2>3, <3>1, PutDoes DEF Channels, Pipes, Content
    <3>3. Number(buf'["writes"], {"prompt"}) = Number(buf["writes"], {"prompt"}) + 0
      BY <1>2, <3>1, <3>2, NumberAppend
    <3>4. Prompts' = Prompts
      BY <1>3, <2>1, <3>2, <3>3 DEF Prompts
    <3> QED BY <1>4, <2>1, <3>4 DEF PromptsStay
  <2> QED BY <1>10, <2>2, <2>3 DEF Answer
<1>11. ASSUME UNCHANGED writer, buf'["writes"] = buf["writes"], buf'["stdin"] = buf["stdin"],
              \/ cli'.pc = cli.pc \/ cli'.pc = "exited"
              \/ cli.pc = "working" /\ cli'.pc \in {"done", "broken"}
       PROVE  OnePrompt'
  BY <1>4, <1>11, PromptQueues DEF PromptsStay
<1>12. ASSUME NEW b \in {"stdout", "stderr", "messages", "lines"}, ~Empty(b), Take(b)
       PROVE  buf'["writes"] = buf["writes"] /\ buf'["stdin"] = buf["stdin"]
  BY <1>1, <1>12, TakeDoes DEF Channels, Pipes
<1>13. CASE ReadFrame \/ ReadLine \/ Drain
  BY <1>11, <1>12, <1>13 DEF ReadFrame, ReadLine, Drain
<1>14. CASE ReadText \/ ReadLast
  <2>1. cli'.pc = cli.pc \/ cli'.pc = "exited"
    BY <1>14, ReturnDoes DEF ReadText, ReadLast
  <2> QED BY <1>11, <1>12, <1>14, <2>1 DEF ReadText, ReadLast
<1>15. CASE Forward
  <2>1. demux.item \in Items
    BY <1>1, <1>15 DEF Forward, Tasks
  <2>2. buf'["writes"] = buf["writes"] /\ buf'["stdin"] = buf["stdin"]
    BY <1>1, <1>15, <2>1, PutDoes DEF Forward, Channels, Pipes, Content
  <2> QED BY <1>11, <1>15, <2>2 DEF Forward
<1>16. CASE SendLine
  <2>1. err.item \in Lines
    BY <1>1, <1>16 DEF SendLine, Tasks
  <2>2. buf'["writes"] = buf["writes"] /\ buf'["stdin"] = buf["stdin"]
    BY <1>1, <1>16, <2>1, PutDoes DEF SendLine, Channels, Pipes, Content
  <2> QED BY <1>11, <1>16, <2>2 DEF SendLine
<1>17. CASE CliWrites
  <2>1. /\ cli'.pc = cli.pc /\ UNCHANGED writer
        /\ buf'["writes"] = buf["writes"] /\ buf'["stdin"] = buf["stdin"]
    BY <1>17, CliWritesDoes DEF CliWrites, Channels, Pipes
  <2> QED BY <1>11, <2>1
<1>18. CASE CliText \/ CliNoise \/ CliAsks \/ CliFinishes \/ CliTruncates
  <2>1. PICK f \in Frames : Begun(f)
    BY <1>18, FrameBegins
  <2> QED BY <1>11, <2>1 DEF Begun
<1>19. CASE CliSays \/ CliExits \/ CliDies
  BY <1>11, <1>19, CliSaysDoes, CliEnds
<1>20. CASE ConnectFails \/ ReadEof \/ Wait \/ AwaitDrain \/ Verdict
  <2>1. UNCHANGED <<writer, buf>> /\ (cli'.pc = cli.pc \/ cli'.pc = "exited")
    BY <1>20, ReturnDoes
       DEF ConnectFails, ReadEof, Wait, AwaitDrain, Verdict, AgentTypes, CliTypes
  <2> QED BY <1>11, <2>1
<1>21. CASE ReadSession \/ ReadStdoutEof \/ UNCHANGED vars
  BY <1>11, <1>21 DEF ReadSession, ReadStdoutEof, vars
<1> QED BY <1>6, <1>7, <1>8, <1>9, <1>10, <1>13, <1>14, <1>15, <1>16, <1>17, <1>18, <1>19, <1>20,
           <1>21 DEF Next, UserStep

\* A step that leaves the frames where they are, or loses the one being written.
FramesStay ==
  /\ buf'["messages"] = buf["messages"] /\ buf'["stdout"] = buf["stdout"]
  /\ demux'.item = demux.item
  /\ \/ cli'.writing = cli.writing
     \/ ~Writing(Frames)' /\ (~Writing(Frames) \/ cli'.pc = "exited")

LEMMA EndersStay ==
  ASSUME EndersLast, FramesStay, cli.pc \in Over => cli'.pc \in Over
  PROVE  EndersLast'
<1>1. Enders \subseteq Frames
  BY DEF Enders, Frames
<1>2. CASE cli'.writing = cli.writing
  BY <1>2 DEF EndersLast, FramesStay, Writing, Empty
<1>3. CASE ~Writing(Frames)'
  <2>1. ~Writing(Enders)'
    BY <1>1, <1>3 DEF Writing
  <2> QED BY <1>3, <2>1 DEF EndersLast, FramesStay, Empty
<1> QED BY <1>2, <1>3 DEF FramesStay

\* The steps that do.
LEMMA QuietSteps ==
  ASSUME AgentTypes, Phases,
         \/ ConnectFails \/ ReadSession \/ ReadEof \/ Wait \/ AwaitDrain \/ Verdict
         \/ Receive \/ WriteLine \/ Answer \/ ReadLine \/ SendLine \/ Drain
         \/ CliReads \/ CliSays \/ CliExits \/ CliDies \/ UNCHANGED vars
  PROVE  FramesStay
<1>1. Buffers /\ Tasks
  BY DEF AgentTypes
<1>2. ASSUME NEW b \in {"writes", "stdin", "stderr", "lines"}, Take(b) /\ ~Empty(b)
      PROVE  buf'["messages"] = buf["messages"] /\ buf'["stdout"] = buf["stdout"]
  BY <1>1, <1>2, TakeDoes DEF Channels, Pipes
<1>3. ASSUME NEW b \in {"writes", "stdin", "stderr", "lines"}, NEW x \in Content(b), Put(b, x)
      PROVE  buf'["messages"] = buf["messages"] /\ buf'["stdout"] = buf["stdout"]
  BY <1>1, <1>3, PutDoes DEF Channels, Pipes
<1>4. cli'.writing = <<>> => ~Writing(Frames)'
  BY DEF Writing
<1>5. CASE ConnectFails \/ ReadEof \/ Wait \/ AwaitDrain \/ Verdict
  <2>1. cli'.writing = cli.writing \/ (cli'.writing = <<>> /\ cli'.pc = "exited")
    BY <1>5, ReturnDoes DEF ConnectFails, ReadEof, Wait, AwaitDrain, Verdict, AgentTypes, CliTypes
  <2>2. UNCHANGED <<buf, demux>>
    BY <1>5 DEF ConnectFails, ReadEof, Wait, AwaitDrain, Verdict
  <2> QED BY <1>4, <2>1, <2>2 DEF FramesStay
<1>6. CASE Receive \/ ReadLine \/ Drain
  BY <1>2, <1>6 DEF Receive, ReadLine, Drain, FramesStay
<1>7. CASE WriteLine
  <2>1. writer.item \in Content("stdin")
    BY <1>1, <1>7 DEF WriteLine, Tasks, Content
  <2> QED BY <1>3, <1>7, <2>1 DEF WriteLine, FramesStay
<1>8. CASE Answer
  <2>1. "response" \in Content("writes") /\ demux.item = "none"
    BY <1>1, <1>8 DEF Answer, Tasks, Content, Inputs
  <2> QED BY <1>3, <1>8, <2>1 DEF Answer, FramesStay, Idle
<1>9. CASE SendLine
  <2>1. err.item \in Content("lines")
    BY <1>1, <1>9 DEF SendLine, Tasks, Content
  <2> QED BY <1>3, <1>9, <2>1 DEF SendLine, FramesStay
<1>10. CASE CliReads
  BY <1>10, CliReadsDoes DEF CliReads, FramesStay, Channels, Pipes
<1>11. CASE CliSays
  <2>1. ~Writing(Frames)' /\ ~Writing(Frames)
    BY <1>11, CliSaysDoes DEF Writing
  <2> QED BY <1>11, <2>1, CliSaysDoes DEF FramesStay
<1>12. CASE CliExits \/ CliDies
  BY <1>4, <1>12, CliEnds DEF FramesStay
<1>13. CASE ReadSession \/ UNCHANGED vars
  BY <1>13 DEF ReadSession, vars, FramesStay
<1> QED BY <1>5, <1>6, <1>7, <1>8, <1>9, <1>10, <1>11, <1>12, <1>13

\* What the steps do that move frames.
LEMMA ReadsMessage ==
  ASSUME AgentTypes, ReadText \/ ReadLast
  PROVE  /\ buf["messages"] # <<>> /\ buf'["messages"] = Tail(buf["messages"])
         /\ buf'["stdout"] = buf["stdout"] /\ UNCHANGED demux
         /\ UNCHANGED cli \/ (cli'.writing = <<>> /\ cli'.pc = "exited")
<1>1. Buffers /\ ~Empty("messages") /\ Take("messages")
  BY DEF AgentTypes, ReadText, ReadLast
<1>2. UNCHANGED cli \/ (cli'.writing = <<>> /\ cli'.pc = "exited")
  BY ReturnDoes DEF ReadText, ReadLast
<1>3. UNCHANGED demux /\ buf["messages"] # <<>>
  BY <1>1 DEF ReadText, ReadLast, Empty
<1>4. buf'["messages"] = Tail(buf["messages"]) /\ buf'["stdout"] = buf["stdout"]
  BY <1>1, TakeDoes DEF Channels, Pipes
<1> QED BY <1>2, <1>3, <1>4

LEMMA ReadsFrame ==
  ASSUME AgentTypes, EndersLast, ReadFrame
  PROVE  /\ UNCHANGED <<user, cli>> /\ demux.item = "none" /\ buf["stdout"] # <<>>
         /\ Head(buf["stdout"]) \in Frames
         /\ buf'["stdout"] = Tail(buf["stdout"]) /\ buf'["messages"] = buf["messages"]
         /\ \/ Head(buf["stdout"]) = "request" /\ demux'.item = "none"
            \/ Head(buf["stdout"]) = "noise" /\ demux'.item = "garbage"
            \/ Head(buf["stdout"]) \in Enders \cup {"text"} /\ demux'.item = Head(buf["stdout"])
<1>1. Buffers /\ ~Empty("stdout") /\ Take("stdout") /\ Tasks
  BY DEF AgentTypes, ReadFrame
<1>2. /\ Head(buf["stdout"]) \in Frames
      /\ buf'["stdout"] = Tail(buf["stdout"]) /\ buf'["messages"] = buf["messages"]
  BY <1>1, TakeDoes DEF Channels, Pipes, Content
<1>3. demux.item = "none"
  BY <1>1 DEF ReadFrame, Tasks, EndersLast, Enders
<1>4. \/ Head(buf["stdout"]) = "request" /\ demux'.item = "none"
      \/ Head(buf["stdout"]) = "noise" /\ demux'.item = "garbage"
      \/ Head(buf["stdout"]) \in Enders \cup {"text"} /\ demux'.item = Head(buf["stdout"])
  BY <1>2 DEF ReadFrame, Idle, Frames, Enders
<1> QED BY <1>1, <1>2, <1>3, <1>4 DEF ReadFrame, Empty

LEMMA Forwards ==
  ASSUME AgentTypes, Forward
  PROVE  /\ UNCHANGED <<user, cli>> /\ demux.item \in Items /\ demux'.item = "none"
         /\ buf'["stdout"] = buf["stdout"]
         /\ \/ user.pc = "read" /\ buf'["messages"] = Append(buf["messages"], demux.item)
            \/ user.pc # "read" /\ buf'["messages"] = buf["messages"]
<1>1. Buffers /\ demux.item \in Content("messages") /\ Content("messages") = Items
  BY DEF AgentTypes, Forward, Tasks, Content
<1>2. Put("messages", demux.item) =>
        buf'["messages"] = Append(buf["messages"], demux.item) /\ buf'["stdout"] = buf["stdout"]
  BY <1>1, PutDoes DEF Channels, Pipes
<1> QED BY <1>1, <1>2 DEF Forward, Idle

LEMMA EndersKeep ==
  ASSUME AgentTypes, Phases, EndersLast, OnePrompt, [Next]_vars
  PROVE  EndersLast'
<1>1. buf["messages"] \in Seq(Items) /\ buf["stdout"] \in Seq(Frames)
  BY SixQueues DEF AgentTypes
<1>2. Finals \subseteq Enders /\ Enders \subseteq Frames /\ "none" \notin Enders
  BY DEF Enders, Frames, Finals
<1>3. cli.pc \in Over => cli'.pc \in Over
  BY OverStays
<1>4. CASE FramesStay
  BY <1>3, <1>4, EndersStay
<1>5. CASE Connect
  <2>1. /\ buf'["messages"] = <<>> /\ buf'["stdout"] = <<>> /\ demux'.item = "none"
        /\ cli'.writing = <<>>
    BY <1>5, ConnectDoes DEF Channels, Pipes, Idle
  <2>2. ~Writing(Frames)' /\ ~Writing(Enders)'
    BY <2>1 DEF Writing
  <2> QED BY <1>2, <2>1, <2>2, HasNone DEF EndersLast, Empty
<1>6. CASE ReadText \/ ReadLast
  <2>1. /\ buf["messages"] # <<>> /\ buf'["messages"] = Tail(buf["messages"])
        /\ buf'["stdout"] = buf["stdout"] /\ UNCHANGED demux
        /\ UNCHANGED cli \/ (cli'.writing = <<>> /\ cli'.pc = "exited")
    BY <1>6, ReadsMessage
  <2>2. /\ Has(buf'["messages"], Finals) => Has(buf["messages"], Finals)
        /\ EndsWith(buf'["messages"], Finals)
    BY <1>1, <2>1, HasTail DEF EndersLast
  <2>3. /\ Writing(Frames)' => Writing(Frames)
        /\ Writing(Enders)' => Writing(Enders)
    BY <2>1 DEF Writing
  <2> QED BY <1>3, <2>1, <2>2, <2>3 DEF EndersLast, Empty
<1>7. CASE ReadFrame
  <2>1. /\ UNCHANGED cli /\ demux.item = "none" /\ buf["stdout"] # <<>>
        /\ buf'["stdout"] = Tail(buf["stdout"]) /\ buf'["messages"] = buf["messages"]
        /\ Head(buf["stdout"]) \in Enders <=> demux'.item \in Enders
    BY <1>7, ReadsFrame DEF Enders, Finals
  <2>2. /\ Has(buf'["stdout"], Enders) => Has(buf["stdout"], Enders)
        /\ EndsWith(buf'["stdout"], Enders)
        /\ demux'.item \in Enders => Has(buf["stdout"], Enders) /\ buf'["stdout"] = <<>>
    BY <1>1, <2>1, HasTail DEF EndersLast
  <2>3. ~Has(buf["messages"], Finals)
    BY <2>1 DEF EndersLast, Empty
  <2>4. Writing(Frames)' = Writing(Frames) /\ Writing(Enders)' = Writing(Enders)
    BY <2>1 DEF Writing
  <2> QED BY <2>1, <2>2, <2>3, <2>4 DEF EndersLast, Empty
<1>8. CASE ReadStdoutEof
  <2>1. demux'.item = demux.item => FramesStay
    BY <1>8 DEF ReadStdoutEof, FramesStay
  <2>2. CASE demux.item = "partial"
    <3>1. /\ demux'.item = "garbage" /\ UNCHANGED <<buf, cli>> /\ "partial" \in Enders
          /\ "garbage" \notin Enders
      BY <1>8, <2>2 DEF ReadStdoutEof, Enders, Finals
    <3>2. ~Has(buf["messages"], Finals)
      BY <2>2 DEF EndersLast
    <3>3. Writing(Frames)' = Writing(Frames) /\ Writing(Enders)' = Writing(Enders)
      BY <3>1 DEF Writing
    <3> QED BY <2>2, <3>1, <3>2, <3>3 DEF EndersLast, Empty
  <2>3. CASE demux.item # "partial"
    <3>1. demux'.item = demux.item
      BY <1>8, <2>3 DEF ReadStdoutEof, AgentTypes, Tasks, Idle
    <3> QED BY <1>4, <2>1, <3>1
  <2> QED BY <2>2, <2>3
<1>9. CASE Forward
  <2>1. /\ UNCHANGED cli /\ demux.item \in Items /\ demux'.item = "none"
        /\ buf'["stdout"] = buf["stdout"]
        /\ \/ buf'["messages"] = Append(buf["messages"], demux.item)
           \/ buf'["messages"] = buf["messages"]
    BY <1>9, Forwards
  <2>2. ~Has(buf["messages"], Finals)
    BY <2>1 DEF EndersLast, Items, Finals
  <2>3. /\ EndsWith(buf'["messages"], Finals)
        /\ Has(buf'["messages"], Finals) => demux.item \in Finals
    <3>1. CASE buf'["messages"] = Append(buf["messages"], demux.item)
      BY <1>1, <2>1, <2>2, <3>1, HasAppend
    <3>2. CASE buf'["messages"] = buf["messages"]
      BY <2>2, <3>2 DEF EndersLast
    <3> QED BY <2>1, <3>1, <3>2
  <2>4. Writing(Frames)' = Writing(Frames) /\ Writing(Enders)' = Writing(Enders)
    BY <2>1 DEF Writing
  <2> QED BY <1>2, <2>1, <2>3, <2>4 DEF EndersLast, Empty
<1>10. CASE CliWrites
  <2>1. cli'.writing = <<>> /\ cli'.pc = cli.pc /\ UNCHANGED demux
    BY <1>10, CliWritesDoes DEF CliWrites
  <2>2. ~Writing(Frames)' /\ ~Writing(Enders)'
    BY <2>1 DEF Writing
  <2>3. ASSUME NEW f \in Frames, cli.writing = <<"stdout", f>>,
               buf'["stdout"] = Append(buf["stdout"], f),
               \A d \in (Channels \cup Pipes) \ {"stdout"} : buf'[d] = buf[d]
        PROVE  EndersLast'
    <3>1. Writing(Frames) /\ buf'["messages"] = buf["messages"]
      BY <2>3 DEF Writing, Channels, Pipes
    <3>2. /\ ~Has(buf["messages"], Finals) /\ demux.item \notin Enders
          /\ ~Has(buf["stdout"], Enders)
      BY <3>1 DEF EndersLast
    <3>3. EndsWith(buf'["stdout"], Enders) /\ (Has(buf'["stdout"], Enders) => f \in Enders)
      BY <1>1, <2>3, <3>2, HasAppend
    <3>4. f \in Enders => Writing(Enders)
      BY <2>3 DEF Writing
    <3> QED BY <2>1, <2>2, <3>1, <3>2, <3>3, <3>4 DEF EndersLast
  <2>4. ASSUME NEW l \in Lines, cli.writing = <<"stderr", l>>,
               \A d \in (Channels \cup Pipes) \ {"stderr"} : buf'[d] = buf[d]
        PROVE  EndersLast'
    <3>1. FramesStay
      BY <2>1, <2>2, <2>4 DEF FramesStay, Channels, Pipes, Writing
    <3> QED BY <1>4, <3>1
  <2> QED BY <1>10, <2>3, <2>4, CliWritesDoes
<1>11. CASE CliText \/ CliNoise \/ CliAsks \/ CliFinishes \/ CliTruncates
  <2>1. PICK f \in Frames : Begun(f)
    BY <1>11, FrameBegins
  <2>2. /\ UNCHANGED <<buf, demux>> /\ cli.pc \notin Over /\ cli'.writing = <<"stdout", f>>
        /\ f \in Enders => cli'.pc \in Over
    BY <2>1 DEF Begun, Over, Enders, Finals
  <2>3. Writing(Enders)' => f \in Enders
    BY <2>2 DEF Writing
  <2>4. ~Has(buf["messages"], Finals) /\ demux.item \notin Enders /\ ~Has(buf["stdout"], Enders)
    BY <2>2 DEF EndersLast
  <2> QED BY <2>2, <2>3, <2>4 DEF EndersLast
<1> QED BY <1>4, <1>5, <1>6, <1>7, <1>8, <1>9, <1>10, <1>11, QuietSteps DEF Next, UserStep

LEMMA FramesSame ==
  ASSUME AgentTypes, Phases, [Next]_vars, user.pc # "connect", \A f \in Frames : ~Begun(f)
  PROVE  cli'.frames = cli.frames
<1>1. CASE ReadText \/ ReadLast \/ ReadEof \/ Wait \/ AwaitDrain \/ Verdict
  BY <1>1, ReturnDoes
     DEF ReadText, ReadLast, ReadEof, Wait, AwaitDrain, Verdict, AgentTypes, CliTypes
<1>2. CASE \/ Receive \/ WriteLine \/ ReadFrame \/ ReadStdoutEof \/ Forward \/ Answer
           \/ ReadLine \/ SendLine \/ Drain \/ ReadSession \/ UNCHANGED vars
  BY <1>2 DEF ReadSession, Receive, WriteLine, ReadFrame, ReadStdoutEof, Forward, Answer, ReadLine,
              SendLine, Drain, vars
<1>3. CASE CliReads \/ CliWrites \/ CliSays \/ CliExits \/ CliDies
  BY <1>3, CliReadsDoes, CliWritesDoes, CliSaysDoes, CliEnds
<1> QED BY <1>1, <1>2, <1>3, FrameBegins DEF Next, UserStep, ConnectFails, Connect

\* A user that has stopped to read has all its texts, and its terminal.
LEMMA StoppedStays ==
  ASSUME AgentTypes, [Next]_vars, user.pc \notin {"connect", "read"}
  PROVE  user'.deltas = user.deltas /\ user'.terminal = user.terminal
<1>1. CASE UserStep
  BY <1>1, ReturnDoes
     DEF UserStep, ConnectFails, Connect, ReadSession, ReadText, ReadLast, ReadEof, Wait,
         AwaitDrain, Verdict, AgentTypes, UserTypes
<1>2. CASE CliText \/ CliNoise \/ CliAsks \/ CliFinishes \/ CliTruncates
  BY <1>2, FrameBegins DEF Begun
<1>3. CASE \/ Receive \/ WriteLine \/ ReadFrame \/ ReadStdoutEof \/ Forward \/ Answer
           \/ ReadLine \/ SendLine \/ Drain \/ UNCHANGED vars
           \/ CliReads \/ CliWrites \/ CliSays \/ CliExits \/ CliDies
  BY <1>3, CliSaysDoes
     DEF Receive, WriteLine, ReadFrame, ReadStdoutEof, Forward, Answer, ReadLine, SendLine,
         Drain, vars, CliReads, CliWrites, CliExits, CliDies
<1> QED BY <1>1, <1>2, <1>3 DEF Next

\* At a Result nothing is behind it and everything before it is reported.
LEMMA ReadsResult ==
  ASSUME AgentTypes, EndersLast, TextsCounted, ReadLast, user.mode # "query",
         Head(buf["messages"]) \in Finals
  PROVE  user.deltas = cli.frames /\ cli.pc \in Over
<1>1. /\ buf["messages"] \in Seq(Items) /\ buf["messages"] # <<>> /\ user.pc = "read"
      /\ cli \in CliTypes
  BY SixQueues DEF AgentTypes, ReadLast, Empty
<1>2. Has(buf["messages"], Finals) /\ Tail(buf["messages"]) = <<>>
  BY <1>1, HasTail DEF EndersLast
<1>3. demux.item = "none" /\ buf["stdout"] = <<>> /\ ~Writing(Frames) /\ cli.pc \in Over
  BY <1>2 DEF EndersLast, Empty
<1>4. ~Writing(Texts)
  BY <1>1, <1>3, WritesFrames
<1>5. Number(buf["messages"], Texts) = 0
  <2>1. One(Head(buf["messages"]) \in Texts) = 0
    BY DEF One, Finals, Texts
  <2>2. Number(buf["messages"], Texts) = Number(Tail(buf["messages"]), Texts) + 0
    BY <1>1, <2>1, NumberTail
  <2>3. Number(Tail(buf["messages"]), Texts) = 0
    BY <1>2, NumberOfNone, Zenon
  <2> QED BY <2>2, <2>3
<1>6. Unread = 0
  BY <1>3, <1>4, <1>5, NumberOfNone DEF Unread, One, Texts
<1>7. user.deltas + Unread = cli.frames
  BY <1>1, <1>2 DEF TextsCounted, FinalAhead
<1> QED BY <1>3, <1>6, <1>7, NumbersAreNat

LEMMA ResultStands ==
  ASSUME AgentTypes, Phases, TextInv, [Next]_vars, user'.terminal \in Finals
  PROVE  user'.deltas = cli'.frames /\ cli'.pc \in Over
<1>1. CASE user.terminal \in Finals
  <2>1. user.deltas = cli.frames /\ cli.pc \in Over
    BY <1>1 DEF TextInv, TextsCounted
  <2>2. user.pc \notin {"connect", "read"}
    BY <1>1 DEF Phases, Finals
  <2>3. user'.deltas = user.deltas
    BY <2>2, StoppedStays
  <2>4. \A f \in Frames : ~Begun(f)
    BY <2>1 DEF Begun, Over
  <2> QED BY <2>1, <2>2, <2>3, <2>4, FramesSame, OverStays DEF TextInv
<1>2. CASE user.terminal \notin Finals
  <2>1. user.pc \in {"connect", "read"}
    BY <1>2, StoppedStays
  <2>2. user' # user
    BY <1>2
  <2>3. ASSUME NEW v, Return(v) PROVE FALSE
    BY <1>2, <2>3, ReturnDoes
  <2>4. ~(ConnectFails \/ Connect \/ ReadSession \/ ReadText)
    <3>1. ASSUME ReadText, user' = [user EXCEPT !.deltas = @ + 1] PROVE FALSE
      BY <1>2, <3>1 DEF AgentTypes, UserTypes
    <3>2. ~ReadSession
      BY <1>2, Naming
    <3> QED BY <2>3, <3>1, <3>2, ConnectDoes DEF ConnectFails, ReadText, Finals
  <2>5. ~ReadEof
    BY <2>3, StopDoes DEF ReadEof, Finals
  <2>6. ~(Wait \/ AwaitDrain \/ Verdict)
    BY <2>1 DEF Wait, AwaitDrain, Verdict
  <2>7. ~(CliText \/ CliNoise \/ CliAsks \/ CliFinishes \/ CliTruncates)
    BY <2>2, FrameBegins DEF Begun
  <2>8. ~(\/ Receive \/ WriteLine \/ ReadFrame \/ ReadStdoutEof \/ Forward \/ Answer
          \/ ReadLine \/ SendLine \/ Drain \/ UNCHANGED vars
          \/ CliReads \/ CliWrites \/ CliSays \/ CliExits \/ CliDies)
    BY <2>2, CliSaysDoes
       DEF Receive, WriteLine, ReadFrame, ReadStdoutEof, Forward, Answer, ReadLine, SendLine,
           Drain, vars, CliReads, CliWrites, CliExits, CliDies
  <2>9. ReadLast
    BY <2>4, <2>5, <2>6, <2>7, <2>8 DEF Next, UserStep
  <2>10. user.mode # "query" /\ StopReading(Head(buf["messages"])) /\ UNCHANGED cli
    BY <2>2, <2>9 DEF ReadLast
  <2>11. Head(buf["messages"]) \in Finals /\ user'.deltas = user.deltas
    BY <2>10, StopDoes
  <2> QED BY <2>9, <2>10, <2>11, ReadsResult DEF TextInv
<1> QED BY <1>1, <1>2

LEMMA UnreadNumbers ==
  ASSUME AgentTypes
  PROVE  /\ Number(buf["messages"], Texts) \in Nat /\ Number(buf["stdout"], Texts) \in Nat
         /\ One(demux.item \in Texts) \in {0, 1} /\ One(Writing(Texts)) \in {0, 1}
         /\ user.deltas \in Nat /\ cli.frames \in Nat
BY NumbersAreNat DEF One

\* What is unread is counted: while the user reads, and as long as a Result may
\* still come.
Counts == user.deltas + Unread = cli.frames

LEMMA FinalIsEnder ==
  ASSUME NEW q, Has(q, Finals)
  PROVE  Has(q, Enders)
BY DEF Has, Enders

LEMMA CountsStay ==
  ASSUME AgentTypes, EndersLast, Counts, FramesStay, user'.deltas = user.deltas,
         cli'.frames = cli.frames, cli' \in CliTypes, Alive' \/ FinalAhead'
  PROVE  Counts'
<1>1. CASE cli'.writing = cli.writing
  <2>1. Writing(Texts)' = Writing(Texts)
    BY <1>1 DEF Writing
  <2> QED BY <2>1 DEF Counts, Unread, FramesStay
<1>2. CASE ~Writing(Frames)' /\ (~Writing(Frames) \/ cli'.pc = "exited")
  <2>1. ~Writing(Texts)'
    <3>1. ASSUME Writing(Texts)' PROVE FALSE
      <4>1. PICK f \in Texts : cli'.writing = <<"stdout", f>>
        BY <3>1 DEF Writing
      <4>2. cli'.writing # <<>> /\ cli'.writing[1] # "stderr"
        BY <4>1
      <4>3. \E g \in Frames : cli'.writing = <<"stdout", g>>
        BY <4>2 DEF CliTypes
      <4> QED BY <1>2, <4>3 DEF Writing
    <3> QED BY <3>1
  <2>2. ~Writing(Finals)'
    BY <1>2 DEF Writing, Frames
  <2>3. ~Writing(Frames)
    <3>1. CASE cli'.pc = "exited"
      <4>1. FinalAhead'
        BY <3>1 DEF Alive
      <4>2. Has(buf["messages"], Finals) \/ demux.item \in Finals \/ Has(buf["stdout"], Finals)
        BY <2>2, <4>1 DEF FinalAhead, FramesStay
      <4> QED BY <4>2, FinalIsEnder DEF EndersLast, Enders
    <3> QED BY <1>2, <3>1
  <2>4. ~Writing(Texts)
    BY <2>3, WritesFrames DEF AgentTypes
  <2>5. One(Writing(Texts)') = One(Writing(Texts))
    BY <2>1, <2>4 DEF One
  <2> QED BY <2>5 DEF Counts, Unread, FramesStay
<1> QED BY <1>1, <1>2 DEF FramesStay

LEMMA CountsKeep ==
  ASSUME AgentTypes, Phases, TextInv, [Next]_vars,
         user'.pc = "read", user'.mode # "query", Alive' \/ FinalAhead'
  PROVE  Counts'
<1>1. buf["messages"] \in Seq(Items) /\ buf["stdout"] \in Seq(Frames) /\ AgentTypes'
  BY SixQueues, NextKeepsTypes DEF AgentTypes
<1>2. EndersLast
  BY DEF TextInv
<1>3. CASE user.pc = "connect"
  <2>1. Connect
    BY <1>3, FirstSteps, ReturnDoes DEF ConnectFails, vars
  <2>2. /\ buf'["messages"] = <<>> /\ buf'["stdout"] = <<>> /\ demux'.item = "none"
        /\ cli'.writing = <<>> /\ cli'.frames = 0 /\ user'.deltas = 0
    BY <2>1, ConnectDoes DEF Channels, Pipes, Idle
  <2>3. ~Writing(Texts)'
    BY <2>2 DEF Writing
  <2>4. Number(<<>>, Texts) = 0
    BY NumberOfNone
  <2> QED BY <2>2, <2>3, <2>4 DEF Counts, Unread, One, Texts
<1>4. CASE user.pc # "connect"
  <2>1. GoesOn
    BY <1>4, RunGoesOn
  <2>2. user.pc = "read" /\ user.mode # "query" /\ (Alive' => Alive)
    BY <1>4, <2>1 DEF GoesOn, Alive, Phases
  <2>3. Alive \/ FinalAhead => Counts
    BY <2>2 DEF TextInv, TextsCounted, Counts
  <2>4. /\ Number(buf["messages"], Texts) \in Nat /\ Number(buf["stdout"], Texts) \in Nat
        /\ One(demux.item \in Texts) \in {0, 1} /\ One(Writing(Texts)) \in {0, 1}
        /\ user.deltas \in Nat /\ cli.frames \in Nat
    BY UnreadNumbers
  <2>5. ASSUME FramesStay, FinalAhead' => FinalAhead \/ Alive, user'.deltas = user.deltas,
               cli'.frames = cli.frames
        PROVE  Counts'
    BY <1>1, <1>2, <2>2, <2>3, <2>5, CountsStay DEF AgentTypes
  <2>6. ASSUME FramesStay PROVE FinalAhead' => FinalAhead
    <3>1. ~Writing(Frames)' => ~Writing(Finals)'
      BY DEF Writing, Frames
    <3>2. cli'.writing = cli.writing => Writing(Finals)' = Writing(Finals)
      BY DEF Writing
    <3> QED BY <2>6, <3>1, <3>2 DEF FramesStay, FinalAhead
  <2>7. CASE \/ Receive \/ WriteLine \/ Answer \/ ReadLine \/ SendLine \/ Drain
             \/ CliReads \/ CliSays \/ CliExits \/ CliDies \/ UNCHANGED vars
    <3>1. FramesStay
      BY <2>7, QuietSteps
    <3>2. UNCHANGED user
      BY <2>7, CliSaysDoes, CliEnds
         DEF Receive, WriteLine, Answer, ReadLine, SendLine, Drain, CliReads, vars
    <3>3. cli'.frames = cli.frames
      BY <2>7, CliSaysDoes, CliEnds, CliReadsDoes
         DEF Receive, WriteLine, Answer, ReadLine, SendLine, Drain, vars
    <3> QED BY <2>5, <2>6, <3>1, <3>2, <3>3
  <2>8. CASE ReadText
    <3>1. user' = [user EXCEPT !.deltas = @ + 1] /\ UNCHANGED cli
      BY <2>8, ReturnDoes DEF ReadText
    <3>2. user'.deltas = user.deltas + 1
      BY <3>1 DEF AgentTypes, UserTypes
    <3>3. /\ buf["messages"] # <<>> /\ buf'["messages"] = Tail(buf["messages"])
          /\ buf'["stdout"] = buf["stdout"] /\ UNCHANGED demux
      BY <2>8, ReadsMessage
    <3>4. One(Head(buf["messages"]) \in Texts) = 1
      BY <2>8 DEF ReadText, One, Texts
    <3>5. Number(buf["messages"], Texts) = Number(buf'["messages"], Texts) + 1
      BY <1>1, <3>3, <3>4, NumberTail
    <3>6. Writing(Texts)' = Writing(Texts) /\ Writing(Finals)' = Writing(Finals)
      BY <3>1 DEF Writing
    <3>7. FinalAhead' => FinalAhead
      <4>1. Has(buf'["messages"], Finals) => Has(buf["messages"], Finals)
        BY <1>1, <3>3, HasTail
      <4> QED BY <3>3, <3>6, <4>1 DEF FinalAhead
    <3>8. buf'["messages"] \in Seq(Items)
      BY <1>1, <3>3
    <3>9. Number(buf'["messages"], Texts) \in Nat
      BY <3>8, NumberIsNat
    <3>10. Counts => Counts'
      <4>1. Unread = Unread' + 1 /\ Unread' \in Nat
        BY <2>4, <3>3, <3>5, <3>6, <3>9 DEF Unread
      <4> QED BY <2>4, <3>1, <3>2, <4>1 DEF Counts
    <3> QED BY <2>2, <2>3, <3>7, <3>10
  <2>9. CASE ReadFrame
    <3>1. /\ UNCHANGED <<user, cli>> /\ demux.item = "none" /\ buf["stdout"] # <<>>
          /\ buf'["stdout"] = Tail(buf["stdout"]) /\ buf'["messages"] = buf["messages"]
          /\ \/ Head(buf["stdout"]) = "request" /\ demux'.item = "none"
             \/ Head(buf["stdout"]) = "noise" /\ demux'.item = "garbage"
             \/ Head(buf["stdout"]) \in Enders \cup {"text"} /\ demux'.item = Head(buf["stdout"])
      BY <1>2, <2>9, ReadsFrame
    <3>2. Number(buf["stdout"], Texts)
            = Number(buf'["stdout"], Texts) + One(Head(buf["stdout"]) \in Texts)
      BY <1>1, <3>1, NumberTail
    <3>3. One(Head(buf["stdout"]) \in Texts) = One(demux'.item \in Texts)
      BY <3>1 DEF One, Texts, Enders, Finals
    <3>4. One(demux.item \in Texts) = 0 /\ One(demux'.item \in Texts) \in {0, 1}
      BY <3>1 DEF One, Texts
    <3>5. Writing(Texts)' = Writing(Texts) /\ Writing(Finals)' = Writing(Finals)
      BY <3>1 DEF Writing
    <3>6. FinalAhead' => FinalAhead
      <4>1. Has(buf'["stdout"], Finals) => Has(buf["stdout"], Finals)
        BY <1>1, <3>1, HasTail
      <4>2. demux'.item \in Finals => Has(buf["stdout"], Finals)
        <5>1. demux'.item \in Finals => Head(buf["stdout"]) \in Finals
          BY <3>1 DEF Finals
        <5> QED BY <1>1, <3>1, <5>1, HasTail
      <4> QED BY <3>1, <3>5, <4>1, <4>2 DEF FinalAhead
    <3>7. buf'["stdout"] \in Seq(Frames)
      BY <1>1, <3>1
    <3>8. Number(buf'["stdout"], Texts) \in Nat
      BY <3>7, NumberIsNat
    <3> QED BY <2>2, <2>3, <2>4, <3>1, <3>2, <3>3, <3>4, <3>5, <3>6, <3>8 DEF Counts, Unread
  <2>10. CASE ReadStdoutEof
    <3>1. ~Alive /\ UNCHANGED <<user, buf, cli>> /\ Empty("stdout")
      BY <2>10 DEF ReadStdoutEof
    <3>2. CASE demux.item = "partial"
      <4>1. ~Has(buf["messages"], Finals) /\ ~Writing(Frames)
        BY <1>2, <3>2 DEF EndersLast, Enders
      <4>2. ~Has(buf["stdout"], Finals)
        BY <3>1, HasNone DEF Empty
      <4>3. demux'.item = "garbage" /\ "garbage" \notin Finals
        BY <2>10, <3>2 DEF ReadStdoutEof, Finals
      <4>4. ~Writing(Finals)'
        BY <3>1, <4>1 DEF Writing, Frames
      <4>5. ~FinalAhead' /\ ~Alive'
        BY <3>1, <4>1, <4>2, <4>3, <4>4 DEF FinalAhead, Alive
      <4> QED BY <4>5
    <3>3. CASE demux.item # "partial"
      <4>1. demux'.item = demux.item
        BY <2>10, <3>3 DEF ReadStdoutEof, AgentTypes, Tasks, Idle
      <4>2. FramesStay
        BY <3>1, <4>1 DEF FramesStay
      <4> QED BY <2>5, <2>6, <3>1, <4>2
    <3> QED BY <3>2, <3>3
  <2>11. CASE Forward
    <3>1. /\ UNCHANGED <<user, cli>> /\ demux.item \in Items /\ demux'.item = "none"
          /\ buf'["stdout"] = buf["stdout"]
          /\ buf'["messages"] = Append(buf["messages"], demux.item)
      BY <2>2, <2>11, Forwards
    <3>2. Number(buf'["messages"], Texts)
            = Number(buf["messages"], Texts) + One(demux.item \in Texts)
      BY <1>1, <3>1, NumberAppend
    <3>3. One(demux'.item \in Texts) = 0
      BY <3>1 DEF One, Texts
    <3>4. Writing(Texts)' = Writing(Texts) /\ Writing(Finals)' = Writing(Finals)
      BY <3>1 DEF Writing
    <3>5. FinalAhead' => FinalAhead
      <4>1. Has(buf'["messages"], Finals) => Has(buf["messages"], Finals) \/ demux.item \in Finals
        BY <1>1, <3>1, HasAppend
      <4> QED BY <3>1, <3>4, <4>1 DEF FinalAhead, Finals
    <3> QED BY <2>2, <2>3, <2>4, <3>1, <3>2, <3>3, <3>4, <3>5 DEF Counts, Unread
  <2>12. CASE CliWrites
    <3>1. /\ cli'.writing = <<>> /\ cli'.frames = cli.frames /\ UNCHANGED <<user, demux>> /\ Alive
      BY <2>12, CliWritesDoes DEF CliWrites
    <3>2. ~Writing(Frames)' /\ ~Writing(Texts)'
      BY <3>1 DEF Writing
    <3>3. ASSUME NEW f \in Frames, cli.writing = <<"stdout", f>>,
                 buf'["stdout"] = Append(buf["stdout"], f),
                 \A d \in (Channels \cup Pipes) \ {"stdout"} : buf'[d] = buf[d]
          PROVE  Counts'
      <4>1. buf'["messages"] = buf["messages"]
        BY <3>3 DEF Channels, Pipes
      <4>2. Number(buf'["stdout"], Texts) = Number(buf["stdout"], Texts) + One(f \in Texts)
        BY <1>1, <3>3, NumberAppend
      <4>3. One(f \in Texts) = One(Writing(Texts))
        BY <3>3 DEF Writing, One
      <4>4. One(Writing(Texts)') = 0
        BY <3>2 DEF One
      <4>5. Unread' = Unread
        BY <2>4, <3>1, <4>1, <4>2, <4>3, <4>4 DEF Unread
      <4> QED BY <2>3, <3>1, <4>5 DEF Counts
    <3>4. ASSUME NEW l \in Lines, cli.writing = <<"stderr", l>>,
                 \A d \in (Channels \cup Pipes) \ {"stderr"} : buf'[d] = buf[d]
          PROVE  Counts'
      <4>1. ~Writing(Frames)
        BY <3>4 DEF Writing
      <4>2. FramesStay
        BY <3>1, <3>2, <3>4, <4>1 DEF FramesStay, Channels, Pipes
      <4> QED BY <2>5, <3>1, <4>2
    <3> QED BY <2>12, <3>3, <3>4, CliWritesDoes
  <2>13. CASE CliText \/ CliNoise \/ CliAsks \/ CliFinishes \/ CliTruncates
    <3>1. PICK f \in Frames : Begun(f)
      BY <2>13, FrameBegins
    <3>2. /\ UNCHANGED <<user, buf, demux>> /\ cli.writing = <<>> /\ Alive
          /\ cli'.writing = <<"stdout", f>>
      BY <3>1 DEF Begun, Alive
    <3>3. One(Writing(Texts)) = 0 /\ One(Writing(Texts)') = One(f \in Texts)
      BY <3>2 DEF Writing, One
    <3>4. cli'.frames = cli.frames + One(f \in Texts)
      BY <2>4, <3>1 DEF Begun, One, Enders, Finals, Texts
    <3>5. One(f \in Texts) \in {0, 1}
      BY DEF One
    <3> QED BY <2>3, <2>4, <3>2, <3>3, <3>4, <3>5 DEF Counts, Unread
  <2>14. ~(ReadLast \/ ReadEof \/ ConnectFails \/ Connect \/ Wait \/ AwaitDrain \/ Verdict)
    <3>1. ~ReadLast
      BY <2>2, StopDoes DEF ReadLast
    <3> QED BY <2>2, <3>1, ReturnDoes, StopDoes
        DEF ReadEof, ConnectFails, Connect, Wait, AwaitDrain, Verdict
  <2>15. CASE ReadSession
    <3>1. FramesStay
      BY <2>15, QuietSteps
    <3> QED BY <2>5, <2>6, <2>15, <3>1, Naming
  <2> QED BY <2>7, <2>8, <2>9, <2>10, <2>11, <2>12, <2>13, <2>14, <2>15 DEF Next, UserStep
<1> QED BY <1>3, <1>4

LEMMA TextsKeep ==
  ASSUME AgentTypes, Phases, TextInv, [Next]_vars
  PROVE  TextInv'
<1>1. EndersLast' /\ OnePrompt'
  BY EndersKeep, OnePromptKeeps DEF TextInv
<1>2. TextsCounted'
  BY CountsKeep, ResultStands DEF TextsCounted, Counts
<1> QED BY <1>1, <1>2 DEF TextInv

-----------------------------------------------------------------------------
(* Lines of stderr *)

LinesStay ==
  /\ UNCHANGED <<err, tail>> /\ cli'.said = cli.said
  /\ buf'["lines"] = buf["lines"] /\ buf'["stderr"] = buf["stderr"]

LEMMA QuietForLines ==
  ASSUME AgentTypes, Phases,
         \/ ConnectFails \/ ReadSession \/ ReadText \/ ReadLast \/ ReadEof \/ Wait
         \/ AwaitDrain \/ Verdict
         \/ Receive \/ WriteLine \/ ReadFrame \/ ReadStdoutEof \/ Forward \/ Answer
         \/ CliReads \/ CliText \/ CliNoise \/ CliAsks \/ CliSays \/ CliFinishes \/ CliTruncates
         \/ CliExits \/ CliDies \/ UNCHANGED vars
  PROVE  LinesStay
<1>1. Buffers /\ Tasks
  BY DEF AgentTypes
<1>2. ASSUME NEW b \in {"writes", "stdin", "stdout", "messages"}, ~Empty(b), Take(b)
      PROVE  buf'["lines"] = buf["lines"] /\ buf'["stderr"] = buf["stderr"]
  BY <1>1, <1>2, TakeDoes DEF Channels, Pipes
<1>3. ASSUME NEW b \in {"writes", "stdin", "stdout", "messages"}, NEW x \in Content(b), Put(b, x)
      PROVE  buf'["lines"] = buf["lines"] /\ buf'["stderr"] = buf["stderr"]
  BY <1>1, <1>3, PutDoes DEF Channels, Pipes
<1>4. CASE ConnectFails \/ ReadEof \/ Wait \/ AwaitDrain \/ Verdict
  <2>1. cli'.said = cli.said
    BY <1>4, ReturnDoes DEF ConnectFails, ReadEof, Wait, AwaitDrain, Verdict, AgentTypes, CliTypes
  <2> QED BY <1>4, <2>1 DEF ConnectFails, ReadEof, Wait, AwaitDrain, Verdict, LinesStay
<1>5. CASE ReadText \/ ReadLast
  <2>1. cli'.said = cli.said
    BY <1>5, ReturnDoes DEF ReadText, ReadLast
  <2> QED BY <1>2, <1>5, <2>1 DEF ReadText, ReadLast, LinesStay
<1>6. CASE Receive \/ ReadFrame
  BY <1>2, <1>6 DEF Receive, ReadFrame, LinesStay
<1>7. CASE WriteLine
  <2>1. writer.item \in Content("stdin")
    BY <1>1, <1>7 DEF WriteLine, Tasks, Content
  <2> QED BY <1>3, <1>7, <2>1 DEF WriteLine, LinesStay
<1>8. CASE Forward
  <2>1. demux.item \in Content("messages")
    BY <1>1, <1>8 DEF Forward, Tasks, Content
  <2> QED BY <1>3, <1>8, <2>1 DEF Forward, LinesStay
<1>9. CASE Answer
  <2>1. "response" \in Content("writes")
    BY DEF Content, Inputs
  <2> QED BY <1>3, <1>9, <2>1 DEF Answer, LinesStay
<1>10. CASE CliReads
  BY <1>10, CliReadsDoes DEF CliReads, LinesStay, Channels, Pipes
<1>11. CASE CliText \/ CliNoise \/ CliAsks \/ CliFinishes \/ CliTruncates
  BY <1>11, FrameBegins DEF Begun, LinesStay
<1>12. CASE CliSays \/ CliExits \/ CliDies
  BY <1>12, CliSaysDoes, CliEnds DEF LinesStay
<1>13. CASE ReadSession \/ ReadStdoutEof \/ UNCHANGED vars
  BY <1>13 DEF ReadSession, ReadStdoutEof, vars, LinesStay
<1> QED BY <1>4, <1>5, <1>6, <1>7, <1>8, <1>9, <1>10, <1>11, <1>12, <1>13

LEMMA LineTypes ==
  ASSUME AgentTypes
  PROVE  /\ cli.said \in Seq(Lines) /\ tail \in Seq(Lines) /\ HeldLine \in Seq(Lines)
         /\ buf["lines"] \in Seq(Lines) /\ buf["stderr"] \in Seq(Lines)
<1>1. HeldLine \in Seq(Lines)
  BY DEF AgentTypes, Tasks, HeldLine
<1> QED BY <1>1, SixQueues DEF AgentTypes, CliTypes

LEMMA LinesKeepPlaces ==
  ASSUME AgentTypes, Phases, LinesPlaced, [Next]_vars
  PROVE  LinesPlaced'
<1>1. /\ cli.said \in Seq(Lines) /\ tail \in Seq(Lines) /\ HeldLine \in Seq(Lines)
      /\ buf["lines"] \in Seq(Lines) /\ buf["stderr"] \in Seq(Lines)
      /\ Buffers /\ Tasks
  BY LineTypes DEF AgentTypes
<1>2. PICK p \in 0..Len(cli.said) :
        Placed(p, cli.said, tail, buf["lines"], HeldLine, buf["stderr"])
  BY DEF LinesPlaced
<1>3. p \in Nat
  OBVIOUS
<1>4. CASE LinesStay
  <2>1. HeldLine' = HeldLine
    BY <1>4 DEF LinesStay, HeldLine
  <2> QED BY <1>2, <1>4, <2>1 DEF LinesStay, LinesPlaced
<1>5. CASE Connect
  <2>1. /\ cli'.said = <<>> /\ tail' = <<>> /\ err'.pc = "read"
        /\ buf'["lines"] = <<>> /\ buf'["stderr"] = <<>>
    BY <1>5, ConnectDoes DEF Channels, Pipes, Idle
  <2>2. HeldLine' = <<>>
    BY <2>1 DEF HeldLine
  <2>3. Placed(0, <<>>, <<>>, <<>>, <<>>, <<>>)
    BY DEF Placed
  <2>4. 0 \in 0..Len(<<>>)
    OBVIOUS
  <2> QED BY <2>1, <2>2, <2>3, <2>4, Zenon DEF LinesPlaced
<1>6. CASE ReadLine
  <2>1. HeldLine = <<>> /\ UNCHANGED <<tail, cli>>
    BY <1>6 DEF ReadLine, HeldLine
  <2>2. CASE ~Empty("stderr") /\ err' = [pc |-> "send", item |-> Head(buf["stderr"])] /\ Take("stderr")
    <3>1. /\ buf["stderr"] # <<>> /\ buf'["stderr"] = Tail(buf["stderr"])
          /\ buf'["lines"] = buf["lines"] /\ HeldLine' = <<Head(buf["stderr"])>>
      BY <1>1, <2>2, TakeDoes DEF Channels, Pipes, Empty, HeldLine
    <3>2. Placed(p, cli.said, tail, buf["lines"], <<Head(buf["stderr"])>>, Tail(buf["stderr"]))
      BY <1>1, <1>2, <1>3, <2>1, <3>1, PlacedTake
    <3> QED BY <2>1, <3>1, <3>2, Zenon DEF LinesPlaced
  <2>3. CASE err' = Idle("end") /\ UNCHANGED buf
    <3>1. HeldLine' = <<>>
      BY <2>3 DEF HeldLine, Idle
    <3> QED BY <1>2, <2>1, <2>3, <3>1, Zenon DEF LinesPlaced
  <2> QED BY <1>6, <2>2, <2>3 DEF ReadLine
<1>7. CASE SendLine
  <2>1. /\ err.item \in Lines /\ HeldLine = <<err.item>> /\ HeldLine' = <<>>
        /\ UNCHANGED <<tail, cli>> /\ Put("lines", err.item)
    BY <1>1, <1>7 DEF SendLine, HeldLine, Idle, Tasks
  <2>2. buf'["lines"] = Append(buf["lines"], err.item) /\ buf'["stderr"] = buf["stderr"]
    BY <1>1, <2>1, PutDoes DEF Channels, Pipes, Content
  <2>3. Placed(p, cli.said, tail, Append(buf["lines"], err.item), <<>>, buf["stderr"])
    BY <1>1, <1>2, <1>3, <2>1, PlacedSend
  <2> QED BY <2>1, <2>2, <2>3, Zenon DEF LinesPlaced
<1>8. CASE Drain
  <2>1. /\ UNCHANGED <<err, cli>> /\ HeldLine' = HeldLine /\ tail' = Pushed(Head(buf["lines"]))
        /\ ~Empty("lines") /\ Take("lines") /\ buf["lines"] # <<>>
    BY <1>8 DEF Drain, HeldLine, Empty
  <2>2. buf'["lines"] = Tail(buf["lines"]) /\ buf'["stderr"] = buf["stderr"]
    BY <1>1, <2>1, TakeDoes DEF Channels, Pipes
  <2>3. /\ p + 1 <= Len(cli.said)
        /\ Placed(p + 1, cli.said, Pushed(Head(buf["lines"])), Tail(buf["lines"]), HeldLine,
                  buf["stderr"])
    BY <1>1, <1>2, <1>3, <2>1, PlacedDrain
  <2>4. p + 1 \in 0..Len(cli.said)
    BY <1>1, <1>3, <2>3
  <2> QED BY <2>1, <2>2, <2>3, <2>4, Zenon DEF LinesPlaced
<1>9. CASE CliWrites
  <2>1. UNCHANGED <<err, tail>> /\ HeldLine' = HeldLine
    BY <1>9 DEF CliWrites, HeldLine
  <2>2. ASSUME cli'.said = cli.said, \A d \in (Channels \cup Pipes) \ {"stdout"} : buf'[d] = buf[d]
        PROVE  LinesPlaced'
    BY <1>4, <2>1, <2>2 DEF LinesStay, Channels, Pipes
  <2>3. ASSUME NEW l \in Lines, cli'.said = Append(cli.said, l),
               buf'["stderr"] = Append(buf["stderr"], l),
               \A d \in (Channels \cup Pipes) \ {"stderr"} : buf'[d] = buf[d]
        PROVE  LinesPlaced'
    <3>1. buf'["lines"] = buf["lines"]
      BY <2>3 DEF Channels, Pipes
    <3>2. Placed(p, Append(cli.said, l), tail, buf["lines"], HeldLine, Append(buf["stderr"], l))
      BY <1>1, <1>2, <1>3, PlacedWrite
    <3>3. p \in 0..Len(Append(cli.said, l))
      BY <1>1, <1>2
    <3> QED BY <2>1, <2>3, <3>1, <3>2, <3>3, Zenon DEF LinesPlaced
  <2> QED BY <1>9, <2>2, <2>3, CliWritesDoes
<1> QED BY <1>4, <1>5, <1>6, <1>7, <1>8, <1>9, QuietForLines DEF Next, UserStep

\* What a step does to a run whose lines have ended.
LEMMA EndOfLinesStays ==
  ASSUME AgentTypes, Phases, LinesOver, [Next]_vars, err.pc = "end"
  PROVE  /\ err'.pc = "end" /\ cli'.pc = "exited" /\ Empty("stderr")'
         /\ Empty("lines") => Empty("lines")' /\ UNCHANGED tail
<1>1. cli.pc = "exited" /\ Empty("stderr") /\ ~Alive /\ user.pc # "connect" /\ Buffers
  BY DEF LinesOver, Phases, Alive, AgentTypes
<1>2. cli'.pc = "exited"
  BY <1>1, RunGoesOn DEF GoesOn
<1>3. CASE LinesStay
  BY <1>1, <1>2, <1>3 DEF LinesStay, Empty
<1>4. CASE Drain
  <2>1. ~Empty("lines") /\ Take("lines") /\ UNCHANGED err
    BY <1>4 DEF Drain
  <2>2. buf'["stderr"] = buf["stderr"]
    BY <1>1, <2>1, TakeDoes DEF Channels, Pipes
  <2> QED BY <1>1, <1>2, <2>1, <2>2 DEF Empty
<1> QED BY <1>1, <1>3, <1>4, QuietForLines
    DEF Next, UserStep, Connect, ReadLine, SendLine, CliWrites

LEMMA VerdictLimits ==
  ASSUME AgentTypes, Verdict, Has(tail, {"limit"})
  PROVE  user'.verdict = "Limit"
<1>1. Limited
  BY DEF Has, Limited
<1>2. Return("Limit")
  BY <1>1 DEF Verdict
<1> QED BY <1>2, ReturnDoes

LEMMA LinesOverKeep ==
  ASSUME AgentTypes, Phases, LinesOver, [Next]_vars
  PROVE  LinesOver'
<1>1. ASSUME err'.pc = "end" PROVE cli'.pc = "exited" /\ Empty("stderr")'
  <2>1. CASE err.pc = "end"
    BY <2>1, EndOfLinesStays
  <2>2. CASE err.pc # "end"
    <3>1. ~LinesStay
      BY <1>1, <2>2 DEF LinesStay
    <3>2. ReadLine
      BY <1>1, <2>2, <3>1, QuietForLines, ConnectDoes
         DEF Next, UserStep, SendLine, Drain, CliWrites, Idle
    <3>3. Empty("stderr") /\ ~Alive /\ UNCHANGED <<buf, cli>> /\ user.pc # "connect"
      BY <1>1, <3>2 DEF ReadLine, Running
    <3> QED BY <3>3 DEF Alive, Phases, Empty
  <2> QED BY <2>1, <2>2
<1>2. ASSUME user'.drained
      PROVE  /\ LinesEnded' /\ user'.pc \in {"verdict", "end"}
             /\ user'.pc = "end" => (Has(tail', {"limit"}) => user'.verdict = "Limit")
  <2>1. CASE AwaitDrain
    <3>1. LinesEnded \/ user.drained
      BY <1>2, <2>1 DEF AwaitDrain, AgentTypes, UserTypes
    <3>2. LinesEnded /\ UNCHANGED <<err, buf, tail>>
      BY <2>1, <3>1 DEF AwaitDrain, LinesOver
    <3>3. user'.pc = "verdict"
      BY <2>1 DEF AwaitDrain, AgentTypes, UserTypes
    <3> QED BY <3>2, <3>3 DEF LinesEnded, Empty
  <2>2. CASE user.drained /\ ~AwaitDrain
    <3>1. LinesEnded /\ user.pc \in {"verdict", "end"}
      BY <2>2 DEF LinesOver
    <3>2. LinesEnded' /\ (UNCHANGED tail)
      <4>1. err.pc = "end" /\ Empty("lines")
        BY <3>1 DEF LinesEnded
      <4> QED BY <4>1, EndOfLinesStays DEF LinesEnded
    <3>3. CASE Verdict
      <4>1. user'.pc = "end"
        BY <3>3, ReturnDoes DEF Verdict
      <4> QED BY <3>2, <3>3, <4>1, VerdictLimits
    <3>4. CASE ~Verdict
      <4>1. UNCHANGED user
        <5>1. CASE UserStep
          BY <2>2, <3>1, <3>4, <5>1
             DEF UserStep, ConnectFails, Connect, ReadSession, ReadText, ReadLast, ReadEof, Wait
        <5>2. CASE CliText \/ CliNoise \/ CliAsks \/ CliFinishes \/ CliTruncates
          BY <5>2, FrameBegins DEF Begun
        <5>3. CASE \/ Receive \/ WriteLine \/ ReadFrame \/ ReadStdoutEof \/ Forward \/ Answer
                   \/ ReadLine \/ SendLine \/ Drain \/ UNCHANGED vars
                   \/ CliReads \/ CliWrites \/ CliSays \/ CliExits \/ CliDies
          BY <5>3, CliSaysDoes
             DEF Receive, WriteLine, ReadFrame, ReadStdoutEof, Forward, Answer, ReadLine,
                 SendLine, Drain, vars, CliReads, CliWrites, CliExits, CliDies
        <5> QED BY <5>1, <5>2, <5>3 DEF Next
      <4> QED BY <2>2, <3>1, <3>2, <4>1 DEF LinesOver
    <3> QED BY <3>3, <3>4
  <2>3. CASE ~user.drained /\ ~AwaitDrain
    <3>1. ASSUME NEW v, Return(v) PROVE FALSE
      BY <1>2, <2>3, <3>1, ReturnDoes
    <3>2. ASSUME NEW x, StopReading(x) PROVE FALSE
      BY <1>2, <2>3, <3>2, StopDoes
    <3>3. user' # user
      BY <1>2, <2>3
    <3>4. ~(ReadSession \/ ReadText \/ Connect \/ Wait)
      <4>1. ASSUME ReadText, user' = [user EXCEPT !.deltas = @ + 1] PROVE FALSE
        BY <1>2, <2>3, <4>1 DEF AgentTypes, UserTypes
      <4>2. ASSUME Wait PROVE FALSE
        BY <1>2, <2>3, <4>2 DEF Wait, AgentTypes, UserTypes
      <4>3. ~ReadSession
        BY <1>2, <2>3, Naming
      <4> QED BY <1>2, <2>3, <3>1, <4>1, <4>2, <4>3, ConnectDoes DEF ReadText
    <3>5. ~(ConnectFails \/ ReadLast \/ ReadEof \/ Verdict)
      BY <3>1, <3>2, <3>3 DEF ConnectFails, ReadLast, ReadEof, Verdict
    <3>6. ~(CliText \/ CliNoise \/ CliAsks \/ CliFinishes \/ CliTruncates)
      BY <3>3, FrameBegins DEF Begun
    <3> QED BY <2>3, <3>3, <3>4, <3>5, <3>6, CliSaysDoes
        DEF Next, UserStep, Receive, WriteLine, ReadFrame, ReadStdoutEof, Forward, Answer, ReadLine,
            SendLine, Drain, vars, CliReads, CliWrites, CliExits, CliDies
  <2> QED BY <2>1, <2>2, <2>3
<1> QED BY <1>1, <1>2 DEF LinesOver

LEMMA EmptyStart ==
  ASSUME Init
  PROVE  /\ \A b \in Channels \cup Pipes : buf[b] = <<>>
         /\ buf["stdout"] = <<>> /\ buf["messages"] = <<>> /\ buf["stderr"] = <<>>
         /\ buf["lines"] = <<>> /\ cli.writing = <<>> /\ cli.pc = "off" /\ cli.said = <<>>
         /\ demux.item = "none" /\ tail = <<>> /\ err.pc = "off"
         /\ user.pc = "connect" /\ user.terminal = "none" /\ ~user.drained
BY DEF Init, Channels, Pipes, Idle

-----------------------------------------------------------------------------
(* The invariant holds, and what the runs check follows from it. *)

LEMMA AgentStarts == Init => AgentInv
<1> SUFFICES ASSUME Init PROVE AgentInv
  OBVIOUS
<1>1. AgentTypes /\ Phases
  BY AgentStartsTyped, PhasesStart
<1>2. RequestInv
  BY EmptyStart DEF RequestInv, Driven, Owed
<1>3. EndersLast
  <2>1. ~Has(buf["messages"], Finals) /\ ~Has(buf["stdout"], Enders)
    BY EmptyStart, HasNone
  <2>2. EndsWith(buf["messages"], Finals) /\ EndsWith(buf["stdout"], Enders)
    BY EmptyStart DEF EndsWith
  <2>3. ~Writing(Enders)
    <3>1. \A f : <<"stdout", f>> # <<>>
      OBVIOUS
    <3> QED BY <3>1, EmptyStart, Zenon DEF Writing
  <2> QED BY <2>1, <2>2, <2>3, EmptyStart DEF EndersLast, Enders, Finals
<1>4. OnePrompt
  BY EmptyStart DEF OnePrompt
<1>5. TextsCounted
  BY EmptyStart DEF TextsCounted, Finals
<1>6. LinesPlaced
  <2>1. HeldLine = <<>> /\ Len(cli.said) = 0 /\ TailLines \in Nat
    BY EmptyStart, RoomForOne DEF HeldLine
  <2>2. Placed(0, <<>>, <<>>, <<>>, <<>>, <<>>)
    BY DEF Placed
  <2>3. Placed(0, cli.said, tail, buf["lines"], HeldLine, buf["stderr"])
    BY <2>1, <2>2, EmptyStart, Zenon
  <2> QED BY <2>1, <2>3 DEF LinesPlaced
<1>7. LinesOver
  BY EmptyStart DEF LinesOver
<1> QED BY <1>1, <1>2, <1>3, <1>4, <1>5, <1>6, <1>7 DEF AgentInv, TextInv, LineInv

LEMMA AgentKeeps ==
  ASSUME AgentInv, [Next]_vars
  PROVE  AgentInv'
<1>1. AgentTypes /\ Phases /\ RequestInv /\ TextInv /\ LinesPlaced /\ LinesOver
  BY DEF AgentInv, LineInv
<1>2. AgentTypes' /\ Phases'
  BY <1>1, NextKeepsTypes, PhasesKeep
<1>3. RequestInv'
  BY <1>1, DrivenKeeps, OwedKeeps DEF RequestInv
<1>4. TextInv'
  BY <1>1, TextsKeep
<1>5. LineInv'
  BY <1>1, LinesKeepPlaces, LinesOverKeep DEF LineInv
<1> QED BY <1>2, <1>3, <1>4, <1>5 DEF AgentInv

LEMMA OneIsCardinality ==
  ASSUME NEW x, NEW b \in BOOLEAN
  PROVE  Cardinality({y \in {x} : b}) = One(b)
<1>1. CASE b
  <2>1. {y \in {x} : b} = {x}
    BY <1>1
  <2> QED BY <1>1, <2>1, FS_Singleton DEF One
<1>2. CASE ~b
  <2>1. {y \in {x} : b} = {}
    BY <1>2
  <2> QED BY <1>2, <2>1, FS_EmptySet DEF One
<1> QED BY <1>1, <1>2

LEMMA RequestsOwed == AgentInv => RequestsAnswered
<1> SUFFICES ASSUME AgentInv, user.pc = "read", Alive PROVE RequestsAnswered
  BY DEF RequestsAnswered
<1>1. Owed
  BY DEF AgentInv, RequestInv
<1>2. /\ Count("stdout", "request") = Number(buf["stdout"], {"request"})
      /\ Count("writes", "response") = Number(buf["writes"], {"response"})
      /\ Count("stdin", "response") = Number(buf["stdin"], {"response"})
  <2>1. ASSUME NEW q, NEW x
        PROVE  {i \in 1..Len(q) : q[i] = x} = {i \in 1..Len(q) : q[i] \in {x}}
    OBVIOUS
  <2> QED BY <2>1, Zenon DEF Count, Number
<1>3. Cardinality({w \in {"request"} : cli.writing = <<"stdout", w>>}) = One(Writing({"request"}))
  <2>1. {w \in {"request"} : cli.writing = <<"stdout", w>>}
          = {w \in {"request"} : Writing({"request"})}
    BY DEF Writing
  <2>2. Writing({"request"}) \in BOOLEAN
    BY DEF Writing
  <2> QED BY <2>1, <2>2, OneIsCardinality
<1>4. Cardinality({d \in {"answer"} : demux.pc = d}) = One(demux.pc = "answer")
  <2>1. {d \in {"answer"} : demux.pc = d} = {d \in {"answer"} : demux.pc = "answer"}
    OBVIOUS
  <2> QED BY <2>1, OneIsCardinality
<1>5. Cardinality({r \in {"response"} : writer.item = r}) = One(writer.item = "response")
  <2>1. {r \in {"response"} : writer.item = r} = {r \in {"response"} : writer.item = "response"}
    OBVIOUS
  <2> QED BY <2>1, OneIsCardinality
<1> QED BY <1>1, <1>2, <1>3, <1>4, <1>5, Zenon DEF Owed, RequestsAnswered

LEMMA LastLinesLimit == AgentInv => LimitSeen
<1> SUFFICES ASSUME AgentInv, user.pc = "end", user.drained,
                    NEW i \in 1..Len(cli.said), i + TailLines > Len(cli.said),
                    cli.said[i] = "limit"
             PROVE  user.verdict = "Limit"
  BY DEF LimitSeen
<1>1. LinesPlaced /\ LinesOver /\ cli.said \in Seq(Lines) /\ tail \in Seq(Lines)
  BY DEF AgentInv, LineInv, AgentTypes, CliTypes
<1>2. buf["lines"] = <<>> /\ buf["stderr"] = <<>> /\ HeldLine = <<>>
  BY <1>1 DEF LinesOver, LinesEnded, Empty, HeldLine
<1>3. PICK p \in 0..Len(cli.said) : Placed(p, cli.said, tail, <<>>, <<>>, <<>>)
  BY <1>1, <1>2, Zenon DEF LinesPlaced
<1>4. \E j \in 1..Len(tail) : tail[j] = "limit"
  <2>1. p \in Nat
    OBVIOUS
  <2> QED BY <1>1, <1>3, <2>1, PlacedAll
<1> QED BY <1>1, <1>4 DEF LinesOver, Has

-----------------------------------------------------------------------------
(* The theorems *)

\* In every state of every run of the command line through the SDK, each queue
\* between them holds what its task may put there, and the counts of requests,
\* of texts and of lines add up.
THEOREM AgentCorrect == Spec => []AgentInv
<1>1. Init => AgentInv
  BY AgentStarts
<1>2. AgentInv /\ [Next]_vars => AgentInv'
  BY AgentKeeps
<1> QED BY <1>1, <1>2, PTL DEF Spec

\* Every answer that the command line waits for while the user reads is on its
\* way (control requests of query.rs, the strong and weak senders of
\* subprocess_cli.rs).
THEOREM RequestsAreAnswered == Spec => []RequestsAnswered
<1>1. AgentInv => RequestsAnswered
  BY RequestsOwed
<1> QED BY <1>1, AgentCorrect, PTL

\* A run of run_async that has seen the Result has handed on every text before
\* it, although the channel of messages is bounded.
THEOREM NoTextIsLost == Spec => []TextsBeforeResult
<1>1. AgentInv => TextsBeforeResult
  BY DEF AgentInv, TextInv, TextsCounted, TextsBeforeResult
<1> QED BY <1>1, AgentCorrect, PTL

\* A limit in the last lines of stderr becomes the verdict, if the drain of
\* stderr has come to its end (push_stderr_line, limit_from_stderr).
THEOREM LimitsAreSeen == Spec => []LimitSeen
<1>1. AgentInv => LimitSeen
  BY LastLinesLimit
<1> QED BY <1>1, AgentCorrect, PTL
=============================================================================
