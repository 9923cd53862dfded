---------------------------- MODULE DispatchProofs ----------------------------
(***************************************************************************)
(* Dispatch for any number of calls and any plans: the environments of     *)
(* in-process runs are isolated, the bridge keeps to its limit, the level  *)
(* it hands on is one the backend knows, no limit that the probe reports   *)
(* is over, the answers of terminals are new and their own, and every      *)
(* stream keeps the contract.                                              *)
(*                                                                         *)
(* The lemmas of the first part are about the backends one by one, each    *)
(* about the variables of its own; the second part combines them, and      *)
(* shows that only a backend's own steps disturb its invariant.  The last  *)
(* part is a refinement.  Its invariant links the place a thread has       *)
(* reached to what its channel has seen: until its end the channel is      *)
(* alive without a terminal chunk, and before its Session nothing has been *)
(* sent, or, of run_async, no other Session.                               *)
(***************************************************************************)
EXTENDS Dispatch, FiniteSetTheorems, WellFoundedInduction, TLAPS

-----------------------------------------------------------------------------
(* The channel.  What its operations are in the words of StreamContract:   *)
(* the backends only have to show, at each send, how far theirs has come.  *)

streams == [c \in Calls |-> StreamOf(c)]
gone == [c \in Calls |-> ~chan[c].receiver]

ChanTypes == chan \in [Calls -> ChanRec]

\* A channel on which anything may still be sent, and one on which nothing was.
AliveOn(c) ==
  chan[c].sender = "alive" /\ chan[c].last \notin Terminals /\ chan[c].session # "again"
Untouched(c) == chan[c].last = "none" /\ chan[c].session = "none" /\ ~chan[c].text

OnlyChan(c) == \A d \in Calls \ {c} : chan'[d] = chan[d]

ContractStep == [Contract!Next]_<<streams, gone>>
LateStep == [Contract!Next \/ \E c \in Calls : Contract!NameLate(c)]_<<streams, gone>>

-----------------------------------------------------------------------------
\* A channel that is alive is a stream that is live; its session and its texts
\* say how far it has come.
LEMMA AliveIsLive ==
  ASSUME ChanTypes, NEW c \in Calls, AliveOn(c)
  PROVE  /\ StreamOf(c) \in Contract!Live
         /\ chan[c].session = "none" /\ ~chan[c].text => StreamOf(c) = "open"
         /\ chan[c].session = "none" /\ chan[c].text => StreamOf(c) = "text"
         /\ chan[c].session = "sent" /\ ~chan[c].text => StreamOf(c) = "named"
         /\ chan[c].session = "sent" /\ chan[c].text => StreamOf(c) = "namedText"
         /\ chan[c].session \in {"none", "sent"}
<1>1. chan[c].session \in {"none", "sent"} /\ chan[c].text \in BOOLEAN
  BY DEF ChanTypes, ChanRec, AliveOn
<1>2. /\ chan[c].session = "none" /\ ~chan[c].text => StreamOf(c) = "open"
      /\ chan[c].session = "none" /\ chan[c].text => StreamOf(c) = "text"
      /\ chan[c].session = "sent" /\ ~chan[c].text => StreamOf(c) = "named"
      /\ chan[c].session = "sent" /\ chan[c].text => StreamOf(c) = "namedText"
  BY DEF AliveOn, StreamOf, Terminals
<1> QED BY <1>1, <1>2 DEF Contract!Live

\* A channel after a chunk.
LEMMA AfterChunk ==
  ASSUME ChanTypes, NEW c \in Calls, NEW chunk \in Chunks
  PROVE  /\ With(chan[c], chunk) \in ChanRec
         /\ With(chan[c], chunk).receiver = chan[c].receiver
         /\ With(chan[c], chunk).sender = chan[c].sender
         /\ With(chan[c], chunk).last = chunk
         /\ chunk # "Session" => With(chan[c], chunk).session = chan[c].session
         /\ chunk = "Session" /\ chan[c].session = "none" => With(chan[c], chunk).session = "sent"
         /\ chunk # "Delta" => With(chan[c], chunk).text = chan[c].text
         /\ chunk = "Delta" => With(chan[c], chunk).text = TRUE
<1>1. chan[c] \in ChanRec
  BY DEF ChanTypes
<1>2. /\ (chan[c].text \/ chunk = "Delta") \in BOOLEAN
      /\ (IF chunk # "Session" THEN chan[c].session
          ELSE IF chan[c].session = "none" THEN "sent" ELSE "again") \in {"none", "sent", "again"}
  BY <1>1 DEF ChanRec
<1> QED BY <1>1, <1>2 DEF ChanRec, With

\* Writing to one channel changes one stream.
LEMMA OneStream ==
  ASSUME ChanTypes, NEW c \in Calls, NEW r \in ChanRec, chan' = [chan EXCEPT ![c] = r],
         r.receiver = chan[c].receiver
  PROVE  /\ ChanTypes' /\ chan'[c] = r /\ \A d \in Calls \ {c} : chan'[d] = chan[d]
         /\ streams' = [streams EXCEPT ![c] = StreamOf(c)']
         /\ gone' = gone
<1>1. chan \in [Calls -> ChanRec] /\ chan' \in [Calls -> ChanRec]
  BY DEF ChanTypes
<1>2. chan'[c] = r /\ \A d \in Calls \ {c} : chan'[d] = chan[d]
  BY <1>1
<1>3. \A d \in Calls \ {c} : StreamOf(d)' = StreamOf(d)
  BY <1>2 DEF StreamOf
<1>4. \A d \in Calls : ~chan'[d].receiver <=> ~chan[d].receiver
  BY <1>2
<1> QED BY <1>1, <1>2, <1>3, <1>4 DEF ChanTypes, streams, gone

\* Nothing has been opened in the beginning.
LEMMA ChanInitContract == ChanInit => ChanTypes /\ Contract!Init
<1> SUFFICES ASSUME ChanInit PROVE ChanTypes /\ Contract!Init
  OBVIOUS
<1>1. \A c \in Calls : StreamOf(c) = "idle" /\ chan[c].receiver
  BY DEF ChanInit, NewChannel, StreamOf, Terminals
<1>2. ChanTypes
  BY DEF ChanInit, NewChannel, ChanTypes, ChanRec, Chunks
<1> QED BY <1>1, <1>2 DEF Contract!Init

\* What does not send is a stutter.
LEMMA ChanStutters == ASSUME ChanTypes, UNCHANGED chan PROVE ChanTypes' /\ ContractStep
BY DEF ChanTypes, ContractStep, streams, gone, StreamOf

-----------------------------------------------------------------------------
\* The operations.  Each keeps the types, leaves the other channels alone and is
\* a step of the contract or a stutter.

\* The thread of a call has started.
LEMMA Opens ==
  ASSUME ChanTypes, NEW c \in Calls, chan[c].sender = "none", Untouched(c),
         OpenChannel(c)
  PROVE  /\ ChanTypes' /\ AliveOn(c)' /\ Untouched(c)' /\ OnlyChan(c)
         /\ ContractStep
<1> DEFINE r == [chan[c] EXCEPT !.sender = "alive"]
<1>1. /\ r \in ChanRec /\ r.receiver = chan[c].receiver /\ r.sender = "alive" /\ r.last = "none"
      /\ r.session = "none" /\ ~r.text
  BY DEF ChanTypes, ChanRec, Untouched
<1>2. chan' = [chan EXCEPT ![c] = r]
  BY DEF OpenChannel
<1> HIDE DEF r
<1>3. /\ ChanTypes' /\ chan'[c] = r /\ OnlyChan(c)
      /\ streams' = [streams EXCEPT ![c] = StreamOf(c)'] /\ gone' = gone
  BY <1>1, <1>2, OneStream DEF OnlyChan
<1>4. StreamOf(c) = "idle" /\ StreamOf(c)' = "open"
  BY <1>1, <1>3 DEF StreamOf, Terminals
<1>5. Contract!Open(c)
  BY <1>3, <1>4 DEF Contract!Open, Contract!Moves, streams, gone
<1> QED BY <1>1, <1>3, <1>5 DEF AliveOn, Untouched, Terminals, ContractStep, Contract!Next

\* A chunk that is not the last.
LEMMA Says ==
  ASSUME ChanTypes, NEW c \in Calls, AliveOn(c), Send(c, "Delta")
  PROVE  /\ ChanTypes' /\ AliveOn(c)' /\ OnlyChan(c) /\ ContractStep
         /\ chan'[c].session = chan[c].session
<1> DEFINE r == With(chan[c], "Delta")
<1>1. /\ r \in ChanRec /\ r.receiver = chan[c].receiver /\ r.sender = "alive" /\ r.last = "Delta"
      /\ r.session = chan[c].session /\ r.text = TRUE
  BY AfterChunk DEF Chunks, AliveOn
<1>2. chan' = [chan EXCEPT ![c] = r]
  BY DEF Send
<1> HIDE DEF r
<1>3. /\ ChanTypes' /\ chan'[c] = r /\ OnlyChan(c)
      /\ streams' = [streams EXCEPT ![c] = StreamOf(c)'] /\ gone' = gone
  BY <1>1, <1>2, OneStream DEF OnlyChan
<1>4. AliveOn(c)'
  BY <1>1, <1>3 DEF AliveOn, Terminals
<1>5. \/ StreamOf(c) \in {"open", "text"} /\ StreamOf(c)' = "text"
      \/ StreamOf(c) \in {"named", "namedText"} /\ StreamOf(c)' = "namedText"
  <2>1. \/ chan[c].session = "none" /\ StreamOf(c) \in {"open", "text"}
        \/ chan[c].session = "sent" /\ StreamOf(c) \in {"named", "namedText"}
    BY AliveIsLive
  <2>2. /\ chan[c].session = "none" => StreamOf(c)' = "text"
        /\ chan[c].session = "sent" => StreamOf(c)' = "namedText"
    BY <1>1, <1>3 DEF StreamOf, Terminals
  <2> QED BY <2>1, <2>2
<1>6. Contract!Say(c)
  BY <1>3, <1>5 DEF Contract!Say, Contract!Moves, streams, gone
<1> QED BY <1>1, <1>3, <1>4, <1>6 DEF ContractStep, Contract!Next

\* The session is sent once: before the texts, or late.
LEMMA Names ==
  ASSUME ChanTypes, NEW c \in Calls, AliveOn(c), chan[c].session = "none", Send(c, "Session")
  PROVE  /\ ChanTypes' /\ AliveOn(c)' /\ OnlyChan(c)
         /\ ContractStep \/ Contract!NameLate(c)
         /\ ~chan[c].text => ContractStep
<1> DEFINE r == With(chan[c], "Session")
<1>1. /\ r \in ChanRec /\ r.receiver = chan[c].receiver /\ r.sender = "alive"
      /\ r.last = "Session" /\ r.session = "sent" /\ r.text = chan[c].text
  BY AfterChunk DEF Chunks, AliveOn
<1>2. chan' = [chan EXCEPT ![c] = r]
  BY DEF Send
<1> HIDE DEF r
<1>3. /\ ChanTypes' /\ chan'[c] = r /\ OnlyChan(c)
      /\ streams' = [streams EXCEPT ![c] = StreamOf(c)'] /\ gone' = gone
  BY <1>1, <1>2, OneStream DEF OnlyChan
<1>4. AliveOn(c)'
  BY <1>1, <1>3 DEF AliveOn, Terminals
<1>5. CASE ~chan[c].text
  <2>1. StreamOf(c) = "open" /\ StreamOf(c)' = "named"
    BY <1>1, <1>3, <1>5, AliveIsLive DEF StreamOf, Terminals
  <2>2. Contract!Name(c)
    BY <1>3, <2>1 DEF Contract!Name, Contract!Moves, streams, gone
  <2> QED BY <1>3, <1>4, <2>2 DEF ContractStep, Contract!Next
<1>6. CASE chan[c].text
  <2>1. StreamOf(c) = "text" /\ StreamOf(c)' = "namedText"
    BY <1>1, <1>3, <1>6, AliveIsLive DEF StreamOf, Terminals
  <2>2. Contract!NameLate(c)
    BY <1>3, <2>1 DEF Contract!NameLate, Contract!Moves, streams, gone
  <2> QED BY <1>3, <1>4, <1>6, <2>2
<1> QED BY <1>5, <1>6

\* What the contract allows is never a late name, and only one stream is named.
LEMMA NotLate ==
  ASSUME NEW d \in Calls, Contract!NameLate(d)
  PROVE  /\ ~ContractStep
         /\ \A c \in Calls : Contract!NameLate(c) => c = d
<1>1. streams[d] = "text" /\ streams'[d] = "namedText"
  BY DEF Contract!NameLate, Contract!Moves, streams
<1>2. ASSUME NEW c \in Calls, NEW from, NEW to, Contract!Moves(c, from, to),
             "text" \notin from \/ to # "namedText"
      PROVE  FALSE
  BY <1>1, <1>2 DEF Contract!Moves, streams
<1>3. ~ContractStep
  <2>1. streams' # streams
    BY <1>1
  <2>2. ASSUME NEW c \in Calls, NEW t \in Contract!Terminals, Contract!Moves(c, Contract!Live, t)
        PROVE  FALSE
    BY <1>2, <2>2 DEF Contract!Terminals
  <2> QED BY <1>2, <2>1, <2>2
      DEF ContractStep, Contract!Next, Contract!Refuse, Contract!Open, Contract!Name, Contract!Say,
          Contract!Finish, Contract!Panic, Contract!Lose, Contract!HangUp, streams
<1>4. ASSUME NEW c \in Calls, Contract!NameLate(c), c # d PROVE FALSE
  BY <1>1, <1>4 DEF Contract!NameLate, Contract!Moves, streams
<1> QED BY <1>3, <1>4

\* A terminal chunk, with the end of the thread or before it.
LEMMA Finishes ==
  ASSUME ChanTypes, NEW c \in Calls, AliveOn(c), NEW t \in Terminals,
         SendLast(c, t) \/ Send(c, t)
  PROVE  /\ ChanTypes' /\ OnlyChan(c) /\ ContractStep /\ chan'[c].last = t
         /\ Send(c, t) => chan'[c].sender = "alive"
<1>1. PICK s \in {"alive", "dropped"} :
        /\ chan' = [chan EXCEPT ![c] = [chan[c] EXCEPT !.last = t, !.sender = s]]
        /\ Send(c, t) => s = "alive"
  <2>1. CASE Send(c, t)
    <3>1. With(chan[c], t) = [chan[c] EXCEPT !.last = t, !.sender = "alive"]
      BY DEF ChanTypes, ChanRec, AliveOn, With, Terminals
    <3> QED BY <2>1, <3>1 DEF Send
  <2>2. CASE SendLast(c, t) /\ ~Send(c, t)
    BY <2>2 DEF SendLast
  <2> QED BY <2>1, <2>2
<1> DEFINE r == [chan[c] EXCEPT !.last = t, !.sender = s]
<1>2. r \in ChanRec /\ r.receiver = chan[c].receiver /\ r.sender = s /\ r.last = t
  BY DEF ChanTypes, ChanRec, Chunks
<1>3. chan' = [chan EXCEPT ![c] = r] /\ (Send(c, t) => s = "alive")
  BY <1>1
<1> HIDE DEF r
<1>4. /\ ChanTypes' /\ chan'[c] = r /\ OnlyChan(c)
      /\ streams' = [streams EXCEPT ![c] = StreamOf(c)'] /\ gone' = gone
  BY <1>2, <1>3, OneStream DEF OnlyChan
<1>5. StreamOf(c) \in Contract!Live /\ StreamOf(c)' = t
  BY <1>2, <1>4, AliveIsLive DEF StreamOf
<1>6. Contract!Finish(c)
  BY <1>4, <1>5 DEF Contract!Finish, Contract!Moves, Contract!Terminals, Terminals, streams, gone
<1> QED BY <1>2, <1>3, <1>4, <1>6 DEF ContractStep, Contract!Next

\* A call that no backend takes.
LEMMA Refuses ==
  ASSUME ChanTypes, NEW c \in Calls, chan[c].sender = "none", SendLast(c, "Error")
  PROVE  ChanTypes' /\ OnlyChan(c) /\ ContractStep
<1> DEFINE r == [chan[c] EXCEPT !.last = "Error", !.sender = "dropped"]
<1>1. r \in ChanRec /\ r.receiver = chan[c].receiver /\ r.sender = "dropped" /\ r.last = "Error"
  BY DEF ChanTypes, ChanRec, Chunks, Terminals
<1>2. chan' = [chan EXCEPT ![c] = r]
  BY DEF SendLast
<1> HIDE DEF r
<1>3. /\ ChanTypes' /\ chan'[c] = r /\ OnlyChan(c)
      /\ streams' = [streams EXCEPT ![c] = StreamOf(c)'] /\ gone' = gone
  BY <1>1, <1>2, OneStream DEF OnlyChan
<1>4. StreamOf(c) = "idle" /\ StreamOf(c)' = "Error"
  BY <1>1, <1>3 DEF StreamOf, Terminals
<1>5. Contract!Refuse(c)
  BY <1>3, <1>4 DEF Contract!Refuse, Contract!Moves, streams, gone
<1> QED BY <1>3, <1>5 DEF ContractStep, Contract!Next

\* The sender goes: after the last chunk, because the reader has, or in a panic.
LEMMA Drops ==
  ASSUME ChanTypes, NEW c \in Calls, DropSender(c),
         \/ chan[c].sender = "alive" /\ chan[c].last \in Terminals
         \/ AliveOn(c) /\ ~chan[c].receiver
  PROVE  ChanTypes' /\ OnlyChan(c) /\ ContractStep
<1> DEFINE r == [chan[c] EXCEPT !.sender = "dropped"]
<1>1. r \in ChanRec /\ r.receiver = chan[c].receiver /\ r.sender = "dropped" /\ r.last = chan[c].last
  BY DEF ChanTypes, ChanRec
<1>2. chan' = [chan EXCEPT ![c] = r]
  BY DEF DropSender
<1> HIDE DEF r
<1>3. /\ ChanTypes' /\ chan'[c] = r /\ OnlyChan(c)
      /\ streams' = [streams EXCEPT ![c] = StreamOf(c)'] /\ gone' = gone
  BY <1>1, <1>2, OneStream DEF OnlyChan
<1>4. CASE chan[c].last \in Terminals
  <2>1. chan[c].sender = "alive"
    BY DEF AliveOn
  <2>2. StreamOf(c)' = StreamOf(c)
    BY <1>1, <1>3, <1>4, <2>1 DEF StreamOf
  <2> QED BY <1>3, <2>2 DEF ContractStep, streams
<1>5. CASE chan[c].last \notin Terminals
  <2>1. StreamOf(c) \in Contract!Live /\ StreamOf(c)' = "lost" /\ ~chan[c].receiver
    BY <1>1, <1>3, <1>5, AliveIsLive DEF StreamOf, AliveOn
  <2>2. Contract!Lose(c)
    BY <1>3, <2>1 DEF Contract!Lose, Contract!Moves, streams, gone
  <2> QED BY <1>3, <2>2 DEF ContractStep, Contract!Next
<1> QED BY <1>4, <1>5

\* The thread dies before its last chunk.
LEMMA Panics ==
  ASSUME ChanTypes, NEW c \in Calls, AliveOn(c), PanicSender(c)
  PROVE  ChanTypes' /\ OnlyChan(c) /\ ContractStep
<1> DEFINE r == [chan[c] EXCEPT !.sender = "panicked"]
<1>1. r \in ChanRec /\ r.receiver = chan[c].receiver /\ r.sender = "panicked" /\ r.last = chan[c].last
  BY DEF ChanTypes, ChanRec
<1>2. chan' = [chan EXCEPT ![c] = r]
  BY DEF PanicSender
<1> HIDE DEF r
<1>3. /\ ChanTypes' /\ chan'[c] = r /\ OnlyChan(c)
      /\ streams' = [streams EXCEPT ![c] = StreamOf(c)'] /\ gone' = gone
  BY <1>1, <1>2, OneStream DEF OnlyChan
<1>4. StreamOf(c) \in Contract!Live /\ StreamOf(c)' = "panicked"
  BY <1>1, <1>3, AliveIsLive DEF StreamOf, AliveOn
<1>5. Contract!Panic(c)
  BY <1>3, <1>4 DEF Contract!Panic, Contract!Moves, streams, gone
<1> QED BY <1>3, <1>5 DEF ContractStep, Contract!Next

\* The reader goes, which changes no chunk and no sender.
LEMMA HangsUp ==
  ASSUME ChanTypes, NEW c \in Calls, HangUp(c)
  PROVE  /\ ChanTypes' /\ ContractStep
         /\ \A d \in Calls : /\ chan'[d].last = chan[d].last /\ chan'[d].sender = chan[d].sender
                            /\ chan'[d].session = chan[d].session /\ chan'[d].text = chan[d].text
<1>1. /\ ChanTypes' /\ chan'[c] = [chan[c] EXCEPT !.receiver = FALSE]
      /\ \A d \in Calls \ {c} : chan'[d] = chan[d]
  BY DEF ChanTypes, ChanRec, HangUp
<1>2. \A d \in Calls : /\ chan'[d].last = chan[d].last /\ chan'[d].sender = chan[d].sender
                       /\ chan'[d].session = chan[d].session /\ chan'[d].text = chan[d].text
  BY <1>1 DEF ChanTypes, ChanRec
<1>3. streams' = streams
  BY <1>2 DEF streams, StreamOf
<1>4. chan[c].receiver /\ ~chan'[c].receiver
  BY <1>1 DEF HangUp, ChanTypes, ChanRec
<1>5. gone' = [gone EXCEPT ![c] = TRUE] /\ ~gone[c]
  BY <1>1, <1>4 DEF gone
<1>6. Contract!HangUp(c)
  BY <1>3, <1>5 DEF Contract!HangUp, streams, gone
<1> QED BY <1>1, <1>2, <1>6 DEF ContractStep, Contract!Next

-----------------------------------------------------------------------------
(* The limit on the connections of the bridge.  The bridge counts handles, *)
(* the property counts handlers that run: until the listener ends, each of *)
(* them has its handle, and the listener makes room before it starts one.  *)
(* When the handles are dropped, nothing is accepted any more.             *)

BridgeTypes ==
  /\ bridge \in BridgeRec
  /\ handles \subseteq Peers
  /\ worker \in [Peers -> WorkerStates]

Counted ==
  /\ bridge.loop # "end" => Unfinished \subseteq handles
  /\ bridge.owner \in {"draining", "dropped"} => bridge.loop = "end"
  /\ bridge.owner = "off" => bridge.loop = "off" /\ handles = {}
  /\ bridge.loop = "track" => bridge.peer \in Peers /\ Cardinality(handles) < MaxBridgeConnections
  /\ Cardinality(handles) <= MaxBridgeConnections
  /\ WorkersBounded

BridgeInv == BridgeTypes /\ Counted

-----------------------------------------------------------------------------
\* Fewer handles, or fewer handlers, are no more than before.
LEMMA Fewer ==
  ASSUME NEW S, NEW T, S \subseteq T, T \subseteq Peers
  PROVE  /\ IsFiniteSet(S) /\ Cardinality(S) \in Nat
         /\ Cardinality(S) <= Cardinality(T) /\ Cardinality(T) \in Nat
<1>1. IsFiniteSet(T) /\ IsFiniteSet(S)
  BY BridgeBounds, FS_Subset
<1> QED BY <1>1, FS_Subset, FS_CardinalityType

LEMMA BridgeStarts == BridgeInit => BridgeInv
<1> SUFFICES ASSUME BridgeInit PROVE BridgeInv
  OBVIOUS
<1>1. BridgeTypes
  BY DEF BridgeInit, BridgeTypes, BridgeRec, WorkerStates
<1>2. Unfinished = {}
  BY DEF BridgeInit, Unfinished
<1>3. Cardinality({}) = 0
  BY FS_EmptySet
<1> QED BY <1>1, <1>2, <1>3, BridgeBounds DEF BridgeInit, BridgeInv, Counted, WorkersBounded

\* A step that starts no worker leaves no more of them than before.
LEMMA NoneStarts ==
  ASSUME BridgeInv, BridgeTypes', Unfinished' \subseteq Unfinished
  PROVE  WorkersBounded'
<1>1. Unfinished \subseteq Peers
  BY DEF Unfinished
<1>2. Cardinality(Unfinished') <= Cardinality(Unfinished)
      /\ Cardinality(Unfinished) \in Nat /\ Cardinality(Unfinished') \in Nat
  BY <1>1, Fewer
<1> QED BY <1>2, BridgeBounds DEF BridgeInv, Counted, WorkersBounded

-----------------------------------------------------------------------------
(* The listener *)

\* It looks at the flag, or finds nobody to accept.
LEMMA LoopIdles == ASSUME BridgeInv, LoopChecks \/ LoopAcceptsNone PROVE BridgeInv'
<1>1. /\ UNCHANGED <<handles, worker>> /\ bridge.loop \in {"check", "accept"}
      /\ \E to \in {"end", "reap", "check"} : bridge' = [bridge EXCEPT !.loop = to, !.peer = NoPeer]
  BY DEF LoopChecks, LoopAcceptsNone, LoopGoes
<1>2. BridgeTypes' /\ bridge'.owner = bridge.owner /\ bridge'.loop \in {"end", "reap", "check"}
  BY <1>1 DEF BridgeInv, BridgeTypes, BridgeRec
<1>3. Unfinished' = Unfinished
  BY <1>1 DEF Unfinished
<1>4. WorkersBounded'
  BY <1>2, <1>3, NoneStarts
<1> QED BY <1>1, <1>2, <1>3, <1>4 DEF BridgeInv, Counted

\* It forgets the handles of finished workers only.
LEMMA LoopReapsKeeps == ASSUME BridgeInv, LoopReaps PROVE BridgeInv'
<1>1. /\ worker' = worker /\ handles' = Active /\ bridge.loop = "reap"
      /\ bridge' = [bridge EXCEPT !.loop = "accept", !.peer = NoPeer]
  BY DEF LoopReaps, LoopGoes
<1>2. BridgeTypes' /\ bridge'.owner = bridge.owner /\ bridge'.loop = "accept"
  BY <1>1 DEF BridgeInv, BridgeTypes, BridgeRec, Active
<1>3. Unfinished' = Unfinished /\ Unfinished \subseteq handles'
  BY <1>1 DEF Unfinished, BridgeInv, Counted, Active, Finished
<1>4. WorkersBounded'
  BY <1>2, <1>3, NoneStarts
<1>5. Cardinality(handles') <= MaxBridgeConnections
  <2>1. handles' \subseteq handles /\ handles \subseteq Peers
    BY <1>1 DEF Active, BridgeInv, BridgeTypes
  <2>2. Cardinality(handles') <= Cardinality(handles)
        /\ Cardinality(handles') \in Nat /\ Cardinality(handles) \in Nat
    BY <2>1, Fewer
  <2> QED BY <2>2, BridgeBounds DEF BridgeInv, Counted
<1> QED BY <1>1, <1>2, <1>3, <1>4, <1>5 DEF BridgeInv, Counted

\* It takes a connection when there is room, and turns it away otherwise.
LEMMA LoopAcceptsKeeps == ASSUME BridgeInv, NEW p \in Peers, LoopAccepts(p) PROVE BridgeInv'
<1>0. handles' = handles /\ bridge.loop = "accept" /\ worker[p] = "waiting"
  BY DEF LoopAccepts, LoopGoes
<1>1. CASE Cardinality(handles) >= MaxBridgeConnections
  <2>1. /\ bridge' = [bridge EXCEPT !.loop = "check", !.peer = NoPeer]
        /\ worker' = [worker EXCEPT ![p] = "turnedAway"]
    BY <1>1 DEF LoopAccepts, LoopGoes, WorkerGoes
  <2>2. BridgeTypes' /\ bridge'.owner = bridge.owner /\ bridge'.loop = "check"
    BY <1>0, <2>1 DEF BridgeInv, BridgeTypes, BridgeRec, WorkerStates
  <2>3. Unfinished' = Unfinished
    BY <1>0, <2>1 DEF Unfinished, BridgeInv, BridgeTypes
  <2>4. WorkersBounded'
    BY <2>2, <2>3, NoneStarts
  <2> QED BY <1>0, <2>2, <2>3, <2>4 DEF BridgeInv, Counted
<1>2. CASE ~(Cardinality(handles) >= MaxBridgeConnections)
  <2>1. worker' = worker /\ bridge' = [bridge EXCEPT !.loop = "track", !.peer = p]
    BY <1>2 DEF LoopAccepts, LoopGoes
  <2>2. /\ BridgeTypes' /\ bridge'.owner = bridge.owner /\ bridge'.loop = "track"
        /\ bridge'.peer = p
    BY <1>0, <2>1 DEF BridgeInv, BridgeTypes, BridgeRec
  <2>3. Unfinished' = Unfinished
    BY <2>1 DEF Unfinished
  <2>4. WorkersBounded'
    BY <2>2, <2>3, NoneStarts
  <2>5. Cardinality(handles) < MaxBridgeConnections
    BY <1>2, Fewer, BridgeBounds DEF BridgeInv, BridgeTypes
  <2> QED BY <1>0, <2>2, <2>3, <2>4, <2>5 DEF BridgeInv, Counted
<1> QED BY <1>1, <1>2

\* Room was made before the worker starts, and nobody else takes it meanwhile.
LEMMA LoopTracksKeeps == ASSUME BridgeInv, LoopTracks PROVE BridgeInv'
<1> DEFINE p == bridge.peer
<1>0. /\ bridge.loop = "track" /\ p \in Peers /\ worker[p] = "waiting"
      /\ Cardinality(handles) < MaxBridgeConnections /\ handles \subseteq Peers
      /\ Unfinished \subseteq handles
  BY DEF LoopTracks, LoopGoes, WorkerGoes, BridgeInv, BridgeTypes, Counted
<1>1. /\ bridge' = [bridge EXCEPT !.loop = "check", !.peer = NoPeer]
      /\ handles' = handles \cup {p} /\ worker' = [worker EXCEPT ![p] = "reading"]
  BY DEF LoopTracks, LoopGoes, WorkerGoes
<1>2. BridgeTypes' /\ bridge'.owner = bridge.owner /\ bridge'.loop = "check"
  BY <1>0, <1>1 DEF BridgeInv, BridgeTypes, BridgeRec, WorkerStates
<1>3. Unfinished' \subseteq handles' /\ handles' \subseteq Peers
  BY <1>0, <1>1 DEF Unfinished, BridgeInv, BridgeTypes
<1>4. Cardinality(handles') <= Cardinality(handles) + 1 /\ Cardinality(handles) \in Nat
  BY <1>0, <1>1, FS_AddElement, Fewer
<1>5. Cardinality(handles') <= MaxBridgeConnections /\ Cardinality(handles') \in Nat
  BY <1>0, <1>3, <1>4, Fewer, BridgeBounds
<1>6. WorkersBounded'
  <2>1. Cardinality(Unfinished') <= Cardinality(handles') /\ Cardinality(Unfinished') \in Nat
    BY <1>3, Fewer
  <2> QED BY <1>5, <2>1, BridgeBounds DEF WorkersBounded
<1> QED BY <1>0, <1>2, <1>3, <1>5, <1>6 DEF BridgeInv, Counted

-----------------------------------------------------------------------------
(* The workers, and the owner *)

\* A worker that runs goes on or finishes; a connection is made.
LEMMA WorkersKeep ==
  ASSUME BridgeInv, NEW p \in Peers, BridgeWorker(p) \/ HandlerReturns(p) \/ PeerConnects(p)
  PROVE  BridgeInv'
<1>1. /\ UNCHANGED <<bridge, handles>>
      /\ \/ /\ worker[p] \in {"reading", "handling", "writing", "leaving"}
            /\ \E to \in {"handling", "writing", "leaving", "finished"} :
                 worker' = [worker EXCEPT ![p] = to]
         \/ worker[p] = "unborn" /\ worker' = [worker EXCEPT ![p] = "waiting"]
  BY DEF BridgeWorker, BridgeReads, BridgeWrites, BridgeLeaves, HandlerReturns, PeerConnects,
         WorkerGoes
<1>2. BridgeTypes'
  BY <1>1 DEF BridgeInv, BridgeTypes, WorkerStates
<1>3. Unfinished' \subseteq Unfinished
  BY <1>1 DEF Unfinished, BridgeInv, BridgeTypes
<1>4. WorkersBounded'
  BY <1>2, <1>3, NoneStarts
<1> QED BY <1>1, <1>2, <1>3, <1>4 DEF BridgeInv, Counted

\* The bridge comes up, and its owner drops it.
LEMMA OwnerKeeps == ASSUME BridgeInv, BridgeUp \/ DropStops \/ DropStep PROVE BridgeInv'
<1>1. worker' = worker
  BY DEF BridgeUp, DropStops, DropStep, DropShuts, DropJoinsLoop, DropDrains
<1>2. Unfinished' = Unfinished
  BY <1>1 DEF Unfinished
<1>3. BridgeTypes'
  BY DEF BridgeInv, BridgeTypes, BridgeRec, BridgeUp, DropStops, DropStep, DropShuts,
         DropJoinsLoop, DropDrains, OwnerGoes
<1>4. WorkersBounded'
  BY <1>2, <1>3, NoneStarts
<1>5. CASE BridgeUp \/ DropStops \/ DropShuts \/ DropJoinsLoop
  <2>1. /\ handles' = handles /\ bridge'.peer = bridge.peer
        /\ \/ bridge.owner = "off" /\ bridge'.owner = "up" /\ bridge'.loop = "check"
           \/ bridge'.owner \in {"stopping", "joining"} /\ bridge'.loop = bridge.loop
           \/ bridge'.owner = "draining" /\ bridge.loop = "end" /\ bridge'.loop = "end"
    BY <1>5 DEF BridgeInv, BridgeTypes, BridgeRec, BridgeUp, DropStops, DropShuts, DropJoinsLoop,
                OwnerGoes
  <2> QED BY <1>2, <1>3, <1>4, <2>1 DEF BridgeInv, Counted
<1>6. CASE DropDrains
  <2>1. /\ bridge.loop = "end" /\ bridge'.loop = "end" /\ bridge'.owner = "dropped"
        /\ handles' = {}
    BY <1>6 DEF DropDrains, OwnerGoes, BridgeInv, BridgeTypes, BridgeRec, Counted
  <2>2. Cardinality({}) = 0
    BY FS_EmptySet
  <2> QED BY <1>3, <1>4, <2>1, <2>2, BridgeBounds DEF BridgeInv, Counted
<1> QED BY <1>5, <1>6 DEF DropStep

\* Every step of the bridge keeps its invariant.
LEMMA BridgeKeeps ==
  ASSUME BridgeInv,
         \/ LoopStep \/ DropStops \/ DropStep \/ BridgeUp \/ UNCHANGED bridgeVars
         \/ \E p \in Peers : BridgeWorker(p) \/ HandlerReturns(p) \/ PeerConnects(p)
  PROVE  BridgeInv'
<1>1. CASE LoopStep
  BY <1>1, LoopIdles, LoopReapsKeeps, LoopAcceptsKeeps, LoopTracksKeeps DEF LoopStep
<1>2. CASE DropStops \/ DropStep \/ BridgeUp
  BY <1>2, OwnerKeeps
<1>3. CASE UNCHANGED bridgeVars
  BY <1>3 DEF bridgeVars, BridgeInv, BridgeTypes, Counted, WorkersBounded, Unfinished
<1>4. CASE \E p \in Peers : BridgeWorker(p) \/ HandlerReturns(p) \/ PeerConnects(p)
  BY <1>4, WorkersKeep
<1> QED BY <1>1, <1>2, <1>3, <1>4

-----------------------------------------------------------------------------
(* The environment of the in-process Pi: what a step of one run does to    *)
(* the variables that all runs share.                                      *)
(*                                                                         *)
(* The inductive invariant says where the values come from while the lock  *)
(* is held: each variable of the holder has the holder's value or that of  *)
(* the start, by its progress, and all others have that of the start.  The *)
(* values that the guard notes are therefore those of the start.           *)

EnvTypes ==
  /\ rust \in [Calls -> RustRec]
  /\ environ \in [EnvKeys -> Calls \cup {Unset, AtStart}]
  /\ envLock \in Calls \cup {NoCall}
  /\ \A c \in Calls : rust[c].pc = "acquire" => Guarded(c)

Intact == \A c \in Calls : rust[c].pc # "broken"
EnginePc == {"engine", "ok", "limited", "failed"}
HeldPc == EnginePc \cup {"acquire", "drop", "dropPanic"}

\* A run that brings variables is past its acquire only with the lock.
HoldersHold ==
  \A c \in Calls : Guarded(c) /\ rust[c].pc \in HeldPc \ {"acquire"} => envLock = c

\* What the holder of the lock has made of the environment.
Held(c) ==
  /\ Guarded(c) /\ rust[c].pc \in HeldPc
  /\ \A k \in EnvKeys : rust[c].saved[k] = StartOf(k)
  /\ \A k \in EnvKeys \ rust[c].env : environ[k] = StartOf(k)
  /\ rust[c].pc = "acquire" =>
       /\ rust[c].pending \subseteq rust[c].env
       /\ \A k \in rust[c].env : environ[k] = IF k \in rust[c].pending THEN StartOf(k) ELSE c
  /\ rust[c].pc \in EnginePc => \A k \in rust[c].env : environ[k] = c

EnvHeld ==
  /\ HoldersHold
  /\ \A c \in Calls : envLock = c => Held(c)
  /\ envLock = NoCall => \A k \in EnvKeys : environ[k] = StartOf(k)

EnvInv == EnvTypes /\ (Intact => EnvHeld)

-----------------------------------------------------------------------------
\* A variable starts with the value of the program's start, or without one.
LEMMA StartType == \A k \in EnvKeys : StartOf(k) \in {Unset, AtStart}
BY DEF StartOf

\* The invariant says what EnvironmentIsolated says of every reachable state.
LEMMA EnvIsolates == EnvInv => EnvironmentIsolated
<1> SUFFICES ASSUME EnvTypes, Intact, EnvHeld PROVE EnvironmentIsolated
  BY DEF EnvInv, EnvironmentIsolated, Intact
<1>1. ASSUME NEW c \in Calls, InGuard(c), NEW k \in EnvKeys
      PROVE  environ[k] = IF k \in rust[c].env THEN c ELSE StartOf(k)
  <2>1. envLock = c
    BY <1>1 DEF InGuard, EnvHeld, HoldersHold, HeldPc, EnginePc
  <2>2. Held(c)
    BY <2>1 DEF EnvHeld
  <2> QED BY <1>1, <2>2 DEF InGuard, Held, EnginePc
<1> QED BY <1>1 DEF EnvironmentIsolated, EnvHeld

LEMMA EnvInit == RustInit => EnvInv
<1> SUFFICES ASSUME RustInit PROVE EnvInv
  OBVIOUS
<1>1. EnvTypes
  BY StartType DEF RustInit, EnvTypes, RustRec, Guarded
<1>2. EnvHeld
  BY CallsAreNoMarks DEF RustInit, EnvHeld, HoldersHold, Guarded
<1> QED BY <1>1, <1>2 DEF EnvInv

\* A step of a run without the lock leaves the environment alone and does not
\* take a run with variables past its acquire.
LEMMA Elsewhere ==
  ASSUME EnvInv, UNCHANGED environment, NEW c \in Calls, Intact => envLock # c,
         rust' \in [Calls -> RustRec], \A d \in Calls \ {c} : rust'[d] = rust[d],
         rust[c].pc # "broken",
         rust'[c].pc = "acquire" => rust'[c].env # {},
         rust'[c].env # {} => rust'[c].pc \notin HeldPc \ {"acquire"}
  PROVE  EnvInv'
<1>1. EnvTypes'
  BY DEF EnvInv, EnvTypes, environment, Guarded
<1> SUFFICES ASSUME Intact' PROVE EnvHeld'
  BY <1>1 DEF EnvInv
<1>2. EnvHeld /\ envLock # c
  BY DEF Intact, EnvInv
<1>3. HoldersHold'
  BY <1>2 DEF EnvHeld, HoldersHold, Guarded, environment
<1>4. ASSUME NEW d \in Calls, envLock' = d PROVE Held(d)'
  BY <1>2, <1>4 DEF EnvHeld, Held, Guarded, environment
<1> QED BY <1>2, <1>3, <1>4 DEF EnvHeld, environment

\* What a step that only moves a run on does to the records of the runs.
LEMMA Moved ==
  ASSUME EnvTypes, NEW c \in Calls,
         NEW p \in HeldPc \cup {"seed", "announce", "end", "broken"},
         rust' = [rust EXCEPT ![c].pc = p]
  PROVE  /\ rust' \in [Calls -> RustRec] /\ \A d \in Calls \ {c} : rust'[d] = rust[d]
         /\ rust'[c].pc = p /\ rust'[c].env = rust[c].env /\ rust'[c].saved = rust[c].saved
         /\ rust'[c].pending = rust[c].pending
<1>1. rust \in [Calls -> RustRec] /\ rust[c] \in RustRec
  BY DEF EnvTypes
<1>2. [rust[c] EXCEPT !.pc = p] \in RustRec
  BY <1>1 DEF RustRec, HeldPc, EnginePc
<1>3. rust' = [rust EXCEPT ![c] = [rust[c] EXCEPT !.pc = p]]
  OBVIOUS
<1>4. rust'[c] = [rust[c] EXCEPT !.pc = p]
  BY <1>1, <1>3
<1> QED BY <1>1, <1>2, <1>3, <1>4 DEF RustRec

\* The engine and the last chunk: the run goes on towards its end, with the lock
\* or without variables.
LEMMA Onwards ==
  ASSUME EnvInv, UNCHANGED environment, NEW c \in Calls, NEW p \in HeldPc \ {"acquire"},
         rust[c].pc \in EnginePc, rust' = [rust EXCEPT ![c].pc = p]
  PROVE  EnvInv'
<1>t. EnvTypes
  BY DEF EnvInv
<1>m. /\ rust' \in [Calls -> RustRec] /\ \A d \in Calls \ {c} : rust'[d] = rust[d]
      /\ rust'[c].pc = p /\ rust'[c].env = rust[c].env /\ rust'[c].saved = rust[c].saved
  BY <1>t, Moved
<1>p. p # "acquire" /\ rust[c].pc # "acquire" /\ rust[c].pc \in HeldPc /\ rust[c].pc # "broken"
  BY DEF EnginePc, HeldPc
<1>1. EnvTypes'
  BY <1>t, <1>m, <1>p DEF EnvTypes, environment, Guarded
<1> SUFFICES ASSUME Intact' PROVE EnvHeld'
  BY <1>1 DEF EnvInv
<1>2. EnvHeld
  BY <1>m, <1>p DEF Intact, EnvInv
<1>3. HoldersHold'
  BY <1>2, <1>m, <1>p DEF EnvHeld, HoldersHold, Guarded, environment
<1>4. ASSUME NEW d \in Calls, envLock' = d PROVE Held(d)'
  <2>1. Held(d) /\ environ' = environ
    BY <1>2, <1>4 DEF EnvHeld, environment
  <2>2. CASE d = c
    BY <1>m, <1>p, <2>1, <2>2 DEF Held, Guarded
  <2>3. CASE d # c
    BY <1>m, <2>1, <2>3 DEF Held, Guarded
  <2> QED BY <2>2, <2>3
<1> QED BY <1>2, <1>3, <1>4 DEF EnvHeld, environment

-----------------------------------------------------------------------------
\* Before the lock: validation, the seed and the announcement.
LEMMA StartKeeps ==
  ASSUME EnvInv, NEW c \in Calls, NEW env \in SUBSET EnvKeys, NEW resume \in BOOLEAN,
         NEW valid \in BOOLEAN, RustStart(c, env, resume, valid)
  PROVE  EnvInv'
<1>t. EnvTypes
  BY DEF EnvInv
<1>0. rust \in [Calls -> RustRec] /\ rust[c] \in RustRec /\ rust[c].pc = "off"
  BY <1>t DEF RustStart, EnvTypes
<1> DEFINE r == [rust[c] EXCEPT !.pc = "validate", !.env = env, !.resume = resume, !.valid = valid]
<1>1. r \in RustRec /\ r.pc = "validate"
  BY <1>0 DEF RustRec
<1>2. rust' = [rust EXCEPT ![c] = r] /\ UNCHANGED environment
  BY DEF RustStart
<1> HIDE DEF r
<1>3. /\ rust' \in [Calls -> RustRec] /\ \A d \in Calls \ {c} : rust'[d] = rust[d]
      /\ rust'[c].pc = "validate"
  BY <1>0, <1>1, <1>2
<1>4. Intact => envLock # c
  BY <1>0 DEF EnvInv, EnvHeld, Held, HeldPc, EnginePc
<1> QED BY <1>0, <1>2, <1>3, <1>4, Elsewhere DEF HeldPc, EnginePc

LEMMA BeforeLock ==
  ASSUME EnvInv, NEW c \in Calls,
         RustInvalid(c) \/ RustValid(c) \/ SeedSessionFile(c) \/ Announce(c)
  PROVE  EnvInv'
<1>t. EnvTypes
  BY DEF EnvInv
<1>1. UNCHANGED environment /\ rust[c].pc \in {"validate", "seed", "announce"}
  BY DEF RustInvalid, RustValid, SeedSessionFile, Announce, RustGoes
<1>2. Intact => envLock # c
  BY <1>1 DEF EnvInv, EnvHeld, Held, HeldPc, EnginePc
<1>3. CASE RustInvalid(c) \/ RustValid(c) \/ SeedSessionFile(c)
  <2>1. PICK p \in {"end", "announce", "seed"} : rust' = [rust EXCEPT ![c].pc = p]
    BY <1>3 DEF RustInvalid, RustValid, SeedSessionFile, RustGoes
  <2>2. /\ rust' \in [Calls -> RustRec] /\ \A d \in Calls \ {c} : rust'[d] = rust[d]
        /\ rust'[c].pc = p
    BY <1>t, <2>1, Moved
  <2> QED BY <1>1, <1>2, <2>2, Elsewhere DEF HeldPc, EnginePc
<1>4. CASE Announce(c)
  <2>1. PICK p \in {"acquire", "engine"} :
          p = (IF Guarded(c) THEN "acquire" ELSE "engine") /\ rust' = [rust EXCEPT ![c].pc = p]
    BY <1>4 DEF Announce, RustGoes
  <2>2. p \in HeldPc \cup {"seed", "announce", "end", "broken"}
    BY DEF HeldPc, EnginePc
  <2>r. rust' = [rust EXCEPT ![c].pc = p]
    BY <2>1
  <2>3. /\ rust' \in [Calls -> RustRec] /\ \A d \in Calls \ {c} : rust'[d] = rust[d]
        /\ rust'[c].env = rust[c].env /\ rust'[c].pc = p
    BY <1>t, <2>r, <2>2, Moved
  <2> QED BY <1>1, <1>2, <2>1, <2>3, Elsewhere DEF Guarded
<1> QED BY <1>3, <1>4

\* The lock is taken while every variable has the value of the start.
LEMMA AcquireKeeps == ASSUME EnvInv, NEW c \in Calls, Acquire(c) PROVE EnvInv'
<1>t. EnvTypes
  BY DEF EnvInv
<1>0. rust \in [Calls -> RustRec] /\ rust[c] \in RustRec /\ rust[c].pc = "acquire"
  BY <1>t DEF Acquire, EnvTypes
<1> DEFINE r == [rust[c] EXCEPT !.pending = rust[c].env, !.saved = environ]
<1>1. /\ r \in RustRec /\ r.pc = "acquire" /\ r.env = rust[c].env
      /\ r.pending = rust[c].env /\ r.saved = environ
  BY <1>t, <1>0 DEF RustRec, EnvTypes
<1>2. rust' = [rust EXCEPT ![c] = r] /\ envLock = NoCall /\ envLock' = c /\ environ' = environ
  BY DEF Acquire
<1> HIDE DEF r
<1>3. /\ rust' \in [Calls -> RustRec] /\ \A d \in Calls \ {c} : rust'[d] = rust[d]
      /\ rust'[c] = r
  BY <1>0, <1>1, <1>2
<1>4. EnvTypes'
  BY <1>t, <1>0, <1>1, <1>2, <1>3 DEF EnvTypes, Guarded
<1> SUFFICES ASSUME Intact' PROVE EnvHeld'
  BY <1>4 DEF EnvInv
<1>5. EnvHeld
  BY <1>0, <1>3 DEF Intact, EnvInv
<1>6. Guarded(c)
  BY <1>t, <1>0 DEF EnvTypes
<1>7. HoldersHold'
  BY <1>1, <1>2, <1>3, <1>5, CallsAreNoMarks DEF EnvHeld, HoldersHold, Guarded
<1>8. Held(c)'
  <2>1. /\ \A k \in EnvKeys : environ[k] = StartOf(k)
        /\ \A k \in EnvKeys : environ'[k] = StartOf(k)
    BY <1>2, <1>5 DEF EnvHeld
  <2>2. /\ rust'[c].pc = "acquire" /\ rust'[c].env = rust[c].env /\ rust[c].env \subseteq EnvKeys
        /\ rust'[c].pending = rust[c].env /\ rust'[c].saved = environ
    BY <1>0, <1>1, <1>3 DEF RustRec
  <2>3. Guarded(c)' /\ rust'[c].pc \in HeldPc /\ rust'[c].pc \notin EnginePc
    BY <1>6, <2>2 DEF Guarded, HeldPc, EnginePc
  <2> QED BY <2>1, <2>2, <2>3 DEF Held
<1> QED BY <1>2, <1>7, <1>8, CallsAreNoMarks DEF EnvHeld

\* One variable after the other gets the holder's value.
LEMMA SetVarKeeps ==
  ASSUME EnvInv, NEW c \in Calls, NEW k \in EnvKeys, SetVar(c, k)
  PROVE  EnvInv'
<1>t. EnvTypes
  BY DEF EnvInv
<1>0. rust \in [Calls -> RustRec] /\ rust[c] \in RustRec /\ rust[c].pc = "acquire"
  BY <1>t DEF SetVar, EnvTypes
<1> DEFINE p == IF rust[c].pending = {k} THEN "engine" ELSE "acquire"
           r == [rust[c] EXCEPT !.pending = @ \ {k}, !.pc = p]
<1>1. /\ r \in RustRec /\ r.pc = p /\ r.env = rust[c].env
      /\ r.pending = rust[c].pending \ {k} /\ r.saved = rust[c].saved
  BY <1>0 DEF RustRec
<1>2. /\ rust' = [rust EXCEPT ![c] = r] /\ envLock = c /\ envLock' = c
      /\ environ' = [environ EXCEPT ![k] = c] /\ k \in rust[c].pending
  BY DEF SetVar
<1> HIDE DEF r
<1>3. /\ rust' \in [Calls -> RustRec] /\ \A d \in Calls \ {c} : rust'[d] = rust[d]
      /\ rust'[c] = r
  BY <1>0, <1>1, <1>2
<1>e. /\ environ' \in [EnvKeys -> Calls \cup {Unset, AtStart}] /\ environ'[k] = c
      /\ \A j \in EnvKeys \ {k} : environ'[j] = environ[j]
  BY <1>t, <1>2 DEF EnvTypes
<1>4. EnvTypes'
  BY <1>t, <1>0, <1>1, <1>2, <1>3, <1>e DEF EnvTypes, Guarded
<1> SUFFICES ASSUME Intact' PROVE EnvHeld'
  BY <1>4 DEF EnvInv
<1>5. EnvHeld /\ Held(c)
  BY <1>0, <1>2, <1>3 DEF Intact, EnvInv, EnvHeld
<1>6. HoldersHold'
  BY <1>1, <1>2, <1>3, <1>5 DEF EnvHeld, HoldersHold, Guarded
<1>7. Held(c)'
  <2>1. /\ Guarded(c)' /\ rust'[c].pc \in HeldPc
        /\ \A j \in EnvKeys : rust'[c].saved[j] = StartOf(j)
    BY <1>1, <1>3, <1>5 DEF Held, Guarded, HeldPc, EnginePc
  <2>2. rust[c].pending \subseteq rust[c].env /\ rust[c].env \subseteq EnvKeys
    BY <1>0, <1>5 DEF Held, RustRec
  <2>3. \A j \in EnvKeys \ rust'[c].env : environ'[j] = StartOf(j)
    BY <1>1, <1>2, <1>3, <1>5, <1>e, <2>2 DEF Held
  <2>4. \A j \in rust[c].env : environ'[j] = IF j \in rust[c].pending \ {k} THEN StartOf(j) ELSE c
    BY <1>0, <1>2, <1>5, <1>e, <2>2 DEF Held
  <2>5. rust'[c].pc = "acquire" =>
          /\ rust'[c].pending \subseteq rust'[c].env
          /\ \A j \in rust'[c].env : environ'[j] = IF j \in rust'[c].pending THEN StartOf(j) ELSE c
    BY <1>1, <1>3, <2>2, <2>4
  <2>6. rust'[c].pc \in EnginePc => \A j \in rust'[c].env : environ'[j] = c
    BY <1>1, <1>3, <2>4 DEF EnginePc
  <2> QED BY <2>1, <2>3, <2>5, <2>6 DEF Held
<1> QED BY <1>2, <1>6, <1>7, CallsAreNoMarks DEF EnvHeld

\* After a panic of set_var nothing is promised.
LEMMA SetVarPanicKeeps == ASSUME EnvInv, NEW c \in Calls, SetVarPanics(c) PROVE EnvInv'
<1>t. EnvTypes
  BY DEF EnvInv
<1>1. rust' = [rust EXCEPT ![c].pc = "broken"] /\ environ' = environ /\ envLock' = NoCall
  BY DEF SetVarPanics, RustGoes
<1>2. /\ rust' \in [Calls -> RustRec] /\ \A d \in Calls \ {c} : rust'[d] = rust[d]
      /\ rust'[c].pc = "broken"
  BY <1>t, <1>1, Moved
<1>3. EnvTypes'
  BY <1>t, <1>1, <1>2 DEF EnvTypes, Guarded
<1> QED BY <1>2, <1>3 DEF EnvInv, Intact

\* The engine runs, ends or panics, and the last chunk is sent.
LEMMA EngineKeeps ==
  ASSUME EnvInv, NEW c \in Calls, RustEngine(c) \/ RustLast(c)
  PROVE  EnvInv'
<1>1. PICK p \in HeldPc \ {"acquire"} : rust' = [rust EXCEPT ![c].pc = p]
  BY DEF RustEngine, RustLast, RustDelta, EngineEnds, EnginePanics, RustGoes, HeldPc, EnginePc
<1>2. UNCHANGED environment /\ rust[c].pc \in EnginePc
  BY DEF RustEngine, RustLast, RustDelta, EngineEnds, EnginePanics, RustGoes, EnginePc
<1> QED BY <1>1, <1>2, Onwards

-----------------------------------------------------------------------------
\* The guard restores what it noted, which are the values of the start.
LEMMA RestoreKeeps ==
  ASSUME EnvInv, NEW c \in Calls, NEW k \in EnvKeys, RestoreVar(c, k)
  PROVE  EnvInv'
<1>t. EnvTypes
  BY DEF EnvInv
<1>0. /\ rust' = rust /\ envLock' = envLock /\ k \in rust[c].env
      /\ environ' = [environ EXCEPT ![k] = rust[c].saved[k]]
      /\ rust[c].pc \in {"drop", "dropPanic"}
  BY DEF RestoreVar, ToRestore, Changed, Dropping
<1>1. EnvTypes'
  <2> rust[c].saved[k] \in Calls \cup {Unset, AtStart}
    BY <1>t DEF EnvTypes, RustRec
  <2> QED BY <1>t, <1>0 DEF EnvTypes, Guarded
<1> SUFFICES ASSUME Intact' PROVE EnvHeld'
  BY <1>1 DEF EnvInv
<1>2. EnvHeld
  BY <1>0 DEF Intact, EnvInv
<1>3. envLock = c /\ Held(c)
  BY <1>0, <1>2 DEF EnvHeld, HoldersHold, Guarded, HeldPc
<1>4. /\ environ'[k] = StartOf(k)
      /\ \A j \in EnvKeys \ {k} : environ'[j] = environ[j]
  BY <1>t, <1>0, <1>3 DEF EnvTypes, Held
<1>5. HoldersHold'
  BY <1>0, <1>2 DEF EnvHeld, HoldersHold, Guarded
<1>6. Held(c)'
  BY <1>0, <1>3, <1>4 DEF Held, Guarded, EnginePc
<1> QED BY <1>0, <1>3, <1>5, <1>6, CallsAreNoMarks DEF EnvHeld

LEMMA EndKeeps == ASSUME EnvInv, NEW c \in Calls, RustEnd(c) PROVE EnvInv'
<1>t. EnvTypes
  BY DEF EnvInv
<1>0. /\ rust' = [rust EXCEPT ![c].pc = "end"] /\ environ' = environ
      /\ rust[c].pc \in {"drop", "dropPanic"} /\ (Guarded(c) => ToRestore(c) = {})
      /\ envLock' = IF Guarded(c) THEN NoCall ELSE envLock
  BY DEF RustEnd, Dropping
<1>1. /\ rust' \in [Calls -> RustRec] /\ \A d \in Calls \ {c} : rust'[d] = rust[d]
      /\ rust'[c].pc = "end" /\ rust'[c].env = rust[c].env
  BY <1>t, <1>0, Moved
<1>2. CASE ~Guarded(c)
  <2>1. Intact => envLock # c
    BY <1>2 DEF EnvInv, EnvHeld, Held
  <2> QED BY <1>0, <1>1, <1>2, <2>1, Elsewhere DEF HeldPc, EnginePc, environment
<1>3. CASE Guarded(c)
  <2>1. EnvTypes'
    BY <1>t, <1>0, <1>1, <1>3 DEF EnvTypes, Guarded
  <2> SUFFICES ASSUME Intact' PROVE EnvHeld'
    BY <2>1 DEF EnvInv
  <2>2. EnvHeld
    BY <1>0, <1>1 DEF Intact, EnvInv
  <2>3. envLock = c /\ Held(c)
    BY <1>0, <1>3, <2>2 DEF EnvHeld, HoldersHold, HeldPc
  <2>4. \A k \in EnvKeys : environ'[k] = StartOf(k)
    BY <1>0, <1>3, <2>3 DEF Held, ToRestore, Changed
  <2>5. HoldersHold'
    BY <1>1, <2>2, <2>3 DEF EnvHeld, HoldersHold, Guarded, HeldPc, EnginePc
  <2> QED BY <1>0, <1>3, <2>4, <2>5, CallsAreNoMarks DEF EnvHeld
<1> QED BY <1>2, <1>3

-----------------------------------------------------------------------------
\* Every step of a run's thread and of its engine keeps the invariant, and so
\* does a step of anything else.
LEMMA RunKeeps ==
  ASSUME EnvInv, NEW c \in Calls, RustStep(c) \/ RustEngine(c)
  PROVE  EnvInv'
<1>1. CASE RustInvalid(c) \/ RustValid(c) \/ SeedSessionFile(c) \/ Announce(c)
  BY <1>1, BeforeLock
<1>2. CASE Acquire(c)
  BY <1>2, AcquireKeeps
<1>3. CASE \E k \in EnvKeys : SetVar(c, k) \/ RestoreVar(c, k)
  BY <1>3, SetVarKeeps, RestoreKeeps
<1>4. CASE SetVarPanics(c)
  BY <1>4, SetVarPanicKeeps
<1>5. CASE RustLast(c) \/ RustEngine(c)
  BY <1>5, EngineKeeps
<1>6. CASE RustEnd(c)
  BY <1>6, EndKeeps
<1> QED BY <1>1, <1>2, <1>3, <1>4, <1>5, <1>6 DEF RustStep

LEMMA RestKeeps == ASSUME EnvInv, UNCHANGED <<rust, environ, envLock>> PROVE EnvInv'
BY DEF EnvInv, EnvTypes, Intact, EnvHeld, HoldersHold, Held, Guarded

-----------------------------------------------------------------------------
(* The probe.  What it answers is the class of the windows it has read; it *)
(* begins with no windows, which is no limit.                              *)

ProbeInv ==
  /\ probe \in [Probes -> ProbeRec]
  /\ \A c \in Probes : probe[c].answer = classify(probe[c].windows)

\* Resets that are ahead have a least one, which Min chooses.
LEMMA LeastReset ==
  ASSUME NEW S \in SUBSET (Nat \ {0}), S # {}
  PROVE  Min(S) \in S /\ \A r \in S : Min(S) <= r
<1> DEFINE Less == {ss \in Nat \X Nat : ss[1] < ss[2]}
<1>1. IsWellFoundedOn(Less, Nat)
  BY NatLessThanWellFounded DEF OpToRel
<1>2. \E m \in S : \A r \in S : m <= r
  <2>1. PICK m \in S : \A r \in S : ~(<<r, m>> \in Less)
    <3> HIDE DEF Less
    <3> QED BY <1>1, WFMin
  <2>2. ASSUME NEW r \in S PROVE m <= r
    <3>1. m \in Nat /\ r \in Nat
      OBVIOUS
    <3>2. <<r, m>> \notin Less
      BY <2>1
    <3>3. ~(r < m)
      BY <3>1, <3>2
    <3> QED BY <3>1, <3>3
  <2> QED BY <2>2
<1> QED BY <1>2 DEF Min

\* Of windows codexbar may report, the resets that count are positive, and a
\* full window gives one if it names a time to come or none at all.
LEMMA ResetsAreAhead ==
  ASSUME NEW ws \in SUBSET Windows
  PROVE  /\ ResetsAhead(ws) \in SUBSET (Nat \ {0})
         /\ \A w \in ws : w.used >= 100 =>
              /\ w.resets = NoReset => FallbackReset \in ResetsAhead(ws)
              /\ w.resets # NoReset /\ w.resets > 0 => w.resets \in ResetsAhead(ws)
<1>1. \A w \in ws : w.resets \in Int \cup {NoReset}
  BY WindowsAreRecs DEF WindowRec
<1>2. \A w \in ws : parse_resets_at(w) \in Int
  BY <1>1, FallbackIsAhead DEF parse_resets_at
<1>3. ResetsAhead(ws) \in SUBSET (Nat \ {0})
  BY <1>2 DEF ResetsAhead
<1>4. ASSUME NEW w \in ws, w.used >= 100, parse_resets_at(w) > 0
      PROVE  parse_resets_at(w) \in ResetsAhead(ws)
  BY <1>4 DEF ResetsAhead, is_limited
<1>5. ASSUME NEW w \in ws, w.used >= 100, w.resets = NoReset
      PROVE  FallbackReset \in ResetsAhead(ws)
  BY <1>4, <1>5, FallbackIsAhead DEF parse_resets_at
<1>6. ASSUME NEW w \in ws, w.used >= 100, w.resets # NoReset, w.resets > 0
      PROVE  w.resets \in ResetsAhead(ws)
  BY <1>4, <1>6 DEF parse_resets_at
<1> QED BY <1>3, <1>5, <1>6

LEMMA ClassifyIsAnswer ==
  ASSUME NEW ws \in SUBSET Windows
  PROVE  classify(ws) \in [limited : BOOLEAN, reset : Int]
<1>1. CASE ResetsAhead(ws) = {}
  BY <1>1 DEF classify, FreeAnswer
<1>2. CASE ResetsAhead(ws) # {}
  <2>1. Min(ResetsAhead(ws)) \in Int
    BY <1>2, LeastReset, ResetsAreAhead
  <2> QED BY <1>2, <2>1 DEF classify
<1> QED BY <1>1, <1>2

LEMMA ProbeStarts == ProbeInit => ProbeInv
<1> SUFFICES ASSUME ProbeInit PROVE ProbeInv
  OBVIOUS
<1>1. ResetsAhead({}) = {}
  BY DEF ResetsAhead
<1>2. classify({}) = FreeAnswer
  BY <1>1 DEF classify
<1>3. [pc |-> "off", windows |-> {}, answer |-> FreeAnswer] \in ProbeRec
  BY DEF ProbeRec, FreeAnswer
<1> QED BY <1>2, <1>3 DEF ProbeInit, ProbeInv

LEMMA ProbeKeeps ==
  ASSUME ProbeInv, NEW c, ProbeStep(c) \/ ProbeEnvironment(c) \/ UNCHANGED probe
  PROVE  ProbeInv'
<1>1. CASE UNCHANGED probe
  BY <1>1 DEF ProbeInv
<1>2. ASSUME NEW to \in {"poll", "timedOut", "join", "end"}, probe' = [probe EXCEPT ![c].pc = to]
      PROVE  ProbeInv'
  <2>1. CASE c \in Probes
    <3>1. [probe[c] EXCEPT !.pc = to] \in ProbeRec
      BY <2>1 DEF ProbeInv, ProbeRec
    <3> QED BY <1>2, <2>1, <3>1 DEF ProbeInv, ProbeRec
  <2>2. CASE c \notin Probes
    BY <1>1, <1>2, <2>2 DEF ProbeInv
  <2> QED BY <2>1, <2>2
<1>3. CASE ProbeReads(c)
  <2>1. PICK ws \in SUBSET Windows :
          probe' = [probe EXCEPT ![c] = [pc |-> "end", windows |-> ws, answer |-> classify(ws)]]
    BY <1>3 DEF ProbeReads
  <2>2. [pc |-> "end", windows |-> ws, answer |-> classify(ws)] \in ProbeRec
    BY ClassifyIsAnswer DEF ProbeRec
  <2> QED BY <2>1, <2>2 DEF ProbeInv
<1> QED BY <1>1, <1>2, <1>3
    DEF ProbeStep, ProbeEnvironment, ProbeSpawns, ProbeSpawnFails, ProbeSeesExit, ProbeTimeout,
        ProbeTimedOut, ProbeWaitFails, BarHelps, BarExits, ProbeGoes

LEMMA ProbeIsAhead == ProbeInv => LimitIsAhead
<1> SUFFICES ASSUME ProbeInv, NEW c \in Probes
             PROVE  LET full == {w \in probe[c].windows : w.used >= 100} IN
                      /\ probe[c].answer.limited =>
                           /\ probe[c].answer.reset > 0
                           /\ \A w \in full : w.resets # NoReset /\ w.resets > 0 =>
                                w.resets >= probe[c].answer.reset
                      /\ (\E w \in full : w.resets = NoReset) => probe[c].answer.limited
  BY DEF LimitIsAhead
<1> DEFINE ws == probe[c].windows
           ahead == ResetsAhead(ws)
<1>1. ws \in SUBSET Windows /\ probe[c].answer = classify(ws)
  BY DEF ProbeInv, ProbeRec
<1>2. /\ ahead \in SUBSET (Nat \ {0})
      /\ \A w \in ws : w.used >= 100 =>
           /\ w.resets = NoReset => FallbackReset \in ahead
           /\ w.resets # NoReset /\ w.resets > 0 => w.resets \in ahead
  BY <1>1, ResetsAreAhead
<1>3. CASE ahead = {}
  <2>1. ~probe[c].answer.limited
    BY <1>1, <1>3 DEF classify, FreeAnswer
  <2> QED BY <1>2, <1>3, <2>1
<1>4. CASE ahead # {}
  <2>1. Min(ahead) \in ahead /\ \A r \in ahead : Min(ahead) <= r
    BY <1>2, <1>4, LeastReset
  <2>2. probe[c].answer.limited /\ probe[c].answer.reset = Min(ahead)
    BY <1>1, <1>4 DEF classify
  <2>3. \A w \in ws : w.used >= 100 /\ w.resets # NoReset /\ w.resets > 0 =>
          w.resets >= Min(ahead)
    <3> HIDE DEF ahead
    <3> QED BY <1>2, <2>1
  <2>4. Min(ahead) > 0
    <3> HIDE DEF ahead
    <3>1. Min(ahead) \in Nat \ {0}
      BY <1>2, <2>1
    <3> QED BY <3>1
  <2> QED BY <2>2, <2>3, <2>4
<1> QED BY <1>3, <1>4

-----------------------------------------------------------------------------
(* claude in a pane.  The transcripts that a call has not excluded are of  *)
(* the turn its own pane has begun, while no second call looks for a new   *)
(* one; and what was in the transcript of a resumed session when the call  *)
(* began is older than the call, by the times the messages carry.          *)

PaneRec == [state : {"none", "loading", "limit", "prompt", "pasted", "shown", "submitted",
                     "working", "answered", "gone"},
            session : Sessions \cup {NoSession}]
TermPlaces == {"off", "list", "start", "ready", "paste", "visible", "submit", "find", "wait",
               "stop", "Session", "Delta", "Done", "Limit", "Error", "end"}

TermTypes ==
  /\ term \in [Calls -> TermRec] /\ pane \in [Calls -> PaneRec]
  /\ dir \in Seq(Sessions) /\ log \in [Sessions -> Seq(MessageRec)] /\ now \in Nat \ {0}

\* No pane yet; no verdict yet; the turn has begun in the pane.
Early == {"off", "list", "start"}
Undecided == Early \cup {"ready", "paste", "visible", "submit", "find", "wait"}
Begun == {"working", "answered", "gone"}

Course(c) == LET r == term[c] IN
  /\ r.pc \in Early => pane[c].state = "none"
  /\ r.pc \in Undecided => r.verdict = "none" /\ r.texts = {} /\ r.marker = 0
  /\ r.pc = "stop" => r.verdict # "none"
  /\ r.pc = "wait" => r.session \in Sessions
  /\ r.resume => r.pc # "find" /\ (r.pc = "wait" => r.session = Resumed)
  /\ pane[c].state = "working" => pane[c].session \in InDir

Times ==
  \A s \in Sessions : \A i \in 1..Len(log[s]) :
    log[s][i].at <= now /\ (log[s][i].type = "assistant" => log[s][i].at # NoTime)

\* What is behind a call is in the transcript, and older than the call.
Past(c) == LET r == term[c] IN
  r.pc \notin {"off", "list"} =>
    r.behind <= Len(log[Resumed]) /\ \A i \in 1..r.behind : log[Resumed][i].at < r.after

NewAnswer(c) == LET r == term[c] IN
  r.resume => \A i \in r.texts \cup ({r.marker} \ {0}) : i > r.behind

OnlyFresh(c) == Fresh(c) /\ \A d \in Calls : Fresh(d) => d = c
OwnTurn(c) == LET r == term[c] IN
  OnlyFresh(c) =>
    /\ r.pc # "list" =>
         \A s \in InDir \ r.exclude : s = pane[c].session /\ pane[c].state \in Begun
    /\ r.pc = "wait" \/ r.verdict = "Session" =>
         r.session = pane[c].session /\ pane[c].state \in Begun

FewFresh == IsFiniteSet({c \in Calls : Fresh(c)})

TermCalls == \A c \in Calls : Course(c) /\ Past(c) /\ NewAnswer(c) /\ OwnTurn(c)
TermInv == TermTypes /\ Resumed \in InDir /\ Times /\ FewFresh /\ TermCalls

-----------------------------------------------------------------------------
LEMMA JoinedParts ==
  ASSUME NEW S, NEW one \in Seq(S), NEW two \in Seq(S)
  PROVE  /\ one \o two \in Seq(S) /\ Len(one \o two) = Len(one) + Len(two)
         /\ Len(one) \in Nat /\ Len(two) \in Nat
         /\ \A i \in 1..(Len(one) + Len(two)) :
              (one \o two)[i] = IF i <= Len(one) THEN one[i] ELSE two[i - Len(one)]
OBVIOUS

\* Writing to a transcript keeps the others in the directory.
MovedBack(q, s) == Append(RemoveFirst(q, s), s)
Elements(q) == {q[i] : i \in 1..Len(q)}

LEMMA MovedBackHolds ==
  ASSUME NEW S, NEW q \in Seq(S), NEW s \in S
  PROVE  MovedBack(q, s) \in Seq(S) /\ Elements(MovedBack(q, s)) = Elements(q) \cup {s}
<1> DEFINE new == Append(RemoveFirst(q, s), s)
           at == {i \in 1..Len(q) : q[i] = s}
<1>1. CASE at = {}
  <2>1. RemoveFirst(q, s) = q
    BY <1>1 DEF RemoveFirst
  <2>2. new = Append(q, s)
    BY <2>1
  <2> HIDE DEF new
  <2>3. new \in Seq(S) /\ Len(new) = Len(q) + 1 /\ Len(q) \in Nat
        /\ new[Len(q) + 1] = s /\ \A i \in 1..Len(q) : new[i] = q[i]
    BY <2>2
  <2>4. {new[i] : i \in 1..Len(new)} = {q[i] : i \in 1..Len(q)} \cup {s}
    BY <2>3
  <2> QED BY <2>3, <2>4, Zenon DEF new, MovedBack, Elements
<1>2. CASE at # {}
  <2> DEFINE k == Min(at)
  <2>1. k \in 1..Len(q) /\ q[k] = s
    <3>1. at \in SUBSET (Nat \ {0})
      OBVIOUS
    <3>2. Min(at) \in at
      <4> HIDE DEF at
      <4> QED BY <1>2, <3>1, LeastReset
    <3> QED BY <3>2
  <2>2. RemoveFirst(q, s) = RemoveAt(q, k)
    <3>1. SelectInSeq(q, LAMBDA v : v = s) = k
      BY <1>2 DEF SelectInSeq
    <3> QED BY <1>2, <3>1 DEF RemoveFirst
  <2>3. new = Append(SubSeq(q, 1, k - 1) \o SubSeq(q, k + 1, Len(q)), s)
    BY <2>2 DEF RemoveAt
  <2> HIDE DEF k, at, new
  <2>4. /\ SubSeq(q, 1, k - 1) \in Seq(S) /\ Len(SubSeq(q, 1, k - 1)) = k - 1
        /\ \A i \in 1..(k - 1) : SubSeq(q, 1, k - 1)[i] = q[i]
    BY <2>1
  <2>5. /\ SubSeq(q, k + 1, Len(q)) \in Seq(S) /\ Len(SubSeq(q, k + 1, Len(q))) = Len(q) - k
        /\ \A i \in 1..(Len(q) - k) : SubSeq(q, k + 1, Len(q))[i] = q[k + i]
    BY <2>1
  <2>6. /\ new \in Seq(S) /\ Len(new) = Len(q) /\ Len(q) \in Nat /\ new[Len(q)] = s
        /\ \A i \in 1..(k - 1) : new[i] = q[i]
        /\ \A i \in k..(Len(q) - 1) : new[i] = q[i + 1]
    <3> DEFINE one == SubSeq(q, 1, k - 1)
               two == SubSeq(q, k + 1, Len(q))
    <3>1. one \in Seq(S) /\ two \in Seq(S) /\ Len(one) = k - 1 /\ Len(two) = Len(q) - k
          /\ (\A i \in 1..(k - 1) : one[i] = q[i]) /\ (\A i \in 1..(Len(q) - k) : two[i] = q[k + i])
      BY <2>4, <2>5
    <3>2. new = Append(one \o two, s)
      BY <2>3
    <3> HIDE DEF one, two
    <3>3. /\ one \o two \in Seq(S) /\ Len(one \o two) = Len(q) - 1
          /\ \A i \in 1..(k - 1) : (one \o two)[i] = one[i]
          /\ \A i \in 1..(Len(q) - k) : (one \o two)[k - 1 + i] = two[i]
      <4>1. /\ one \o two \in Seq(S) /\ Len(one \o two) = Len(one) + Len(two)
            /\ Len(one) \in Nat /\ Len(two) \in Nat
            /\ \A i \in 1..(Len(one) + Len(two)) :
                 (one \o two)[i] = IF i <= Len(one) THEN one[i] ELSE two[i - Len(one)]
        BY <3>1, JoinedParts
      <4>2. Len(q) \in Nat
        OBVIOUS
      <4>3. ASSUME NEW i \in 1..(Len(q) - k) PROVE (one \o two)[k - 1 + i] = two[i]
        <5>1. k - 1 + i \in 1..(Len(one) + Len(two)) /\ ~(k - 1 + i <= Len(one))
              /\ (k - 1 + i) - Len(one) = i
          <6>1. k \in 1..Len(q) /\ Len(one) = k - 1 /\ Len(two) = Len(q) - k
            BY <2>1, <3>1
          <6> QED BY <4>2, <6>1
        <5> QED BY <4>1, <5>1
      <4>4. \A i \in 1..(k - 1) : (one \o two)[i] = one[i]
        BY <2>1, <3>1, <4>1, <4>2
      <4> QED BY <2>1, <3>1, <4>1, <4>3, <4>4
    <3> DEFINE both == one \o two
    <3>4. /\ both \in Seq(S) /\ Len(both) = Len(q) - 1 /\ new = Append(both, s)
          /\ \A i \in 1..(k - 1) : both[i] = q[i]
          /\ \A i \in 1..(Len(q) - k) : both[k - 1 + i] = q[k + i]
      BY <3>1, <3>2, <3>3
    <3> HIDE DEF both
    <3>5. \A i \in k..(Len(q) - 1) : both[i] = q[i + 1]
      <4> TAKE i \in k..(Len(q) - 1)
      <4>1. i - k + 1 \in 1..(Len(q) - k) /\ k - 1 + (i - k + 1) = i /\ k + (i - k + 1) = i + 1
        BY <2>1
      <4> QED BY <3>4, <4>1
    <3> QED BY <2>1, <3>4, <3>5
  <2>7. {new[i] : i \in 1..Len(new)} \subseteq {q[i] : i \in 1..Len(q)} \cup {s}
    <3> SUFFICES ASSUME NEW i \in 1..Len(new) PROVE new[i] \in {q[j] : j \in 1..Len(q)} \cup {s}
      OBVIOUS
    <3>1. CASE i < k
      BY <2>1, <2>6, <3>1
    <3>2. CASE i >= k /\ i < Len(q)
      <4>1. new[i] = q[i + 1] /\ i + 1 \in 1..Len(q)
        BY <2>1, <2>6, <3>2
      <4> QED BY <4>1
    <3>3. CASE i = Len(q)
      BY <2>6, <3>3
    <3> QED BY <2>1, <2>6, <3>1, <3>2, <3>3
  <2>8. {q[i] : i \in 1..Len(q)} \cup {s} \subseteq {new[i] : i \in 1..Len(new)}
    <3>1. s \in {new[i] : i \in 1..Len(new)}
      BY <2>1, <2>6
    <3>2. ASSUME NEW i \in 1..Len(q) PROVE q[i] \in {new[j] : j \in 1..Len(new)}
      <4>1. CASE i < k
        <5>1. new[i] = q[i] /\ i \in 1..Len(new)
          BY <2>1, <2>6, <4>1
        <5> QED BY <5>1
      <4>2. CASE i = k
        BY <2>1, <3>1, <4>2
      <4>3. CASE i > k
        <5>1. new[i - 1] = q[i] /\ i - 1 \in 1..Len(new)
          <6>1. i - 1 \in k..(Len(q) - 1) /\ (i - 1) + 1 = i
            BY <2>1, <4>3
          <6>2. new[i - 1] = q[(i - 1) + 1]
            BY <2>6, <6>1
          <6> QED BY <2>1, <2>6, <6>1, <6>2
        <5> QED BY <5>1
      <4> QED BY <2>1, <4>1, <4>2, <4>3
    <3> QED BY <3>1, <3>2
  <2>9. {new[i] : i \in 1..Len(new)} = {q[i] : i \in 1..Len(q)} \cup {s}
    BY <2>7, <2>8, Zenon
  <2> QED BY <2>6, <2>9, Zenon DEF new, MovedBack, Elements
<1> QED BY <1>1, <1>2

-----------------------------------------------------------------------------
LEMMA TermStarts == TermInit => TermInv
<1> SUFFICES ASSUME TermInit PROVE TermInv
  OBVIOUS
<1>1. EarlierTurn \in Seq(MessageRec)
  <2>1. /\ [type |-> "assistant", at |-> 1] \in MessageRec
        /\ [type |-> "result", at |-> NoTime] \in MessageRec
        /\ [type |-> "turn_duration", at |-> NoTime] \in MessageRec
    BY DEF MessageRec, NoTime
  <2> QED BY <2>1 DEF EarlierTurn
<1>2. TermTypes
  <2>1. [pc |-> "off", resume |-> FALSE, after |-> 0, exclude |-> {}, failures |-> 0,
         session |-> NoSession, verdict |-> "none", texts |-> {}, marker |-> 0,
         behind |-> 0] \in TermRec
    BY DEF TermRec
  <2>2. term \in [Calls -> TermRec]
    BY <2>1 DEF TermInit
  <2>3. pane \in [Calls -> PaneRec]
    BY DEF TermInit, PaneRec
  <2>4. dir \in Seq(Sessions) /\ now \in Nat \ {0}
    BY ResumedIsSession DEF TermInit
  <2>5. log \in [Sessions -> Seq(MessageRec)]
    BY <1>1 DEF TermInit
  <2> QED BY <2>2, <2>3, <2>4, <2>5 DEF TermTypes
<1>3. Resumed \in InDir
  BY DEF TermInit, InDir
<1>4. Times
  <2> SUFFICES ASSUME NEW s \in Sessions, NEW i \in 1..Len(log[s])
               PROVE  /\ log[s][i].at <= now
                      /\ log[s][i].type = "assistant" => log[s][i].at # NoTime
    BY DEF Times
  <2>1. now = 1
    BY DEF TermInit
  <2>2. log[s] = <<>> \/ log[s] = EarlierTurn
    BY DEF TermInit
  <2>3. log[s] = EarlierTurn /\ i \in 1..3
    <3>1. Len(EarlierTurn) = 3
      BY DEF EarlierTurn
    <3>2. log[s] # <<>>
      <4>1. ~(\E j \in 1..Len(<<>>) : TRUE)
        OBVIOUS
      <4> QED BY <4>1
    <3> QED BY <2>2, <3>1, <3>2
  <2>4. EarlierTurn[i] \in {[type |-> "assistant", at |-> 1], [type |-> "result", at |-> NoTime],
                            [type |-> "turn_duration", at |-> NoTime]}
    BY <2>3 DEF EarlierTurn
  <2> QED BY <2>1, <2>3, <2>4 DEF NoTime
<1>5. \A c \in Calls : term[c].pc = "off" /\ term[c].verdict = "none" /\ term[c].texts = {}
                       /\ term[c].marker = 0 /\ ~term[c].resume /\ pane[c].state = "none"
  BY DEF TermInit
<1>6. FewFresh
  <2>1. {c \in Calls : Fresh(c)} = {}
    BY <1>5 DEF Fresh
  <2> QED BY <2>1, FS_EmptySet DEF FewFresh
<1>7. TermCalls
  BY <1>5 DEF TermCalls, Course, Past, NewAnswer, OwnTurn, OnlyFresh, Fresh, Early, Undecided
<1> QED BY <1>2, <1>3, <1>4, <1>6, <1>7 DEF TermInv

-----------------------------------------------------------------------------
(* What the steps of a call do *)

OnlyPane(c) == \A d \in Calls \ {c} : term'[d] = term[d] /\ pane'[d] = pane[d]
KeepsNotes(c) ==
  /\ term'[c].resume = term[c].resume /\ term'[c].session = term[c].session
  /\ term'[c].exclude = term[c].exclude /\ term'[c].after = term[c].after
  /\ term'[c].behind = term[c].behind
  /\ term'[c].texts = term[c].texts /\ term'[c].marker = term[c].marker

\* Most steps leave all that the call has found out, and go forward.
Plain(c) ==
  /\ term' \in [Calls -> TermRec] /\ pane' \in [Calls -> PaneRec]
  /\ OnlyPane(c) /\ UNCHANGED shared /\ KeepsNotes(c)
  /\ term[c].pc # "off" /\ term[c].pc # "list"
  /\ term'[c].pc \notin Early \cup {"find", "wait"}
  /\ \/ term[c].pc \in Undecided /\ term'[c].verdict = term[c].verdict /\ term'[c].pc # "stop"
     \/ term'[c].verdict \in {"Limit", "Error"} /\ term'[c].pc = "stop"
     \/ term'[c].verdict = term[c].verdict /\ term'[c].pc \notin Undecided \cup {"stop"}
  /\ pane'[c].session = pane[c].session
  /\ pane[c].state \in Begun => pane'[c].state \in Begun
  /\ pane'[c].state = "working" => pane[c].state = "working"

LEMMA GoesDoes ==
  ASSUME TermTypes, NEW c \in Calls, NEW from, NEW to \in TermPlaces, TermGoes(c, from, to)
  PROVE  /\ term' \in [Calls -> TermRec] /\ \A d \in Calls \ {c} : term'[d] = term[d]
         /\ term[c].pc = from /\ term'[c].pc = to /\ term'[c].verdict = term[c].verdict
         /\ KeepsNotes(c)
<1>1. term[c] \in TermRec /\ term \in [Calls -> TermRec]
  BY DEF TermTypes
<1>2. term' = [term EXCEPT ![c] = [term[c] EXCEPT !.pc = to, !.failures = 0]]
  BY DEF TermGoes
<1>3. [term[c] EXCEPT !.pc = to, !.failures = 0] \in TermRec
  BY <1>1 DEF TermRec, TermPlaces
<1> QED BY <1>1, <1>2, <1>3 DEF TermGoes, KeepsNotes, TermRec

LEMMA EndsDoes ==
  ASSUME TermTypes, NEW c \in Calls, NEW from, NEW v \in {"Limit", "Error"},
         TermEnds(c, from, v)
  PROVE  /\ term' \in [Calls -> TermRec] /\ \A d \in Calls \ {c} : term'[d] = term[d]
         /\ term[c].pc = from /\ term'[c].pc = "stop" /\ term'[c].verdict = v
         /\ KeepsNotes(c)
<1>1. term[c] \in TermRec /\ term \in [Calls -> TermRec]
  BY DEF TermTypes
<1>2. term' = [term EXCEPT ![c] = [term[c] EXCEPT !.pc = "stop", !.verdict = v, !.failures = 0]]
  BY DEF TermEnds
<1>3. [term[c] EXCEPT !.pc = "stop", !.verdict = v, !.failures = 0] \in TermRec
  BY <1>1 DEF TermRec
<1> QED BY <1>1, <1>2, <1>3 DEF TermEnds, KeepsNotes, TermRec

LEMMA PaneDoes ==
  ASSUME TermTypes, NEW c \in Calls,
         NEW s \in {"none", "loading", "limit", "prompt", "pasted", "shown", "submitted",
                    "working", "answered", "gone"},
         pane' = [pane EXCEPT ![c].state = s]
  PROVE  /\ pane' \in [Calls -> PaneRec] /\ \A d \in Calls \ {c} : pane'[d] = pane[d]
         /\ pane'[c].state = s /\ pane'[c].session = pane[c].session
<1>1. pane[c] \in PaneRec /\ pane \in [Calls -> PaneRec]
  BY DEF TermTypes
<1>2. pane' = [pane EXCEPT ![c] = [pane[c] EXCEPT !.state = s]]
  OBVIOUS
<1>3. [pane[c] EXCEPT !.state = s] \in PaneRec
  BY <1>1 DEF PaneRec
<1> QED BY <1>1, <1>2, <1>3 DEF PaneRec

PlainStep(c) ==
  \/ TermStartPane(c) \/ CaptureFails(c) \/ CaptureShowsNothing(c)
  \/ WaitForReady(c) \/ PasteText(c) \/ WaitForPasteVisible(c) \/ ScreenTimeout(c)
  \/ (Submit(c) /\ TermEnds(c, "submit", "Error")) \/ FindTimeout(c)
  \/ (TurnTimeout(c) /\ TermEnds(c, "wait", "Error")) \/ StopPane(c) \/ TermSends(c)

LEMMA PlainSteps ==
  ASSUME TermTypes, NEW c \in Calls, Course(c), PlainStep(c)
  PROVE  Plain(c)
<1>0. pane \in [Calls -> PaneRec] /\ term \in [Calls -> TermRec]
  BY DEF TermTypes
<1>1. ASSUME NEW from \in Undecided \ {"off", "list"}, NEW v \in {"Limit", "Error"},
             TermEnds(c, from, v), UNCHANGED <<pane, shared>>
      PROVE  Plain(c)
  BY <1>0, <1>1, EndsDoes DEF Plain, OnlyPane, Undecided, Early
<1>2. ASSUME NEW from \in {"ready", "paste", "visible"},
             NEW to \in {"ready", "paste", "visible", "submit"}, TermGoes(c, from, to),
             UNCHANGED <<pane, shared>>
      PROVE  Plain(c)
  <2>1. to \in TermPlaces
    BY DEF TermPlaces
  <2> QED BY <1>0, <1>2, <2>1, GoesDoes DEF Plain, OnlyPane, Undecided, Early
<1>3. ASSUME NEW from \in {"Session", "Delta", "Done", "Limit", "Error"},
             NEW to \in {"Delta", "Done", "end"}, TermGoes(c, from, to), UNCHANGED <<pane, shared>>
      PROVE  Plain(c)
  <2>1. to \in TermPlaces
    BY DEF TermPlaces
  <2> QED BY <1>0, <1>3, <2>1, GoesDoes DEF Plain, OnlyPane, Undecided, Early
<1>4. CASE TermStartPane(c)
  <2>1. pane[c].state = "none" /\ UNCHANGED shared
    BY <1>4 DEF TermStartPane, TermGoes, Course, Early
  <2>2. CASE TermGoes(c, "start", "ready") /\ pane' = [pane EXCEPT ![c].state = "loading"]
    <3>1. "ready" \in TermPlaces
      BY DEF TermPlaces
    <3>2. /\ pane' \in [Calls -> PaneRec] /\ \A d \in Calls \ {c} : pane'[d] = pane[d]
          /\ pane'[c].state = "loading" /\ pane'[c].session = pane[c].session
      BY <2>2, PaneDoes
    <3> QED BY <2>1, <2>2, <3>1, <3>2, GoesDoes DEF Plain, OnlyPane, Undecided, Early, Begun
  <2>3. CASE TermGoes(c, "start", "Error") /\ UNCHANGED pane
    <3>1. "Error" \in TermPlaces
      BY DEF TermPlaces
    <3> QED BY <1>0, <2>1, <2>3, <3>1, GoesDoes DEF Plain, OnlyPane, Undecided, Early
  <2> QED BY <1>4, <2>2, <2>3 DEF TermStartPane
<1>5. CASE CaptureFails(c)
  <2>1. term[c].pc \in {"ready", "visible"} /\ UNCHANGED <<pane, shared>>
    BY <1>5 DEF CaptureFails
  <2>2. CASE TermEnds(c, term[c].pc, "Error")
    BY <1>1, <2>1, <2>2 DEF Undecided, Early
  <2>3. CASE term' = [term EXCEPT ![c].failures = @ + 1]
    <3>1. term[c] \in TermRec
      BY <1>0
    <3>2. term[c].failures + 1 \in Nat
      BY <3>1 DEF TermRec
    <3>3. [term[c] EXCEPT !.failures = term[c].failures + 1] \in TermRec
      BY <3>1, <3>2 DEF TermRec
    <3>4. term' = [term EXCEPT ![c] = [term[c] EXCEPT !.failures = term[c].failures + 1]]
      BY <2>3
    <3>5. /\ term' \in [Calls -> TermRec] /\ term'[c].pc = term[c].pc
          /\ term'[c].verdict = term[c].verdict /\ KeepsNotes(c)
          /\ \A d \in Calls \ {c} : term'[d] = term[d]
      BY <1>0, <3>1, <3>3, <3>4 DEF KeepsNotes, TermRec
    <3> QED BY <1>0, <2>1, <3>5 DEF Plain, OnlyPane, Undecided, Early
  <2> QED BY <1>5, <2>2, <2>3 DEF CaptureFails
<1>6. CASE CaptureShowsNothing(c)
  <2>1. term[c].pc \in {"ready", "visible"}
    BY <1>6 DEF CaptureShowsNothing, Waiting
  <2> QED BY <1>2, <1>6, <2>1 DEF CaptureShowsNothing
<1>7. CASE WaitForReady(c)
  BY <1>1, <1>2, <1>7 DEF WaitForReady, Undecided, Early
<1>8. CASE PasteText(c)
  <2>1. UNCHANGED shared
    BY <1>8 DEF PasteText
  <2>2. /\ pane' \in [Calls -> PaneRec] /\ \A d \in Calls \ {c} : pane'[d] = pane[d]
        /\ pane'[c].session = pane[c].session
        /\ pane[c].state \in Begun => pane'[c].state \in Begun
        /\ pane'[c].state = "working" => pane[c].state = "working"
    <3>1. CASE UNCHANGED pane
      BY <1>0, <3>1
    <3>2. CASE pane[c].state = "prompt" /\ pane' = [pane EXCEPT ![c].state = "pasted"]
      BY <3>2, PaneDoes DEF Begun
    <3> QED BY <1>8, <3>1, <3>2 DEF PasteText
  <2>3. CASE TermGoes(c, "paste", "visible")
    <3>1. "visible" \in TermPlaces
      BY DEF TermPlaces
    <3> QED BY <2>1, <2>2, <2>3, <3>1, GoesDoes DEF Plain, OnlyPane, Undecided, Early
  <2>4. CASE TermEnds(c, "paste", "Error")
    BY <2>1, <2>2, <2>4, EndsDoes DEF Plain, OnlyPane, Undecided, Early
  <2> QED BY <1>8, <2>3, <2>4 DEF PasteText
<1>9. CASE WaitForPasteVisible(c)
  BY <1>2, <1>9 DEF WaitForPasteVisible
<1>10. CASE ScreenTimeout(c)
  BY <1>1, <1>10 DEF ScreenTimeout, Undecided, Early
<1>11. CASE Submit(c) /\ TermEnds(c, "submit", "Error")
  <2>1. UNCHANGED pane
    <3>1. term'[c].pc = "stop"
      BY <1>11, EndsDoes
    <3>2. CASE term' = [term EXCEPT ![c].pc = "wait", ![c].session = Resumed]
      BY <1>0, <3>1, <3>2 DEF TermRec
    <3>3. CASE term' = [term EXCEPT ![c].pc = "find"]
      BY <1>0, <3>1, <3>3 DEF TermRec
    <3> QED BY <1>11, <3>2, <3>3 DEF Submit
  <2> QED BY <1>1, <1>11, <2>1 DEF Submit, Undecided, Early
<1>12. CASE FindTimeout(c) \/ (TurnTimeout(c) /\ TermEnds(c, "wait", "Error"))
  <2>1. UNCHANGED <<pane, shared>>
    BY <1>12 DEF FindTimeout, TurnTimeout, Answers
  <2> QED BY <1>1, <1>12, <2>1 DEF FindTimeout, Undecided, Early
<1>13. CASE StopPane(c)
  <2>1. term[c].pc = "stop" /\ term[c].verdict \in {"Session", "Limit", "Error"}
    BY <1>0, <1>13 DEF StopPane, TermGoes, Course, TermRec
  <2>2. term[c].verdict \in TermPlaces
    BY <2>1 DEF TermPlaces
  <2>3. /\ TermGoes(c, "stop", term[c].verdict) /\ pane' = [pane EXCEPT ![c].state = "gone"]
        /\ UNCHANGED shared
    BY <1>13 DEF StopPane
  <2>4. /\ pane' \in [Calls -> PaneRec] /\ \A d \in Calls \ {c} : pane'[d] = pane[d]
        /\ pane'[c].state = "gone" /\ pane'[c].session = pane[c].session
    BY <2>3, PaneDoes
  <2> QED BY <2>1, <2>2, <2>3, <2>4, GoesDoes DEF Plain, OnlyPane, Undecided, Early, Begun
<1>14. CASE TermSends(c)
  BY <1>3, <1>14 DEF TermSends, TermChunk, TermLast
<1> QED BY <1>4, <1>5, <1>6, <1>7, <1>8, <1>9, <1>10, <1>11, <1>12, <1>13, <1>14 DEF PlainStep

-----------------------------------------------------------------------------
(* A step of one call, for the other calls and for itself *)

LEMMA OthersStay ==
  ASSUME TermInv, NEW d \in Calls, term'[d] = term[d], pane'[d] = pane[d], InDir \subseteq InDir',
         Len(log'[Resumed]) \in Nat, Len(log[Resumed]) <= Len(log'[Resumed]),
         \A i \in 1..Len(log[Resumed]) : log'[Resumed][i] = log[Resumed][i]
  PROVE  Course(d)' /\ Past(d)' /\ NewAnswer(d)'
<1>1. Course(d) /\ Past(d) /\ NewAnswer(d) /\ term[d] \in TermRec /\ log[Resumed] \in Seq(MessageRec)
  BY ResumedIsSession DEF TermInv, TermCalls, TermTypes
<1>2. term[d].behind \in Nat /\ Len(log[Resumed]) \in Nat
  BY <1>1 DEF TermRec
<1>3. Course(d)'
  BY <1>1 DEF Course
<1>4. Past(d)'
  BY <1>1, <1>2 DEF Past
<1>5. NewAnswer(d)'
  BY <1>1 DEF NewAnswer
<1> QED BY <1>3, <1>4, <1>5

LEMMA OwnStays ==
  ASSUME TermInv, NEW d \in Calls, term'[d] = term[d], pane'[d] = pane[d], InDir' = InDir,
         \A e \in Calls : Fresh(e) => Fresh(e)'
  PROVE  OwnTurn(d)'
<1>1. OwnTurn(d)
  BY DEF TermInv, TermCalls
<1>2. OnlyFresh(d)' => OnlyFresh(d)
  BY DEF OnlyFresh, Fresh
<1> QED BY <1>1, <1>2 DEF OwnTurn

LEMMA FewStay ==
  ASSUME FewFresh, NEW c \in Calls, \A d \in Calls \ {c} : term'[d] = term[d]
  PROVE  FewFresh'
<1> DEFINE old == {d \in Calls : Fresh(d)}
           new == {d \in Calls : Fresh(d)'}
<1>1. IsFiniteSet(old \cup {c})
  BY FS_AddElement DEF FewFresh
<1>2. new \subseteq old \cup {c}
  BY DEF Fresh
<1>3. IsFiniteSet(new)
  BY <1>1, <1>2, FS_Subset
<1> QED BY <1>3 DEF FewFresh

\* A step that leaves the transcripts alone keeps the invariant if it does for
\* the call that takes it.
LEMMA CallKeeps ==
  ASSUME TermInv, NEW c \in Calls, OnlyPane(c), UNCHANGED <<dir, log>>, now' \in Nat, now <= now',
         term' \in [Calls -> TermRec], pane' \in [Calls -> PaneRec],
         term[c].pc # "off" => term'[c].resume = term[c].resume /\ term'[c].pc # "off",
         Course(c)', Past(c)', NewAnswer(c)', OwnTurn(c)'
  PROVE  TermInv'
<1>1. TermTypes /\ Resumed \in InDir /\ Times /\ FewFresh
  BY DEF TermInv
<1>2. TermTypes'
  BY <1>1 DEF TermTypes
<1>3. InDir' = InDir
  BY DEF InDir
<1>4. Times'
  <2> SUFFICES ASSUME NEW s \in Sessions, NEW i \in 1..Len(log[s])
               PROVE  /\ log[s][i].at <= now'
                      /\ log[s][i].type = "assistant" => log[s][i].at # NoTime
    BY DEF Times
  <2>1. log[s][i] \in MessageRec
    BY <1>1 DEF TermTypes
  <2>2. log[s][i].at \in Nat /\ now \in Nat
    BY <1>1, <2>1 DEF MessageRec, TermTypes
  <2> QED BY <1>1, <2>2 DEF Times
<1>5. FewFresh'
  BY <1>1, FewStay DEF OnlyPane
<1>6. \A e \in Calls : Fresh(e) => Fresh(e)'
  BY DEF Fresh, OnlyPane
<1>7. ASSUME NEW d \in Calls \ {c}
      PROVE  Course(d)' /\ Past(d)' /\ NewAnswer(d)' /\ OwnTurn(d)'
  <2>1. term'[d] = term[d] /\ pane'[d] = pane[d]
    BY DEF OnlyPane
  <2>2. log[Resumed] \in Seq(MessageRec)
    BY <1>1, ResumedIsSession DEF TermTypes
  <2>3. Len(log'[Resumed]) \in Nat /\ Len(log[Resumed]) <= Len(log'[Resumed])
        /\ \A i \in 1..Len(log[Resumed]) : log'[Resumed][i] = log[Resumed][i]
    BY <2>2
  <2>4. OwnTurn(d)'
    BY <1>3, <1>6, <2>1, OwnStays
  <2> QED BY <1>3, <2>1, <2>3, <2>4, OthersStay
<1>8. TermCalls'
  BY <1>7 DEF TermCalls
<1> QED BY <1>1, <1>2, <1>3, <1>4, <1>5, <1>8 DEF TermInv

LEMMA CallInv ==
  ASSUME TermInv, NEW c \in Calls
  PROVE  /\ term \in [Calls -> TermRec] /\ pane \in [Calls -> PaneRec]
         /\ term[c] \in TermRec /\ pane[c] \in PaneRec
         /\ Course(c) /\ Past(c) /\ NewAnswer(c) /\ OwnTurn(c) /\ TermTypes
         /\ now \in Nat /\ now <= now
BY DEF TermInv, TermCalls, TermTypes

LEMMA InTermRec ==
  ASSUME TermInv, NEW c \in Calls
  PROVE  term[c] \in TermRec
BY CallInv

LEMMA PlainKeeps ==
  ASSUME TermInv, NEW c \in Calls, Plain(c)
  PROVE  TermInv'
<1>1. InDir' = InDir /\ UNCHANGED <<dir, log, now>>
  BY DEF Plain, shared, InDir
<1>2. Course(c)'
  BY <1>1, CallInv DEF Course, Plain, KeepsNotes, Undecided, Early
<1>3. Past(c)'
  BY <1>1, CallInv DEF Past, Plain, KeepsNotes
<1>4. NewAnswer(c)'
  BY CallInv DEF NewAnswer, Plain, KeepsNotes
<1>5. OwnTurn(c)'
  <2> SUFFICES ASSUME OnlyFresh(c)' PROVE OwnTurn(c)'
    BY DEF OwnTurn
  <2>1. OnlyFresh(c)
    BY DEF OnlyFresh, Fresh, Plain, OnlyPane, KeepsNotes
  <2>2. /\ \A s \in InDir \ term[c].exclude : s = pane[c].session /\ pane[c].state \in Begun
        /\ term[c].pc = "wait" \/ term[c].verdict = "Session" =>
             term[c].session = pane[c].session /\ pane[c].state \in Begun
    BY <2>1, CallInv DEF OwnTurn, Plain
  <2>3. \A s \in InDir \ term'[c].exclude : s = pane'[c].session /\ pane'[c].state \in Begun
    BY <2>2 DEF Plain, KeepsNotes
  <2>4. term'[c].pc = "wait" \/ term'[c].verdict = "Session" =>
          term'[c].session = pane'[c].session /\ pane'[c].state \in Begun
    BY <2>2 DEF Plain, KeepsNotes
  <2> QED BY <1>1, <2>3, <2>4 DEF OwnTurn
<1> QED BY <1>1, <1>2, <1>3, <1>4, <1>5, CallInv, CallKeeps DEF Plain, KeepsNotes, Early

LEMMA TermStartKeeps ==
  ASSUME TermInv, NEW c \in Calls, NEW resume \in BOOLEAN, TermStart(c, resume)
  PROVE  TermInv'
<1>1. /\ UNCHANGED <<pane, dir, log, now>> /\ InDir' = InDir /\ term[c].pc = "off"
      /\ term' = [term EXCEPT ![c] = [term[c] EXCEPT !.pc = "list", !.resume = resume]]
  BY DEF TermStart, shared, InDir
<1>2. [term[c] EXCEPT !.pc = "list", !.resume = resume] \in TermRec
  BY InTermRec, ZenonT(60) DEF TermRec
<1>3. /\ term' \in [Calls -> TermRec] /\ \A d \in Calls \ {c} : term'[d] = term[d]
      /\ term'[c].pc = "list" /\ term'[c].verdict = "none" /\ term'[c].texts = {}
      /\ term'[c].marker = 0 /\ pane[c].state = "none"
  BY <1>1, <1>2, CallInv DEF TermRec, Course, Undecided, Early
<1>4. Course(c)' /\ Past(c)' /\ NewAnswer(c)' /\ OwnTurn(c)'
  BY <1>1, <1>3 DEF Course, Past, NewAnswer, OwnTurn, Undecided, Early
<1> QED BY <1>1, <1>3, <1>4, CallInv, CallKeeps DEF OnlyPane

LEMMA ListKeeps ==
  ASSUME TermInv, NEW c \in Calls, TermList(c)
  PROVE  TermInv'
<1>1. /\ UNCHANGED <<pane, dir, log>> /\ InDir' = InDir /\ term[c].pc = "list" /\ now' = now + 1
      /\ term' = [term EXCEPT ![c] = [term[c] EXCEPT !.pc = "start", !.exclude = InDir,
                                        !.after = now + 1, !.behind = Len(log[Resumed])]]
  BY DEF TermList, InDir
<1>2. /\ now + 1 \in Nat /\ InDir \in SUBSET Sessions /\ log[Resumed] \in Seq(MessageRec)
      /\ Len(log[Resumed]) \in Nat
  BY CallInv, ResumedIsSession DEF TermTypes, InDir
<1>3. [term[c] EXCEPT !.pc = "start", !.exclude = InDir, !.after = now + 1,
                      !.behind = Len(log[Resumed])] \in TermRec
  BY <1>2, InTermRec, ZenonT(60) DEF TermRec
<1>4. /\ term' \in [Calls -> TermRec] /\ \A d \in Calls \ {c} : term'[d] = term[d]
      /\ term'[c].pc = "start" /\ term'[c].verdict = "none" /\ term'[c].texts = {}
      /\ term'[c].marker = 0 /\ pane[c].state = "none" /\ term'[c].resume = term[c].resume
      /\ term'[c].exclude = InDir /\ term'[c].after = now + 1
      /\ term'[c].behind = Len(log[Resumed])
  BY <1>1, <1>3, CallInv DEF TermRec, Course, Undecided, Early
<1>5. Course(c)' /\ NewAnswer(c)' /\ OwnTurn(c)'
  BY <1>1, <1>4 DEF Course, NewAnswer, OwnTurn, Undecided, Early
<1>6. Past(c)'
  <2>1. \A i \in 1..Len(log[Resumed]) : log[Resumed][i].at \in Nat /\ log[Resumed][i].at <= now
    <3>1. \A i \in 1..Len(log[Resumed]) : log[Resumed][i] \in MessageRec
      BY <1>2
    <3>2. Times
      BY DEF TermInv
    <3> QED BY <3>1, <3>2, ResumedIsSession DEF Times, MessageRec
  <2>2. \A i \in 1..Len(log[Resumed]) : log[Resumed][i].at < now + 1
    BY <2>1, CallInv
  <2> QED BY <1>1, <1>2, <1>4, <2>2 DEF Past
<1>7. now' \in Nat /\ now <= now'
  BY <1>1, <1>2, CallInv
<1> QED BY <1>1, <1>4, <1>5, <1>6, <1>7, CallInv, CallKeeps DEF OnlyPane

LEMMA SubmitKeeps ==
  ASSUME TermInv, NEW c \in Calls, Submit(c)
  PROVE  TermInv'
<1>1. CASE TermEnds(c, "submit", "Error")
  BY <1>1, CallInv, PlainSteps, PlainKeeps DEF PlainStep
<1>2. CASE ~TermEnds(c, "submit", "Error")
  <2>1. /\ term[c].pc = "submit" /\ UNCHANGED <<dir, log, now>> /\ InDir' = InDir
        /\ pane' = [pane EXCEPT ![c].state = IF @ = "shown" THEN "submitted" ELSE @]
        /\ \/ term[c].resume /\ term' = [term EXCEPT ![c] = [term[c] EXCEPT !.pc = "wait",
                                                                            !.session = Resumed]]
           \/ ~term[c].resume /\ term' = [term EXCEPT ![c] = [term[c] EXCEPT !.pc = "find"]]
    <3>1. /\ term[c].pc = "submit" /\ UNCHANGED <<dir, log, now>>
          /\ pane' = [pane EXCEPT ![c].state = IF @ = "shown" THEN "submitted" ELSE @]
          /\ term' = IF term[c].resume
                     THEN [term EXCEPT ![c].pc = "wait", ![c].session = Resumed]
                     ELSE [term EXCEPT ![c].pc = "find"]
      BY <1>2 DEF Submit, shared
    <3>2. CASE term[c].resume
      BY <3>1, <3>2 DEF InDir
    <3>3. CASE ~term[c].resume
      BY <3>1, <3>3 DEF InDir
    <3> QED BY <3>2, <3>3
  <2>2. PICK s \in {"none", "loading", "limit", "prompt", "pasted", "shown", "submitted",
                    "working", "answered", "gone"} :
          /\ pane' = [pane EXCEPT ![c].state = s]
          /\ s # pane[c].state => s = "submitted"
    <3>1. pane' = [pane EXCEPT ![c].state = IF pane[c].state = "shown" THEN "submitted"
                                              ELSE pane[c].state]
      BY <2>1
    <3>2. pane[c] \in PaneRec
      BY CallInv
    <3>3. CASE pane[c].state = "shown"
      BY <3>1, <3>2, <3>3 DEF PaneRec
    <3>4. CASE pane[c].state # "shown"
      BY <3>1, <3>2, <3>4 DEF PaneRec
    <3> QED BY <3>3, <3>4
  <2>3. /\ pane' \in [Calls -> PaneRec] /\ \A d \in Calls \ {c} : pane'[d] = pane[d]
        /\ pane'[c].state = "working" => pane[c].state = "working"
        /\ pane'[c].session = pane[c].session
        /\ pane'[c].state \in Begun => pane[c].state \in Begun
        /\ pane[c].state \in Begun => pane'[c].state \in Begun
    <3>1. /\ pane' \in [Calls -> PaneRec] /\ \A d \in Calls \ {c} : pane'[d] = pane[d]
          /\ pane'[c].state = s /\ pane'[c].session = pane[c].session
      BY <2>2, CallInv, PaneDoes
    <3>2. pane[c].state \in Begun => s \in Begun
      <4>1. pane[c].state # "shown" => s = pane[c].state
        <5>1. pane' = [pane EXCEPT ![c].state = IF pane[c].state = "shown" THEN "submitted"
                                                  ELSE pane[c].state]
          BY <2>1
        <5> QED BY <3>1, <5>1, CallInv DEF PaneRec
      <4> QED BY <4>1 DEF Begun
    <3> QED BY <2>2, <3>1, <3>2 DEF Begun
  <2>4. [term[c] EXCEPT !.pc = "wait", !.session = Resumed] \in TermRec
    BY InTermRec, ResumedIsSession, ZenonT(60) DEF TermRec
  <2>5. [term[c] EXCEPT !.pc = "find"] \in TermRec
    BY InTermRec, ZenonT(60) DEF TermRec
  <2>6. /\ term' \in [Calls -> TermRec] /\ \A d \in Calls \ {c} : term'[d] = term[d]
        /\ term'[c].verdict = "none" /\ term'[c].texts = {} /\ term'[c].marker = 0
        /\ term'[c].resume = term[c].resume /\ term'[c].exclude = term[c].exclude
        /\ term'[c].after = term[c].after /\ term'[c].behind = term[c].behind
        /\ \/ term'[c].pc = "wait" /\ term'[c].session = Resumed /\ term[c].resume
           \/ term'[c].pc = "find" /\ ~term[c].resume
    <3>1. term[c].verdict = "none" /\ term[c].texts = {} /\ term[c].marker = 0
      BY <2>1, CallInv DEF Course, Undecided, Early
    <3>2. CASE term[c].resume
      <4>1. term' = [term EXCEPT ![c] = [term[c] EXCEPT !.pc = "wait", !.session = Resumed]]
        BY <2>1, <3>2
      <4>2. term[c] \in TermRec /\ term \in [Calls -> TermRec]
        BY CallInv
      <4>3. term' \in [Calls -> TermRec] /\ \A d \in Calls \ {c} : term'[d] = term[d]
        BY <2>4, <4>1, <4>2
      <4>4. term'[c] = [term[c] EXCEPT !.pc = "wait", !.session = Resumed]
        BY <4>1, <4>2
      <4>5. /\ term'[c].pc = "wait" /\ term'[c].session = Resumed
            /\ term'[c].verdict = term[c].verdict /\ term'[c].texts = term[c].texts
            /\ term'[c].marker = term[c].marker /\ term'[c].resume = term[c].resume
            /\ term'[c].exclude = term[c].exclude /\ term'[c].after = term[c].after
            /\ term'[c].behind = term[c].behind
        BY <4>2, <4>4 DEF TermRec
      <4> QED BY <3>1, <3>2, <4>3, <4>5
    <3>3. CASE ~term[c].resume
      <4>1. term' = [term EXCEPT ![c] = [term[c] EXCEPT !.pc = "find"]]
        BY <2>1, <3>3
      <4>2. term[c] \in TermRec /\ term \in [Calls -> TermRec]
        BY CallInv
      <4>3. term' \in [Calls -> TermRec] /\ \A d \in Calls \ {c} : term'[d] = term[d]
        BY <2>5, <4>1, <4>2
      <4>4. term'[c] = [term[c] EXCEPT !.pc = "find"]
        BY <4>1, <4>2
      <4> QED BY <3>1, <3>3, <4>2, <4>3, <4>4 DEF TermRec
    <3> QED BY <3>2, <3>3
  <2>7. Course(c)'
    BY <2>1, <2>3, <2>6, CallInv, ResumedIsSession DEF Course, Undecided, Early
  <2>8. Past(c)' /\ NewAnswer(c)'
    BY <2>1, <2>6, CallInv DEF Past, NewAnswer
  <2>9. OwnTurn(c)'
    <3> SUFFICES ASSUME OnlyFresh(c)' PROVE OwnTurn(c)'
      BY DEF OwnTurn
    <3>1. OnlyFresh(c) /\ term'[c].pc = "find"
      BY <2>1, <2>6 DEF OnlyFresh, Fresh
    <3>2. \A t \in InDir \ term[c].exclude : t = pane[c].session /\ pane[c].state \in Begun
      BY <2>1, <3>1, CallInv DEF OwnTurn
    <3> QED BY <2>1, <2>3, <2>6, <3>1, <3>2 DEF OwnTurn
  <2> QED BY <2>1, <2>3, <2>6, <2>7, <2>8, <2>9, CallInv, CallKeeps DEF OnlyPane
<1> QED BY <1>1, <1>2

LEMMA FindKeeps ==
  ASSUME TermInv, NEW c \in Calls, FindSession(c)
  PROVE  TermInv'
<1>1. PICK i \in 1..Len(dir) :
        /\ IsCandidate(c, dir[i])
        /\ term' = [term EXCEPT ![c] = [term[c] EXCEPT !.pc = "wait", !.session = dir[i]]]
  BY DEF FindSession
<1>2. /\ term[c].pc = "find" /\ UNCHANGED <<pane, dir, log, now>> /\ InDir' = InDir
      /\ ~term[c].resume /\ dir[i] \in Sessions /\ dir[i] \in InDir
      /\ dir[i] \notin term[c].exclude
  BY <1>1, CallInv DEF FindSession, shared, InDir, Course, TermTypes, IsCandidate
<1>3. [term[c] EXCEPT !.pc = "wait", !.session = dir[i]] \in TermRec
  BY <1>2, InTermRec, ZenonT(60) DEF TermRec
<1>4. /\ term' \in [Calls -> TermRec] /\ \A d \in Calls \ {c} : term'[d] = term[d]
      /\ term'[c].pc = "wait" /\ term'[c].session = dir[i]
      /\ term'[c].verdict = "none" /\ term'[c].texts = {} /\ term'[c].marker = 0
      /\ term'[c].resume = term[c].resume /\ term'[c].exclude = term[c].exclude
      /\ term'[c].after = term[c].after /\ term'[c].behind = term[c].behind
  BY <1>1, <1>2, <1>3, CallInv DEF TermRec, Course, Undecided, Early
<1>5. Course(c)' /\ Past(c)' /\ NewAnswer(c)'
  BY <1>2, <1>4, CallInv DEF Course, Past, NewAnswer, Undecided, Early
<1>6. OwnTurn(c)'
  <2> SUFFICES ASSUME OnlyFresh(c)' PROVE OwnTurn(c)'
    BY DEF OwnTurn
  <2>1. OnlyFresh(c)
    BY <1>2, <1>4 DEF OnlyFresh, Fresh
  <2>2. \A t \in InDir \ term[c].exclude : t = pane[c].session /\ pane[c].state \in Begun
    BY <1>2, <2>1, CallInv DEF OwnTurn
  <2> QED BY <1>2, <1>4, <2>2 DEF OwnTurn
<1> QED BY <1>2, <1>4, <1>5, <1>6, CallInv, CallKeeps DEF OnlyPane

\* What the scan counts for a resumed session came after the call began.
LEMMA ScannedIsNew ==
  ASSUME TermInv, NEW c \in Calls, term[c].pc = "wait", NEW type, NEW i \in Scanned(c, type)
  PROVE  i \in Nat \ {0} /\ (term[c].resume => i > term[c].behind)
<1> DEFINE s == term[c].session
<1>1. s \in Sessions /\ log[s] \in Seq(MessageRec) /\ (term[c].resume => s = Resumed)
  BY CallInv DEF Course, TermTypes
<1>2. i \in 1..Len(log[s]) /\ log[s][i].type = type
      /\ IF type = "assistant" THEN msg_in_window(c, log[s][i]) ELSE marker_in_window(c, log[s][i])
  BY DEF Scanned
<1> HIDE DEF s
<1>3. log[s][i] \in MessageRec /\ i \in Nat \ {0}
  BY <1>1, <1>2
<1>4. log[s][i].at >= term[c].after
  <2>1. log[s][i].type = "assistant" => log[s][i].at # NoTime
    BY <1>1, <1>2 DEF TermInv, Times
  <2> QED BY <1>2, <2>1 DEF msg_in_window, marker_in_window
<1>5. ASSUME term[c].resume, ~(i > term[c].behind) PROVE FALSE
  <2>1. term[c].behind \in Nat /\ term[c].after \in Nat /\ log[s][i].at \in Nat
    BY <1>3, CallInv DEF TermRec, MessageRec
  <2>2. i \in 1..term[c].behind
    BY <1>3, <1>5, <2>1
  <2>3. log[s][i].at < term[c].after
    BY <1>1, <1>5, <2>2, CallInv DEF Past
  <2> QED BY <1>4, <2>1, <2>3
<1> QED BY <1>3, <1>5

LEMMA AnswersKeep ==
  ASSUME TermInv, NEW c \in Calls,
         NEW m \in Scanned(c, "result") \cup Scanned(c, "turn_duration") \cup {0}, Answers(c, m)
  PROVE  TermInv'
<1> DEFINE texts == Scanned(c, "assistant")
<1>1. /\ term[c].pc = "wait" /\ UNCHANGED <<pane, dir, log, now>> /\ InDir' = InDir
      /\ term' = [term EXCEPT ![c] = [term[c] EXCEPT !.pc = "stop", !.verdict = "Session",
                                                     !.texts = texts, !.marker = m]]
  BY DEF Answers, shared, InDir
<1>2. /\ texts \in SUBSET Nat /\ m \in Nat
      /\ term[c].resume => \A i \in texts \cup ({m} \ {0}) : i > term[c].behind
  BY <1>1, ScannedIsNew
<1> HIDE DEF texts
<1>3. [term[c] EXCEPT !.pc = "stop", !.verdict = "Session", !.texts = texts,
                      !.marker = m] \in TermRec
  <2>1. texts \in SUBSET Nat /\ m \in Nat /\ term[c] \in TermRec
    BY <1>2, CallInv
  <2> HIDE <1>2
  <2> QED BY <2>1 DEF TermRec
<1>4. /\ term' \in [Calls -> TermRec] /\ \A d \in Calls \ {c} : term'[d] = term[d]
      /\ term'[c].pc = "stop" /\ term'[c].session = term[c].session
      /\ term'[c].verdict = "Session" /\ term'[c].texts = texts /\ term'[c].marker = m
      /\ term'[c].resume = term[c].resume /\ term'[c].exclude = term[c].exclude
      /\ term'[c].after = term[c].after /\ term'[c].behind = term[c].behind
  BY <1>1, <1>3, CallInv DEF TermRec
<1>5. Course(c)' /\ Past(c)'
  BY <1>1, <1>4, CallInv DEF Course, Past, Undecided, Early
<1>6. NewAnswer(c)'
  BY <1>2, <1>4 DEF NewAnswer
<1>7. OwnTurn(c)'
  <2> SUFFICES ASSUME OnlyFresh(c)' PROVE OwnTurn(c)'
    BY DEF OwnTurn
  <2>1. OnlyFresh(c)
    BY <1>1, <1>4 DEF OnlyFresh, Fresh
  <2>2. /\ \A t \in InDir \ term[c].exclude : t = pane[c].session /\ pane[c].state \in Begun
        /\ term[c].session = pane[c].session /\ pane[c].state \in Begun
    BY <1>1, <2>1, CallInv DEF OwnTurn
  <2> QED BY <1>1, <1>4, <2>2 DEF OwnTurn
<1> QED BY <1>1, <1>4, <1>5, <1>6, <1>7, CallInv, CallKeeps DEF OnlyPane

LEMMA WaitKeeps ==
  ASSUME TermInv, NEW c \in Calls, TurnEnded(c) \/ TurnTimeout(c)
  PROVE  TermInv'
<1>1. CASE TurnTimeout(c) /\ TermEnds(c, "wait", "Error")
  BY <1>1, CallInv, PlainSteps, PlainKeeps DEF PlainStep
<1>2. CASE ~(TurnTimeout(c) /\ TermEnds(c, "wait", "Error"))
  <2>1. \E m \in Scanned(c, "result") \cup Scanned(c, "turn_duration") \cup {0} : Answers(c, m)
    BY <1>2 DEF TurnEnded, TurnTimeout
  <2> QED BY <2>1, AnswersKeep
<1> QED BY <1>1, <1>2

LEMMA TermStepKeeps ==
  ASSUME TermInv, NEW c \in Calls, TermStep(c)
  PROVE  TermInv'
<1>1. CASE PlainStep(c)
  BY <1>1, CallInv, PlainSteps, PlainKeeps
<1>2. CASE ~PlainStep(c)
  BY <1>2, ListKeeps, SubmitKeeps, FindKeeps, WaitKeeps DEF TermStep, PlainStep
<1> QED BY <1>1, <1>2

-----------------------------------------------------------------------------
(* The command line in its pane *)

LEMMA ShowsKeep ==
  ASSUME TermInv, NEW c \in Calls, PaneShows(c)
  PROVE  TermInv'
<1>1. PICK s \in {"limit", "prompt", "shown"} : pane' = [pane EXCEPT ![c].state = s]
  BY DEF PaneShows
<1>2. /\ UNCHANGED <<term, dir, log, now>> /\ InDir' = InDir
      /\ pane[c].state \in {"loading", "pasted"}
  BY DEF PaneShows, shared, InDir
<1>3. /\ pane' \in [Calls -> PaneRec] /\ \A d \in Calls \ {c} : pane'[d] = pane[d]
      /\ pane'[c].state = s /\ pane'[c].session = pane[c].session
  BY <1>1, CallInv, PaneDoes
<1>4. Course(c)' /\ Past(c)' /\ NewAnswer(c)'
  BY <1>2, <1>3, CallInv DEF Course, Past, NewAnswer
<1>5. OwnTurn(c)'
  <2>1. OnlyFresh(c)' => OnlyFresh(c)
    BY <1>2 DEF OnlyFresh, Fresh
  <2> QED BY <1>2, <1>3, <2>1, CallInv DEF OwnTurn, Begun
<1> QED BY <1>2, <1>3, <1>4, <1>5, CallInv, CallKeeps DEF OnlyPane

LEMMA TouchedDir ==
  ASSUME TermTypes, NEW s \in Sessions, dir' = Touched(s)
  PROVE  dir' \in Seq(Sessions) /\ InDir' = InDir \cup {s}
<1>1. dir \in Seq(Sessions) /\ dir' = MovedBack(dir, s)
  BY DEF TermTypes, Touched, MovedBack
<1>2. MovedBack(dir, s) \in Seq(Sessions) /\ Elements(MovedBack(dir, s)) = Elements(dir) \cup {s}
  BY <1>1, MovedBackHolds
<1>3. InDir = Elements(dir) /\ InDir' = Elements(dir')
  BY Zenon DEF InDir, Elements
<1> QED BY <1>1, <1>2, <1>3

\* The pane of a call in a new state, and a session written to.
LEMMA PaneWorks ==
  ASSUME TermInv, NEW c \in Calls, NEW r \in PaneRec, pane' = [pane EXCEPT ![c] = r]
  PROVE  /\ pane' \in [Calls -> PaneRec] /\ pane'[c] = r
         /\ \A d \in Calls \ {c} : pane'[d] = pane[d]
BY CallInv

LEMMA BeginsKeep ==
  ASSUME TermInv, NEW c \in Calls, TurnBegins(c)
  PROVE  TermInv'
<1>1. PICK s \in Sessions :
        /\ IF term[c].resume THEN s = Resumed ELSE s \notin InDir
        /\ pane' = [pane EXCEPT ![c] = [state |-> "working", session |-> s]]
        /\ dir' = Touched(s)
  BY DEF TurnBegins
<1>2. UNCHANGED <<term, log, now>> /\ pane[c].state = "submitted"
  BY DEF TurnBegins
<1>3. TermTypes /\ Resumed \in InDir /\ Times /\ FewFresh
  BY DEF TermInv
<1>4. dir' \in Seq(Sessions) /\ InDir' = InDir \cup {s}
  BY <1>1, <1>3, TouchedDir
<1>5. /\ pane' \in [Calls -> PaneRec] /\ \A d \in Calls \ {c} : pane'[d] = pane[d]
      /\ pane'[c].state = "working" /\ pane'[c].session = s
  <2>1. [state |-> "working", session |-> s] \in PaneRec
    BY DEF PaneRec
  <2> QED BY <1>1, <2>1, PaneWorks
<1>6. TermTypes'
  BY <1>2, <1>3, <1>4, <1>5 DEF TermTypes
<1>7. Times' /\ FewFresh' /\ Resumed \in InDir'
  BY <1>2, <1>3, <1>4 DEF Times, FewFresh, Fresh
<1>8. ASSUME NEW d \in Calls
      PROVE  Course(d)' /\ Past(d)' /\ NewAnswer(d)'
  <2>1. CASE d = c
    BY <1>2, <1>4, <1>5, <2>1, CallInv DEF Course, Past, NewAnswer, Early
  <2>2. CASE d # c
    <3>1. Len(log[Resumed]) \in Nat
      BY <1>3, ResumedIsSession DEF TermTypes
    <3> QED BY <1>2, <1>4, <1>5, <2>2, <3>1, OthersStay
  <2> QED BY <2>1, <2>2
<1>9. ASSUME NEW d \in Calls PROVE OwnTurn(d)'
  <2>1. CASE term[c].resume
    <3>1. InDir' = InDir
      BY <1>1, <1>3, <1>4, <2>1
    <3>2. CASE d = c
      <4>1. ~OnlyFresh(d)'
        BY <1>2, <2>1, <3>2 DEF OnlyFresh, Fresh
      <4> QED BY <4>1 DEF OwnTurn
    <3>3. CASE d # c
      BY <1>2, <1>5, <3>1, <3>3, OwnStays DEF Fresh
    <3> QED BY <3>2, <3>3
  <2>2. CASE ~term[c].resume
    <3>1. Fresh(c)
      <4>1. term[c].pc # "off"
        BY <1>2, CallInv DEF Course, Early
      <4> QED BY <2>2, <4>1 DEF Fresh
    <3>2. CASE d # c
      <4>1. ~OnlyFresh(d)'
        BY <1>2, <3>1, <3>2 DEF OnlyFresh, Fresh
      <4> QED BY <4>1 DEF OwnTurn
    <3>3. CASE d = c
      <4> SUFFICES ASSUME OnlyFresh(c)' PROVE OwnTurn(c)'
        BY <3>3 DEF OwnTurn
      <4>1. OnlyFresh(c)
        BY <1>2 DEF OnlyFresh, Fresh
      <4>2. /\ term[c].pc # "list" => InDir \subseteq term[c].exclude
            /\ ~(term[c].pc = "wait" \/ term[c].verdict = "Session")
        BY <1>2, <4>1, CallInv DEF OwnTurn, Begun
      <4> QED BY <1>2, <1>4, <1>5, <4>2 DEF OwnTurn, Begun
    <3> QED BY <3>2, <3>3
  <2> QED BY <2>1, <2>2
<1> QED BY <1>6, <1>7, <1>8, <1>9 DEF TermInv, TermCalls

LEMMA WritesKeeps ==
  ASSUME TermInv, NEW c \in Calls, NEW type \in {"assistant", "result", "turn_duration"},
         Writes(c, type)
  PROVE  TermInv'
<1> DEFINE s == pane[c].session
           m == [type |-> type, at |-> now]
           r == [pane[c] EXCEPT !.state = IF type = "assistant" THEN "working" ELSE "answered"]
<1>1. /\ pane[c].state = "working" /\ UNCHANGED <<term, now>>
      /\ log' = [log EXCEPT ![s] = Append(log[s], m)] /\ dir' = Touched(s)
      /\ pane' = [pane EXCEPT ![c] = r]
  BY DEF Writes
<1>2. TermTypes /\ Resumed \in InDir /\ Times /\ FewFresh
  BY DEF TermInv
<1>3. s \in InDir /\ s \in Sessions
  <2>1. s \in InDir
    BY <1>1, CallInv DEF Course
  <2> QED BY <1>2, <2>1 DEF InDir, TermTypes
<1>4. /\ pane' \in [Calls -> PaneRec] /\ \A d \in Calls \ {c} : pane'[d] = pane[d]
      /\ pane'[c].session = s /\ pane'[c].state \in {"working", "answered"}
  <2>1. r \in PaneRec
    BY CallInv DEF PaneRec
  <2>2. r.session = s /\ r.state \in {"working", "answered"}
    BY CallInv DEF PaneRec
  <2> HIDE DEF r, s
  <2> QED BY <1>1, <2>1, <2>2, PaneWorks
<1>5. dir' \in Seq(Sessions) /\ InDir' = InDir
  <2> HIDE DEF s
  <2>1. dir' \in Seq(Sessions) /\ InDir' = InDir \cup {s}
    BY <1>1, <1>2, <1>3, TouchedDir
  <2> QED BY <1>3, <2>1
<1>6. m \in MessageRec /\ m.at = now /\ m.type = type /\ now \in Nat \ {0}
  BY <1>2 DEF MessageRec, TermTypes
<1> HIDE DEF m, r
<1>7. \A t \in Sessions :
        /\ log'[t] \in Seq(MessageRec) /\ Len(log[t]) \in Nat /\ Len(log'[t]) \in Nat
        /\ Len(log[t]) <= Len(log'[t])
        /\ \A i \in 1..Len(log[t]) : log'[t][i] = log[t][i]
        /\ \A i \in 1..Len(log'[t]) : log'[t][i] = m \/ i \in 1..Len(log[t])
  <2> HIDE DEF s
  <2> TAKE t \in Sessions
  <2>1. log[t] \in Seq(MessageRec)
    BY <1>2 DEF TermTypes
  <2>2. CASE t = s
    <3>1. log'[t] = Append(log[t], m)
      BY <1>1, <1>2, <2>2 DEF TermTypes
    <3> QED BY <1>6, <2>1, <3>1
  <2>3. CASE t # s
    <3>1. log'[t] = log[t]
      BY <1>1, <1>2, <2>3 DEF TermTypes
    <3> QED BY <2>1, <3>1
  <2> QED BY <2>2, <2>3
<1>8. TermTypes'
  <2>1. log' \in [Sessions -> Seq(MessageRec)]
    <3>1. DOMAIN log' = Sessions
      BY <1>1, <1>2 DEF TermTypes
    <3>2. log' = [t \in Sessions |-> log'[t]]
      BY <1>1, <1>2, <3>1 DEF TermTypes
    <3> QED BY <1>7, <3>2
  <2> QED BY <1>1, <1>2, <1>4, <1>5, <2>1 DEF TermTypes
<1>9. Times'
  <2> SUFFICES ASSUME NEW t \in Sessions, NEW i \in 1..Len(log'[t])
               PROVE  /\ log'[t][i].at <= now
                      /\ log'[t][i].type = "assistant" => log'[t][i].at # NoTime
    BY <1>1 DEF Times
  <2>1. CASE log'[t][i] = m
    BY <1>6, <2>1 DEF NoTime
  <2>2. CASE i \in 1..Len(log[t])
    <3>1. log'[t][i] = log[t][i]
      BY <1>7, <2>2
    <3> QED BY <1>2, <2>2, <3>1 DEF Times
  <2> QED BY <1>7, <2>1, <2>2
<1>10. FewFresh' /\ Resumed \in InDir'
  BY <1>1, <1>2, <1>5 DEF FewFresh, Fresh
<1>11. ASSUME NEW d \in Calls
       PROVE  Course(d)' /\ Past(d)' /\ NewAnswer(d)' /\ OwnTurn(d)'
  <2>1. CASE d # c
    <3>1. Course(d)' /\ Past(d)' /\ NewAnswer(d)'
      BY <1>1, <1>4, <1>5, <1>7, <2>1, OthersStay, ResumedIsSession
    <3>2. OwnTurn(d)'
      BY <1>1, <1>4, <1>5, <2>1, OwnStays DEF Fresh
    <3> QED BY <3>1, <3>2
  <2>2. CASE d = c
    <3>1. Course(c)' /\ NewAnswer(c)'
      BY <1>1, <1>3, <1>4, <1>5, CallInv DEF Course, NewAnswer, Early
    <3>2. Past(c)'
      <4>1. log[Resumed] \in Seq(MessageRec) /\ term[c].behind \in Nat
            /\ Len(log[Resumed]) <= Len(log'[Resumed])
            /\ (\A i \in 1..Len(log[Resumed]) : log'[Resumed][i] = log[Resumed][i])
            /\ Len(log[Resumed]) \in Nat /\ Len(log'[Resumed]) \in Nat
        BY <1>2, <1>7, CallInv, ResumedIsSession DEF TermTypes, TermRec
      <4> QED BY <1>1, <4>1, CallInv DEF Past
    <3>3. OwnTurn(c)'
      <4>1. OnlyFresh(c)' => OnlyFresh(c)
        BY <1>1 DEF OnlyFresh, Fresh
      <4> QED BY <1>1, <1>4, <1>5, <4>1, CallInv DEF OwnTurn, Begun
    <3> QED BY <2>2, <3>1, <3>2, <3>3
  <2> QED BY <2>1, <2>2
<1> QED BY <1>8, <1>9, <1>10, <1>11 DEF TermInv, TermCalls

LEMMA TermEnvironmentKeeps ==
  ASSUME TermInv, NEW c \in Calls, TermEnvironment(c)
  PROVE  TermInv'
BY ShowsKeep, BeginsKeep, WritesKeeps DEF TermEnvironment

LEMMA TermRests ==
  ASSUME TermInv, UNCHANGED <<term, pane, shared>>
  PROVE  TermInv'
BY DEF TermInv, TermTypes, InDir, Times, FewFresh, Fresh, TermCalls, Course, Past, NewAnswer,
       OwnTurn, OnlyFresh, shared

LEMMA AnswersAreNew == TermInv => AnswerIsFresh
BY DEF TermInv, TermCalls, NewAnswer, AnswerIsFresh

LEMMA OwnIsReported == TermInv => ReportedIsOwn
<1> SUFFICES ASSUME TermInv, Cardinality({d \in Calls : Fresh(d)}) <= 1,
                    NEW c \in Calls, Fresh(c), term[c].verdict = "Session"
             PROVE  term[c].session = pane[c].session
  BY DEF ReportedIsOwn
<1> DEFINE fresh == {d \in Calls : Fresh(d)}
<1>1. IsFiniteSet(fresh) /\ c \in fresh
  BY DEF TermInv, FewFresh
<1>2. \A d \in fresh : d = c
  <2> SUFFICES ASSUME NEW d \in fresh, d # c PROVE FALSE
    OBVIOUS
  <2>1. {c, d} \subseteq fresh
    BY <1>1
  <2>2. Cardinality({c, d}) = 2
    <3>1. IsFiniteSet({c}) /\ Cardinality({c}) = 1
      BY FS_Singleton
    <3>2. Cardinality({c} \cup {d}) = 1 + 1
      BY <3>1, FS_AddElement
    <3>3. {c} \cup {d} = {c, d}
      OBVIOUS
    <3> QED BY <3>2, <3>3
  <2>3. Cardinality({c, d}) <= Cardinality(fresh)
    BY <1>1, <2>1, FS_Subset
  <2> QED BY <1>1, <2>2, <2>3, FS_CardinalityType
<1>3. OnlyFresh(c)
  BY <1>2 DEF OnlyFresh
<1> QED BY <1>3, CallInv DEF OwnTurn

-----------------------------------------------------------------------------
(* The calls *)

CallTypes == call \in [Calls -> CallRec]

-----------------------------------------------------------------------------
(* The environment *)

\* A step that starts an in-process run does so with variables of EnvKeys.
LEMMA StartsRun ==
  ASSUME CallTypes, EnvInv, NEW c \in Calls, NEW e, NEW s, StartPiRust(c, e, s)
  PROVE  EnvInv'
<1>1. call[c].plan \in Plan
  BY DEF CallTypes, CallRec
<1>2. /\ call[c].plan.env \in SUBSET EnvKeys /\ call[c].plan.resume \in BOOLEAN
      /\ (call[c].plan.valid /\ Level("pi-rust", e, s) \in PiLevels) \in BOOLEAN
  BY <1>1 DEF Plan
<1> QED BY <1>2, StartKeeps DEF StartPiRust

\* Every step keeps the plans and the invariant of the environment.
LEMMA DispatchKeepsEnv ==
  ASSUME CallTypes, EnvInv, [DispatchNext]_allVars
  PROVE  CallTypes' /\ EnvInv'
<1>1. CASE UNCHANGED <<call, rustVars>>
  BY <1>1, RestKeeps DEF rustVars, CallTypes
<1>2. ASSUME NEW c \in Calls, Probed(c) \/ Refuse(c) \/ StartRpc(c) \/ StartClaude(c)
                               \/ StartHeadless(c) \/ StartTerminal(c)
      PROVE  CallTypes' /\ EnvInv'
  <2>1. UNCHANGED rustVars
    BY <1>2 DEF Probed, Refuse, StartRpc, StartClaude, StartHeadless, StartTerminal, backends
  <2>2. PICK p \in {"resolved", "open", "elsewhere", "skipped"} : call' = [call EXCEPT ![c].pc = p]
    BY <1>2 DEF Probed, Refuse, StartRpc, StartClaude, StartHeadless, StartTerminal, Starts
  <2>3. CallTypes'
    BY <2>2 DEF CallTypes, CallRec
  <2> QED BY <2>1, <2>3, RestKeeps DEF rustVars
<1>3. ASSUME NEW c \in Calls, NEW e, NEW s, StartPiRust(c, e, s)
      PROVE  CallTypes' /\ EnvInv'
  <2>1. call' = [call EXCEPT ![c].pc = "open"]
    BY <1>3 DEF StartPiRust, Starts
  <2>2. CallTypes'
    BY <2>1 DEF CallTypes, CallRec
  <2> QED BY <1>3, <2>2, StartsRun
<1>4. ASSUME NEW c \in Calls, PiRust(c, RustStep(c)) \/ PiRust(c, RustEngine(c))
      PROVE  CallTypes' /\ EnvInv'
  <2>1. CallTypes'
    BY <1>4 DEF PiRust, callVars, CallTypes
  <2> QED BY <1>4, <2>1, RunKeeps DEF PiRust
<1>5. ASSUME NEW c \in Calls,
             \/ Probing(c, ProbeStep(c)) \/ Probing(c, ProbeEnvironment(c))
             \/ ReaderLeaves(c) \/ Cancel(c) \/ Agent(c, Next)
             \/ Headless(c, HeadStep(c, cancelled[c])) \/ Headless(c, HeadEnvironment(c))
             \/ Terminal(c, TermStep(c)) \/ Terminal(c, TermEnvironment(c))
      PROVE  UNCHANGED <<call, rustVars>>
  BY <1>5 DEF Probing, ReaderLeaves, Cancel, Agent, Headless, Terminal, callVars, backends
<1>6. ASSUME Bridging(TRUE) PROVE UNCHANGED <<call, rustVars>>
  BY <1>6 DEF Bridging, callVars
<1>7. CASE UNCHANGED allVars
  BY <1>1, <1>7 DEF allVars, callVars, backends
<1> QED BY <1>1, <1>2, <1>3, <1>4, <1>5, <1>6, <1>7
    DEF DispatchNext, StreamForResolved, Bridging

LEMMA DispatchStartsEnv == DispatchInit => CallTypes /\ EnvInv
<1> SUFFICES ASSUME DispatchInit PROVE CallTypes /\ EnvInv
  OBVIOUS
<1>1. EnvInv
  BY EnvInit DEF DispatchInit
<1>2. PICK s \in Scenarios :
        call = [c \in Calls |-> [plan |-> s[c], pc |-> IF s[c].probed THEN "new" ELSE "resolved"]]
  BY DEF DispatchInit
<1>3. \A c \in Calls : s[c] \in Plan
  BY ScenariosArePlans
<1>4. CallTypes
  BY <1>2, <1>3 DEF CallTypes, CallRec
<1> QED BY <1>1, <1>4

\* Whatever calls run side by side: an in-process engine with variables of its
\* own sees these and the ones of the start, and they are gone with the lock.
THEOREM EnvironmentIsAlwaysIsolated == DispatchSpec => []EnvironmentIsolated
<1>1. DispatchInit => CallTypes /\ EnvInv
  BY DispatchStartsEnv
<1>2. CallTypes /\ EnvInv /\ [DispatchNext]_allVars => CallTypes' /\ EnvInv'
  BY DispatchKeepsEnv
<1>3. EnvInv => EnvironmentIsolated
  BY EnvIsolates
<1> QED BY <1>1, <1>2, <1>3, PTL DEF DispatchSpec

-----------------------------------------------------------------------------
(* The bridge *)

LEMMA DispatchKeepsBridge ==
  ASSUME BridgeInv, [DispatchNext]_allVars
  PROVE  BridgeInv'
<1>1. ASSUME NEW c \in Calls,
             \/ Probing(c, ProbeStep(c)) \/ Probing(c, ProbeEnvironment(c)) \/ Probed(c)
             \/ ReaderLeaves(c) \/ Cancel(c) \/ Agent(c, Next)
             \/ Headless(c, HeadStep(c, cancelled[c])) \/ Headless(c, HeadEnvironment(c))
             \/ Terminal(c, TermStep(c)) \/ Terminal(c, TermEnvironment(c))
             \/ PiRust(c, RustStep(c)) \/ PiRust(c, RustEngine(c))
      PROVE  UNCHANGED bridgeVars
  BY <1>1 DEF Probing, Probed, ReaderLeaves, Cancel, Agent, Headless, Terminal, PiRust, backends
<1>2. ASSUME NEW c \in Calls, StreamForResolved(c)
      PROVE  BridgeUp \/ UNCHANGED bridgeVars
  BY <1>2 DEF StreamForResolved, Refuse, StartRpc, StartClaude, StartHeadless, StartTerminal,
              StartPiRust, backends
<1>3. ASSUME UNCHANGED allVars PROVE UNCHANGED bridgeVars
  BY <1>3 DEF allVars, backends
<1>4. CASE BridgeUp \/ UNCHANGED bridgeVars
  BY <1>4, BridgeKeeps
<1>5. CASE LoopStep \/ DropStops \/ DropStep
  BY <1>5, BridgeKeeps
<1>6. CASE \E p \in Peers : BridgeWorker(p) \/ HandlerReturns(p) \/ PeerConnects(p)
  BY <1>6, BridgeKeeps
<1> QED BY <1>1, <1>2, <1>3, <1>4, <1>5, <1>6 DEF DispatchNext, Bridging

\* However many connections are made and however their workers end: the bridge
\* never runs more handlers at once than its limit.
THEOREM WorkersAreAlwaysBounded == DispatchSpec => []WorkersBounded
<1>1. DispatchInit => BridgeInv
  BY BridgeStarts DEF DispatchInit
<1>2. BridgeInv /\ [DispatchNext]_allVars => BridgeInv'
  BY DispatchKeepsBridge
<1>3. BridgeInv => WorkersBounded
  BY DEF BridgeInv, Counted
<1> QED BY <1>1, <1>2, <1>3, PTL DEF DispatchSpec

-----------------------------------------------------------------------------
(* The probe *)

LEMMA DispatchKeepsProbe ==
  ASSUME ProbeInv, [DispatchNext]_allVars
  PROVE  ProbeInv'
<1>1. ASSUME NEW c \in Calls, Probing(c, ProbeStep(c)) \/ Probing(c, ProbeEnvironment(c))
      PROVE  ProbeInv'
  BY <1>1, ProbeKeeps DEF Probing
<1>2. ASSUME NEW c \in Calls,
             \/ Probed(c) \/ StreamForResolved(c)
             \/ ReaderLeaves(c) \/ Cancel(c) \/ Agent(c, Next)
             \/ Headless(c, HeadStep(c, cancelled[c])) \/ Headless(c, HeadEnvironment(c))
             \/ Terminal(c, TermStep(c)) \/ Terminal(c, TermEnvironment(c))
             \/ PiRust(c, RustStep(c)) \/ PiRust(c, RustEngine(c))
      PROVE  UNCHANGED probe
  BY <1>2 DEF Probed, StreamForResolved, Refuse, StartRpc, StartClaude, StartHeadless,
              StartTerminal, StartPiRust, Starts, ReaderLeaves, Cancel, Agent, Headless, Terminal,
              PiRust, backends, probeVars
<1>3. ASSUME UNCHANGED allVars \/ Bridging(TRUE) PROVE UNCHANGED probe
  BY <1>3 DEF Bridging, allVars, backends, probeVars
<1>4. CASE UNCHANGED probe
  BY <1>4, ProbeKeeps
<1> QED BY <1>1, <1>2, <1>3, <1>4 DEF DispatchNext, Bridging

\* Whatever windows codexbar reports and whatever else runs: a limit lies ahead,
\* no full window frees up before it, and a full window without a known reset
\* is a limit.
THEOREM LimitsAreAhead == DispatchSpec => []LimitIsAhead
<1>1. DispatchInit => ProbeInv
  BY ProbeStarts DEF DispatchInit
<1>2. ProbeInv /\ [DispatchNext]_allVars => ProbeInv'
  BY DispatchKeepsProbe
<1>3. ProbeInv => LimitIsAhead
  BY ProbeIsAhead
<1> QED BY <1>1, <1>2, <1>3, PTL DEF DispatchSpec

-----------------------------------------------------------------------------
(* The terminals *)

LEMMA DispatchKeepsTerm ==
  ASSUME CallTypes, TermInv, [DispatchNext]_allVars
  PROVE  TermInv'
<1>1. ASSUME NEW c \in Calls,
             \/ Probing(c, ProbeStep(c)) \/ Probing(c, ProbeEnvironment(c)) \/ Probed(c)
             \/ ReaderLeaves(c) \/ Cancel(c) \/ Agent(c, Next)
             \/ Headless(c, HeadStep(c, cancelled[c])) \/ Headless(c, HeadEnvironment(c))
             \/ PiRust(c, RustStep(c)) \/ PiRust(c, RustEngine(c))
      PROVE  UNCHANGED termVars
  BY <1>1 DEF Probing, Probed, ReaderLeaves, Cancel, Agent, Headless, PiRust, backends
<1>2. ASSUME NEW c \in Calls, StreamForResolved(c)
      PROVE  TermInv'
  <2>1. CASE UNCHANGED termVars
    BY <2>1, TermRests DEF termVars
  <2>2. CASE TermStart(c, call[c].plan.resume)
    <3>1. call[c].plan.resume \in BOOLEAN
      BY DEF CallTypes, CallRec, Plan
    <3> QED BY <2>2, <3>1, TermStartKeeps
  <2>3. UNCHANGED termVars \/ TermStart(c, call[c].plan.resume)
    BY <1>2 DEF StreamForResolved, Refuse, StartRpc, StartClaude, StartHeadless, StartTerminal,
                StartPiRust, backends
  <2> QED BY <2>1, <2>2, <2>3
<1>3. ASSUME UNCHANGED allVars \/ Bridging(TRUE) PROVE UNCHANGED termVars
  BY <1>3 DEF Bridging, allVars, backends
<1>4. CASE UNCHANGED termVars
  BY <1>4, TermRests DEF termVars
<1>5. ASSUME NEW c \in Calls, Terminal(c, TermStep(c)) \/ Terminal(c, TermEnvironment(c))
      PROVE  TermInv'
  BY <1>5, TermStepKeeps, TermEnvironmentKeeps DEF Terminal
<1> QED BY <1>1, <1>2, <1>3, <1>4, <1>5 DEF DispatchNext, Bridging

LEMMA TermCorrect == DispatchSpec => []TermInv
<1>1. DispatchInit => CallTypes /\ EnvInv /\ TermInv
  BY DispatchStartsEnv, TermStarts DEF DispatchInit
<1>2. CallTypes /\ EnvInv /\ TermInv /\ [DispatchNext]_allVars => CallTypes' /\ EnvInv' /\ TermInv'
  BY DispatchKeepsEnv, DispatchKeepsTerm
<1> QED BY <1>1, <1>2, PTL DEF DispatchSpec

\* However many terminals share the project's directory of transcripts: the
\* answer of a resumed session is made of messages written after the call began.
THEOREM AnswersAreFresh == DispatchSpec => []AnswerIsFresh
<1>1. TermInv => AnswerIsFresh
  BY AnswersAreNew
<1> QED BY <1>1, TermCorrect, PTL

\* However many resumed sessions are written to meanwhile: the only call that
\* looks for a new session finds that of its own pane (find_session).
THEOREM ReportsAreOwn == DispatchSpec => []ReportedIsOwn
<1>1. TermInv => ReportedIsOwn
  BY OwnIsReported
<1> QED BY <1>1, TermCorrect, PTL

-----------------------------------------------------------------------------
(* The level of thinking *)

\* From every effort and every suffix of a model the dispatch makes a level that
\* the in-process Pi parses and one that the command line of claude knows.
THEOREM LevelsAreKnown ==
  \A e \in Efforts, s \in Levels :
    /\ Level("pi-rust", e, s) \in PiLevels
    /\ \A sdk \in {"claude", "claude-headless", "claude-terminal"} : Level(sdk, e, s) \in Efforts
<1> SUFFICES ASSUME NEW e \in Efforts, NEW s \in Levels
             PROVE  /\ Level("pi-rust", e, s) \in PiLevels
                    /\ \A sdk \in {"claude", "claude-headless", "claude-terminal"} :
                         Level(sdk, e, s) \in Efforts
  OBVIOUS
<1>1. effort_to_pi_rust_thinking(e) \in PiLevels /\ normalize_pi_rust_suffix(s) \in PiLevels
  BY DEF effort_to_pi_rust_thinking, normalize_pi_rust_suffix, Efforts, Levels, PiLevels
<1>2. effort_from_suffix(s) \in Efforts
  BY DEF effort_from_suffix, Efforts, Levels
<1>3. Level("pi-rust", e, s) \in {effort_to_pi_rust_thinking(e), normalize_pi_rust_suffix(s)}
  BY DEF Level
<1>4. ASSUME NEW sdk \in {"claude", "claude-headless", "claude-terminal"}
      PROVE  Level(sdk, e, s) \in {e, effort_from_suffix(s)}
  BY <1>4 DEF Level
<1> QED BY <1>1, <1>2, <1>3, <1>4

-----------------------------------------------------------------------------
(* The streams *)

\* Enough of the types to know what a step writes.
UserShape == {"pc", "verdict", "named"} \subseteq DOMAIN user /\ user.named \in BOOLEAN
Shapes ==
  /\ head \in [Calls -> HeadRec]
  /\ DOMAIN term = Calls /\ \A c \in Calls : "pc" \in DOMAIN term[c]
  /\ UserShape

AlivePc == EnginePc \cup {"validate", "seed", "announce", "acquire", "dropPanic"}

\* Nothing of a call exists before its backend starts, and only that backend does.
StartLink(c) ==
  /\ call[c].pc # "open" => /\ chan[c].sender = "none" /\ Untouched(c)
                            /\ head[c].pc = "off" /\ term[c].pc = "off" /\ rust[c].pc = "off"
  /\ head[c].pc # "off" => call[c].plan.sdk = "claude-headless"
  /\ term[c].pc # "off" => call[c].plan.sdk = "claude-terminal"
  /\ rust[c].pc # "off" => call[c].plan.sdk = "pi-rust"

\* How far the channel has come, by backend.
HeadLink(c) == head[c].pc \notin {"off", "end"} => AliveOn(c)
TermLink(c) ==
  term[c].pc \notin {"off", "end"} =>
    AliveOn(c) /\ (term[c].pc \notin {"Delta", "Done"} => Untouched(c))
RustLink(c) ==
  /\ rust[c].pc \in AlivePc => AliveOn(c)
  /\ rust[c].pc \in {"validate", "seed", "announce"} => Untouched(c)
  /\ rust[c].pc = "drop" => chan[c].sender = "alive" /\ chan[c].last \in Terminals
AgentLink(c) ==
  Asks(c, "claude") /\ user.pc # "end" => AliveOn(c) /\ (~user.named => chan[c].session = "none")

Link(c) == StartLink(c) /\ HeadLink(c) /\ TermLink(c) /\ RustLink(c) /\ AgentLink(c)

StreamInv == CallTypes /\ EnvInv /\ ChanTypes /\ Shapes /\ \A c \in Calls : Link(c)

\* A step on behalf of one call leaves the records of the others alone.
OnlyCall(c) == \A d \in Calls \ {c} :
  call'[d] = call[d] /\ head'[d] = head[d] /\ term'[d] = term[d] /\ rust'[d] = rust[d]

LEMMA OthersKeep ==
  ASSUME NEW c \in Calls, \A d \in Calls : Link(d), OnlyChan(c), OnlyCall(c),
         user'.pc # "end" => user.pc # "end", ~user'.named => ~user.named
  PROVE  \A d \in Calls \ {c} : Link(d)'
<1> SUFFICES ASSUME NEW d \in Calls \ {c} PROVE Link(d)'
  OBVIOUS
<1>1. /\ Link(d) /\ chan'[d] = chan[d] /\ call'[d] = call[d] /\ head'[d] = head[d]
      /\ term'[d] = term[d] /\ rust'[d] = rust[d]
  BY DEF OnlyChan, OnlyCall
<1>2. StartLink(d)'
  BY <1>1 DEF Link, StartLink, Untouched
<1>3. HeadLink(d)' /\ TermLink(d)' /\ RustLink(d)'
  BY <1>1 DEF Link, HeadLink, TermLink, RustLink, AliveOn, Untouched
<1>4. AgentLink(d)'
  BY <1>1 DEF Link, AgentLink, AliveOn, Asks
<1> QED BY <1>2, <1>3, <1>4 DEF Link

\* Nor does a step that sends nothing and moves no thread break a link.
LEMMA LinksRest ==
  ASSUME \A d \in Calls : Link(d), UNCHANGED <<call, chan, head, term, rust>>,
         user'.pc # "end" => user.pc # "end", ~user'.named => ~user.named
  PROVE  \A d \in Calls : Link(d)'
<1> SUFFICES ASSUME NEW d \in Calls PROVE Link(d)'
  OBVIOUS
<1>1. Link(d)
  OBVIOUS
<1> QED BY <1>1 DEF Link, StartLink, HeadLink, TermLink, RustLink, AgentLink, AliveOn, Untouched,
               Asks

-----------------------------------------------------------------------------
(* claude -p *)

\* A step of the thread that sends nothing.
LEMMA HeadQuiet ==
  ASSUME Shapes, NEW c \in Calls, NEW x,
         \/ HeadRefused(c, x) \/ HeadSpawnFails(c, x) \/ HeadSpawn(c, x) \/ HeadExited(c)
         \/ HeadCancelled(c, x) \/ HeadTimeout(c, x) \/ HeadTimedOut(c) \/ HeadJoined(c)
         \/ HeadWaitFails(c)
  PROVE  /\ UNCHANGED chan /\ head[c].pc \notin {"off", "end"} /\ head' \in [Calls -> HeadRec]
         /\ \A d \in Calls \ {c} : head'[d] = head[d]
<1>1. UNCHANGED chan /\ head[c].pc \notin {"off", "end"}
  BY DEF HeadRefused, HeadSpawnFails, HeadSpawn, HeadExited, HeadCancelled, HeadTimeout,
         HeadTimedOut, HeadJoined, HeadWaitFails, HeadGoes, HeadFails
<1>2. \/ \E p \in {"poll", "join", "timedOut", "delta"} : head' = [head EXCEPT ![c].pc = p]
      \/ \E t \in {"other", "limit"} : head' = [head EXCEPT ![c] = [pc |-> "fail", message |-> t]]
  BY DEF HeadRefused, HeadSpawnFails, HeadSpawn, HeadExited, HeadCancelled, HeadTimeout,
         HeadTimedOut, HeadJoined, HeadWaitFails, HeadGoes, HeadFails
<1> QED BY <1>1, <1>2 DEF Shapes, HeadRec

LEMMA HeadKeeps ==
  ASSUME Shapes, ChanTypes, NEW c \in Calls, HeadLink(c), NEW x,
         HeadStep(c, x) \/ HeadEnvironment(c)
  PROVE  /\ ChanTypes' /\ OnlyChan(c) /\ ContractStep /\ HeadLink(c)'
         /\ head' \in [Calls -> HeadRec] /\ \A d \in Calls \ {c} : head'[d] = head[d]
<1>1. CASE \/ HeadRefused(c, x) \/ HeadSpawnFails(c, x) \/ HeadSpawn(c, x) \/ HeadExited(c)
           \/ HeadCancelled(c, x) \/ HeadTimeout(c, x) \/ HeadTimedOut(c) \/ HeadJoined(c)
           \/ HeadWaitFails(c)
  <2>1. /\ UNCHANGED chan /\ head[c].pc \notin {"off", "end"} /\ head' \in [Calls -> HeadRec]
        /\ \A d \in Calls \ {c} : head'[d] = head[d]
    BY <1>1, HeadQuiet
  <2> QED BY <2>1, ChanStutters DEF HeadLink, AliveOn, OnlyChan
<1>2. CASE HeadDelta(c)
  <2>1. head' = [head EXCEPT ![c].pc = "done"] /\ head[c].pc = "delta" /\ Send(c, "Delta")
    BY <1>2 DEF HeadDelta, HeadGoes
  <2>2. head' \in [Calls -> HeadRec] /\ \A d \in Calls \ {c} : head'[d] = head[d]
    BY <2>1 DEF Shapes, HeadRec
  <2>3. AliveOn(c)
    BY <2>1 DEF HeadLink
  <2> QED BY <2>1, <2>2, <2>3, Says DEF HeadLink
<1>3. CASE HeadDone(c) \/ HeadFail(c)
  <2>1. PICK t \in Terminals : SendLast(c, t)
    BY <1>3 DEF HeadDone, HeadFail, Terminals
  <2>2. head' = [head EXCEPT ![c].pc = "end"] /\ head[c].pc \in {"done", "fail"}
    BY <1>3 DEF HeadDone, HeadFail, HeadGoes
  <2>3. /\ head' \in [Calls -> HeadRec] /\ \A d \in Calls \ {c} : head'[d] = head[d]
        /\ head'[c].pc = "end"
    BY <2>2 DEF Shapes, HeadRec
  <2>4. AliveOn(c)
    BY <2>2 DEF HeadLink
  <2> QED BY <2>1, <2>3, <2>4, Finishes DEF HeadLink
<1>4. CASE ChildForks(c) \/ ChildExits(c) \/ HeirEnds(c)
  <2>1. UNCHANGED <<chan, head>>
    BY <1>4 DEF ChildForks, ChildExits, HeirEnds
  <2> QED BY <2>1, ChanStutters DEF HeadLink, AliveOn, OnlyChan, Shapes
<1> QED BY <1>1, <1>2, <1>3, <1>4 DEF HeadStep, HeadEnvironment

-----------------------------------------------------------------------------
(* claude in tmux *)

TermShape == DOMAIN term = Calls /\ \A c \in Calls : "pc" \in DOMAIN term[c]

TermQuietStep(c) ==
  \/ TermList(c) \/ TermStartPane(c) \/ CaptureFails(c) \/ CaptureShowsNothing(c)
  \/ WaitForReady(c) \/ PasteText(c)
  \/ WaitForPasteVisible(c) \/ ScreenTimeout(c) \/ Submit(c)
  \/ FindSession(c) \/ FindTimeout(c) \/ (term[c].pc = "wait" /\ TurnEnded(c))
  \/ (term[c].pc = "wait" /\ TurnTimeout(c))
  \/ StopPane(c)

\* A step of the thread before its first chunk.
LEMMA TermQuiet ==
  ASSUME TermShape, NEW c \in Calls, TermQuietStep(c)
  PROVE  /\ UNCHANGED chan /\ term[c].pc \notin {"off", "end", "Delta", "Done"}
         /\ TermShape' /\ \A d \in Calls \ {c} : term'[d] = term[d]
<1>1. CASE TermList(c) \/ TermStartPane(c) \/ WaitForReady(c) \/ PasteText(c)
  BY <1>1 DEF TermShape, TermList, TermStartPane, WaitForReady, PasteText, TermGoes, TermEnds
<1>2. CASE CaptureFails(c) \/ CaptureShowsNothing(c) \/ WaitForPasteVisible(c) \/ ScreenTimeout(c)
  BY <1>2 DEF TermShape, CaptureFails, CaptureShowsNothing, WaitForPasteVisible, ScreenTimeout,
              Waiting, TermGoes, TermEnds
<1>3. CASE Submit(c) \/ FindSession(c) \/ FindTimeout(c) \/ StopPane(c)
  BY <1>3 DEF TermShape, Submit, FindSession, FindTimeout, StopPane, TermGoes, TermEnds
<1>4. CASE term[c].pc = "wait" /\ (TurnEnded(c) \/ TurnTimeout(c))
  BY <1>4 DEF TermShape, TurnEnded, TurnTimeout, Answers, TermEnds
<1> QED BY <1>1, <1>2, <1>3, <1>4 DEF TermQuietStep

LEMMA TermKeeps ==
  ASSUME TermShape, ChanTypes, NEW c \in Calls, TermLink(c), TermStep(c) \/ TermEnvironment(c)
  PROVE  /\ ChanTypes' /\ OnlyChan(c) /\ ContractStep /\ TermLink(c)'
         /\ TermShape' /\ \A d \in Calls \ {c} : term'[d] = term[d]
<1>1. CASE TermQuietStep(c)
  <2>1. /\ UNCHANGED chan /\ term[c].pc \notin {"off", "end", "Delta", "Done"}
        /\ TermShape' /\ \A d \in Calls \ {c} : term'[d] = term[d]
    BY <1>1, TermQuiet
  <2> QED BY <2>1, ChanStutters DEF TermLink, AliveOn, Untouched, OnlyChan
<1>2. CASE TermChunk(c, "Session", "Delta")
  <2>1. /\ TermShape' /\ \A d \in Calls \ {c} : term'[d] = term[d]
        /\ term'[c].pc = "Delta" /\ term[c].pc = "Session" /\ Send(c, "Session")
    BY <1>2 DEF TermChunk, TermGoes, TermShape
  <2>2. AliveOn(c) /\ Untouched(c)
    BY <2>1 DEF TermLink
  <2> QED BY <2>1, <2>2, Names DEF TermLink, Untouched
<1>3. CASE TermChunk(c, "Delta", "Done")
  <2>1. /\ TermShape' /\ \A d \in Calls \ {c} : term'[d] = term[d]
        /\ term'[c].pc = "Done" /\ term[c].pc = "Delta" /\ Send(c, "Delta")
    BY <1>3 DEF TermChunk, TermGoes, TermShape
  <2>2. AliveOn(c)
    BY <2>1 DEF TermLink
  <2> QED BY <2>1, <2>2, Says DEF TermLink
<1>4. ASSUME NEW t \in Terminals, TermLast(c, t)
      PROVE  /\ ChanTypes' /\ OnlyChan(c) /\ ContractStep /\ TermLink(c)'
             /\ TermShape' /\ \A d \in Calls \ {c} : term'[d] = term[d]
  <2>1. /\ TermShape' /\ \A d \in Calls \ {c} : term'[d] = term[d]
        /\ term'[c].pc = "end" /\ term[c].pc = t /\ SendLast(c, t)
    BY <1>4 DEF TermLast, TermGoes, TermShape
  <2>2. AliveOn(c)
    BY <2>1 DEF TermLink, Terminals
  <2> QED BY <2>1, <2>2, Finishes DEF TermLink
<1>5. CASE TermEnvironment(c)
  <2>1. UNCHANGED <<chan, term>>
    BY <1>5 DEF TermEnvironment, PaneShows, TurnBegins, Writes
  <2> QED BY <2>1, ChanStutters DEF TermLink, AliveOn, Untouched, OnlyChan, TermShape
<1> QED BY <1>1, <1>2, <1>3, <1>4, <1>5 DEF TermStep, TermQuietStep, TermSends, Terminals

-----------------------------------------------------------------------------
(* The in-process Pi *)

RustFrame(c) == \A d \in Calls \ {c} : rust'[d] = rust[d]

RustQuietStep(c) ==
  \/ RustValid(c) \/ (RustGoes(c, "seed", "announce") /\ UNCHANGED chan)
  \/ Acquire(c) \/ EngineEnds(c) \/ EnginePanics(c)
  \/ \E k \in EnvKeys : SetVar(c, k) \/ RestoreVar(c, k)
RustSendStep(c) ==
  \/ RustInvalid(c) \/ (RustGoes(c, "seed", "end") /\ SendLast(c, "Error"))
  \/ Announce(c) \/ RustDelta(c) \/ RustLast(c) \/ SetVarPanics(c) \/ RustEnd(c)

\* A step of a run that sends nothing.
LEMMA RustQuiet ==
  ASSUME EnvTypes, NEW c \in Calls, ChanTypes, RustLink(c),
         RustQuietStep(c)
  PROVE  /\ ChanTypes' /\ OnlyChan(c) /\ ContractStep /\ RustLink(c)' /\ RustFrame(c)
<1>0. rust \in [Calls -> RustRec] /\ rust[c] \in RustRec
  BY DEF EnvTypes
<1>1. UNCHANGED chan
  BY DEF RustQuietStep, RustValid, Acquire, EngineEnds, EnginePanics, SetVar, RestoreVar
<1>2. RustFrame(c)
  BY <1>0 DEF RustQuietStep, RustFrame, RustValid, Acquire, EngineEnds, EnginePanics, SetVar,
              RestoreVar, RustGoes
<1>3. \/ rust' = rust
      \/ /\ rust[c].pc \in {"validate", "seed"} /\ rust'[c].pc \in {"seed", "announce"}
      \/ rust[c].pc \in AlivePc /\ rust'[c].pc \in {"acquire", "dropPanic"} \cup EnginePc
  <2>1. CASE RustValid(c) \/ RustGoes(c, "seed", "announce")
    <3>1. PICK from \in {"validate", "seed"}, to \in {"seed", "announce"} : RustGoes(c, from, to)
      BY <2>1 DEF RustValid
    <3>2. rust[c].pc = from /\ rust'[c].pc = to
      BY <1>0, <3>1 DEF RustGoes
    <3> QED BY <3>2
  <2>2. CASE EngineEnds(c) \/ EnginePanics(c)
    <3>1. PICK p \in {"ok", "limited", "failed", "dropPanic"} : RustGoes(c, "engine", p)
      BY <2>2 DEF EngineEnds, EnginePanics
    <3>2. rust[c].pc = "engine" /\ rust'[c].pc = p
      BY <1>0, <3>1 DEF RustGoes
    <3> QED BY <3>2 DEF AlivePc, EnginePc
  <2>3. CASE Acquire(c)
    <3>1. rust[c].pc = "acquire" /\ rust'[c].pc = "acquire"
      BY <1>0, <2>3 DEF Acquire
    <3> QED BY <3>1 DEF AlivePc
  <2>4. CASE \E k \in EnvKeys : SetVar(c, k)
    <3>1. PICK k \in EnvKeys : SetVar(c, k)
      BY <2>4
    <3>2. rust[c].pc = "acquire" /\ rust'[c].pc \in {"acquire", "engine"}
      BY <1>0, <3>1 DEF SetVar, RustRec
    <3> QED BY <3>2 DEF AlivePc, EnginePc
  <2>5. CASE \E k \in EnvKeys : RestoreVar(c, k)
    <3>1. rust' = rust
      BY <2>5 DEF RestoreVar
    <3> QED BY <3>1
  <2> QED BY <2>1, <2>2, <2>3, <2>4, <2>5 DEF RustQuietStep
<1>4. RustLink(c)'
  BY <1>1, <1>3 DEF RustLink, AliveOn, Untouched, AlivePc, EnginePc
<1> QED BY <1>1, <1>2, <1>4, ChanStutters DEF OnlyChan

\* A step of a run that sends.
LEMMA RustSends ==
  ASSUME EnvTypes, NEW c \in Calls, ChanTypes, RustLink(c),
         RustSendStep(c)
  PROVE  /\ ChanTypes' /\ OnlyChan(c) /\ ContractStep /\ RustLink(c)' /\ RustFrame(c)
<1>0. rust \in [Calls -> RustRec] /\ rust[c] \in RustRec
  BY DEF EnvTypes
<1> DEFINE Goes(from, to) ==
      rust[c].pc = from /\ rust'[c].pc = to /\ RustFrame(c)
<1>g. ASSUME NEW from, NEW to, RustGoes(c, from, to) PROVE Goes(from, to)
  BY <1>0, <1>g DEF RustGoes, RustFrame, RustRec
<1> HIDE DEF Goes
<1>1. CASE RustInvalid(c) \/ (RustGoes(c, "seed", "end") /\ SendLast(c, "Error"))
  <2>1. SendLast(c, "Error") /\ \E from \in {"validate", "seed"} : Goes(from, "end")
    BY <1>1, <1>g DEF RustInvalid
  <2>2. AliveOn(c)
    BY <2>1 DEF Goes, RustLink, AlivePc
  <2> QED BY <2>1, <2>2, Finishes DEF Goes, RustLink, AlivePc, EnginePc, Terminals
<1>2. CASE Announce(c)
  <2>1. Send(c, "Session") /\ \E to \in {"acquire", "engine"} : Goes("announce", to)
    BY <1>2, <1>g DEF Announce
  <2>2. AliveOn(c) /\ Untouched(c)
    BY <2>1 DEF Goes, RustLink, AlivePc
  <2> QED BY <2>1, <2>2, Names DEF Goes, RustLink, AlivePc, EnginePc, Untouched
<1>3. CASE RustDelta(c)
  <2>1. Send(c, "Delta") /\ Goes("engine", "engine")
    BY <1>3, <1>g DEF RustDelta
  <2>2. AliveOn(c)
    BY <2>1 DEF Goes, RustLink, AlivePc, EnginePc
  <2> QED BY <2>1, <2>2, Says DEF Goes, RustLink, AlivePc, EnginePc
<1>4. CASE RustLast(c)
  <2>1. PICK t \in Terminals, from \in EnginePc : Send(c, t) /\ Goes(from, "drop")
    BY <1>4, <1>g DEF RustLast, Terminals, EnginePc
  <2>2. AliveOn(c)
    BY <2>1 DEF Goes, RustLink, AlivePc
  <2>3. /\ ChanTypes' /\ OnlyChan(c) /\ ContractStep
        /\ chan'[c].last \in Terminals /\ chan'[c].sender = "alive"
    BY <2>1, <2>2, Finishes
  <2> QED BY <2>1, <2>3 DEF Goes, RustLink, AlivePc, EnginePc
<1>5. CASE SetVarPanics(c)
  <2>1. PanicSender(c) /\ Goes("acquire", "broken")
    BY <1>5, <1>g DEF SetVarPanics
  <2>2. AliveOn(c)
    BY <2>1 DEF Goes, RustLink, AlivePc
  <2> QED BY <2>1, <2>2, Panics DEF Goes, RustLink, AlivePc, EnginePc
<1>6. CASE RustEnd(c)
  <2>1. Goes(rust[c].pc, "end") /\ rust[c].pc \in {"drop", "dropPanic"}
    BY <1>6, <1>g DEF RustEnd, Dropping, RustGoes
  <2>2. CASE rust[c].pc = "drop"
    <3>1. DropSender(c) /\ chan[c].sender = "alive" /\ chan[c].last \in Terminals
      BY <1>6, <2>2 DEF RustEnd, RustLink
    <3> QED BY <2>1, <3>1, Drops DEF Goes, RustLink, AlivePc, EnginePc
  <2>3. CASE rust[c].pc = "dropPanic"
    <3>1. PanicSender(c) /\ AliveOn(c)
      BY <1>6, <2>3 DEF RustEnd, RustLink, AlivePc
    <3> QED BY <2>1, <3>1, Panics DEF Goes, RustLink, AlivePc, EnginePc
  <2> QED BY <2>1, <2>2, <2>3
<1> QED BY <1>1, <1>2, <1>3, <1>4, <1>5, <1>6 DEF RustSendStep

LEMMA RustKeeps ==
  ASSUME EnvTypes, NEW c \in Calls, ChanTypes, RustLink(c), RustStep(c) \/ RustEngine(c)
  PROVE  /\ ChanTypes' /\ OnlyChan(c) /\ ContractStep /\ RustLink(c)' /\ RustFrame(c)
<1>1. RustQuietStep(c) \/ RustSendStep(c)
  BY DEF RustStep, RustEngine, SeedSessionFile, RustQuietStep, RustSendStep
<1> QED BY <1>1, RustQuiet, RustSends

-----------------------------------------------------------------------------
(* claude through its SDK *)

\* Only the run's own steps move it, none after its end, and what it reports at
\* its end is a terminal chunk, or nothing when its reader has gone.
LEMMA UserMoves ==
  ASSUME UserShape, Next
  PROVE  /\ UserShape' /\ (user' = user \/ user.pc # "end") /\ (user.named => user'.named)
         /\ user' # user /\ user'.pc = "end" => user'.verdict \in Terminals \cup {"none"}
<1>1. CASE ConnectFails \/ Verdict
  BY <1>1 DEF ConnectFails, Verdict, Return, UserShape, Terminals
<1>2. CASE Connect \/ Wait \/ AwaitDrain
  BY <1>2 DEF Connect, Wait, AwaitDrain, UserShape
<1>3. CASE ReadText
  BY <1>3 DEF ReadText, Return, UserShape
<1>4. CASE ReadLast \/ ReadEof
  BY <1>4 DEF ReadLast, ReadEof, StopReading, Return, UserShape
<1>5. CASE ReadSession \/ UNCHANGED user
  BY <1>5 DEF ReadSession, UserShape
<1>6. UserStep \/ UNCHANGED user
  BY DEF Next, Receive, WriteLine, ReadFrame, ReadStdoutEof, Forward, Answer, ReadLine,
         SendLine, Drain, CliReads, CliWrites, CliText, CliNoise, CliAsks, CliSays,
         CliFinishes, CliTruncates, CliExits, CliDies, Begins
<1> QED BY <1>1, <1>2, <1>3, <1>4, <1>5, <1>6 DEF UserStep

LEMMA AgentKeeps ==
  ASSUME UserShape, ChanTypes, NEW c \in Calls, AgentLink(c), Agent(c, Next)
  PROVE  /\ ChanTypes' /\ OnlyChan(c) /\ AgentLink(c)' /\ UserShape'
         /\ (user'.pc # "end" => user.pc # "end") /\ (~user'.named => ~user.named)
         /\ ContractStep \/ Contract!NameLate(c)
<1>1. /\ UserShape' /\ (user' = user \/ user.pc # "end") /\ (user.named => user'.named)
      /\ user' # user /\ user'.pc = "end" => user'.verdict \in Terminals \cup {"none"}
  BY UserMoves DEF Agent
<1>2. Asks(c, "claude") /\ AgentSends(c) /\ UNCHANGED call
  BY DEF Agent, callVars
<1>3. CASE user' = user \/ user.pc = "end"
  <2>1. UNCHANGED chan
    BY <1>2, <1>3 DEF AgentSends
  <2> QED BY <1>1, <1>2, <1>3, <2>1, ChanStutters DEF AgentLink, AliveOn, OnlyChan, Asks
<1>4. CASE user' # user /\ user.pc # "end"
  <2>1. AliveOn(c) /\ (~user.named => chan[c].session = "none")
    BY <1>2, <1>4 DEF AgentLink
  <2>0. CASE user'.named # user.named
    <3>1. Send(c, "Session") /\ ~user.named /\ user'.named
      BY <1>1, <1>2, <1>4, <2>0 DEF AgentSends, UserShape
    <3> QED BY <1>1, <1>4, <2>1, <3>1, Names DEF AgentLink
  <2>2. CASE user'.named = user.named /\ user'.deltas # user.deltas
    <3>1. Send(c, "Delta")
      BY <1>2, <1>4, <2>2 DEF AgentSends
    <3> QED BY <1>1, <1>4, <2>1, <3>1, Says DEF AgentLink
  <2>3. CASE user'.named = user.named /\ user'.deltas = user.deltas /\ user'.pc # "end"
    <3>1. UNCHANGED chan
      BY <1>2, <1>4, <2>3 DEF AgentSends
    <3> QED BY <1>1, <1>4, <2>1, <3>1, ChanStutters DEF AgentLink, AliveOn, OnlyChan
  <2>4. CASE user'.named = user.named /\ user'.deltas = user.deltas /\ user'.pc = "end"
             /\ user'.verdict = "none"
    <3>1. ~chan[c].receiver /\ DropSender(c)
      BY <1>2, <1>4, <2>4 DEF AgentSends
    <3> QED BY <1>1, <1>4, <2>1, <2>4, <3>1, Drops DEF AgentLink, AliveOn
  <2>5. CASE user'.named = user.named /\ user'.deltas = user.deltas /\ user'.pc = "end"
             /\ user'.verdict # "none"
    <3>1. SendLast(c, user'.verdict) /\ user'.verdict \in Terminals
      BY <1>1, <1>2, <1>4, <2>5 DEF AgentSends
    <3> QED BY <1>1, <1>4, <2>1, <2>5, <3>1, Finishes DEF AgentLink
  <2> QED BY <2>0, <2>2, <2>3, <2>4, <2>5
<1> QED BY <1>3, <1>4

-----------------------------------------------------------------------------
(* All of it *)

\* A call starts: its channel is opened, refused, or left to a session.
LEMMA StartsKeep ==
  ASSUME StreamInv, NEW c \in Calls, StreamForResolved(c) \/ Probed(c)
  PROVE  /\ ChanTypes' /\ ContractStep /\ Shapes' /\ \A d \in Calls : Link(d)'
<1>0. /\ CallTypes /\ EnvTypes /\ ChanTypes /\ Shapes /\ \A d \in Calls : Link(d)
      /\ rust \in [Calls -> RustRec] /\ rust[c] \in RustRec
  BY DEF StreamInv, EnvInv, EnvTypes
<1>1. /\ UNCHANGED user /\ call[c].pc # "open"
      /\ chan[c].sender = "none" /\ Untouched(c)
      /\ head[c].pc = "off" /\ term[c].pc = "off" /\ rust[c].pc = "off"
  <2>1. UNCHANGED user
    BY DEF StreamForResolved, Probed, Refuse, StartRpc, StartClaude, StartHeadless,
           StartTerminal, StartPiRust, agentVars, vars, backends
  <2>2. call[c].pc # "open"
    BY DEF StreamForResolved, Probed, Refuse, StartRpc, StartClaude, StartHeadless,
           StartTerminal, StartPiRust, Starts
  <2> QED BY <1>0, <2>1, <2>2 DEF Link, StartLink
<1> DEFINE To(p) == /\ call'[c].pc = p /\ call'[c].plan = call[c].plan
                    /\ \A d \in Calls \ {c} : call'[d] = call[d]
<1>c. ASSUME NEW p, call' = [call EXCEPT ![c].pc = p] PROVE To(p)
  BY <1>0, <1>c DEF CallTypes, CallRec
<1> HIDE DEF To
<1>2. CASE Probed(c) \/ StartRpc(c)
  <2>1. UNCHANGED <<chan, head, term, rust>> /\ \E p \in {"skipped", "resolved", "elsewhere"} : To(p)
    BY <1>2, <1>c DEF Probed, StartRpc, Starts, backends, headVars, termVars, rustVars
  <2>2. OnlyCall(c) /\ OnlyChan(c)
    BY <2>1 DEF To, OnlyCall, OnlyChan
  <2>3. Link(c)'
    BY <1>1, <2>1 DEF To, Link, StartLink, HeadLink, TermLink, RustLink, AgentLink, Asks,
                      Untouched, AlivePc, EnginePc
  <2> QED BY <1>0, <1>1, <2>1, <2>2, <2>3, ChanStutters, OthersKeep DEF Shapes, UserShape
<1>3. CASE Refuse(c)
  <2>1. /\ UNCHANGED <<head, term, rust>> /\ To("open") /\ SendLast(c, "Error")
        /\ call[c].plan.sdk # "claude"
    BY <1>3, <1>c DEF Refuse, Refusal, sdk_supports_tools, backends, headVars, termVars, rustVars
  <2>2. ChanTypes' /\ OnlyChan(c) /\ ContractStep
    BY <1>0, <1>1, <2>1, Refuses
  <2>3. OnlyCall(c)
    BY <2>1 DEF To, OnlyCall
  <2>4. Link(c)'
    BY <1>1, <2>1 DEF To, Link, StartLink, HeadLink, TermLink, RustLink, AgentLink, Asks,
                      AlivePc, EnginePc
  <2> QED BY <1>0, <1>1, <2>1, <2>2, <2>3, <2>4, OthersKeep DEF Shapes, UserShape
<1>4. ASSUME OpenChannel(c), To("open"), Shapes',
             \A d \in Calls \ {c} : head'[d] = head[d] /\ term'[d] = term[d] /\ rust'[d] = rust[d],
             head'[c].pc # "off" => call[c].plan.sdk = "claude-headless",
             term'[c].pc # "off" => call[c].plan.sdk = "claude-terminal",
             rust'[c].pc # "off" => call[c].plan.sdk = "pi-rust",
             rust'[c].pc # "drop"
      PROVE  ChanTypes' /\ ContractStep /\ Shapes' /\ \A d \in Calls : Link(d)'
  <2>1. /\ ChanTypes' /\ AliveOn(c)' /\ Untouched(c)' /\ OnlyChan(c)
        /\ ContractStep
    BY <1>0, <1>1, <1>4, Opens
  <2>2. OnlyCall(c)
    BY <1>4 DEF To, OnlyCall
  <2>3. Link(c)'
    BY <1>4, <2>1 DEF To, Link, StartLink, HeadLink, TermLink, RustLink, AgentLink, Asks, Untouched
  <2> QED BY <1>0, <1>1, <1>4, <2>1, <2>2, <2>3, OthersKeep
<1>5. CASE StartClaude(c)
  <2>1. UNCHANGED <<head, term, rust, user>> /\ To("open") /\ OpenChannel(c)
    BY <1>5, <1>c DEF StartClaude, Starts, agentVars, vars, headVars, termVars, rustVars
  <2> QED BY <1>0, <1>1, <1>4, <2>1 DEF Shapes, UserShape
<1>6. CASE StartHeadless(c)
  <2>1. /\ UNCHANGED <<term, rust, user>> /\ To("open") /\ OpenChannel(c)
        /\ call[c].plan.sdk = "claude-headless" /\ head' = [head EXCEPT ![c].pc = "start"]
    BY <1>6, <1>c DEF StartHeadless, Starts, HeadStart, HeadGoes, agentVars, vars, termVars, rustVars
  <2>2. head' \in [Calls -> HeadRec] /\ \A d \in Calls \ {c} : head'[d] = head[d]
    BY <1>0, <2>1 DEF Shapes, HeadRec
  <2> QED BY <1>0, <1>1, <1>4, <2>1, <2>2 DEF Shapes, UserShape
<1>7. CASE StartTerminal(c)
  <2>1. /\ UNCHANGED <<head, rust, user>> /\ To("open") /\ OpenChannel(c)
        /\ call[c].plan.sdk = "claude-terminal"
    BY <1>7, <1>c DEF StartTerminal, Starts, TermStart, agentVars, vars, headVars, rustVars
  <2>2. TermShape' /\ \A d \in Calls \ {c} : term'[d] = term[d]
    BY <1>0, <1>7 DEF StartTerminal, TermStart, Shapes, TermShape
  <2> QED BY <1>0, <1>1, <1>4, <2>1, <2>2 DEF Shapes, TermShape, UserShape
<1>8. CASE \E e \in call[c].plan.efforts, s \in call[c].plan.suffixes : StartPiRust(c, e, s)
  <2>1. /\ UNCHANGED <<head, term, user>> /\ To("open") /\ OpenChannel(c)
        /\ call[c].plan.sdk = "pi-rust"
    BY <1>8, <1>c DEF StartPiRust, Starts, RustStart, agentVars, vars, headVars, termVars
  <2>2. rust'[c].pc = "validate" /\ \A d \in Calls \ {c} : rust'[d] = rust[d]
    BY <1>0, <1>8 DEF StartPiRust, RustStart, RustRec
  <2> QED BY <1>0, <1>1, <1>4, <2>1, <2>2 DEF Shapes, UserShape
<1> QED BY <1>2, <1>3, <1>5, <1>6, <1>7, <1>8 DEF StreamForResolved

\* One step of the whole: the channels keep the contract, and the links hold on.
LEMMA DispatchRefines ==
  ASSUME StreamInv, [DispatchNext]_allVars
  PROVE  /\ StreamInv'
         /\ ContractStep \/ \E c \in Calls : Asks(c, "claude") /\ Contract!NameLate(c)
<1>0. /\ CallTypes /\ EnvInv /\ EnvTypes /\ ChanTypes /\ Shapes /\ TermShape /\ UserShape
      /\ \A d \in Calls : Link(d)
  BY DEF StreamInv, EnvInv, Shapes, TermShape
<1>1. CallTypes' /\ EnvInv'
  BY <1>0, DispatchKeepsEnv
<1> DEFINE Allowed ==
      ContractStep \/ \E c \in Calls : Asks(c, "claude") /\ Contract!NameLate(c)
<1> SUFFICES ChanTypes' /\ Allowed /\ Shapes' /\ \A d \in Calls : Link(d)'
  BY <1>1 DEF StreamInv
<1>2. CASE UNCHANGED <<call, chan, head, term, rust, user>>
  BY <1>0, <1>2, LinksRest, ChanStutters DEF Shapes, UserShape
<1>3. ASSUME NEW c \in Calls, StreamForResolved(c) \/ Probed(c)
      PROVE  ChanTypes' /\ ContractStep /\ Shapes' /\ \A d \in Calls : Link(d)'
  BY <1>3, StartsKeep
<1>4. ASSUME NEW c \in Calls, ReaderLeaves(c)
      PROVE  ChanTypes' /\ ContractStep /\ Shapes' /\ \A d \in Calls : Link(d)'
  <2>1. HangUp(c) /\ UNCHANGED <<call, head, term, rust, user>>
    BY <1>4 DEF ReaderLeaves, callVars, backends, agentVars, vars, headVars, termVars, rustVars
  <2>2. /\ ChanTypes' /\ ContractStep
        /\ \A d \in Calls : /\ chan'[d].last = chan[d].last /\ chan'[d].sender = chan[d].sender
                           /\ chan'[d].session = chan[d].session /\ chan'[d].text = chan[d].text
    BY <1>0, <2>1, HangsUp
  <2>3. \A d \in Calls : Link(d)'
    <3> SUFFICES ASSUME NEW d \in Calls PROVE Link(d)'
      OBVIOUS
    <3>1. Link(d)
      BY <1>0
    <3> QED BY <2>1, <2>2, <3>1 DEF Link, StartLink, HeadLink, TermLink, RustLink, AgentLink,
                                    AliveOn, Untouched, Asks
  <2> QED BY <1>0, <2>1, <2>2, <2>3 DEF Shapes, UserShape
<1>5. ASSUME NEW c \in Calls, NEW x, Headless(c, HeadStep(c, x)) \/ Headless(c, HeadEnvironment(c))
      PROVE  ChanTypes' /\ ContractStep /\ Shapes' /\ \A d \in Calls : Link(d)'
  <2>1. /\ UNCHANGED <<call, term, rust, user>> /\ Asks(c, "claude-headless")
        /\ HeadStep(c, x) \/ HeadEnvironment(c)
    BY <1>5 DEF Headless, callVars, agentVars, vars, termVars, rustVars
  <2>2. /\ ChanTypes' /\ OnlyChan(c) /\ ContractStep /\ HeadLink(c)'
        /\ head' \in [Calls -> HeadRec] /\ \A d \in Calls \ {c} : head'[d] = head[d]
    BY <1>0, <2>1, HeadKeeps DEF Link
  <2>3. OnlyCall(c)
    BY <2>1, <2>2 DEF OnlyCall
  <2>4. Link(c)
    BY <1>0
  <2>5. Link(c)'
    BY <2>1, <2>2, <2>4 DEF Link, StartLink, TermLink, RustLink, AgentLink, Asks, AlivePc, EnginePc
  <2> QED BY <1>0, <2>1, <2>2, <2>3, <2>5, OthersKeep DEF Shapes, UserShape
<1>6. ASSUME NEW c \in Calls, Terminal(c, TermStep(c)) \/ Terminal(c, TermEnvironment(c))
      PROVE  ChanTypes' /\ ContractStep /\ Shapes' /\ \A d \in Calls : Link(d)'
  <2>1. /\ UNCHANGED <<call, head, rust, user>> /\ Asks(c, "claude-terminal")
        /\ TermStep(c) \/ TermEnvironment(c)
    BY <1>6 DEF Terminal, callVars, agentVars, vars, headVars, rustVars
  <2>2. /\ ChanTypes' /\ OnlyChan(c) /\ ContractStep /\ TermLink(c)'
        /\ TermShape' /\ \A d \in Calls \ {c} : term'[d] = term[d]
    BY <1>0, <2>1, TermKeeps DEF Link
  <2>3. OnlyCall(c)
    BY <2>1, <2>2 DEF OnlyCall
  <2>4. Link(c)
    BY <1>0
  <2>5. Link(c)'
    BY <2>1, <2>2, <2>4 DEF Link, StartLink, HeadLink, RustLink, AgentLink, Asks, AlivePc, EnginePc
  <2> QED BY <1>0, <2>1, <2>2, <2>3, <2>5, OthersKeep DEF Shapes, TermShape, UserShape
<1>7. ASSUME NEW c \in Calls, PiRust(c, RustStep(c)) \/ PiRust(c, RustEngine(c))
      PROVE  ChanTypes' /\ ContractStep /\ Shapes' /\ \A d \in Calls : Link(d)'
  <2>1. /\ UNCHANGED <<call, head, term, user>> /\ Asks(c, "pi-rust")
        /\ RustStep(c) \/ RustEngine(c)
    BY <1>7 DEF PiRust, callVars, agentVars, vars, headVars, termVars
  <2>2. ChanTypes' /\ OnlyChan(c) /\ ContractStep /\ RustLink(c)' /\ RustFrame(c)
    BY <1>0, <2>1, RustKeeps DEF Link
  <2>3. OnlyCall(c)
    BY <2>1, <2>2 DEF OnlyCall, RustFrame
  <2>4. Link(c)
    BY <1>0
  <2>5. Link(c)'
    BY <2>1, <2>2, <2>4 DEF Link, StartLink, HeadLink, TermLink, AgentLink, Asks
  <2> QED BY <1>0, <2>1, <2>2, <2>3, <2>5, OthersKeep DEF Shapes, UserShape
<1>8. ASSUME NEW c \in Calls, Agent(c, Next)
      PROVE  ChanTypes' /\ Allowed /\ Shapes' /\ \A d \in Calls : Link(d)'
  <2>1. UNCHANGED <<call, head, term, rust>> /\ Asks(c, "claude")
    BY <1>8 DEF Agent, callVars, headVars, termVars, rustVars
  <2>2. /\ ChanTypes' /\ OnlyChan(c) /\ AgentLink(c)' /\ UserShape'
        /\ (user'.pc # "end" => user.pc # "end") /\ (~user'.named => ~user.named)
        /\ ContractStep \/ Contract!NameLate(c)
    BY <1>0, <1>8, AgentKeeps DEF Link
  <2>3. OnlyCall(c)
    BY <2>1 DEF OnlyCall
  <2>4. Link(c)
    BY <1>0
  <2>5. Link(c)'
    BY <2>1, <2>2, <2>4 DEF Link, StartLink, HeadLink, TermLink, RustLink, Asks, AlivePc, EnginePc
  <2> QED BY <1>0, <2>1, <2>2, <2>3, <2>5, OthersKeep DEF Shapes, UserShape
<1>9. ASSUME NEW c \in Calls,
             Probing(c, ProbeStep(c)) \/ Probing(c, ProbeEnvironment(c)) \/ Cancel(c)
      PROVE  UNCHANGED <<call, chan, head, term, rust, user>>
  BY <1>9 DEF Probing, Cancel, callVars, backends, agentVars, vars, headVars, termVars, rustVars
<1>10. ASSUME Bridging(TRUE) PROVE UNCHANGED <<call, chan, head, term, rust, user>>
  BY <1>10 DEF Bridging, callVars, agentVars, vars, headVars, termVars, rustVars
<1>11. CASE UNCHANGED allVars
  BY <1>2, <1>11 DEF allVars, callVars, backends, agentVars, vars, headVars, termVars, rustVars
<1> QED BY <1>2, <1>3, <1>4, <1>5, <1>6, <1>7, <1>8, <1>9, <1>10, <1>11
    DEF DispatchNext, Bridging

LEMMA DispatchStartsStreams == DispatchInit => StreamInv /\ Contract!Init
<1> SUFFICES ASSUME DispatchInit PROVE StreamInv /\ Contract!Init
  OBVIOUS
<1>1. CallTypes /\ EnvInv /\ ChanTypes /\ Contract!Init
  BY DispatchStartsEnv, ChanInitContract DEF DispatchInit
<1>2. Shapes
  <2>1. head \in [Calls -> HeadRec]
    BY DEF DispatchInit, HeadInit, HeadRec
  <2>2. DOMAIN term = Calls /\ \A c \in Calls : "pc" \in DOMAIN term[c]
    BY DEF DispatchInit, TermInit
  <2>3. Init
    BY DEF DispatchInit
  <2>4. UserShape
    <3>1. PICK m \in Modes :
            user = [pc |-> "connect", mode |-> m, sender |-> FALSE, named |-> FALSE,
                    deltas |-> 0, terminal |-> "none", drained |-> FALSE, verdict |-> "none"]
      BY <2>3 DEF Init
    <3> QED BY <3>1 DEF UserShape
  <2> QED BY <2>1, <2>2, <2>4 DEF Shapes
<1>3. ASSUME NEW c \in Calls PROVE Link(c)
  <2>1. /\ call[c].pc # "open" /\ chan[c].sender = "none" /\ Untouched(c)
        /\ head[c].pc = "off" /\ term[c].pc = "off" /\ rust[c].pc = "off"
    BY DEF DispatchInit, ChanInit, NewChannel, Untouched, HeadInit, TermInit, RustInit
  <2> QED BY <2>1 DEF Link, StartLink, HeadLink, TermLink, RustLink, AgentLink, Asks,
                      AlivePc, EnginePc
<1> QED BY <1>1, <1>2, <1>3 DEF StreamInv

\* Whatever the calls, the backends and the order of their steps: to the reader
\* of each call its channel is a stream as StreamContract allows it, and only
\* run_async names its session after a text.
THEOREM StreamsAlwaysKeepContract == DispatchSpec => StreamsKeepContract
<1>1. DispatchInit => StreamInv /\ Contract!Init
  BY DispatchStartsStreams
<1>2. StreamInv /\ [DispatchNext]_allVars => StreamInv' /\ LateStep
  BY DispatchRefines DEF LateStep, ContractStep
<1>3. StreamInv /\ [DispatchNext]_allVars
        => [\A c \in Calls : Contract!NameLate(c) => Asks(c, "claude")]_allVars
  <2> SUFFICES ASSUME StreamInv, [DispatchNext]_allVars,
                      NEW c \in Calls, Contract!NameLate(c)
               PROVE  Asks(c, "claude")
    OBVIOUS
  <2> QED BY DispatchRefines, NotLate
<1>4. DispatchSpec => Contract!LateSpec
  BY <1>1, <1>2, PTL DEF DispatchSpec, Contract!LateSpec, LateStep, streams, gone
<1>5. DispatchSpec => [][\A c \in Calls : Contract!NameLate(c) => Asks(c, "claude")]_allVars
  BY <1>1, <1>2, <1>3, PTL DEF DispatchSpec
<1> QED BY <1>4, <1>5 DEF StreamsKeepContract
=============================================================================
