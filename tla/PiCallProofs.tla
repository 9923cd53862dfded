----------------------------- MODULE PiCallProofs -----------------------------
(***************************************************************************)
(* The calls of a session: busy is the lock of the command queue, a        *)
(* refused call was never written, a written prompt is not reported for    *)
(* repetition, no waiter leaks, and nobody is answered twice.              *)
(*                                                                         *)
(* Everything rests on who may be where: a call in the channel of an entry *)
(* or served by its worker owns busy, a call in the pending map does not.  *)
(* So whoever ends a call ends one that still waits, and the worker that   *)
(* answers its command releases the flag of the only owner.                *)
(***************************************************************************)
EXTENDS PiSessionProofs

\* The states in which a call owns the busy flag, and in which a worker serves it.
HolderPc == {"announce", "enqueue", "send", "queued", "served"}
ControlPc == {"control", "ctlWait", "ctlState"}
PromptPc == {"prompt", "prompting", "draining"}
CmdPc == ControlPc \cup PromptPc

\* What is in the channel of e are calls that wait for e, each of them once.
Queued(e) ==
  /\ \A i \in 1..Len(queue[e]) :
       client[queue[e][i]].pc = "queued" /\ client[queue[e][i]].entry = e
  /\ \A i, j \in 1..Len(queue[e]) : queue[e][i] = queue[e][j] => i = j

\* The worker serves a call that waits for it; what was written is remembered.
Served(e) == LET w == worker[e] IN
  /\ w.pc \in ControlPc => w.cmd \in Callers
  /\ w.pc \in PromptPc => w.cmd \in Streams
  /\ w.pc \in CmdPc => client[w.cmd].pc = "served" /\ client[w.cmd].entry = e
  /\ w.pc \in {"control", "prompt"} => ~client[w.cmd].sent
  /\ w.pc \in {"prompting", "draining"} => entry[e].prompt_acknowledged

\* busy is the lock of an open worker; nobody knows an entry without a worker.
Locked(e) ==
  /\ Open(e) => (\A c, d \in Holders(e) : c = d) /\ (entry[e].busy <=> Holders(e) # {})
  /\ worker[e].pc = "absent" => ~entry[e].busy /\ \A c \in Clients : client[c].entry # e

Waited(e) == \A c \in entry[e].pending :
  client[c].entry = e /\ client[c].pc \in {"write", "answer"}

\* The course of a call: when it was written, and how it may end.
Coherent(c) ==
  /\ client[c].pc \in {"idle", "end"} \/ client[c].entry \in Entries
  /\ client[c].pc \in {"idle", "end"} => client[c].entry = None
  /\ client[c].sent => client[c].pc \in {"served", "answer", "end"}
  /\ client[c].outcome # "none" => client[c].pc = "end"
  /\ client[c].outcome = "refused" => ~client[c].sent
  /\ c \in Streams /\ client[c].outcome = "process" => ~client[c].sent

EntryInv(e) == Queued(e) /\ Served(e) /\ Locked(e) /\ Waited(e)
ClosersHold == \A x \in Closers : closer[x].pc \in {"wait", "final"} => closer[x].entry \in Entries

CallEntries == \A e \in Entries : EntryInv(e)
CallInv == CallEntries /\ (\A c \in Clients : Coherent(c)) /\ ClosersHold

-----------------------------------------------------------------------------
(* What a step leaves alone. *)

SameFlags(f) ==
  /\ entry'[f].busy = entry[f].busy
  /\ entry'[f].pending = entry[f].pending
  /\ entry'[f].prompt_acknowledged = entry[f].prompt_acknowledged

OthersStay(C) == \A d \in Clients \ C : client'[d] = client[d]

\* A call that has ended stays as it is.
Answered == \A c \in Clients : client[c].pc = "end" =>
  client'[c].pc = "end" /\ client'[c].outcome = client[c].outcome

\* What a step promises about the calls.
Kept == (\A e \in Entries : EntryInv(e)') /\ (\A c \in Clients : Coherent(c)') /\ Answered

\* The facts about types that the proofs use.
LEMMA CallTypes ==
  ASSUME TypeOK
  PROVE  /\ \A e \in Entries : /\ entry[e] \in EntryRec /\ entry[e].pending \subseteq Callers
                               /\ worker[e] \in WorkerRec
                               /\ queue[e] \in Seq(Clients) /\ Len(queue[e]) \in Nat
                               /\ \A i \in 1..Len(queue[e]) : queue[e][i] \in Clients
         /\ \A c \in Clients : client[c] \in ClientRec
         /\ Callers \subseteq Clients /\ Streams \subseteq Clients
         /\ None \notin Entries /\ None \notin Clients
BY NamesDistinct DEF TypeOK, EntryRec, Clients

\* Only the calls of C change, and they had not ended.
LEMMA ChangedCalls ==
  ASSUME CallInv, NEW C, OthersStay(C), \A c \in C : client[c].pc # "end" /\ Coherent(c)'
  PROVE  (\A c \in Clients : Coherent(c)') /\ Answered
<1>1. ASSUME NEW c \in Clients \ C PROVE Coherent(c)'
  <2>1. client'[c] = client[c]
    BY DEF OthersStay
  <2> QED BY <2>1 DEF CallInv, Coherent
<1> QED BY <1>1 DEF OthersStay, Answered

\* Entries that a step does not touch keep their invariant.
LEMMA Elsewhere ==
  ASSUME TypeOK, CallEntries, NEW e, NEW C, OthersStay(C),
         \A f \in Entries \ {e} : SameFlags(f) /\ queue'[f] = queue[f] /\ worker'[f] = worker[f],
         \A c \in C : client[c].entry \in {e, None} /\ client'[c].entry \in {e, None}
  PROVE  \A f \in Entries \ {e} : EntryInv(f)'
<1> SUFFICES ASSUME NEW f \in Entries \ {e} PROVE EntryInv(f)'
  OBVIOUS
<1>1. SameFlags(f) /\ queue'[f] = queue[f] /\ worker'[f] = worker[f] /\ f # None /\ EntryInv(f)
  BY NamesDistinct DEF CallEntries
<1>2. \A c \in Clients : client[c].entry = f \/ client'[c].entry = f => client'[c] = client[c]
  BY <1>1 DEF OthersStay
<1>3. Queued(f)'
  BY <1>1, <1>2, CallTypes DEF EntryInv, Queued
<1>4. Served(f)'
  <2>1. worker[f].pc \in CmdPc => worker[f].cmd \in Clients /\ client[worker[f].cmd].entry = f
    BY <1>1, CallTypes DEF EntryInv, Served, CmdPc
  <2>2. worker[f].pc \in CmdPc => client'[worker[f].cmd] = client[worker[f].cmd]
    BY <1>2, <2>1
  <2> QED BY <1>1, <2>2 DEF EntryInv, Served, SameFlags, CmdPc, ControlPc, PromptPc
<1>5. Locked(f)'
  <2>1. Holders(f)' = Holders(f)
    BY <1>2 DEF Holders
  <2> QED BY <1>1, <1>2, <2>1 DEF EntryInv, Locked, SameFlags, Open
<1>6. Waited(f)'
  BY <1>1, <1>2, CallTypes DEF EntryInv, Waited, SameFlags
<1> QED BY <1>3, <1>4, <1>5, <1>6 DEF EntryInv

\* A step that no call notices.
LEMMA NobodyNotices ==
  ASSUME TypeOK, CallInv, UNCHANGED <<worker, queue>>, \A f \in Entries : SameFlags(f),
         \A c \in Clients : /\ client'[c].pc = client[c].pc /\ client'[c].entry = client[c].entry
                            /\ client'[c].sent = client[c].sent
                            /\ client'[c].outcome = client[c].outcome
  PROVE  Kept
<1>1. ASSUME NEW f \in Entries PROVE EntryInv(f)'
  <2>1. EntryInv(f) /\ SameFlags(f)
    BY DEF CallInv, CallEntries
  <2>2. Queued(f)'
    BY <2>1, CallTypes DEF EntryInv, Queued
  <2>3. Served(f)'
    <3>1. worker[f].pc \in CmdPc => worker[f].cmd \in Clients
      BY <2>1, CallTypes DEF EntryInv, Served, CmdPc
    <3> QED BY <2>1, <3>1 DEF EntryInv, Served, SameFlags, CmdPc, ControlPc, PromptPc
  <2>4. Locked(f)'
    <3>1. Holders(f)' = Holders(f)
      BY DEF Holders
    <3> QED BY <2>1, <3>1 DEF EntryInv, Locked, SameFlags, Open
  <2>5. Waited(f)'
    BY <2>1, CallTypes DEF EntryInv, Waited, SameFlags
  <2> QED BY <2>2, <2>3, <2>4, <2>5 DEF EntryInv
<1>2. \A c \in Clients : Coherent(c)'
  BY DEF CallInv, Coherent
<1> QED BY <1>1, <1>2 DEF Kept, Answered

\* A call moves by itself, and neither takes nor loses busy.
LEMMA CallMoves ==
  ASSUME TypeOK, CallInv, NEW c \in Clients, UNCHANGED <<worker, queue>>, OthersStay({c}),
         \A f \in Entries : SameFlags(f),
         client'[c].entry \in Entries => worker[client'[c].entry].pc # "absent",
         client[c].pc \notin {"queued", "served", "end"},
         client[c].pc \in HolderPc \/ client'[c].pc \in HolderPc =>
           /\ client[c].pc \in HolderPc /\ client'[c].pc \in HolderPc
           /\ client'[c].entry = client[c].entry,
         client[c].pc \in {"write", "answer"} =>
           client'[c].pc \in {"write", "answer"} /\ client'[c].entry = client[c].entry,
         Coherent(c)'
  PROVE  Kept
<1>1. ASSUME NEW f \in Entries PROVE EntryInv(f)'
  <2>1. EntryInv(f) /\ SameFlags(f)
    BY DEF CallInv, CallEntries
  <2>2. \A d \in Clients : client[d].pc \in {"queued", "served"} => client'[d] = client[d]
    BY DEF OthersStay
  <2>3. Queued(f)'
    BY <2>1, <2>2, CallTypes DEF EntryInv, Queued
  <2>4. Served(f)'
    <3>1. worker[f].pc \in CmdPc => worker[f].cmd \in Clients
      BY <2>1, CallTypes DEF EntryInv, Served, CmdPc
    <3>2. worker[f].pc \in CmdPc => client'[worker[f].cmd] = client[worker[f].cmd]
      BY <2>1, <2>2, <3>1 DEF EntryInv, Served
    <3> QED BY <2>1, <3>2 DEF EntryInv, Served, SameFlags, CmdPc, ControlPc, PromptPc
  <2>5. Locked(f)'
    <3>1. Holders(f)' = Holders(f)
      BY DEF Holders, HolderPc, OthersStay
    <3>2. worker[f].pc = "absent" => \A d \in Clients : client'[d].entry # f
      BY <2>1 DEF EntryInv, Locked, OthersStay
    <3> QED BY <2>1, <3>1, <3>2 DEF EntryInv, Locked, SameFlags, Open
  <2>6. Waited(f)'
    BY <2>1, CallTypes DEF EntryInv, Waited, SameFlags, OthersStay
  <2> QED BY <2>3, <2>4, <2>5, <2>6 DEF EntryInv
<1> QED BY <1>1, ChangedCalls DEF Kept

-----------------------------------------------------------------------------
(* What a step does to one entry and the calls C that know it. *)

Touches(e, C) ==
  /\ OthersStay(C)
  /\ \A f \in Entries \ {e} : SameFlags(f) /\ queue'[f] = queue[f] /\ worker'[f] = worker[f]
  /\ \A c \in C : /\ client[c].entry \in {e, None} /\ client'[c].entry \in {e, None}
                  /\ client[c].pc # "end" /\ Coherent(c)'

\* It is enough to look at the entry that is touched.
LEMMA KeptAt ==
  ASSUME TypeOK, CallInv, NEW e \in Entries, NEW C, Touches(e, C), EntryInv(e)'
  PROVE  Kept
<1>1. \A f \in Entries \ {e} : EntryInv(f)'
  <2>1. CallEntries /\ OthersStay(C)
    BY DEF CallInv, Touches
  <2> QED BY <2>1, Elsewhere DEF Touches
<1>2. (\A c \in Clients : Coherent(c)') /\ Answered
  BY ChangedCalls DEF Touches
<1> QED BY <1>1, <1>2 DEF Kept

\* A channel that no step touches, while no call in it moves.
LEMMA QueueStays ==
  ASSUME TypeOK, CallInv, NEW e \in Entries, NEW C, OthersStay(C),
         queue'[e] = queue[e], \A c \in C : client[c].pc # "queued"
  PROVE  Queued(e)'
<1>1. Queued(e)
  BY DEF CallInv, CallEntries, EntryInv
<1>2. \A i \in 1..Len(queue[e]) : client'[queue[e][i]] = client[queue[e][i]]
  BY <1>1, CallTypes DEF Queued, OthersStay
<1> QED BY <1>1, <1>2 DEF Queued

\* A pending map from which calls are taken out that stop waiting.
LEMMA WaitersStay ==
  ASSUME TypeOK, CallInv, NEW e \in Entries, NEW C, OthersStay(C),
         entry'[e].pending \subseteq entry[e].pending \ C
  PROVE  Waited(e)'
<1>1. Waited(e)
  BY DEF CallInv, CallEntries, EntryInv
<1>2. \A c \in entry'[e].pending : c \in Clients \ C /\ c \in entry[e].pending
  BY CallTypes
<1> QED BY <1>1, <1>2 DEF Waited, OthersStay

\* An entry that a call knows has a worker.
LEMMA KnownHasWorker ==
  ASSUME CallInv, NEW c \in Clients, client[c].pc \notin {"idle", "end"}
  PROVE  client[c].entry \in Entries /\ worker[client[c].entry].pc # "absent"
  BY DEF CallInv, CallEntries, EntryInv, Locked, Coherent

\* The call that a worker serves is the only one that owns busy.
LEMMA ServedHolds ==
  ASSUME TypeOK, CallInv, NEW e \in Entries, worker[e].pc \in CmdPc
  PROVE  LET c == worker[e].cmd IN
         /\ c \in Clients /\ client[c].pc = "served" /\ client[c].entry = e
         /\ Holders(e) = {c} /\ entry[e].busy /\ Open(e)
<1>1. Served(e) /\ Locked(e)
  BY DEF CallInv, CallEntries, EntryInv
<1>2. Open(e)
  BY DEF Open, OpenPc, StartPc, ServePc, CmdPc, ControlPc, PromptPc
<1>3. worker[e].cmd \in Clients
  BY <1>1, CallTypes DEF Served, CmdPc
<1>4. worker[e].cmd \in Holders(e)
  BY <1>1, <1>3 DEF Served, Holders
<1>5. Holders(e) = {worker[e].cmd}
  BY <1>1, <1>2, <1>4 DEF Locked
<1> QED BY <1>1, <1>2, <1>3, <1>4, <1>5 DEF Served, Locked

-----------------------------------------------------------------------------
(* The kinds of steps. *)

\* The worker moves and serves no call afterwards.
LEMMA WorkerMoves ==
  ASSUME TypeOK, CallInv, NEW e \in Entries, UNCHANGED <<queue, client>>,
         \A f \in Entries \ {e} : SameFlags(f) /\ worker'[f] = worker[f],
         entry'[e].pending = entry[e].pending,
         worker'[e].pc \notin CmdPc \cup {"absent"},
         Open(e)' => Open(e) /\ entry'[e].busy = entry[e].busy
  PROVE  Kept
<1>1. Touches(e, {})
  BY DEF Touches, OthersStay
<1>2. OthersStay({})
  BY DEF OthersStay
<1>3. Queued(e)'
  BY <1>2, QueueStays
<1>4. Served(e)'
  BY DEF Served, CmdPc, ControlPc, PromptPc
<1>5. Locked(e)'
  <2>1. Holders(e)' = Holders(e)
    BY DEF Holders
  <2> QED BY <2>1 DEF CallInv, CallEntries, EntryInv, Locked
<1>6. Waited(e)'
  BY <1>2, WaitersStay
<1> QED BY <1>1, <1>3, <1>4, <1>5, <1>6, KeptAt DEF EntryInv

\* The worker answers the call it serves, and fails the waiters P with it.
LEMMA WorkerAnswers ==
  ASSUME TypeOK, CallInv, NEW e \in Entries, worker[e].pc \in CmdPc,
         NEW P, P \subseteq entry[e].pending, UNCHANGED queue,
         \A f \in Entries \ {e} : SameFlags(f) /\ worker'[f] = worker[f],
         OthersStay({worker[e].cmd} \cup P),
         \A c \in {worker[e].cmd} \cup P :
           client'[c].pc = "end" /\ client'[c].entry = None /\ Coherent(c)',
         entry'[e].pending = entry[e].pending \ P,
         worker'[e].pc \notin CmdPc \cup {"absent"},
         Open(e)' => ~entry'[e].busy
  PROVE  Kept
<1> DEFINE C == {worker[e].cmd} \cup P
<1>1. \A c \in C : c \in Clients /\ client[c].entry = e /\ client[c].pc \in {"served", "write", "answer"}
  BY ServedHolds, CallTypes DEF CallInv, CallEntries, EntryInv, Waited
<1>2. Touches(e, C)
  BY <1>1 DEF Touches
<1>3. Queued(e)'
  BY <1>1, QueueStays
<1>4. Served(e)'
  BY DEF Served, CmdPc, ControlPc, PromptPc
<1>5. Locked(e)'
  <2>1. ASSUME NEW d \in Holders(e)' PROVE FALSE
    <3>1. d \in Clients /\ client'[d].pc # "end"
      BY <2>1 DEF Holders
    <3>2. d \notin C
      BY <3>1
    <3>3. client'[d] = client[d]
      BY <3>1, <3>2 DEF OthersStay
    <3>4. d \in Holders(e)
      BY <2>1, <3>3 DEF Holders
    <3> QED BY <3>2, <3>4, ServedHolds
  <2> QED BY <2>1 DEF Locked
<1>6. Waited(e)'
  <2>1. worker[e].cmd \notin entry[e].pending
    BY ServedHolds DEF CallInv, CallEntries, EntryInv, Waited
  <2>2. entry'[e].pending \subseteq entry[e].pending \ C
    BY <2>1
  <2> QED BY <2>2, WaitersStay
<1> QED BY <1>2, <1>3, <1>4, <1>5, <1>6, KeptAt DEF EntryInv

\* The worker goes on with the call it serves.
LEMMA WorkerServes ==
  ASSUME TypeOK, CallInv, NEW e \in Entries, UNCHANGED queue,
         \A f \in Entries \ {e} : SameFlags(f) /\ worker'[f] = worker[f],
         worker'[e].cmd = worker[e].cmd,
         \/ worker[e].pc \in ControlPc /\ worker'[e].pc \in ControlPc \ {"control"}
         \/ /\ worker[e].pc \in PromptPc /\ worker'[e].pc \in PromptPc \ {"prompt"}
            /\ entry'[e].prompt_acknowledged,
         entry'[e].busy = entry[e].busy, entry'[e].pending = entry[e].pending,
         OthersStay({worker[e].cmd}),
         client'[worker[e].cmd].pc = "served", client'[worker[e].cmd].entry = e,
         Coherent(worker[e].cmd)'
  PROVE  Kept
<1> DEFINE c == worker[e].cmd
<1>0. worker[e].pc \in CmdPc /\ worker'[e].pc \in CmdPc
  BY DEF CmdPc
<1>1. /\ c \in Clients /\ client[c].pc = "served" /\ client[c].entry = e
      /\ Holders(e) = {c} /\ entry[e].busy /\ Open(e)
  BY <1>0, ServedHolds
<1>2. Touches(e, {c})
  BY <1>1 DEF Touches
<1>3. Queued(e)'
  BY <1>1, QueueStays
<1>4. Served(e)'
  <2>1. Served(e)
    BY DEF CallInv, CallEntries, EntryInv
  <2> QED BY <2>1 DEF Served, CmdPc, ControlPc, PromptPc
<1>5. Locked(e)'
  <2>1. Holders(e)' = {c}
    BY <1>1 DEF Holders, OthersStay
  <2> QED BY <1>0, <1>1, <2>1 DEF Locked, CmdPc, ControlPc, PromptPc
<1>6. Waited(e)'
  <2>1. c \notin entry[e].pending
    BY <1>1 DEF CallInv, CallEntries, EntryInv, Waited
  <2> QED BY <2>1, WaitersStay
<1> QED BY <1>2, <1>3, <1>4, <1>5, <1>6, KeptAt DEF EntryInv

\* Calls that wait for the answer to a steering command end.
LEMMA WaitEnds ==
  ASSUME TypeOK, CallInv, NEW e \in Entries, NEW P \in SUBSET Clients,
         UNCHANGED <<queue, worker>>,
         \A f \in Entries \ {e} : SameFlags(f),
         entry'[e].busy = entry[e].busy,
         entry'[e].prompt_acknowledged = entry[e].prompt_acknowledged,
         entry'[e].pending = entry[e].pending \ P, OthersStay(P),
         \A c \in P : /\ client[c].pc \in {"write", "answer"} /\ client[c].entry = e
                      /\ client'[c].pc = "end" /\ client'[c].entry = None /\ Coherent(c)'
  PROVE  Kept
<1>1. Touches(e, P)
  BY DEF Touches
<1>2. Queued(e)'
  BY QueueStays
<1>3. EntryInv(e)
  BY DEF CallInv, CallEntries
<1>4. Served(e)'
  <2>1. worker[e].pc \in CmdPc => worker[e].cmd \in Clients \ P
    BY ServedHolds
  <2>2. worker[e].pc \in CmdPc => client'[worker[e].cmd] = client[worker[e].cmd]
    BY <2>1 DEF OthersStay
  <2> QED BY <1>3, <2>2 DEF EntryInv, Served, CmdPc, ControlPc, PromptPc
<1>5. Locked(e)'
  <2>1. Holders(e)' = Holders(e)
    BY DEF Holders, OthersStay
  <2>2. \A c \in Clients : client'[c].entry = e => client[c].entry = e
    BY NamesDistinct DEF OthersStay
  <2> QED BY <1>3, <2>1, <2>2 DEF EntryInv, Locked, Open
<1>6. Waited(e)'
  BY WaitersStay
<1> QED BY <1>1, <1>2, <1>4, <1>5, <1>6, KeptAt DEF EntryInv

\* A call moves, is not the one served, and the flags of its entry may change.
LEMMA CallAtEntry ==
  ASSUME TypeOK, CallInv, NEW c \in Clients, NEW e \in Entries, client[c].entry = e,
         client[c].pc \notin {"idle", "queued", "served", "write", "answer", "end"},
         UNCHANGED worker, OthersStay({c}),
         \A f \in Entries \ {e} : SameFlags(f) /\ queue'[f] = queue[f],
         entry'[e].prompt_acknowledged = entry[e].prompt_acknowledged,
         client'[c].entry \in {e, None}, Coherent(c)',
         Queued(e)', Locked(e)', Waited(e)'
  PROVE  Kept
<1>1. Touches(e, {c})
  BY DEF Touches
<1>2. Served(e)'
  <2>1. worker[e].pc \in CmdPc => worker[e].cmd \in Clients \ {c}
    BY ServedHolds
  <2>2. worker[e].pc \in CmdPc => client'[worker[e].cmd] = client[worker[e].cmd]
    BY <2>1 DEF OthersStay
  <2>3. Served(e)
    BY DEF CallInv, CallEntries, EntryInv
  <2> QED BY <2>2, <2>3 DEF Served, CmdPc, ControlPc, PromptPc
<1> QED BY <1>1, <1>2, KeptAt DEF EntryInv

\* Whoever finds busy clear and sets it is the only owner.
LEMMA CallClaims ==
  ASSUME TypeOK, CallInv, NEW c \in Clients, client[c].pc = "claim",
         LET e == client[c].entry IN
         /\ ~entry[e].busy /\ entry'[e].busy
         /\ entry'[e].pending = entry[e].pending
         /\ entry'[e].prompt_acknowledged = entry[e].prompt_acknowledged
         /\ \A f \in Entries \ {e} : SameFlags(f)
         /\ client'[c].entry = e,
         UNCHANGED <<queue, worker>>, OthersStay({c}),
         client'[c].pc \in {"announce", "send"}, Coherent(c)'
  PROVE  Kept
<1> DEFINE e == client[c].entry
<1>1. e \in Entries /\ worker[e].pc # "absent"
  BY KnownHasWorker
<1>2. Queued(e)'
  BY <1>1, QueueStays
<1>3. Locked(e)'
  <2>1. Open(e) => Holders(e) = {}
    BY <1>1 DEF CallInv, CallEntries, EntryInv, Locked
  <2>2. Holders(e)' = Holders(e) \cup {c}
    BY DEF Holders, OthersStay
  <2> QED BY <1>1, <2>1, <2>2 DEF Locked, Open
<1>4. Waited(e)'
  <2>1. c \notin entry[e].pending
    BY <1>1 DEF CallInv, CallEntries, EntryInv, Waited
  <2> QED BY <1>1, <2>1, WaitersStay
<1> QED BY <1>1, <1>2, <1>3, <1>4, CallAtEntry

\* A call that finds no worker behind its channel ends.
LEMMA CallFindsNone ==
  ASSUME TypeOK, CallInv, NEW c \in Clients, client[c].pc \in {"enqueue", "send"},
         NEW e, e = client[c].entry, worker[e].pc = "gone",
         entry'[e].pending = entry[e].pending,
         entry'[e].prompt_acknowledged = entry[e].prompt_acknowledged,
         \A f \in Entries \ {e} : SameFlags(f),
         UNCHANGED <<queue, worker>>, OthersStay({c}),
         client'[c].entry = None, Coherent(c)'
  PROVE  Kept
<1>1. e \in Entries /\ client[c].pc # "queued"
  BY KnownHasWorker
<1>2. Queued(e)'
  BY <1>1, QueueStays
<1>3. Locked(e)'
  BY DEF Locked, Open, OpenPc, StartPc, ServePc
<1>4. Waited(e)'
  <2>1. c \notin entry[e].pending
    BY <1>1 DEF CallInv, CallEntries, EntryInv, Waited
  <2> QED BY <1>1, <2>1, WaitersStay
<1> QED BY <1>1, <1>2, <1>3, <1>4, CallAtEntry

\* A call that owns busy enters the channel behind the others.
LEMMA CallQueues ==
  ASSUME TypeOK, CallInv, NEW c \in Clients, client[c].pc \in {"enqueue", "send"},
         UNCHANGED <<entry, worker>>, OthersStay({c}),
         queue' = [queue EXCEPT ![client[c].entry] = Append(@, c)],
         client'[c].entry = client[c].entry, client'[c].pc = "queued", Coherent(c)'
  PROVE  Kept
<1> DEFINE e == client[c].entry
           n == Len(queue[e])
<1>1. e \in Entries /\ worker[e].pc # "absent"
  BY KnownHasWorker
<1>2. EntryInv(e)
  BY <1>1 DEF CallInv, CallEntries
<1>3. \A f \in Entries \ {e} : SameFlags(f) /\ queue'[f] = queue[f]
  BY DEF SameFlags, TypeOK
<1>4. Queued(e)'
  <2>1. queue[e] \in Seq(Clients) /\ n \in Nat
    BY <1>1, CallTypes
  <2>2. queue'[e] = Append(queue[e], c)
    BY <1>1 DEF TypeOK
  <2>3. /\ Len(queue'[e]) = n + 1 /\ queue'[e][n+1] = c
        /\ \A i \in 1..n : queue'[e][i] = queue[e][i]
    BY <2>1, <2>2
  <2>4. \A i \in 1..n : queue[e][i] \in Clients \ {c} /\ client'[queue[e][i]] = client[queue[e][i]]
    BY <1>1, <1>2, CallTypes DEF EntryInv, Queued, OthersStay
  <2>5. \A i \in 1..n+1 : i \in 1..n \/ i = n + 1
    BY <2>1
  <2>6. \A i \in 1..n : client[queue[e][i]].pc = "queued" /\ client[queue[e][i]].entry = e
    BY <1>2 DEF EntryInv, Queued
  <2>7. \A i, j \in 1..n : queue[e][i] = queue[e][j] => i = j
    BY <1>2 DEF EntryInv, Queued
  <2>8. \A i \in 1..n+1 : client'[queue'[e][i]].pc = "queued" /\ client'[queue'[e][i]].entry = e
    <3> TAKE i \in 1..n+1
    <3>1. CASE i \in 1..n
      <4>1. queue'[e][i] = queue[e][i] /\ client'[queue[e][i]] = client[queue[e][i]]
        BY <2>3, <2>4, <3>1
      <4> QED BY <2>6, <3>1, <4>1
    <3>2. CASE i = n + 1
      BY <2>3, <3>2
    <3> QED BY <2>5, <3>1, <3>2
  <2>9. \A i, j \in 1..n+1 : queue'[e][i] = queue'[e][j] => i = j
    BY <2>3, <2>4, <2>5, <2>7
  <2>10. Len(queue'[e]) = n + 1
    BY <2>3
  <2> HIDE DEF n
  <2> QED BY <2>8, <2>9, <2>10 DEF Queued
<1>5. Locked(e)'
  <2>1. Holders(e)' = Holders(e)
    BY DEF Holders, OthersStay
  <2> QED BY <1>1, <1>2, <2>1 DEF EntryInv, Locked, Open
<1>6. Waited(e)'
  <2>1. c \notin entry[e].pending
    BY <1>2 DEF EntryInv, Waited
  <2> QED BY <1>1, <2>1, WaitersStay
<1> QED BY <1>1, <1>3, <1>4, <1>5, <1>6, CallAtEntry

\* Taking the first call out of a channel.
LEMMA HeadLeaves ==
  ASSUME TypeOK, CallInv, NEW e \in Entries, queue[e] # <<>>, queue' = Popped(e),
         OthersStay({Head(queue[e])})
  PROVE  LET c == Head(queue[e]) IN
         /\ c \in Clients /\ client[c].pc = "queued" /\ client[c].entry = e /\ ~client[c].sent
         /\ Queued(e)' /\ \A f \in Entries \ {e} : queue'[f] = queue[f]
<1> DEFINE c == Head(queue[e])
           n == Len(queue[e])
<1>1. queue[e] \in Seq(Clients) /\ n \in Nat \ {0} /\ c = queue[e][1]
  BY CallTypes
<1>2. Queued(e)
  BY DEF CallInv, CallEntries, EntryInv
<1>3. c \in Clients /\ client[c].pc = "queued" /\ client[c].entry = e
  BY <1>1, <1>2, CallTypes DEF Queued
<1>4. ~client[c].sent
  BY <1>3 DEF CallInv, Coherent
<1>5. queue'[e] = Tail(queue[e]) /\ \A f \in Entries \ {e} : queue'[f] = queue[f]
  BY DEF Popped, TypeOK
<1>6. Len(queue'[e]) = n - 1 /\ \A i \in 1..n-1 : queue'[e][i] = queue[e][i+1]
  BY <1>1, <1>5
<1>7. \A i \in 1..n-1 : i + 1 \in 1..n /\ i + 1 # 1
  BY <1>1
<1>8. \A i \in 1..n-1 : queue[e][i+1] \in Clients \ {c}
  BY <1>1, <1>2, <1>7, CallTypes DEF Queued
<1>9. Queued(e)'
  <2>1. \A i \in 1..n-1 : client'[queue'[e][i]] = client[queue[e][i+1]]
    BY <1>6, <1>8 DEF OthersStay
  <2>2. \A i \in 1..n-1 : client'[queue'[e][i]].pc = "queued" /\ client'[queue'[e][i]].entry = e
    BY <1>2, <1>7, <2>1 DEF Queued
  <2>3. \A i, j \in 1..n-1 : queue'[e][i] = queue'[e][j] => i + 1 = j + 1
    BY <1>2, <1>6, <1>7 DEF Queued
  <2>4. \A i, j \in 1..n-1 : queue'[e][i] = queue'[e][j] => i = j
    BY <1>1, <2>3
  <2> QED BY <1>6, <2>2, <2>4 DEF Queued
<1> QED BY <1>3, <1>4, <1>5, <1>9

-----------------------------------------------------------------------------
(* Streams and callers. *)

\* What Ended and the change of a control state do to one call.
LEMMA Ending ==
  ASSUME TypeOK, CallInv, NEW c \in Clients, NEW o, End(c, o),
         o = "refused" \/ (c \in Streams /\ o = "process") => ~client[c].sent
  PROVE  /\ OthersStay({c})
         /\ client'[c].pc = "end" /\ client'[c].entry = None /\ Coherent(c)'
<1>1. /\ client'[c] = Ended(client[c], o) /\ client[c] \in ClientRec
      /\ \A d \in Clients \ {c} : client'[d] = client[d]
  BY DEF End, TypeOK
<1>2. /\ client'[c].pc = "end" /\ client'[c].entry = None /\ client'[c].outcome = o
      /\ client'[c].sent = client[c].sent
  BY <1>1 DEF Ended, ClientRec
<1> QED BY <1>1, <1>2 DEF OthersStay, Coherent

LEMMA Going ==
  ASSUME TypeOK, NEW c \in Clients, NEW p, At(c, p)
  PROVE  /\ OthersStay({c})
         /\ client'[c].pc = p /\ client'[c].entry = client[c].entry
         /\ client'[c].sent = client[c].sent /\ client'[c].outcome = client[c].outcome
  BY DEF At, TypeOK, ClientRec, OthersStay

\* Setting or clearing busy changes nothing else.
LEMMA BusySet ==
  ASSUME TypeOK, NEW e \in Entries, NEW v \in BOOLEAN, entry' = [entry EXCEPT ![e].busy = v]
  PROVE  /\ entry'[e].busy = v /\ entry'[e].pending = entry[e].pending
         /\ entry'[e].prompt_acknowledged = entry[e].prompt_acknowledged
         /\ \A f \in Entries \ {e} : SameFlags(f)
  BY DEF TypeOK, EntryRec, SameFlags

\* A call that has not entered the channel is refused.
LEMMA CallRefused ==
  ASSUME TypeOK, CallInv, NEW c \in Clients, client[c].pc \in {"idle", "settle", "claim"},
         End(c, "refused"), UNCHANGED <<worker, queue>>, \A f \in Entries : SameFlags(f)
  PROVE  Kept
<1>1. ~client[c].sent
  BY DEF CallInv, Coherent
<1>2. /\ OthersStay({c})
      /\ client'[c].pc = "end" /\ client'[c].entry = None /\ Coherent(c)'
  BY <1>1, Ending
<1>3. client'[c].entry \notin Entries
  BY <1>2, CallTypes
<1> QED BY <1>2, <1>3, CallMoves DEF HolderPc

\* A call goes on before it has entered the channel.
LEMMA CallGoes ==
  ASSUME TypeOK, CallInv, NEW c \in Clients, NEW p, At(c, p),
         \/ /\ client[c].pc \in {"await", "giveUp", "kill", "settle", "claim"}
            /\ p \in {"giveUp", "kill", "settle", "claim", "insert"}
         \/ client[c].pc = "announce" /\ p = "enqueue",
         UNCHANGED <<worker, queue>>, \A f \in Entries : SameFlags(f)
  PROVE  Kept
<1>1. /\ OthersStay({c})
      /\ client'[c].pc = p /\ client'[c].entry = client[c].entry
      /\ client'[c].sent = client[c].sent /\ client'[c].outcome = client[c].outcome
  BY Going
<1>2. client[c].entry \in Entries /\ worker[client[c].entry].pc # "absent"
  BY KnownHasWorker
<1>3. ~client[c].sent /\ client[c].outcome = "none"
  BY DEF CallInv, Coherent
<1>4. Coherent(c)'
  BY <1>1, <1>2, <1>3 DEF Coherent
<1> QED BY <1>1, <1>2, <1>4, CallMoves DEF HolderPc

\* A call finds a registered entry, which has a worker.
LEMMA CallArrives ==
  ASSUME TypeOK, RegistryInv, CallInv, NEW c \in Clients, client[c].pc = "idle",
         NEW k \in Keys, registry[k] # None, NEW p \in {"await", "claim"}, NEW K,
         client' = [client EXCEPT ![c].pc = p, ![c].key = k, ![c].entry = registry[k]]
         \/ client' = [client EXCEPT ![c].pc = p, ![c].key = k, ![c].kind = K,
                                     ![c].entry = registry[k]],
         UNCHANGED <<entry, worker, queue>>
  PROVE  Kept
<1>1. registry[k] \in Entries /\ worker[registry[k]].pc # "absent"
  <2>1. registry[k] \in Entries
    BY DEF TypeOK
  <2>2. worker[registry[k]].pc \in StartPc \cup ServePc \cup {"exit"}
    BY DEF RegistryInv, RegisteredIsRunning
  <2> QED BY <2>1, <2>2 DEF StartPc, ServePc
<1>2. /\ OthersStay({c})
      /\ client'[c].pc = p /\ client'[c].entry = registry[k]
      /\ client'[c].sent = client[c].sent /\ client'[c].outcome = client[c].outcome
  BY DEF TypeOK, ClientRec, OthersStay
<1>3. ~client[c].sent /\ client[c].outcome = "none"
  BY DEF CallInv, Coherent
<1>4. Coherent(c)'
  BY <1>1, <1>2, <1>3 DEF Coherent
<1>5. \A f \in Entries : SameFlags(f)
  BY DEF SameFlags
<1> QED BY <1>1, <1>2, <1>4, <1>5, CallMoves DEF HolderPc

\* reserve_session registers an entry that nobody knows yet.
LEMMA CallReserves ==
  ASSUME TypeOK, CallInv, NEW s \in Streams, client[s].pc = "idle",
         NEW e \in Entries, worker[e].pc = "absent", NEW k \in Keys,
         worker' = [worker EXCEPT ![e].pc = "boot", ![e].key = k, ![e].creator = s],
         client' = [client EXCEPT ![s].pc = "await", ![s].key = k, ![s].entry = e],
         UNCHANGED <<entry, queue>>
  PROVE  Kept
<1>1. s \in Clients
  BY DEF Clients
<1>2. /\ OthersStay({s})
      /\ client'[s].pc = "await" /\ client'[s].entry = e
      /\ client'[s].sent = client[s].sent /\ client'[s].outcome = client[s].outcome
  BY <1>1 DEF TypeOK, ClientRec, OthersStay
<1>3. worker'[e].pc = "boot" /\ \A f \in Entries \ {e} : worker'[f] = worker[f]
  BY DEF TypeOK, WorkerRec
<1>4. EntryInv(e) /\ Coherent(s)
  BY <1>1 DEF CallInv, CallEntries
<1>5. Coherent(s)'
  BY <1>2, <1>4 DEF Coherent
<1>6. Touches(e, {s})
  <2>1. client[s].entry = None
    BY <1>4 DEF Coherent
  <2>2. \A f \in Entries \ {e} : SameFlags(f)
    BY DEF SameFlags
  <2> QED BY <1>2, <1>3, <1>5, <2>1, <2>2 DEF Touches
<1>7. Queued(e)'
  BY <1>2, QueueStays
<1>8. Served(e)'
  BY <1>3 DEF Served, CmdPc, ControlPc, PromptPc
<1>9. ~entry[e].busy /\ \A c \in Clients : client[c].entry # e
  BY <1>4 DEF EntryInv, Locked
<1>10. Locked(e)'
  <2>1. Holders(e)' = {}
    BY <1>2, <1>9 DEF Holders, OthersStay
  <2> QED BY <1>3, <1>9, <2>1 DEF Locked
<1>11. Waited(e)'
  <2>1. s \notin entry[e].pending
    BY <1>4, <1>9, CallTypes DEF EntryInv, Waited
  <2> QED BY <1>2, <2>1, WaitersStay
<1> QED BY <1>6, <1>7, <1>8, <1>10, <1>11, KeptAt DEF EntryInv

\* A new call, or a call of close.
LEMMA CallsArrive ==
  ASSUME TypeOK, RegistryInv, CallInv, Arrive
  PROVE  Kept
<1>1. ASSUME NEW s \in Streams, NEW k \in Keys, Reserve(s, k)
      PROVE  Kept
  <2>1. s \in Clients /\ client[s].pc = "idle" /\ UNCHANGED <<entry, queue>>
    BY <1>1 DEF Clients, Reserve
  <2>2. \A f \in Entries : SameFlags(f)
    BY <2>1 DEF SameFlags
  <2>3. CASE End(s, "refused") /\ UNCHANGED <<registry, worker>>
    BY <2>1, <2>2, <2>3, CallRefused
  <2>4. CASE /\ registry[k] # None
             /\ client' = [client EXCEPT ![s].pc = "await", ![s].key = k,
                                         ![s].entry = registry[k]]
             /\ UNCHANGED <<registry, worker>>
    BY <2>1, <2>4, CallArrives
  <2>5. ASSUME NEW e \in Entries, worker[e].pc = "absent",
               worker' = [worker EXCEPT ![e].pc = "boot", ![e].key = k, ![e].creator = s],
               client' = [client EXCEPT ![s].pc = "await", ![s].key = k, ![s].entry = e]
        PROVE  Kept
    BY <2>1, <2>5, CallReserves
  <2> QED BY <1>1, <2>3, <2>4, <2>5 DEF Reserve
<1>2. ASSUME NEW c \in Callers, NEW k \in Keys, NEW K \in Kinds, Lookup(c, k, K)
      PROVE  Kept
  <2>1. c \in Clients /\ client[c].pc = "idle" /\ UNCHANGED <<entry, worker, queue>>
    BY <1>2 DEF Clients, Lookup
  <2>2. CASE End(c, "refused")
    <3>1. \A f \in Entries : SameFlags(f)
      BY <2>1 DEF SameFlags
    <3> QED BY <2>1, <2>2, <3>1, CallRefused
  <2>3. CASE /\ registry[k] # None
             /\ client' = [client EXCEPT ![c].pc = "claim", ![c].key = k, ![c].kind = K,
                                         ![c].entry = registry[k]]
    BY <2>1, <2>3, CallArrives
  <2> QED BY <1>2, <2>2, <2>3 DEF Lookup
<1>3. ASSUME NEW x \in Closers, CloseOne(x) \/ CloseAll(x)
      PROVE  Kept
  <2>1. PICK targets : StartClose(x, targets)
    BY <1>3 DEF CloseOne, CloseAll
  <2>2. \A f \in Entries : SameFlags(f)
    BY <2>1 DEF StartClose, SameFlags, TypeOK, EntryRec
  <2> QED BY <2>1, <2>2, NobodyNotices DEF StartClose
<1> QED BY <1>1, <1>2, <1>3 DEF Arrive

\* The steps of a stream thread.
LEMMA StreamKeepsCalls ==
  ASSUME TypeOK, CallInv, NEW s \in Streams, Cancel(s) \/ StreamStep(s)
  PROVE  Kept
<1> DEFINE e == client[s].entry
<1>c. s \in Clients
  BY DEF Clients
<1>1. CASE Cancel(s)
  <2>1. \A f \in Entries : SameFlags(f)
    BY <1>1 DEF Cancel, SameFlags
  <2>2. \A c \in Clients : /\ client'[c].pc = client[c].pc /\ client'[c].entry = client[c].entry
                           /\ client'[c].sent = client[c].sent
                           /\ client'[c].outcome = client[c].outcome
    BY <1>1 DEF Cancel, TypeOK, ClientRec
  <2> QED BY <1>1, <2>1, <2>2, NobodyNotices DEF Cancel
<1>2. CASE StartCancelled(s)
  BY <1>c, <1>2, CallRefused DEF StartCancelled, SameFlags
<1>3. CASE Await(s)
  <2>1. PICK p \in {"settle", "giveUp"} : At(s, p)
    BY <1>3 DEF Await
  <2> QED BY <1>c, <1>3, <2>1, CallGoes DEF Await, SameFlags
<1>4. CASE GiveUp(s)
  <2>1. \A f \in Entries : SameFlags(f)
    BY <1>4 DEF GiveUp, SameFlags, TypeOK, EntryRec
  <2> QED BY <1>c, <1>4, <2>1, CallGoes DEF GiveUp
<1>5. CASE Kill(s)
  <2>1. \A f \in Entries : SameFlags(f)
    BY <1>5 DEF Kill, SameFlags, TypeOK, EntryRec
  <2> QED BY <1>c, <1>5, <2>1, CallGoes DEF Kill
<1>6. CASE Settle(s)
  <2>1. CASE End(s, "refused")
    BY <1>c, <1>6, <2>1, CallRefused DEF Settle, SameFlags
  <2>2. CASE At(s, "claim")
    BY <1>c, <1>6, <2>2, CallGoes DEF Settle, SameFlags
  <2> QED BY <1>6, <2>1, <2>2 DEF Settle
<1>7. CASE Claim(s)
  <2>1. CASE End(s, "refused") /\ UNCHANGED entry
    BY <1>c, <1>7, <2>1, CallRefused DEF Claim, SameFlags
  <2>2. CASE ~entry[e].busy /\ At(s, "announce") /\ entry' = [entry EXCEPT ![e].busy = TRUE]
    <3>1. client[s].pc = "claim" /\ UNCHANGED <<queue, worker>>
      BY <1>7 DEF Claim
    <3>2. e \in Entries
      BY <1>c, <3>1, KnownHasWorker
    <3>3. /\ entry'[e].busy = TRUE /\ entry'[e].pending = entry[e].pending
          /\ entry'[e].prompt_acknowledged = entry[e].prompt_acknowledged
          /\ \A f \in Entries \ {e} : SameFlags(f)
      BY <2>2, <3>2, BusySet
    <3>4. /\ OthersStay({s}) /\ client'[s].pc = "announce" /\ client'[s].entry = e
          /\ client'[s].sent = client[s].sent /\ client'[s].outcome = client[s].outcome
      BY <1>c, <2>2, Going
    <3>5. Coherent(s)'
      BY <1>c, <3>1, <3>2, <3>4 DEF CallInv, Coherent
    <3> QED BY <1>c, <2>2, <3>1, <3>3, <3>4, <3>5, CallClaims
  <2> QED BY <1>7, <2>1, <2>2 DEF Claim, IsBusy
<1>8. CASE Announce(s)
  <2>1. \A f \in Entries : SameFlags(f)
    BY <1>8 DEF Announce, SameFlags, TypeOK, EntryRec
  <2> QED BY <1>c, <1>8, <2>1, CallGoes DEF Announce
<1>9. CASE Enqueue(s)
  <2>0. client[s].pc = "enqueue" /\ ~client[s].sent /\ e \in Entries /\ UNCHANGED worker
    <3>1. client[s].pc = "enqueue" /\ UNCHANGED worker
      BY <1>9 DEF Enqueue
    <3> QED BY <1>c, <3>1, KnownHasWorker DEF CallInv, Coherent
  <2>1. CASE /\ worker[e].pc = "gone"
             /\ entry' = [entry EXCEPT ![e].prompt_active = FALSE, ![e].busy = FALSE]
             /\ End(s, "refused") /\ UNCHANGED queue
    <3>1. /\ entry'[e].pending = entry[e].pending
          /\ entry'[e].prompt_acknowledged = entry[e].prompt_acknowledged
          /\ \A f \in Entries \ {e} : SameFlags(f)
      <4>1. entry[e] \in EntryRec
        BY <2>0, CallTypes
      <4> QED BY <2>0, <2>1, <4>1 DEF TypeOK, EntryRec, SameFlags
    <3>2. OthersStay({s}) /\ client'[s].entry = None /\ Coherent(s)'
      BY <1>c, <2>0, <2>1, Ending
    <3> QED BY <1>c, <2>0, <2>1, <3>1, <3>2, CallFindsNone
  <2>2. CASE queue' = [queue EXCEPT ![e] = Append(@, s)] /\ At(s, "queued") /\ UNCHANGED entry
    <3>1. /\ OthersStay({s}) /\ client'[s].pc = "queued" /\ client'[s].entry = e
          /\ client'[s].sent = client[s].sent /\ client'[s].outcome = client[s].outcome
      BY <1>c, <2>2, Going
    <3>2. Coherent(s)'
      BY <1>c, <2>0, <3>1 DEF CallInv, Coherent
    <3> QED BY <1>c, <2>0, <2>2, <3>1, <3>2, CallQueues
  <2> QED BY <1>9, <2>1, <2>2 DEF Enqueue
<1> QED
  BY <1>1, <1>2, <1>3, <1>4, <1>5, <1>6, <1>7, <1>8, <1>9 DEF StreamStep

\* A call enters the pending map of its entry.
LEMMA InsertKeepsCalls ==
  ASSUME TypeOK, CallInv, NEW c \in Callers, Insert(c)
  PROVE  Kept
<1>1. /\ c \in Clients /\ client[c].pc = "insert" /\ At(c, "write")
      /\ UNCHANGED <<worker, queue>>
  BY DEF Insert, Clients
<1>2. PICK e \in Entries : e = client[c].entry /\ worker[e].pc # "absent"
  BY <1>1, KnownHasWorker
<1>3. /\ entry'[e].pending = entry[e].pending \cup {c} /\ entry'[e].busy = entry[e].busy
      /\ entry'[e].prompt_acknowledged = entry[e].prompt_acknowledged
      /\ \A f \in Entries \ {e} : SameFlags(f)
  BY <1>2 DEF Insert, TypeOK, EntryRec, SameFlags
<1>4. /\ OthersStay({c}) /\ client'[c].pc = "write" /\ client'[c].entry = e
      /\ client'[c].sent = client[c].sent /\ client'[c].outcome = client[c].outcome
  BY <1>1, <1>2, Going
<1>5. Coherent(c)'
  BY <1>1, <1>4 DEF CallInv, Coherent
<1>6. Queued(e)'
  BY <1>1, <1>4, QueueStays
<1>7. EntryInv(e)
  BY DEF CallInv, CallEntries
<1>8. Locked(e)'
  <2>1. Holders(e)' = Holders(e)
    BY <1>1, <1>4 DEF Holders, OthersStay
  <2> QED BY <1>1, <1>2, <1>3, <1>7, <2>1 DEF EntryInv, Locked, Open
<1>9. Waited(e)'
  BY <1>3, <1>4, <1>7, CallTypes DEF EntryInv, Waited, OthersStay
<1> QED BY <1>1, <1>2, <1>3, <1>4, <1>5, <1>6, <1>8, <1>9, CallAtEntry

\* The steps of a caller.
LEMMA CallerKeepsCalls ==
  ASSUME TypeOK, CallInv, NEW c \in Callers, CallerStep(c)
  PROVE  Kept
<1> DEFINE e == client[c].entry
<1>c. c \in Clients
  BY DEF Clients
<1>e. client[c].pc \notin {"idle", "end"} /\ e \in Entries /\ UNCHANGED worker
  <2>1. client[c].pc \notin {"idle", "end"} /\ UNCHANGED worker
    BY DEF CallerStep, CallerClaim, Send, Insert, Write, AnswerTimeout
  <2> QED BY <1>c, <2>1, KnownHasWorker
<1>k. Coherent(c)
  BY <1>c DEF CallInv
<1>1. CASE CallerClaim(c)
  <2>0. client[c].pc = "claim" /\ UNCHANGED queue
    BY <1>1 DEF CallerClaim
  <2>1. CASE ~entry[e].busy /\ At(c, "send") /\ entry' = [entry EXCEPT ![e].busy = TRUE]
    <3>1. /\ entry'[e].busy = TRUE /\ entry'[e].pending = entry[e].pending
          /\ entry'[e].prompt_acknowledged = entry[e].prompt_acknowledged
          /\ \A f \in Entries \ {e} : SameFlags(f)
      BY <1>e, <2>1, BusySet
    <3>2. /\ OthersStay({c}) /\ client'[c].pc = "send" /\ client'[c].entry = e
          /\ client'[c].sent = client[c].sent /\ client'[c].outcome = client[c].outcome
      BY <1>c, <2>1, Going
    <3>3. Coherent(c)'
      BY <1>e, <1>k, <2>0, <3>2 DEF Coherent
    <3> QED BY <1>c, <1>e, <2>0, <2>1, <3>1, <3>2, <3>3, CallClaims
  <2>2. CASE At(c, "insert") /\ UNCHANGED entry
    BY <1>c, <1>e, <2>0, <2>2, CallGoes DEF SameFlags
  <2>3. CASE End(c, "refused") /\ UNCHANGED entry
    BY <1>c, <1>e, <2>0, <2>3, CallRefused DEF SameFlags
  <2> QED BY <1>1, <2>1, <2>2, <2>3 DEF CallerClaim, IsBusy
<1>2. CASE Send(c)
  <2>0. client[c].pc = "send" /\ ~client[c].sent
    BY <1>2, <1>k DEF Send, Coherent
  <2>1. CASE /\ worker[e].pc = "gone" /\ entry' = [entry EXCEPT ![e].busy = FALSE]
             /\ End(c, "refused") /\ UNCHANGED queue
    <3>1. /\ entry'[e].pending = entry[e].pending
          /\ entry'[e].prompt_acknowledged = entry[e].prompt_acknowledged
          /\ \A f \in Entries \ {e} : SameFlags(f)
      BY <1>e, <2>1, BusySet
    <3>2. OthersStay({c}) /\ client'[c].entry = None /\ Coherent(c)'
      BY <1>c, <2>0, <2>1, Ending
    <3> QED BY <1>c, <1>e, <2>0, <2>1, <3>1, <3>2, CallFindsNone
  <2>2. CASE queue' = [queue EXCEPT ![e] = Append(@, c)] /\ At(c, "queued") /\ UNCHANGED entry
    <3>1. /\ OthersStay({c}) /\ client'[c].pc = "queued" /\ client'[c].entry = e
          /\ client'[c].sent = client[c].sent /\ client'[c].outcome = client[c].outcome
      BY <1>c, <2>2, Going
    <3>2. Coherent(c)'
      BY <1>e, <1>k, <2>0, <3>1 DEF Coherent
    <3> QED BY <1>c, <1>e, <2>0, <2>2, <3>1, <3>2, CallQueues
  <2> QED BY <1>2, <2>1, <2>2 DEF Send
<1>3. CASE Insert(c)
  BY <1>3, InsertKeepsCalls
<1>4. ASSUME entry' = Forgotten(c), client[c].pc \in {"write", "answer"}, End(c, "failed"),
             UNCHANGED <<queue, worker>>
      PROVE  Kept
  <2>1. /\ entry'[e].pending = entry[e].pending \ {c} /\ entry'[e].busy = entry[e].busy
        /\ entry'[e].prompt_acknowledged = entry[e].prompt_acknowledged
        /\ \A f \in Entries \ {e} : SameFlags(f)
    BY <1>4, <1>e DEF Forgotten, TypeOK, EntryRec, SameFlags
  <2>2. /\ OthersStay({c})
        /\ client'[c].pc = "end" /\ client'[c].entry = None /\ Coherent(c)'
    <3>1. ~(c \in Streams)
      BY NamesDistinct
    <3> QED BY <1>4, <1>c, <3>1, Ending
  <2>3. {c} \in SUBSET Clients
    BY <1>c
  <2> QED BY <1>4, <1>e, <2>1, <2>2, <2>3, WaitEnds
<1>5. CASE Write(c)
  <2>1. CASE client' = [client EXCEPT ![c].pc = "answer", ![c].sent = TRUE] /\ UNCHANGED entry
    <3>1. /\ OthersStay({c}) /\ client'[c].pc = "answer" /\ client'[c].entry = e
          /\ client'[c].outcome = client[c].outcome
      BY <1>c, <2>1 DEF TypeOK, ClientRec, OthersStay
    <3>2. client[c].pc = "write" /\ UNCHANGED <<worker, queue>>
      BY <1>5 DEF Write
    <3>3. Coherent(c)'
      BY <1>e, <1>k, <3>1, <3>2 DEF Coherent
    <3>4. worker[e].pc # "absent"
      BY <1>c, <1>e, KnownHasWorker
    <3>5. \A f \in Entries : SameFlags(f)
      BY <2>1 DEF SameFlags
    <3> QED BY <1>c, <3>1, <3>2, <3>3, <3>4, <3>5, CallMoves DEF HolderPc
  <2> QED BY <1>4, <1>5, <2>1 DEF Write
<1>6. CASE AnswerTimeout(c)
  BY <1>4, <1>6 DEF AnswerTimeout
<1> QED BY <1>1, <1>2, <1>3, <1>5, <1>6 DEF CallerStep

-----------------------------------------------------------------------------
(* The worker. *)

IdlePc == StartPc \cup {"idle", "postcheck"}
LeftPc == {"reap", "quit", "exit", "drain", "finish", "dropping", "gone"}

\* The worker is between calls and stays there, or leaves its loop.
LEMMA WorkerIdles ==
  ASSUME TypeOK, CallInv, NEW e \in Entries, UNCHANGED <<queue, client>>,
         \A f \in Entries \ {e} : worker'[f] = worker[f],
         \/ /\ worker[e].pc \in IdlePc /\ worker'[e].pc \in IdlePc \cup LeftPc
            /\ \A f \in Entries : SameFlags(f)
         \/ /\ worker'[e].pc \in LeftPc /\ entry'[e].pending = entry[e].pending
            /\ \A f \in Entries \ {e} : SameFlags(f)
  PROVE  Kept
<1>1. worker'[e].pc \notin CmdPc \cup {"absent"}
  BY DEF IdlePc, StartPc, LeftPc, CmdPc, ControlPc, PromptPc
<1>2. Open(e)' => Open(e) /\ entry'[e].busy = entry[e].busy
  BY DEF Open, OpenPc, StartPc, ServePc, IdlePc, LeftPc, SameFlags
<1>3. entry'[e].pending = entry[e].pending /\ \A f \in Entries \ {e} : SameFlags(f)
  BY DEF SameFlags
<1> QED BY <1>1, <1>2, <1>3, WorkerMoves

\* The worker between calls: start, idle loop, exit.
LEMMA LifeKeepsCalls ==
  ASSUME TypeOK, CallInv, NEW e \in Entries,
         \/ Boot(e) \/ Candidate(e) \/ Spawn(e) \/ Install(e) \/ Handshake(e)
         \/ IdleTimeout(e) \/ Reap(e) \/ Quit(e) \/ Exit(e) \/ Finish(e) \/ Postcheck(e)
  PROVE  Kept
<1>u. UNCHANGED <<queue, client>>
  BY DEF Boot, Candidate, Spawn, Install, Handshake, IdleTimeout, Reap, Quit, Exit, Finish, Postcheck
<1> USE DEF IdlePc, StartPc, LeftPc
<1>1. CASE Boot(e) \/ IdleTimeout(e)
  <2>1. PICK p \in {"exit", "candidate", "reap"} : To(e, p)
    BY <1>1 DEF Boot, IdleTimeout
  <2>2. worker[e].pc \in {"boot", "idle"} /\ \A f \in Entries : SameFlags(f)
    BY <1>1 DEF Boot, IdleTimeout, SameFlags
  <2>3. worker'[e].pc = p /\ \A f \in Entries \ {e} : worker'[f] = worker[f]
    BY <2>1, ToMoves
  <2> QED BY <1>u, <2>2, <2>3, WorkerIdles
<1>8. CASE Quit(e)
  <2>1. PICK p \in {"exit", "finish"} : To(e, p)
    BY <1>8 DEF Quit
  <2>2. entry'[e].pending = entry[e].pending /\ \A f \in Entries \ {e} : SameFlags(f)
    BY <1>8 DEF Quit, SameFlags
  <2>3. worker'[e].pc = p /\ \A f \in Entries \ {e} : worker'[f] = worker[f]
    BY <2>1, ToMoves
  <2> QED BY <1>u, <2>2, <2>3, WorkerIdles
<1>2. CASE Candidate(e)
  <2>1. /\ worker[e].pc = "candidate" /\ worker'[e].pc \in {"exit", "spawn"}
        /\ \A f \in Entries \ {e} : worker'[f] = worker[f]
    <3>1. CASE To(e, "exit")
      BY <1>2, <3>1, ToMoves DEF Candidate
    <3>2. CASE ~To(e, "exit")
      <4>1. worker' = [worker EXCEPT ![e].pc = "spawn", ![e].candidate = @ + 1]
        BY <1>2, <3>2 DEF Candidate
      <4>2. worker[e] \in WorkerRec
        BY CallTypes
      <4> QED BY <1>2, <4>1, <4>2 DEF Candidate, TypeOK, WorkerRec
    <3> QED BY <3>1, <3>2
  <2>2. \A f \in Entries : SameFlags(f)
    BY <1>2 DEF Candidate, SameFlags
  <2> QED BY <1>u, <2>1, <2>2, WorkerIdles
<1>3. CASE Spawn(e)
  <2>1. /\ worker[e].pc = "spawn" /\ worker'[e].pc \in {"candidate", "install"}
        /\ \A f \in Entries \ {e} : worker'[f] = worker[f]
    BY <1>3, ToMoves DEF Spawn
  <2>2. \A f \in Entries : SameFlags(f)
    <3>1. CASE UNCHANGED entry
      BY <3>1 DEF SameFlags
    <3>2. CASE entry' = [entry EXCEPT ![e].process = "spawned"]
      BY <3>2 DEF SameFlags, TypeOK, EntryRec
    <3> QED BY <1>3, <3>1, <3>2 DEF Spawn
  <2> QED BY <1>u, <2>1, <2>2, WorkerIdles
<1>4. CASE Install(e)
  <2>1. /\ worker[e].pc = "install" /\ worker'[e].pc = "handshake"
        /\ \A f \in Entries \ {e} : worker'[f] = worker[f]
    BY <1>4, ToMoves DEF Install
  <2>2. \A f \in Entries : SameFlags(f)
    BY <1>4 DEF Install, SameFlags, TypeOK, EntryRec
  <2> QED BY <1>u, <2>1, <2>2, WorkerIdles
<1>5. CASE Handshake(e)
  <2>1. /\ worker[e].pc = "handshake" /\ worker'[e].pc \in {"exit", "idle", "candidate"}
        /\ \A f \in Entries \ {e} : worker'[f] = worker[f]
    BY <1>5, ToMoves DEF Handshake, TypeOK, WorkerRec
  <2>2. \A f \in Entries : SameFlags(f)
    <3>1. \/ entry' = [entry EXCEPT ![e].process = Killed(e)]
          \/ entry' = [entry EXCEPT ![e].stdin = TRUE, ![e].initialized = TRUE]
      BY <1>5 DEF Handshake
    <3>2. CASE entry' = [entry EXCEPT ![e].process = Killed(e)]
      BY <3>2 DEF SameFlags, TypeOK, EntryRec
    <3>3. CASE entry' = [entry EXCEPT ![e].stdin = TRUE, ![e].initialized = TRUE]
      BY <3>3 DEF SameFlags, TypeOK, EntryRec
    <3> QED BY <3>1, <3>2, <3>3
  <2> QED BY <1>u, <2>1, <2>2, WorkerIdles
<1>6. CASE Reap(e) \/ Exit(e) \/ Finish(e)
  <2>1. /\ worker'[e].pc \in {"exit", "drain", "dropping"}
        /\ \A f \in Entries \ {e} : worker'[f] = worker[f]
    BY <1>6, ToMoves DEF Reap, Exit, Finish
  <2>2. /\ entry'[e].pending = entry[e].pending
        /\ \A f \in Entries \ {e} : SameFlags(f)
    BY <1>6 DEF Reap, Exit, Finish, SameFlags, TypeOK, EntryRec
  <2> QED BY <1>u, <2>1, <2>2, WorkerIdles
<1>7. CASE Postcheck(e)
  <2>0. worker[e].pc = "postcheck"
    BY <1>7 DEF Postcheck
  <2>1. CASE /\ entry' = [entry EXCEPT ![e].prompt_active = FALSE, ![e].busy = FALSE]
             /\ To(e, "quit")
    <3>1. /\ worker'[e].pc = "quit"
          /\ \A f \in Entries \ {e} : worker'[f] = worker[f]
      BY <2>1, ToMoves
    <3>2. /\ entry'[e].pending = entry[e].pending
          /\ \A f \in Entries \ {e} : SameFlags(f)
      BY <2>1 DEF SameFlags, TypeOK, EntryRec
    <3> QED BY <1>u, <3>1, <3>2, WorkerIdles
  <2>2. ASSUME NEW p \in {"reap", "idle"}, To(e, p), UNCHANGED entry PROVE Kept
    <3>1. /\ worker'[e].pc = p
          /\ \A f \in Entries \ {e} : worker'[f] = worker[f]
      BY <2>2, ToMoves
    <3>2. \A f \in Entries : SameFlags(f)
      BY <2>2 DEF SameFlags
    <3> QED BY <1>u, <2>0, <3>1, <3>2, WorkerIdles
  <2> QED BY <1>7, <2>1, <2>2 DEF Postcheck
<1> QED BY <1>1, <1>2, <1>3, <1>4, <1>5, <1>6, <1>7, <1>8

\* The worker takes a call out of its channel and does not serve it.
LEMMA HeadRefused ==
  ASSUME TypeOK, CallInv, NEW e \in Entries, queue[e] # <<>>, queue' = Popped(e),
         End(Head(queue[e]), "refused"), worker'[e].pc \in LeftPc,
         \A f \in Entries \ {e} : SameFlags(f) /\ worker'[f] = worker[f],
         entry'[e].pending = entry[e].pending
  PROVE  Kept
<1> DEFINE C == {Head(queue[e])}
<1>1. \A c \in C : c \in Clients /\ client[c].pc = "queued" /\ client[c].entry = e
  <2>1. Queued(e) /\ queue[e] \in Seq(Clients)
    BY CallTypes DEF CallInv, CallEntries, EntryInv
  <2>2. 1 \in 1..Len(queue[e]) /\ Head(queue[e]) = queue[e][1]
    BY <2>1
  <2> QED BY <2>1, <2>2, CallTypes DEF Queued
<1>2. ~client[Head(queue[e])].sent
  BY <1>1 DEF CallInv, Coherent
<1>3. /\ OthersStay(C)
      /\ \A c \in C : client'[c].pc = "end" /\ client'[c].entry = None /\ Coherent(c)'
  BY <1>1, <1>2, Ending
<1>4. Queued(e)' /\ \A f \in Entries \ {e} : queue'[f] = queue[f]
  BY <1>3, HeadLeaves
<1>5. Touches(e, C)
  BY <1>1, <1>3, <1>4 DEF Touches
<1>6. Served(e)' /\ Locked(e)'
  BY DEF Served, Locked, LeftPc, CmdPc, ControlPc, PromptPc, Open, OpenPc, StartPc, ServePc
<1>7. Waited(e)'
  <2>1. Head(queue[e]) \notin entry[e].pending
    BY <1>1 DEF CallInv, CallEntries, EntryInv, Waited
  <2> QED BY <1>3, <2>1, WaitersStay
<1> QED BY <1>4, <1>5, <1>6, <1>7, KeptAt DEF EntryInv

\* The worker takes a call out of its channel and starts on it.
LEMMA HeadServed ==
  ASSUME TypeOK, CallInv, NEW e \in Entries, queue[e] # <<>>, queue' = Popped(e),
         worker[e].pc = "idle", UNCHANGED entry,
         At(Head(queue[e]), "served"),
         worker' = [worker EXCEPT ![e].cmd = Head(queue[e]),
                      ![e].pc = IF Head(queue[e]) \in Callers THEN "control" ELSE "prompt"]
  PROVE  Kept
<1>1. PICK c : c = Head(queue[e])
  OBVIOUS
<1>2. c \in Clients /\ client[c].pc = "queued" /\ client[c].entry = e
  <2>1. Queued(e) /\ queue[e] \in Seq(Clients)
    BY CallTypes DEF CallInv, CallEntries, EntryInv
  <2>2. 1 \in 1..Len(queue[e]) /\ Head(queue[e]) = queue[e][1]
    BY <2>1
  <2> QED BY <1>1, <2>1, <2>2, CallTypes DEF Queued
<1>3. ~client[c].sent /\ client[c].outcome = "none"
  BY <1>2 DEF CallInv, Coherent
<1>4. /\ OthersStay({c})
      /\ client'[c].pc = "served" /\ client'[c].entry = e
      /\ client'[c].sent = client[c].sent /\ client'[c].outcome = client[c].outcome
  BY <1>1, <1>2, Going
<1>5. Coherent(c)'
  BY <1>3, <1>4 DEF Coherent
<1>6. Queued(e)' /\ \A f \in Entries \ {e} : queue'[f] = queue[f]
  BY <1>1, <1>4, HeadLeaves
<1>7. /\ worker'[e].cmd = c
      /\ worker'[e].pc = IF c \in Callers THEN "control" ELSE "prompt"
      /\ \A f \in Entries \ {e} : worker'[f] = worker[f]
  BY <1>1 DEF TypeOK, WorkerRec
<1>8. Touches(e, {c})
  BY <1>2, <1>4, <1>5, <1>6, <1>7 DEF Touches, SameFlags
<1>9. Served(e)'
  <2>1. c \in Callers \/ c \in Streams
    BY <1>2 DEF Clients
  <2> QED BY <1>3, <1>4, <1>7, <2>1 DEF Served, CmdPc, ControlPc, PromptPc
<1>10. Locked(e)'
  <2>1. Holders(e)' = Holders(e)
    BY <1>2, <1>4 DEF Holders, OthersStay
  <2>2. Open(e) /\ worker'[e].pc # "absent"
    BY <1>7 DEF Open, OpenPc, StartPc, ServePc
  <2>3. Locked(e)
    BY DEF CallInv, CallEntries, EntryInv
  <2> QED BY <2>1, <2>2, <2>3 DEF Locked
<1>11. Waited(e)'
  <2>1. c \notin entry[e].pending
    BY <1>2 DEF CallInv, CallEntries, EntryInv, Waited
  <2> QED BY <1>4, <2>1, WaitersStay
<1> QED BY <1>6, <1>8, <1>9, <1>10, <1>11, KeptAt DEF EntryInv

\* The worker receives, drains and drops its channel.
LEMMA ChannelKeepsCalls ==
  ASSUME TypeOK, CallInv, NEW e \in Entries, Receive(e) \/ Drain(e) \/ Drop(e)
  PROVE  Kept
<1> DEFINE h == Head(queue[e])
<1>1. CASE Receive(e)
  <2>1. worker[e].pc = "idle" /\ queue[e] # <<>> /\ queue' = Popped(e)
    BY <1>1 DEF Receive
  <2>2. CASE /\ End(h, "refused") /\ To(e, "reap")
             /\ entry' = IF h \in Callers THEN [entry EXCEPT ![e].busy = FALSE] ELSE entry
    <3>1. /\ entry'[e].pending = entry[e].pending
          /\ \A f \in Entries \ {e} : SameFlags(f)
      BY <2>2, BusySet DEF SameFlags
    <3>2. /\ worker'[e].pc = "reap"
          /\ \A f \in Entries \ {e} : worker'[f] = worker[f]
      BY <2>2, ToMoves
    <3> QED BY <2>1, <2>2, <3>1, <3>2, HeadRefused DEF LeftPc
  <2>3. CASE /\ At(h, "served") /\ UNCHANGED entry
             /\ worker' = [worker EXCEPT ![e].cmd = h,
                             ![e].pc = IF h \in Callers THEN "control" ELSE "prompt"]
    BY <2>1, <2>3, HeadServed
  <2> QED BY <1>1, <2>2, <2>3 DEF Receive
<1>2. CASE Drain(e)
  <2>1. CASE To(e, "finish") /\ UNCHANGED <<entry, queue, client>>
    <3>1. /\ worker'[e].pc = "finish"
          /\ \A f \in Entries \ {e} : worker'[f] = worker[f]
      BY <2>1, ToMoves
    <3> QED BY <2>1, <3>1, WorkerIdles DEF LeftPc, SameFlags
  <2>2. CASE /\ queue[e] # <<>> /\ queue' = Popped(e) /\ End(h, "refused")
             /\ entry' = IF h \in Callers THEN [entry EXCEPT ![e].busy = FALSE] ELSE entry
             /\ UNCHANGED worker
    <3>1. /\ entry'[e].pending = entry[e].pending
          /\ \A f \in Entries \ {e} : SameFlags(f)
      BY <2>2, BusySet DEF SameFlags
    <3>2. worker'[e].pc = "drain"
      BY <1>2, <2>2 DEF Drain
    <3> QED BY <2>2, <3>1, <3>2, HeadRefused DEF LeftPc
  <2> QED BY <1>2, <2>1, <2>2 DEF Drain
<1>3. CASE Drop(e)
  <2> DEFINE C == Range(queue[e])
  <2>1. Queued(e)
    BY DEF CallInv, CallEntries, EntryInv
  <2>2. \A c \in C : /\ c \in Clients /\ client[c].pc = "queued" /\ client[c].entry = e
                     /\ ~client[c].sent /\ client[c] \in ClientRec
    <3>1. ASSUME NEW c \in C PROVE c \in Clients /\ client[c].pc = "queued" /\ client[c].entry = e
      <4>1. PICK i \in 1..Len(queue[e]) : c = queue[e][i]
        BY CallTypes DEF Range
      <4> QED BY <2>1, <4>1, CallTypes DEF Queued
    <3> QED BY <3>1, CallTypes DEF CallInv, Coherent
  <2>3. \A d \in Clients :
          client'[d] = IF d \in C THEN Ended(client[d], IF d \in Streams THEN "lost" ELSE "refused")
                                  ELSE client[d]
    BY <1>3 DEF Drop, Orphans
  <2>4. ASSUME NEW c \in C
        PROVE  /\ client'[c].pc = "end" /\ client'[c].entry = None
               /\ client'[c].sent = client[c].sent /\ client'[c].outcome \in {"lost", "refused"}
    BY <2>2, <2>3 DEF Ended, ClientRec
  <2>5. \A c \in C : Coherent(c)'
    BY <2>2, <2>4 DEF Coherent
  <2>6. OthersStay(C)
    BY <2>3 DEF OthersStay
  <2>7. /\ UNCHANGED entry /\ queue' = [queue EXCEPT ![e] = <<>>] /\ To(e, "gone")
    BY <1>3 DEF Drop
  <2>8. /\ queue'[e] = <<>> /\ \A f \in Entries \ {e} : queue'[f] = queue[f]
    BY <2>7 DEF TypeOK
  <2>9. /\ worker'[e].pc = "gone" /\ \A f \in Entries \ {e} : worker'[f] = worker[f]
    BY <2>7, ToMoves
  <2>10. Touches(e, C)
    BY <2>2, <2>4, <2>5, <2>6, <2>7, <2>8, <2>9 DEF Touches, SameFlags
  <2>11. Queued(e)'
    BY <2>8 DEF Queued
  <2>12. Served(e)' /\ Locked(e)'
    BY <2>9 DEF Served, Locked, CmdPc, ControlPc, PromptPc, Open, OpenPc, StartPc, ServePc
  <2>13. Waited(e)'
    <3>1. \A c \in C : c \notin entry[e].pending
      BY <2>2 DEF CallInv, CallEntries, EntryInv, Waited
    <3> QED BY <2>6, <2>7, <3>1, WaitersStay
  <2> QED BY <2>10, <2>11, <2>12, <2>13, KeptAt DEF EntryInv
<1> QED BY <1>1, <1>2, <1>3

-----------------------------------------------------------------------------
(* The call that a worker serves. *)

\* A call that is answered alone, while busy is released or the worker leaves.
LEMMA AnswersOne ==
  ASSUME TypeOK, CallInv, NEW e \in Entries, worker[e].pc \in CmdPc, UNCHANGED queue,
         NEW o, End(worker[e].cmd, o), o # "refused",
         worker[e].cmd \in Streams /\ o = "process" => ~client[worker[e].cmd].sent,
         \A f \in Entries \ {e} : SameFlags(f) /\ worker'[f] = worker[f],
         entry'[e].pending = entry[e].pending,
         \/ worker'[e].pc \in {"idle", "postcheck", "reap"} /\ entry'[e].busy = FALSE
         \/ worker'[e].pc = "exit"
  PROVE  Kept
<1>0. PICK P : P = {}
  OBVIOUS
<1>1. PICK c \in Clients : c = worker[e].cmd
  BY ServedHolds
<1>2. OthersStay({c}) /\ client'[c].pc = "end" /\ client'[c].entry = None /\ Coherent(c)'
  BY <1>1, Ending
<1>3. /\ OthersStay({worker[e].cmd} \cup P)
      /\ \A d \in {worker[e].cmd} \cup P :
           client'[d].pc = "end" /\ client'[d].entry = None /\ Coherent(d)'
  BY <1>0, <1>1, <1>2 DEF OthersStay
<1>4. worker'[e].pc \notin CmdPc \cup {"absent"}
  BY DEF CmdPc, ControlPc, PromptPc
<1>5. Open(e)' => ~entry'[e].busy
  BY DEF Open, OpenPc, StartPc, ServePc
<1>6. P \subseteq entry[e].pending /\ entry'[e].pending = entry[e].pending \ P
  BY <1>0
<1> QED BY <1>3, <1>4, <1>5, <1>6, WorkerAnswers

\* A prompt that fails: a process failure is only reported bare when the prompt
\* was not written.
LEMMA PromptFailsCalls ==
  ASSUME TypeOK, CallInv, NEW e \in Entries, worker[e].pc \in PromptPc,
         NEW a, NEW cause \in {"process", "failed"}, PromptFails(e, a, cause),
         cause = "process" => a \/ ~client[worker[e].cmd].sent
  PROVE  Kept
<1>1. /\ End(worker[e].cmd, PromptOutcome(a, cause)) /\ UNCHANGED queue
      /\ entry' = [entry EXCEPT ![e].prompt_active = FALSE, ![e].prompt_acknowledged = FALSE,
                                ![e].process = Killed(e)]
      /\ worker' = [worker EXCEPT ![e].pc = "exit", ![e].cmd = None]
  BY DEF PromptFails
<1>2. /\ PromptOutcome(a, cause) # "refused"
      /\ PromptOutcome(a, cause) = "process" => ~client[worker[e].cmd].sent
  BY DEF PromptOutcome
<1>3. worker'[e].pc = "exit" /\ \A f \in Entries \ {e} : worker'[f] = worker[f]
  BY <1>1 DEF TypeOK, WorkerRec
<1>4. entry'[e].pending = entry[e].pending /\ \A f \in Entries \ {e} : SameFlags(f)
  BY <1>1 DEF TypeOK, EntryRec, SameFlags
<1>5. worker[e].pc \in CmdPc
  BY DEF CmdPc
<1> QED BY <1>1, <1>2, <1>3, <1>4, <1>5, AnswersOne

\* The steps of a prompt.
LEMMA PromptKeepsCalls ==
  ASSUME TypeOK, CallInv, NEW e \in Entries,
         \/ StartPrompt(e) \/ PromptNotWritten(e) \/ PromptCancelled(e) \/ PromptEof(e)
         \/ PromptOutput(e) \/ DrainTimeout(e) \/ Settled(e)
  PROVE  Kept
<1> USE DEF PromptPc
<1>p. worker[e].pc \in PromptPc
  BY DEF StartPrompt, PromptNotWritten, PromptCancelled, PromptEof, PromptOutput, DrainTimeout, Settled
<1>w. PICK c \in Clients : /\ c = worker[e].cmd /\ client[c].pc = "served" /\ client[c].entry = e
                           /\ Coherent(c)
  <2>1. worker[e].pc \in CmdPc
    BY <1>p DEF CmdPc
  <2> QED BY <2>1, ServedHolds DEF CallInv
<1>s. Served(e)
  BY DEF CallInv, CallEntries, EntryInv
<1>1. CASE StartPrompt(e)
  <2>1. /\ UNCHANGED queue /\ To(e, "prompting")
        /\ client' = [client EXCEPT ![worker[e].cmd].sent = TRUE]
        /\ entry' = [entry EXCEPT ![e].prompt_active = TRUE, ![e].prompt_acknowledged = TRUE]
    BY <1>1 DEF StartPrompt
  <2>2. /\ worker'[e].pc = "prompting" /\ worker'[e].cmd = worker[e].cmd
        /\ \A f \in Entries \ {e} : worker'[f] = worker[f]
    BY <2>1 DEF To, TypeOK, WorkerRec
  <2>3. /\ entry'[e].busy = entry[e].busy /\ entry'[e].pending = entry[e].pending
        /\ entry'[e].prompt_acknowledged = TRUE
        /\ \A f \in Entries \ {e} : SameFlags(f)
    BY <2>1 DEF TypeOK, EntryRec, SameFlags
  <2>4. /\ OthersStay({c}) /\ client'[c].pc = "served" /\ client'[c].entry = e
        /\ client'[c].outcome = client[c].outcome
    BY <1>w, <2>1 DEF TypeOK, ClientRec, OthersStay
  <2>5. Coherent(c)'
    BY <1>w, <2>4 DEF Coherent
  <2>6. /\ \A f \in Entries \ {e} : SameFlags(f) /\ worker'[f] = worker[f]
        /\ worker'[e].pc \in PromptPc \ {"prompt"}
    BY <2>2, <2>3
  <2> HIDE DEF PromptPc
  <2> QED BY <1>p, <1>w, <2>1, <2>2, <2>3, <2>4, <2>5, <2>6, WorkerServes
<1>2. CASE PromptNotWritten(e)
  BY <1>p, <1>s, <1>2, PromptFailsCalls DEF PromptNotWritten, Served
<1>3. CASE PromptCancelled(e)
  BY <1>p, <1>3, PromptFailsCalls DEF PromptCancelled
<1>4. CASE PromptEof(e)
  BY <1>p, <1>s, <1>4, PromptFailsCalls DEF PromptEof, Served
<1>5. CASE PromptOutput(e)
  <2>1. CASE PromptFails(e, entry[e].prompt_acknowledged, "process")
             /\ worker[e].pc \in {"prompting", "draining"}
    BY <1>p, <1>s, <2>1, PromptFailsCalls DEF Served
  <2>2. ASSUME NEW a, PromptFails(e, a, "failed") PROVE Kept
    BY <1>p, <2>2, PromptFailsCalls
  <2>3. CASE /\ worker[e].pc = "prompting" /\ To(e, "draining")
             /\ entry' = [entry EXCEPT ![e].prompt_active = FALSE]
             /\ UNCHANGED <<registry, queue, client, closer>>
    <3>1. /\ worker'[e].pc = "draining" /\ worker'[e].cmd = worker[e].cmd
          /\ \A f \in Entries \ {e} : worker'[f] = worker[f]
      BY <2>3 DEF To, TypeOK, WorkerRec
    <3>2. \A f \in Entries : SameFlags(f)
      BY <2>3 DEF TypeOK, EntryRec, SameFlags
    <3>3. entry'[e].prompt_acknowledged
      BY <1>s, <2>3, <3>2 DEF Served, SameFlags
    <3>4. OthersStay({c}) /\ client'[c].pc = "served" /\ client'[c].entry = e /\ Coherent(c)'
      BY <1>w, <2>3 DEF OthersStay, Coherent
    <3> QED BY <1>p, <1>w, <2>3, <3>1, <3>2, <3>3, <3>4, WorkerServes DEF SameFlags
  <2> QED BY <1>5, <2>1, <2>2, <2>3 DEF PromptOutput
<1>6. CASE DrainTimeout(e)
  BY <1>p, <1>6, PromptFailsCalls DEF DrainTimeout
<1>7. CASE Settled(e)
  <2>1. CASE PromptFails(e, FALSE, "failed")
    BY <1>p, <2>1, PromptFailsCalls
  <2>2. CASE /\ entry' = [entry EXCEPT ![e].prompt_acknowledged = FALSE,
                                       ![e].prompt_active = FALSE, ![e].busy = FALSE]
             /\ End(worker[e].cmd, "done")
             /\ worker' = [worker EXCEPT ![e].pc = "postcheck", ![e].cmd = None]
             /\ UNCHANGED queue
    <3>1. worker'[e].pc = "postcheck" /\ \A f \in Entries \ {e} : worker'[f] = worker[f]
      BY <2>2 DEF TypeOK, WorkerRec
    <3>2. /\ entry'[e].busy = FALSE /\ entry'[e].pending = entry[e].pending
          /\ \A f \in Entries \ {e} : SameFlags(f)
      BY <2>2 DEF TypeOK, EntryRec, SameFlags
    <3>3. worker[e].pc \in CmdPc
      BY <1>p DEF CmdPc
    <3> QED BY <2>2, <3>1, <3>2, <3>3, AnswersOne
  <2> QED BY <1>7, <2>1, <2>2 DEF Settled
<1> QED BY <1>1, <1>2, <1>3, <1>4, <1>5, <1>6, <1>7

\* The answer to a control command, which releases busy.
LEMMA ReplyCalls ==
  ASSUME TypeOK, CallInv, NEW e \in Entries, worker[e].pc \in ControlPc, UNCHANGED queue,
         NEW o \in {"done", "failed"}, End(worker[e].cmd, o),
         worker'[e].pc \in {"idle", "reap"},
         \A f \in Entries \ {e} : SameFlags(f) /\ worker'[f] = worker[f],
         entry'[e].pending = entry[e].pending, entry'[e].busy = FALSE
  PROVE  Kept
<1>1. worker[e].pc \in CmdPc
  BY DEF CmdPc
<1> QED BY <1>1, AnswersOne

LEMMA ControlFailsCalls ==
  ASSUME TypeOK, CallInv, NEW e \in Entries, worker[e].pc \in ControlPc, ControlFails(e)
  PROVE  Kept
<1>1. /\ worker'[e].pc \in {"idle", "reap"}
      /\ \A f \in Entries \ {e} : worker'[f] = worker[f]
  BY ReplyMoves DEF ControlFails, Outcomes
<1>2. /\ entry'[e].busy = FALSE /\ entry'[e].pending = entry[e].pending
      /\ \A f \in Entries \ {e} : SameFlags(f)
  BY BusySet DEF ControlFails
<1> QED BY <1>1, <1>2, ReplyCalls DEF ControlFails, Reply

\* The deadline of a control command fails every waiter of the session too.
LEMMA ControlTimeoutCalls ==
  ASSUME TypeOK, CallInv, NEW e \in Entries, ControlTimeout(e)
  PROVE  Kept
<1>0. worker[e].pc \in ControlPc /\ worker[e].pc \in CmdPc /\ UNCHANGED queue
  BY DEF ControlTimeout, ControlPc, CmdPc
<1>1. PICK c \in Clients : /\ c = worker[e].cmd /\ client[c].pc = "served" /\ client[c].entry = e
                           /\ Coherent(c)
  BY <1>0, ServedHolds DEF CallInv
<1>2. PICK P : P = entry[e].pending
  OBVIOUS
<1>3. c \in Callers /\ P \subseteq Callers /\ c \notin P
  BY <1>0, <1>1, <1>2, CallTypes DEF CallInv, CallEntries, EntryInv, Served, Waited
<1>4. FailPending(e) \in [Clients -> ClientRec]
  BY FailPendingType
<1>5. /\ client'[c] = Ended(FailPending(e)[c], "failed") /\ FailPending(e)[c] = client[c]
      /\ \A d \in P : client'[d] = Ended(client[d], "failed")
      /\ \A d \in Clients \ ({c} \cup P) : client'[d] = client[d]
  BY <1>1, <1>2, <1>3, <1>4, CallTypes DEF ControlTimeout, FailPending
<1>6. ASSUME NEW d \in {c} \cup P
      PROVE  client'[d].pc = "end" /\ client'[d].entry = None /\ Coherent(d)'
  <2>1. d \in Callers /\ client'[d] = Ended(client[d], "failed") /\ client[d] \in ClientRec
    BY <1>3, <1>5, CallTypes
  <2>2. client'[d].pc = "end" /\ client'[d].entry = None /\ client'[d].outcome = "failed"
    BY <2>1 DEF Ended, ClientRec
  <2> QED BY <2>2 DEF Coherent
<1>7. OthersStay({worker[e].cmd} \cup P)
  BY <1>1, <1>5 DEF OthersStay
<1>8. /\ worker'[e].pc = "reap" /\ \A f \in Entries \ {e} : worker'[f] = worker[f]
  BY DEF ControlTimeout, TypeOK, WorkerRec
<1>9. /\ entry'[e].pending = {} /\ \A f \in Entries \ {e} : SameFlags(f)
  BY DEF ControlTimeout, TypeOK, EntryRec, SameFlags
<1>10. entry'[e].pending = entry[e].pending \ P /\ P \subseteq entry[e].pending
  BY <1>2, <1>9
<1>11. worker'[e].pc \notin CmdPc \cup {"absent"} /\ ~Open(e)'
  BY <1>8 DEF CmdPc, ControlPc, PromptPc, Open, OpenPc, StartPc, ServePc
<1> QED BY <1>0, <1>1, <1>6, <1>7, <1>8, <1>9, <1>10, <1>11, WorkerAnswers

\* The steps of a control command, and what Pi and its process do.
LEMMA ControlKeepsCalls ==
  ASSUME TypeOK, CallInv, NEW e \in Entries,
         \/ ControlWrite(e) \/ ControlRefused(e) \/ ControlTimeout(e) \/ ControlDone(e)
         \/ Rekey(e) \/ \E k \in Keys : ControlMoved(e, k)
  PROVE  Kept
<1> USE DEF ControlPc
<1>p. worker[e].pc \in ControlPc
  BY DEF ControlWrite, ControlRefused, ControlTimeout, ControlDone, Rekey, ControlMoved
<1>w. PICK c \in Clients : /\ c = worker[e].cmd /\ client[c].pc = "served" /\ client[c].entry = e
                           /\ Coherent(c)
  <2>1. worker[e].pc \in CmdPc
    BY <1>p DEF CmdPc
  <2> QED BY <2>1, ServedHolds DEF CallInv
<1>1. CASE ControlWrite(e)
  <2>1. CASE ControlFails(e)
    BY <1>p, <2>1, ControlFailsCalls
  <2>2. CASE /\ client' = [client EXCEPT ![worker[e].cmd].sent = TRUE]
             /\ To(e, "ctlWait")
             /\ UNCHANGED <<registry, entry, queue, closer>>
    <3>1. /\ worker'[e].pc = "ctlWait" /\ worker'[e].cmd = worker[e].cmd
          /\ \A f \in Entries \ {e} : worker'[f] = worker[f]
      BY <2>2 DEF To, TypeOK, WorkerRec
    <3>2. /\ OthersStay({c}) /\ client'[c].pc = "served" /\ client'[c].entry = e
          /\ client'[c].outcome = client[c].outcome
      BY <1>w, <2>2 DEF TypeOK, ClientRec, OthersStay
    <3>3. Coherent(c)'
      BY <1>w, <3>2 DEF Coherent
    <3> QED BY <1>p, <1>w, <2>2, <3>1, <3>2, <3>3, WorkerServes DEF SameFlags
  <2> QED BY <1>1, <2>1, <2>2 DEF ControlWrite
<1>2. CASE ControlRefused(e)
  BY <1>p, <1>2, ControlFailsCalls DEF ControlRefused
<1>3. CASE ControlTimeout(e)
  BY <1>3, ControlTimeoutCalls
<1>4. CASE ControlDone(e)
  <2>1. /\ worker'[e].pc \in {"idle", "reap"}
        /\ \A f \in Entries \ {e} : worker'[f] = worker[f]
    BY <1>4, ReplyMoves DEF ControlDone, Outcomes
  <2>2. /\ entry'[e].busy = FALSE /\ entry'[e].pending = entry[e].pending
        /\ \A f \in Entries \ {e} : SameFlags(f)
    BY <1>4, BusySet DEF ControlDone
  <2> QED BY <1>p, <1>4, <2>1, <2>2, ReplyCalls DEF ControlDone, Reply
<1>5. CASE Rekey(e)
  <2>0. UNCHANGED queue
    BY <1>5 DEF Rekey
  <2>1. CASE Abandon(e)
    <3>1. /\ worker'[e].pc = "reap"
          /\ \A f \in Entries \ {e} : worker'[f] = worker[f]
      BY <2>1, ReplyMoves DEF Abandon, Outcomes
    <3>2. /\ entry'[e].busy = FALSE /\ entry'[e].pending = entry[e].pending
          /\ \A f \in Entries \ {e} : SameFlags(f)
      BY <2>1 DEF Abandon, TypeOK, EntryRec, SameFlags
    <3> QED BY <1>p, <2>0, <2>1, <3>1, <3>2, ReplyCalls DEF Abandon, Reply
  <2>2. CASE Adopt(e)
    <3>1. /\ worker'[e].pc \in {"reap", "idle"}
          /\ \A f \in Entries \ {e} : worker'[f] = worker[f]
      BY <2>2 DEF Adopt, TypeOK, WorkerRec
    <3>2. /\ entry'[e].busy = FALSE /\ entry'[e].pending = entry[e].pending
          /\ \A f \in Entries \ {e} : SameFlags(f)
      BY <2>2, BusySet DEF Adopt
    <3> QED BY <1>p, <2>0, <2>2, <3>1, <3>2, ReplyCalls DEF Adopt
  <2> QED BY <1>5, <2>1, <2>2 DEF Rekey
<1>6. ASSUME NEW k \in Keys, ControlMoved(e, k)
      PROVE  Kept
  <2>0. UNCHANGED queue /\ worker[e].pc = "ctlWait"
    BY <1>6 DEF ControlMoved
  <2>1. CASE /\ worker' = [worker EXCEPT ![e].session = k, ![e].pc = "ctlState"]
             /\ UNCHANGED <<entry, client>>
    <3>1. /\ worker'[e].pc = "ctlState" /\ worker'[e].cmd = worker[e].cmd
          /\ \A f \in Entries \ {e} : worker'[f] = worker[f]
      BY <2>1 DEF TypeOK, WorkerRec
    <3>2. OthersStay({c}) /\ client'[c].pc = "served" /\ client'[c].entry = e /\ Coherent(c)'
      BY <1>w, <2>1 DEF OthersStay, Coherent
    <3> QED BY <1>w, <2>0, <2>1, <3>1, <3>2, WorkerServes DEF SameFlags
  <2>2. CASE /\ worker' = [worker EXCEPT ![e].session = k, ![e].cmd = None,
                             ![e].pc = IF entry[e].closing THEN "reap" ELSE "idle"]
             /\ End(worker[e].cmd, "failed")
             /\ entry' = [entry EXCEPT ![e].busy = FALSE]
    <3>1. /\ worker'[e].pc \in {"reap", "idle"}
          /\ \A f \in Entries \ {e} : worker'[f] = worker[f]
      BY <2>2 DEF TypeOK, WorkerRec
    <3>2. /\ entry'[e].busy = FALSE /\ entry'[e].pending = entry[e].pending
          /\ \A f \in Entries \ {e} : SameFlags(f)
      BY <2>2, BusySet
    <3> QED BY <1>p, <2>0, <2>2, <3>1, <3>2, ReplyCalls
  <2> QED BY <1>6, <2>1, <2>2 DEF ControlMoved
<1> QED BY <1>1, <1>2, <1>3, <1>4, <1>5, <1>6

\* The answer to a steering command.
LEMMA RouteKeepsCalls ==
  ASSUME TypeOK, CallInv, NEW e \in Entries, NEW c \in Callers, Route(e, c)
  PROVE  Kept
<1>1. /\ c \in Clients /\ client[c].pc \in {"write", "answer"} /\ client[c].entry = e
      /\ {c} \in SUBSET Clients
  BY DEF Route, CallInv, CallEntries, EntryInv, Waited, Clients
<1>2. PICK o \in {"done", "failed"} : End(c, o)
  BY DEF Route
<1>3. /\ OthersStay({c})
      /\ client'[c].pc = "end" /\ client'[c].entry = None /\ Coherent(c)'
  BY <1>1, <1>2, NamesDistinct, Ending
<1>4. /\ entry'[e].pending = entry[e].pending \ {c} /\ entry'[e].busy = entry[e].busy
      /\ entry'[e].prompt_acknowledged = entry[e].prompt_acknowledged
      /\ \A f \in Entries \ {e} : SameFlags(f)
  BY DEF Route, TypeOK, EntryRec, SameFlags
<1>5. UNCHANGED <<queue, worker>>
  BY DEF Route
<1> QED BY <1>1, <1>3, <1>4, <1>5, WaitEnds

\* The steps of closers and their helpers, and the end of a process.
LEMMA CloserKeepsCalls ==
  ASSUME TypeOK, CallInv,
         \/ \E x \in Closers : CloserStep(x)
         \/ \E e \in Entries : TakeStdin(e) \/ Watchdog(e) \/ ProcessExits(e)
  PROVE  Kept
<1>1. ASSUME \A f \in Entries : SameFlags(f), UNCHANGED <<worker, queue, client>>
      PROVE  Kept
  BY <1>1, NobodyNotices
<1>2. ASSUME NEW x \in Closers, CloseNext(x)
      PROVE  Kept
  <2>1. \A f \in Entries : SameFlags(f)
    <3>1. CASE UNCHANGED entry
      BY <3>1 DEF SameFlags
    <3>2. ASSUME NEW e, entry' = [entry EXCEPT ![e].watchdog = TRUE, ![e].taker = TRUE]
          PROVE  \A f \in Entries : SameFlags(f)
      BY <3>2 DEF SameFlags, TypeOK, EntryRec
    <3> QED BY <1>2, <3>1, <3>2 DEF CloseNext
  <2> QED BY <1>1, <1>2, <2>1 DEF CloseNext
<1>3. ASSUME NEW x \in Closers, CloseWait(x)
      PROVE  Kept
  <2>1. \A f \in Entries : SameFlags(f)
    BY <1>3 DEF CloseWait, SameFlags, TypeOK, EntryRec
  <2> QED BY <1>1, <1>3, <2>1 DEF CloseWait
<1>4. ASSUME NEW x \in Closers, CloseFinal(x)
      PROVE  Kept
  <2>1. PICK e \in Entries : e = closer[x].entry
    BY <1>4 DEF CloseFinal, CallInv, ClosersHold
  <2>2. PICK P : P = entry[e].pending
    OBVIOUS
  <2>3. P \in SUBSET Clients /\ \A c \in P : c \in Callers /\ client[c] \in ClientRec
    BY <2>2, CallTypes
  <2>4. /\ \A c \in P : client[c].pc \in {"write", "answer"} /\ client[c].entry = e
    BY <2>2 DEF CallInv, CallEntries, EntryInv, Waited
  <2>5. /\ \A c \in P : client'[c] = Ended(client[c], "failed")
        /\ OthersStay(P)
    BY <1>4, <2>1, <2>2, <2>3 DEF CloseFinal, FailPending, OthersStay
  <2>6. ASSUME NEW c \in P
        PROVE  client'[c].pc = "end" /\ client'[c].entry = None /\ Coherent(c)'
    <3>1. client'[c].pc = "end" /\ client'[c].entry = None /\ client'[c].outcome = "failed"
      BY <2>3, <2>5 DEF Ended, ClientRec
    <3> QED BY <3>1 DEF Coherent
  <2>7. /\ entry'[e].pending = {} /\ entry'[e].busy = entry[e].busy
        /\ entry'[e].prompt_acknowledged = entry[e].prompt_acknowledged
        /\ \A f \in Entries \ {e} : SameFlags(f)
    BY <1>4, <2>1 DEF CloseFinal, TypeOK, EntryRec, SameFlags
  <2>8. UNCHANGED <<queue, worker>> /\ entry'[e].pending = entry[e].pending \ P
    BY <1>4, <2>2, <2>7 DEF CloseFinal
  <2> QED BY <2>3, <2>4, <2>5, <2>6, <2>7, <2>8, WaitEnds
<1>5. ASSUME NEW e \in Entries, TakeStdin(e)
      PROVE  Kept
  <2>1. \A f \in Entries : SameFlags(f)
    <3>1. CASE entry' = [entry EXCEPT ![e].taker = FALSE, ![e].stdin = FALSE]
      BY <3>1 DEF SameFlags, TypeOK, EntryRec
    <3>2. CASE entry' = [entry EXCEPT ![e].taker = FALSE, ![e].process = Killed(e)]
      BY <3>2 DEF SameFlags, TypeOK, EntryRec
    <3> QED BY <1>5, <3>1, <3>2 DEF TakeStdin
  <2> QED BY <1>1, <1>5, <2>1 DEF TakeStdin
<1>6. ASSUME NEW e \in Entries, Watchdog(e) \/ ProcessExits(e)
      PROVE  Kept
  <2>1. \A f \in Entries : SameFlags(f)
    <3>1. CASE Watchdog(e)
      BY <3>1 DEF Watchdog, SameFlags, TypeOK, EntryRec
    <3>2. CASE ProcessExits(e)
      BY <3>2 DEF ProcessExits, SameFlags, TypeOK, EntryRec
    <3> QED BY <1>6, <3>1, <3>2
  <2> QED BY <1>1, <1>6, <2>1 DEF Watchdog, ProcessExits
<1> QED BY <1>2, <1>3, <1>4, <1>5, <1>6 DEF CloserStep

-----------------------------------------------------------------------------
(* The invariant and its consequences. *)

\* Initially nobody calls, and no entry has a worker.
LEMMA CallInit == Init => CallInv
<1> SUFFICES ASSUME Init PROVE CallInv
  OBVIOUS
<1>1. ASSUME NEW e \in Entries PROVE EntryInv(e)
  <2>1. /\ queue[e] = <<>> /\ worker[e].pc = "absent" /\ ~entry[e].busy /\ entry[e].pending = {}
        /\ \A c \in Clients : client[c].entry # e
    BY NamesDistinct DEF Init, FreshEntry
  <2> QED BY <2>1 DEF EntryInv, Queued, Served, Locked, Waited, CmdPc, ControlPc, PromptPc,
                      Open, OpenPc, StartPc, ServePc
<1>2. \A c \in Clients : Coherent(c)
  BY DEF Init, Coherent
<1>3. ClosersHold
  BY DEF Init, ClosersHold
<1> QED BY <1>1, <1>2, <1>3 DEF CallInv, CallEntries

\* A closer holds an entry while it waits for it.
LEMMA ClosersStep ==
  ASSUME TypeOK, ClosersHold, [Next]_vars
  PROVE  ClosersHold'
<1>1. CASE UNCHANGED closer
  BY <1>1 DEF ClosersHold
<1>2. ASSUME NEW x \in Closers, NEW T, StartClose(x, T)
      PROVE  ClosersHold'
  BY <1>2 DEF StartClose, ClosersHold, TypeOK, CloserRec
<1>3. ASSUME NEW x \in Closers, CloseNext(x)
      PROVE  ClosersHold'
  <2>1. /\ closer'[x].pc = "end" \/ closer'[x].entry \in Entries
        /\ \A y \in Closers \ {x} : closer'[y] = closer[y]
    <3>1. CASE closer' = [closer EXCEPT ![x].pc = "end", ![x].entry = None]
      BY <3>1 DEF TypeOK, CloserRec
    <3>2. ASSUME NEW e \in closer[x].targets,
                 closer' = [closer EXCEPT ![x].pc = "wait", ![x].entry = e]
          PROVE  closer'[x].entry \in Entries /\ \A y \in Closers \ {x} : closer'[y] = closer[y]
      BY <3>2 DEF TypeOK, CloserRec
    <3> QED BY <1>3, <3>1, <3>2 DEF CloseNext
  <2> QED BY <2>1 DEF ClosersHold
<1>4. ASSUME NEW x \in Closers, CloseWait(x) \/ CloseFinal(x)
      PROVE  ClosersHold'
  <2>1. \A y \in Closers \ {x} : closer'[y] = closer[y]
    BY <1>4 DEF CloseWait, CloseFinal, TypeOK
  <2>2. closer'[x].pc = "next" \/ (closer[x].pc = "wait" /\ closer'[x].entry = closer[x].entry)
    <3>1. CASE CloseWait(x)
      BY <3>1 DEF CloseWait, TypeOK, CloserRec
    <3>2. CASE CloseFinal(x)
      BY <3>2 DEF CloseFinal, TypeOK, CloserRec
    <3> QED BY <1>4, <3>1, <3>2
  <2> QED BY <2>1, <2>2 DEF ClosersHold
<1>5. ASSUME NEW s \in Streams, \/ Cancel(s) \/ StreamStep(s)
                                \/ \E k \in Keys : Reserve(s, k)
      PROVE  UNCHANGED closer
  BY <1>5 DEF Cancel, StreamStep, StartCancelled, Await, GiveUp, Kill, Settle, Claim, Announce,
              Enqueue, Reserve
<1>6. ASSUME NEW c \in Callers, \/ CallerStep(c)
                                \/ \E k \in Keys, K \in Kinds : Lookup(c, k, K)
      PROVE  UNCHANGED closer
  BY <1>6 DEF CallerStep, CallerClaim, Send, Insert, Write, AnswerTimeout, Lookup
<1>7. ASSUME NEW e \in Entries, \/ WorkerStep(e) \/ PiOutput(e) \/ ProcessExits(e)
                                \/ TakeStdin(e) \/ Watchdog(e)
      PROVE  UNCHANGED closer
  <2>1. CASE \/ Boot(e) \/ Candidate(e) \/ Spawn(e) \/ Install(e) \/ Handshake(e)
             \/ Receive(e) \/ IdleTimeout(e) \/ Reap(e) \/ Quit(e) \/ Exit(e)
             \/ Drain(e) \/ Finish(e) \/ Drop(e)
    BY <2>1 DEF Boot, Candidate, Spawn, Install, Handshake, Receive, IdleTimeout, Reap, Quit,
                Exit, Drain, Finish, Drop
  <2>2. CASE \/ StartPrompt(e) \/ PromptNotWritten(e) \/ PromptCancelled(e) \/ PromptEof(e)
             \/ DrainTimeout(e) \/ Settled(e) \/ Postcheck(e) \/ PromptOutput(e)
    BY <2>2 DEF StartPrompt, PromptNotWritten, PromptCancelled, PromptEof, DrainTimeout, Settled,
                Postcheck, PromptOutput, PromptFails
  <2>3. CASE \/ ControlWrite(e) \/ ControlRefused(e) \/ ControlTimeout(e) \/ Rekey(e)
             \/ ControlDone(e) \/ (\E k \in Keys : ControlMoved(e, k))
             \/ (\E c \in Callers : Route(e, c))
             \/ ProcessExits(e) \/ TakeStdin(e) \/ Watchdog(e)
    BY <2>3 DEF ControlWrite, ControlRefused, ControlTimeout, Rekey, ControlDone, ControlMoved,
                ControlFails, Route, ProcessExits, TakeStdin, Watchdog
  <2> QED BY <1>7, <2>1, <2>2, <2>3 DEF WorkerStep, PiOutput
<1> QED
  BY <1>1, <1>2, <1>3, <1>4, <1>5, <1>6, <1>7 DEF Next, Arrive, CloseOne, CloseAll, CloserStep, vars

\* Every step keeps the calls in order, and no step changes how one has ended.
LEMMA CallStep == TypeOK /\ RegistryInv /\ CallInv /\ [Next]_vars => CallInv' /\ Answered
<1> SUFFICES ASSUME TypeOK, RegistryInv, CallInv, [Next]_vars PROVE CallInv' /\ Answered
  OBVIOUS
<1>1. CASE UNCHANGED vars
  <2>1. UNCHANGED <<worker, queue, client, entry>>
    BY <1>1 DEF vars
  <2>2. Kept
    BY <2>1, NobodyNotices DEF SameFlags
  <2> QED BY <2>2, ClosersStep DEF Kept, CallInv, CallEntries
<1>2. CASE Arrive
  BY <1>2, CallsArrive, ClosersStep DEF Kept, CallInv, CallEntries
<1>3. CASE \E s \in Streams : Cancel(s) \/ StreamStep(s)
  BY <1>3, StreamKeepsCalls, ClosersStep DEF Kept, CallInv, CallEntries
<1>4. CASE \E c \in Callers : CallerStep(c)
  BY <1>4, CallerKeepsCalls, ClosersStep DEF Kept, CallInv, CallEntries
<1>5. CASE \/ \E x \in Closers : CloserStep(x)
           \/ \E e \in Entries : TakeStdin(e) \/ Watchdog(e) \/ ProcessExits(e)
  BY <1>5, CloserKeepsCalls, ClosersStep DEF Kept, CallInv, CallEntries
<1>6. ASSUME NEW e \in Entries, WorkerStep(e) \/ PiOutput(e)
      PROVE  Kept
  BY <1>6, LifeKeepsCalls, ChannelKeepsCalls, PromptKeepsCalls, ControlKeepsCalls,
     RouteKeepsCalls DEF WorkerStep, PiOutput
<1>7. CASE \E e \in Entries : WorkerStep(e) \/ PiOutput(e)
  BY <1>6, <1>7, ClosersStep DEF Kept, CallInv, CallEntries
<1> QED BY <1>1, <1>2, <1>3, <1>4, <1>5, <1>7 DEF Next

\* The calls are in order in every reachable state, however many there are.
THEOREM CallsCorrect == Spec => []CallInv
<1>1. Init => TypeOK /\ RegistryInv /\ CallInv
  BY TypeInit, RegistryInit, CallInit
<1>2. TypeOK /\ RegistryInv /\ CallInv /\ [Next]_vars => (TypeOK /\ RegistryInv /\ CallInv)'
  BY TypeStep, RegistryStep, CallStep
<1> QED BY <1>1, <1>2, PTL DEF Spec

\* busy is a lock: at most one prompt or command is between claiming the session
\* and its answer, and the flag is set exactly then.
THEOREM OneCommandAlways == Spec => []OneCommandAtATime
<1>1. CallInv => OneCommandAtATime
  BY DEF CallInv, CallEntries, EntryInv, Locked, OneCommandAtATime
<1> QED BY <1>1, CallsCorrect, PTL

\* What send_command and stream_prompt refuse was never written to Pi.
THEOREM RefusedIsUnsent == Spec => []RefusedNeverSent
<1>1. CallInv => RefusedNeverSent
  BY DEF CallInv, Coherent, RefusedNeverSent
<1> QED BY <1>1, CallsCorrect, PTL

\* A prompt that was written is never reported as a failure that dispatch repeats.
THEOREM WrittenIsNotReplayed == Spec => []NoReplayAfterWrite
<1>1. CallInv => NoReplayAfterWrite
  BY DEF CallInv, Coherent, NoReplayAfterWrite, Clients
<1> QED BY <1>1, CallsCorrect, PTL

\* The pending map of a session holds only calls that wait for its answer.
THEOREM NoWaiterLeaks == Spec => []WaitersAreWaiting
<1>1. CallInv => WaitersAreWaiting
  BY DEF CallInv, CallEntries, EntryInv, Waited, WaitersAreWaiting
<1> QED BY <1>1, CallsCorrect, PTL

\* Whoever races for a call, the first answer stays.
THEOREM FirstAnswerStays == Spec => AnsweredOnce
<1>1. TypeOK /\ RegistryInv /\ CallInv /\ [Next]_vars => [Answered]_vars
  BY CallStep
<1>2. [][Answered]_vars => AnsweredOnce
  BY PTL DEF Answered, AnsweredOnce
<1>3. Spec => [][Answered]_vars
  BY <1>1, TypeCorrect, RegistryCorrect, CallsCorrect, PTL DEF Spec
<1> QED BY <1>2, <1>3
=============================================================================
