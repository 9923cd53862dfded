-------------------------------- MODULE Bridge --------------------------------
(***************************************************************************)
(* The bridge that serves custom tools to the pi process (Bridge and       *)
(* bridge_loop of sdk/pi_rpc.rs): a thread accepts connections, each       *)
(* connection has a worker that reads one request, runs the handler of the *)
(* tool and writes the result, and drop shuts all of it down.              *)
(*                                                                         *)
(* The lists are behind mutexes that are held for single operations, so    *)
(* each is a step.  The listener's socket is not blocking.                 *)
(***************************************************************************)
EXTENDS Naturals, FiniteSets

CONSTANTS
  Peers,                 \* connections that may be made
  MaxBridgeConnections   \* MAX_BRIDGE_CONNECTIONS (32)

ASSUME BridgeBounds == IsFiniteSet(Peers) /\ MaxBridgeConnections \in Nat

VARIABLES
  bridge,   \* the owner's pc, the flag stop, and the listener's pc and connection
  tracked,  \* connections: the connections that drop will shut down
  handles,  \* workers: the connections whose worker the bridge can join
  worker    \* the state of each connection's worker

NoPeer == "no peer"
WorkerStates == {"unborn", "waiting", "turnedAway", "reading", "handling", "writing",
                 "leaving", "finished"}
BridgeRec == [owner : {"off", "up", "stopping", "joining", "draining", "dropped"},
              stop : BOOLEAN, loop : {"off", "check", "reap", "accept", "track", "end"},
              peer : Peers \cup {NoPeer}]

bridgeVars == <<bridge, tracked, handles, worker>>

BridgeInit ==
  /\ bridge = [owner |-> "off", stop |-> FALSE, loop |-> "off", peer |-> NoPeer]
  /\ tracked = {} /\ handles = {}
  /\ worker = [p \in Peers |-> "unborn"]

LoopGoes(from, to, peer) ==
  /\ bridge.loop = from
  /\ bridge' = [bridge EXCEPT !.loop = to, !.peer = peer]

OwnerGoes(from, to) ==
  /\ bridge.owner = from
  /\ bridge' = [bridge EXCEPT !.owner = to]

WorkerGoes(p, from, to) ==
  /\ worker[p] = from
  /\ worker' = [worker EXCEPT ![p] = to]

Finished(p) == worker[p] = "finished"
Unfinished == {p \in Peers : worker[p] \in {"reading", "handling", "writing", "leaving"}}

-----------------------------------------------------------------------------
\* Bridge::new.
BridgeUp ==
  /\ bridge.owner = "off"
  /\ bridge' = [bridge EXCEPT !.owner = "up", !.loop = "check"]
  /\ UNCHANGED <<tracked, handles, worker>>

(* bridge_loop *)

LoopChecks ==
  /\ LoopGoes("check", IF bridge.stop THEN "end" ELSE "reap", NoPeer)
  /\ UNCHANGED <<tracked, handles, worker>>

\* Finished workers are joined and forgotten; the mutant forgets all of them.
MutActive == {}
Active == {p \in handles : ~Finished(p)}

LoopReaps ==
  /\ LoopGoes("reap", "accept", NoPeer)
  /\ handles' = Active
  /\ UNCHANGED <<tracked, worker>>

LoopAccepts(p) ==
  /\ worker[p] = "waiting"
  /\ IF Cardinality(handles) >= MaxBridgeConnections
     THEN LoopGoes("accept", "check", NoPeer) /\ WorkerGoes(p, "waiting", "turnedAway")
     ELSE LoopGoes("accept", "track", p) /\ UNCHANGED worker
  /\ UNCHANGED <<tracked, handles>>

\* WouldBlock, or any other error, which ends the loop.
LoopAcceptsNone ==
  /\ \/ (\A p \in Peers : worker[p] # "waiting") /\ LoopGoes("accept", "check", NoPeer)
     \/ LoopGoes("accept", "end", NoPeer)
  /\ UNCHANGED <<tracked, handles, worker>>

\* The connection is listed unless it cannot be cloned; then the worker starts.
LoopTracks == LET p == bridge.peer IN
  /\ LoopGoes("track", "check", NoPeer)
  /\ tracked' \in {tracked, tracked \cup {p}}
  /\ handles' = handles \cup {p}
  /\ WorkerGoes(p, "waiting", "reading")

LoopStep ==
  LoopChecks \/ LoopReaps \/ LoopAcceptsNone \/ LoopTracks \/ \E p \in Peers : LoopAccepts(p)

-----------------------------------------------------------------------------
(* bridge_connection *)

\* One line before the deadline; a wrong token or tool is answered at once, and
\* no line, or the shutdown of the connection, not at all.
BridgeReads(p) ==
  /\ \E to \in {"handling", "writing", "leaving"} : WorkerGoes(p, "reading", to)
  /\ UNCHANGED <<bridge, tracked, handles>>

\* The handler returns, fails or panics: each is an answer.
HandlerReturns(p) ==
  /\ WorkerGoes(p, "handling", "writing")
  /\ UNCHANGED <<bridge, tracked, handles>>

BridgeWrites(p) ==
  /\ WorkerGoes(p, "writing", "leaving")
  /\ UNCHANGED <<bridge, tracked, handles>>

\* retain: the own connection is taken off the list, unless its peer is gone
\* and has no address any more.
BridgeLeaves(p) ==
  /\ WorkerGoes(p, "leaving", "finished")
  /\ tracked' \in {tracked, tracked \ {p}}
  /\ UNCHANGED <<bridge, handles>>

BridgeWorker(p) == BridgeReads(p) \/ BridgeWrites(p) \/ BridgeLeaves(p)

-----------------------------------------------------------------------------
(* drop *)

DropStops ==
  /\ bridge.owner = "up"
  /\ bridge' = [bridge EXCEPT !.owner = "stopping", !.stop = TRUE]
  /\ UNCHANGED <<tracked, handles, worker>>

\* shutdown of the connections that are listed by now; a read then ends.
DropShuts == OwnerGoes("stopping", "joining") /\ UNCHANGED <<tracked, handles, worker>>

DropJoinsLoop ==
  /\ bridge.loop = "end" /\ OwnerGoes("joining", "draining")
  /\ UNCHANGED <<tracked, handles, worker>>

\* Handles that are not finished are dropped; the mutant joins them.
MutDropDrains ==
  /\ \A p \in handles : Finished(p)
  /\ OwnerGoes("draining", "dropped") /\ handles' = {}
  /\ UNCHANGED <<tracked, worker>>
DropDrains ==
  /\ OwnerGoes("draining", "dropped") /\ handles' = {}
  /\ UNCHANGED <<tracked, worker>>

DropStep == DropShuts \/ DropJoinsLoop \/ DropDrains

\* The pi process connects (external).
PeerConnects(p) ==
  /\ bridge.owner \in {"up", "stopping", "joining"}
  /\ WorkerGoes(p, "unborn", "waiting")
  /\ UNCHANGED <<bridge, tracked, handles>>

BridgeEnvironment ==
  \/ BridgeUp \/ DropStops
  \/ \E p \in Peers : PeerConnects(p) \/ HandlerReturns(p)

-----------------------------------------------------------------------------
(* Properties. *)

\* However connections, ends of workers and the reaping interleave, no more
\* handlers than the limit run at once, also while the bridge shuts down.
WorkersBounded == Cardinality(Unfinished) <= MaxBridgeConnections

\* Once its owner drops the bridge it is gone, although a handler never returns.
BridgeDropEnds == bridge.owner = "stopping" ~> bridge.owner = "dropped"
=============================================================================
