----------------------------- MODULE MCPiSession -----------------------------
(* Instances of PiSession for TLC. *)
EXTENDS PiSession, TLC

\* All streams use the same options, so they share entries.
SameOptions == [s \in Streams |-> "o"]

\* Entries, streams and callers are interchangeable; so are the keys.
Symmetry == UNION {Permutations(S) : S \in {Keys, Entries, Streams, Callers}}

\* Three starts in one run.  In the first, stream s never calls and there is one
\* entry less to use.  In the second, the call of stream s is over and has left
\* session k idle in entry e, and one caller never calls.  In the third, there
\* is one entry less and the callers never call; only here there are closers.
WorkerAt(p, k, s, n) == [pc |-> p, key |-> k, creator |-> s, candidate |-> n,
                         cmd |-> None, session |-> k]
Absent == WorkerAt("absent", None, None, 0)

ClientsBut(ended) ==
  [c \in Clients |-> [pc |-> IF c \in ended THEN "end" ELSE "idle", entry |-> None,
                      key |-> None, kind |-> "prompt", cancelled |-> FALSE,
                      sent |-> FALSE, outcome |-> "none"]]

Established(s, e, k) ==
  /\ registry = [j \in Keys |-> IF j = k THEN e ELSE None]
  /\ entry = [f \in Entries |->
                IF f = e THEN [FreshEntry EXCEPT !.initialized = TRUE, !.stdin = TRUE,
                                                 !.process = "alive"]
                ELSE FreshEntry]
  /\ worker = [f \in Entries |-> IF f = e THEN WorkerAt("idle", k, s, 1) ELSE Absent]

Unused(E) ==
  /\ registry = [j \in Keys |-> None]
  /\ entry = [f \in Entries |-> FreshEntry]
  /\ worker = [f \in Entries |-> IF f \in E THEN WorkerAt("gone", None, None, 0) ELSE Absent]

ClosersAt(p) == [x \in Closers |-> [pc |-> p, targets |-> {}, entry |-> None]]

PiStarts ==
  /\ queue = [e \in Entries |-> <<>>]
  /\ \E s \in Streams, e \in Entries :
       \/ Unused({e}) /\ client = ClientsBut({s}) /\ closer = ClosersAt("end")
       \/ /\ \E k \in Keys : Established(s, e, k)
          /\ \E c \in Callers : client = ClientsBut({s, c})
          /\ closer = ClosersAt("end")
       \/ Unused({e}) /\ client = ClientsBut(Callers) /\ closer = ClosersAt("idle")

PiStartsSpec == PiStarts /\ [][Next]_vars
=============================================================================
