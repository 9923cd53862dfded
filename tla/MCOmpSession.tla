---------------------------- MODULE MCOmpSession ----------------------------
(* Instances of OmpSession for TLC. *)
EXTENDS OmpSession, MCPiSession

\* Streams are keys too, and both change places together.
OmpSymmetry == UNION {Permutations(S) : S \in {Ids, Entries, Streams, Callers}}

\* Three starts in one run: an established session, one stream and the callers;
\* one entry, one stream, the callers and the closers; or streams only.
ThreeStarts ==
  /\ queue = [e \in Entries |-> <<>>]
  /\ reported = [s \in Streams |-> None]
  /\ \E s \in Streams, e \in Entries :
       \/ /\ \E i \in Ids : /\ Established(s, e, i)
                            /\ omp_session_id = [f \in Entries |-> IF f = e THEN i ELSE None]
          /\ client = ClientsBut({s})
          /\ closer = ClosersAt("end")
       \/ /\ Unused({e})
          /\ omp_session_id = [f \in Entries |-> None]
          /\ client = ClientsBut({s})
          /\ closer = ClosersAt("idle")
       \/ /\ Unused({})
          /\ omp_session_id = [f \in Entries |-> None]
          /\ client = ClientsBut(Callers)
          /\ closer = ClosersAt("end")

ThreeStartsSpec == ThreeStarts /\ [][OmpNext]_ompVars
=============================================================================
