------------------------------ MODULE MCDispatch ------------------------------
(***************************************************************************)
(* Dispatch with two calls, in the combinations where they can meet: a     *)
(* backend alone, two terminals, two in-process runs.                      *)
(***************************************************************************)
EXTENDS Dispatch

CONSTANTS c1, c2, s1, s2

APlan == [sdk |-> "other", probed |-> FALSE, tools |-> FALSE, resume |-> FALSE,
          env |-> {}, valid |-> TRUE, leaves |-> FALSE, efforts |-> {"none"},
          suffixes |-> {"none"}]
Terminally(resume) == [APlan EXCEPT !.sdk = "claude-terminal", !.resume = resume]
Rustly(env, resume) == [APlan EXCEPT !.sdk = "pi-rust", !.env = env, !.resume = resume]

Pair(p, q) == (c1 :> p) @@ (c2 :> q)
Alone(p) == Pair([p EXCEPT !.leaves = TRUE], [APlan EXCEPT !.sdk = "omp"])

AllScenarios ==
  {Alone([APlan EXCEPT !.probed = TRUE]),
   Alone([APlan EXCEPT !.sdk = "claude-headless", !.tools = TRUE]),
   Alone([APlan EXCEPT !.sdk = "claude-headless"]),
   Alone([APlan EXCEPT !.sdk = "claude"]),
   Alone([APlan EXCEPT !.sdk = "claude", !.tools = TRUE]),
   Alone([APlan EXCEPT !.sdk = "pi", !.tools = TRUE]),
   Alone([APlan EXCEPT !.sdk = "pi-rust", !.valid = FALSE]),
   Alone([APlan EXCEPT !.sdk = "pi-rust", !.efforts = Efforts, !.suffixes = Levels]),
   Alone(Rustly({"A"}, FALSE)),
   Pair(Rustly({"A", "B"}, TRUE), Rustly({"B", "C"}, FALSE)),
   Pair(Rustly({"A", ""}, TRUE), Rustly({"A"}, TRUE)),
   Alone(Terminally(FALSE)), Alone(Terminally(TRUE)),
   Pair(Terminally(FALSE), Terminally(TRUE))}

\* The earlier turn of s1 has three messages.
SomeMessages == (s1 :> 5) @@ (s2 :> 2)

SomeWindows == {[used |-> 100, resets |-> 60], [used |-> 100, resets |-> -60],
                [used |-> 100, resets |-> NoReset], [used |-> 99, resets |-> 30]}
=============================================================================
