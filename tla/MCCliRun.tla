------------------------------- MODULE MCCliRun -------------------------------
(* An instance of CliRun for TLC: two entries share a provider name, and the
   backends of the entries differ. *)
EXTENDS CliRun

Entry(p, sdk, mp, prio, order) ==
  [provider |-> p, sdk |-> sdk, defines |-> TRUE, model_priority |-> mp,
   priority |-> prio, order |-> order]

AllEntries == 1..3
AConfig == <<Entry("a", "pi", Unset, Unset, 0), Entry("b", "claude", 5, 0, 1),
             Entry("a", "claude-headless", Unset, 1, 2)>>

Policy(on, max, client) ==
  [enabled |-> on, max_attempts |-> max, retry_client_errors |-> client]
ARetry == <<Policy(TRUE, 0, FALSE), Policy(TRUE, 2, TRUE), Policy(FALSE, 3, FALSE)>>

\* resolve_once leaves all options but the filter at their defaults.
SomeOptions == {[poll |-> FALSE, no_wait |-> FALSE, require_tools |-> FALSE,
                 provider_filter |-> Unset]}
=============================================================================
