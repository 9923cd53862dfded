------------------------------- MODULE MCSdkRun -------------------------------
(* Instances of SdkRun for TLC: two entries share a provider name, one sdk is
   not executable here, priorities come from the model, the entry, or neither. *)
EXTENDS SdkRun

Entry(p, sdk, mp, prio, order) ==
  [provider |-> p, sdk |-> sdk, defines |-> TRUE, model_priority |-> mp,
   priority |-> prio, order |-> order]

AllEntries == 1..4
AConfig == <<Entry("a", "pi", Unset, Unset, 0), Entry("b", "claude", 5, 0, 1),
             Entry("a", "claude-headless", Unset, 1, 2), Entry("c", "codex", Unset, 9, 3)>>

\* poll, no_wait, require_tools, provider_filter
Opts(poll, nw, tools, filter) ==
  [poll |-> poll, no_wait |-> nw, require_tools |-> tools, provider_filter |-> filter]
SomeOptions == {Opts(FALSE, FALSE, FALSE, Unset), Opts(FALSE, TRUE, TRUE, Unset),
                Opts(FALSE, FALSE, FALSE, "a"), Opts(TRUE, FALSE, FALSE, Unset)}

Policy(on, max, client) ==
  [enabled |-> on, max_attempts |-> max, retry_client_errors |-> client]
ARetry == <<Policy(TRUE, 2, FALSE), Policy(TRUE, 3, TRUE),
            Policy(FALSE, 3, FALSE), Policy(TRUE, 0, FALSE)>>
=============================================================================
