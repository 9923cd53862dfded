-------------------------------- MODULE SdkRun --------------------------------
(***************************************************************************)
(* An embedder's calls of the SDK (crates/seher-sdk/src/sdk/dispatch.rs):  *)
(* run_with_provider_fallback, which resolves a provider, runs the prompt  *)
(* on it with retries and moves to another provider when the network or    *)
(* the server fails, and poll_for_agent.                                   *)
(*                                                                         *)
(* One attempt is one stream of a backend folded to its end (fold_stream); *)
(* how it ends is a choice.                                                *)
(***************************************************************************)
EXTENDS Resolve, RunErrors, Sequences

CONSTANT ExcludeProviders  \* exclude_providers of the call

ASSUME RetryShape == \A e \in ConfigEntries : Retry[e] \in RetryRec
ASSUME UnsetIsNoError == Unset \notin ErrorKinds

VARIABLES
  call,    \* the locals of the call under way
  cancel,  \* poll_for_agent's cancel flag
  log      \* every attempt made: the entry it ran on and how it ended

vars == <<res, call, cancel, log>>

Providers == {Provider(e) : e \in ConfigEntries}
RunOutcomes == {"ok"} \cup ErrorKinds
Results == RunOutcomes \cup {"resolved", "noMatch", "allLimited", "canceled"}

CallRec == [pc : {"idle", "resolve", "attempt", "backoff", "failed", "done"},
            resume : BOOLEAN, excluded : SUBSET (Providers \cup ExcludeProviders), attempt : Nat,
            error : ErrorKinds \cup {Unset},
            last_fallback_error : ErrorKinds \cup {Unset},
            result : Results \cup {Unset}]

(* The type of every variable. *)
TypeOK ==
  /\ res \in ResRec
  /\ call \in CallRec
  /\ cancel \in BOOLEAN
  /\ log \in Seq([entry : ConfigEntries, outcome : RunOutcomes])

Init ==
  /\ res = NoResolution
  /\ call = [pc |-> "idle", resume |-> FALSE, excluded |-> ExcludeProviders,
             attempt |-> 1, error |-> Unset, last_fallback_error |-> Unset, result |-> Unset]
  /\ cancel = FALSE
  /\ log = <<>>

Return(r) == call' = [call EXCEPT !.pc = "done", !.result = r]

-----------------------------------------------------------------------------
\* run_with_provider_fallback or poll_for_agent, as the options say.
Start(o, resume) ==
  /\ call.pc = "idle"
  /\ Begin(o, call.excluded)
  /\ call' = [call EXCEPT !.pc = "resolve", !.resume = resume]
  /\ UNCHANGED <<cancel, log>>

CancelPoll ==
  /\ ~cancel
  /\ cancel' = TRUE
  /\ UNCHANGED <<res, call, log>>

Resolving ==
  /\ call.pc = "resolve"
  /\ ResolveStep(cancel)
  /\ UNCHANGED <<call, cancel, log>>

\* Resolution is over.  Only NoMatching is replaced by the error that caused
\* the last fallback.
Resolved ==
  /\ call.pc = "resolve"
  /\ \/ res.pc = "found" /\ res.opts.poll /\ Return("resolved")
     \/ res.pc = "found" /\ ~res.opts.poll /\ call' = [call EXCEPT !.pc = "attempt", !.attempt = 1]
     \/ res.pc = "noMatch" /\ call.last_fallback_error # Unset
        /\ Return(call.last_fallback_error)
     \/ res.pc = "noMatch" /\ call.last_fallback_error = Unset /\ Return("noMatch")
     \/ res.pc \in {"allLimited", "canceled"} /\ Return(res.pc)
  /\ UNCHANGED <<res, cancel, log>>

\* run_with_retry_inner keeps the error: attempts used up, retrying switched
\* off, a timeout, or a message that is not worth a retry.  A limit always is.
\* The mutant retries whatever the message says.
MutGivesUp(e, error) ==
  call.attempt >= effective_max_attempts(e) \/ ~Retry[e].enabled
GivesUp(e, error) ==
  \/ call.attempt >= effective_max_attempts(e)
  \/ ~Retry[e].enabled
  \/ error = "timeout"
  \/ error \in MessageClasses /\ ~MayRetryMessage(e, error)

\* One attempt: stream_for_resolved and fold_stream.
Attempt(outcome) ==
  /\ call.pc = "attempt"
  /\ log' = Append(log, [entry |-> res.picked, outcome |-> outcome])
  /\ \/ outcome = "ok" /\ Return("ok")
     \/ /\ outcome # "ok" /\ GivesUp(res.picked, outcome)
        /\ call' = [call EXCEPT !.pc = "failed", !.error = outcome]
     \/ /\ outcome # "ok" /\ ~GivesUp(res.picked, outcome)
        /\ call' = [call EXCEPT !.pc = "backoff"]
  /\ UNCHANGED <<res, cancel>>

\* The backoff is over.
Retrying ==
  /\ call.pc = "backoff"
  /\ call' = [call EXCEPT !.pc = "attempt", !.attempt = @ + 1]
  /\ UNCHANGED <<res, cancel, log>>

\* The errors that move the run to another provider; a resumed session
\* belongs to its provider.
FallsBack(error) ==
  /\ is_network_error_message(error) \/ is_server_error_message(error)
  /\ ~call.resume

\* The error that stands for the run when no provider is left; the mutant
\* keeps the first one.
MutRemembered == IF call.last_fallback_error = Unset THEN call.error ELSE call.last_fallback_error
Remembered == call.error

\* The run on one provider has failed.
Failed ==
  /\ call.pc = "failed"
  /\ IF FallsBack(call.error)
     THEN /\ call' = [call EXCEPT !.pc = "resolve", !.last_fallback_error = Remembered,
                                  !.excluded = @ \cup {Provider(res.picked)}]
          /\ Begin(res.opts, call'.excluded)
     ELSE /\ Return(call.error)
          /\ UNCHANGED res
  /\ UNCHANGED <<cancel, log>>

CallStep ==
  \/ Resolving \/ Resolved \/ Retrying \/ Failed
  \/ \E o \in RunOutcomes : Attempt(o)

Next ==
  \/ \E o \in Options, resume \in BOOLEAN : Start(o, resume)
  \/ CancelPoll
  \/ CallStep

Spec == Init /\ [][Next]_vars

\* The thread of a call runs on; probes, attempts and sleeps come to an end.
FairSpec == Spec /\ WF_vars(CallStep)

-----------------------------------------------------------------------------
(* Properties. *)

\* Attempts that were given up on never come back: every attempt but the last
\* was retried or failed over, so none ended with an error that must not be
\* repeated (non-retryable, timed out, or of unknown kind); and the policy
\* bounds the attempts on each entry.
OnlyRepeatableRepeated ==
  /\ \A i \in 1..Len(log) : i < Len(log) =>
       log[i].outcome \in {"limit", "network", "server", "throttled", "client"}
  /\ \A e \in ConfigEntries :
       Cardinality({i \in 1..Len(log) : log[i].entry = e}) <= effective_max_attempts(e)

\* A provider that was left is never tried again, under any of its entries,
\* and what made the run leave it was a network or a server error.  A resumed
\* session is never left.
NoWayBack ==
  \A i \in 1..Len(log) : i < Len(log) /\ log[i].entry # log[i+1].entry =>
    /\ ~call.resume
    /\ log[i].outcome \in {"network", "server"}
    /\ \A j \in i+1..Len(log) : Provider(log[j].entry) # Provider(log[i].entry)

\* The result is that of the last attempt, however the run moved between
\* providers; only a resolution that found every provider limited hides it.
LastErrorReported ==
  call.pc = "done" /\ log # <<>> =>
    call.result \in {log[Len(log)].outcome, "allLimited"}

\* A run always ends.
RunsEnd == call.pc = "resolve" /\ ~res.opts.poll ~> call.pc = "done"

\* A cancelled poll returns.
CanceledPollEnds == call.pc = "resolve" /\ res.opts.poll /\ cancel ~> call.pc = "done"
=============================================================================
