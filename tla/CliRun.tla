-------------------------------- MODULE CliRun --------------------------------
(***************************************************************************)
(* A prompt run by the command line (crates/seher-cli/src/run_mode.rs and  *)
(* stream.rs): resolve a provider, dispatch the prompt to its backend,     *)
(* drain the backend's channel to stdout under a deadline and Ctrl-C,      *)
(* retry transient errors on the same provider and leave a provider that   *)
(* is limited or whose server fails.  With --resume the run is pinned to   *)
(* the backend that owns the session.                                      *)
(*                                                                         *)
(* The backend is a thread at the other end of a channel: it sends deltas, *)
(* then one terminal chunk, or drops the channel, or never says anything.  *)
(***************************************************************************)
EXTENDS Resolve, RunErrors, Sequences

CONSTANTS
  Owners,    \* the backends probe_session_backend may name
  MaxDeltas  \* bound: the deltas of one stream

ASSUME RetryShape == \A e \in ConfigEntries : Retry[e] \in RetryRec
ASSUME OwnersKnown == Owners \subseteq SupportedSdks /\ Unset \notin Owners
ASSUME MaxDeltasNat == MaxDeltas \in Nat

VARIABLES
  cli,     \* the locals of the command-line thread
  cancel,  \* the CancelToken that Ctrl-C fires
  stream,  \* the backend of the last dispatch and its channel
  log      \* every dispatch: its entry, how its drain ended, whether Ctrl-C came before

vars == <<res, cli, cancel, stream, log>>

CliPc == {"start", "resolve", "dispatch", "top", "recv", "outcome", "backoff", "switch", "end"}

\* stream.rs's Outcome, an Error by the class of its message.
Outcomes == {"Done", "Limit", "Timeout", "Cancelled"} \cup MessageClasses
Results == Outcomes \cup {"noMatch", "allLimited", "notFound", "otherBackend", "pinnedLimit"}
Providers == {Provider(e) : e \in ConfigEntries}

ASSUME UnsetIsNoResult == Unset \notin Results

CliRec == [pc : CliPc, opts : Options \cup {Unset}, deadline : BOOLEAN,
           owner : Owners \cup {Unset}, excluded : SUBSET Providers, attempt : Nat,
           outcome : Outcomes \cup {Unset}, last_server_error : {"server", Unset},
           result : Results \cup {Unset}]

Chunks == {"delta", "Done", "Limit"} \cup MessageClasses
StreamRec == [worker : {"none", "running", "ended"}, deltas : 0..MaxDeltas,
              channel : Seq(Chunks)]
LogRec == [entry : ConfigEntries, outcome : Outcomes \cup {Unset}, late : BOOLEAN]

Init ==
  /\ res = NoResolution
  /\ cli = [pc |-> "start", opts |-> Unset, deadline |-> FALSE, owner |-> Unset,
            excluded |-> {}, attempt |-> 1, outcome |-> Unset,
            last_server_error |-> Unset, result |-> Unset]
  /\ cancel = FALSE
  /\ stream = [worker |-> "none", deltas |-> 0, channel |-> <<>>]
  /\ log = <<>>

Resume == cli.owner # Unset
Exit(r) == cli' = [cli EXCEPT !.pc = "end", !.result = r]

-----------------------------------------------------------------------------
(* resolve_and_stream and resume_and_stream. *)

CtrlC ==
  /\ ~cancel /\ cli.pc # "start"
  /\ cancel' = TRUE
  /\ UNCHANGED <<res, cli, stream, log>>

\* A fresh run, or one that resumes a session whose owner was found on disk.
Start(o, deadline, owner) ==
  /\ cli.pc = "start"
  /\ Begin(o, {})
  /\ cli' = [cli EXCEPT !.pc = "resolve", !.opts = o, !.deadline = deadline, !.owner = owner]
  /\ UNCHANGED <<cancel, stream, log>>

SessionNotFound ==
  /\ cli.pc = "start"
  /\ Exit("notFound")
  /\ UNCHANGED <<res, cancel, stream, log>>

Resolving ==
  /\ cli.pc = "resolve"
  /\ ResolveStep(cancel)
  /\ UNCHANGED <<cli, cancel, stream, log>>

ClaudeSdks == {"claude", "claude-terminal", "claude-headless"}

\* sdk_backends_compatible; the mutant accepts every backend.
MutCompatible(sdk, owner) == TRUE
Compatible(sdk, owner) == sdk = owner \/ {sdk, owner} \subseteq ClaudeSdks

\* resolve_once is done.  Exhaustion of any kind is replaced by the last
\* server error.
Resolved ==
  /\ cli.pc = "resolve"
  /\ \/ /\ res.pc = "found"
        /\ Resume => Compatible(Config[res.picked].sdk, cli.owner)
        /\ cli' = [cli EXCEPT !.pc = "dispatch", !.attempt = 1]
     \/ /\ res.pc = "found" /\ Resume /\ ~Compatible(Config[res.picked].sdk, cli.owner)
        /\ Exit("otherBackend")
     \/ /\ res.pc \in {"noMatch", "allLimited"} /\ cli.last_server_error # Unset
        /\ Exit("server")
     \/ /\ res.pc \in {"noMatch", "allLimited"} /\ cli.last_server_error = Unset
        /\ Exit(res.pc)
  /\ UNCHANGED <<res, cancel, stream, log>>

-----------------------------------------------------------------------------
(* stream_with_http_retry and drain_stream. *)

\* dispatch_stream starts the backend, whatever the cancel token says.
Dispatch ==
  /\ cli.pc = "dispatch"
  /\ stream' = [worker |-> "running", deltas |-> 0, channel |-> <<>>]
  /\ log' = Append(log, [entry |-> res.picked, outcome |-> Unset, late |-> cancel])
  /\ cli' = [cli EXCEPT !.pc = "top"]
  /\ UNCHANGED <<res, cancel>>

\* The drain returns and drops the receiver.
Drained(o) ==
  /\ cli' = [cli EXCEPT !.pc = "outcome", !.outcome = o]
  /\ log' = [log EXCEPT ![Len(log)].outcome = o]

\* The head of the loop; the mutant forgets to look at the token.
MutStopsAtTop == FALSE
StopsAtTop == cancel

LoopTop ==
  /\ cli.pc = "top"
  /\ \/ StopsAtTop /\ Drained("Cancelled")
     \/ ~StopsAtTop /\ cli.deadline /\ Drained("Timeout")
     \/ ~StopsAtTop /\ cli' = [cli EXCEPT !.pc = "recv"] /\ UNCHANGED log
  /\ UNCHANGED <<res, cancel, stream>>

Arrived == stream.channel # <<>>

\* Writing to stdout may fail; the mutant reports the failure as the backend's.
MutWriteFailure == "server"
WriteFailure == "other"

TakeDelta ==
  /\ cli.pc = "recv" /\ Arrived /\ Head(stream.channel) = "delta"
  /\ stream' = [stream EXCEPT !.channel = Tail(@)]
  /\ \/ cli' = [cli EXCEPT !.pc = "top"] /\ UNCHANGED log
     \/ Drained("Done")                                      \* broken pipe
     \/ Drained(WriteFailure)
  /\ UNCHANGED <<res, cancel>>

TakeTerminal == LET chunk == Head(stream.channel) IN
  /\ cli.pc = "recv" /\ Arrived /\ chunk # "delta"
  /\ stream' = [stream EXCEPT !.channel = Tail(@)]
  /\ \/ chunk \in {"Done", "Limit"} /\ Drained(chunk)
     \/ chunk = "Done" /\ Drained(WriteFailure)
     \/ chunk \in MessageClasses /\ ~cancel /\ Drained(chunk)
     \/ chunk \in MessageClasses /\ cancel /\ Drained("Cancelled")
  /\ UNCHANGED <<res, cancel>>

Disconnected ==
  /\ cli.pc = "recv" /\ ~Arrived /\ stream.worker = "ended"
  /\ Drained("other")
  /\ UNCHANGED <<res, cancel, stream>>

\* recv_timeout expires: the deadline, or the poll of the token without one.
\* The mutant polls a deadline only.
MutExpires(o) == cli.deadline /\ o = "Timeout"
Expires(o) ==
  \/ cli.deadline /\ o = "Timeout"
  \/ ~cli.deadline /\ cancel /\ o = "Cancelled"

Expire ==
  /\ cli.pc = "recv" /\ ~Arrived
  /\ \E o \in Outcomes : Expires(o) /\ Drained(o)
  /\ UNCHANGED <<res, cancel, stream>>

\* Only errors are retried here, and as RetryConfig says; the mutant is off by one.
MutRetries ==
  /\ cli.outcome \in MessageClasses
  /\ Retry[res.picked].enabled
  /\ MayRetryMessage(res.picked, cli.outcome)
  /\ cli.attempt <= effective_max_attempts(res.picked)
Retries ==
  /\ cli.outcome \in MessageClasses
  /\ Retry[res.picked].enabled
  /\ MayRetryMessage(res.picked, cli.outcome)
  /\ cli.attempt < effective_max_attempts(res.picked)

HttpRetry ==
  /\ cli.pc = "outcome"
  /\ \/ Retries /\ cli' = [cli EXCEPT !.pc = "backoff"]
     \/ ~Retries /\ cli' = [cli EXCEPT !.pc = "switch"]
  /\ UNCHANGED <<res, cancel, stream, log>>

\* sleep_with_cancel is over.
Backoff ==
  /\ cli.pc = "backoff"
  /\ \/ cancel /\ cli' = [cli EXCEPT !.pc = "switch", !.outcome = "Cancelled"]
     \/ ~cancel /\ cli' = [cli EXCEPT !.pc = "dispatch", !.attempt = @ + 1]
  /\ UNCHANGED <<res, cancel, stream, log>>

-----------------------------------------------------------------------------
(* stream_with_retry, and the end of resume_and_stream. *)

\* What is remembered for the case that no provider is left; the mutant keeps
\* a server error over a later limit.
MutServerError == IF cli.outcome = "server" THEN "server" ELSE cli.last_server_error
ServerError == IF cli.outcome = "server" THEN "server" ELSE Unset

\* The outcomes that move a run to another provider; the mutant moves a
\* resumed run too.
MutMoves == cli.outcome \in {"Limit", "server"}
Moves == cli.outcome \in {"Limit", "server"} /\ ~Resume

Switch ==
  /\ cli.pc = "switch"
  /\ \/ /\ Moves
        /\ cli' = [cli EXCEPT !.pc = "resolve", !.last_server_error = ServerError,
                              !.excluded = @ \cup {Provider(res.picked)}]
        /\ Begin(cli.opts, cli'.excluded)
     \/ /\ ~Moves
        /\ Exit(IF Resume /\ cli.outcome = "Limit" THEN "pinnedLimit" ELSE cli.outcome)
        /\ UNCHANGED res
  /\ UNCHANGED <<cancel, stream, log>>

-----------------------------------------------------------------------------
(* The backend's thread. *)

SendDelta ==
  /\ stream.worker = "running" /\ stream.deltas < MaxDeltas
  /\ stream' = [stream EXCEPT !.deltas = @ + 1, !.channel = Append(@, "delta")]
  /\ UNCHANGED <<res, cli, cancel, log>>

SendTerminal ==
  /\ stream.worker = "running"
  /\ \E chunk \in Chunks \ {"delta"} :
       stream' = [stream EXCEPT !.worker = "ended", !.channel = Append(@, chunk)]
  /\ UNCHANGED <<res, cli, cancel, log>>

DropSender ==
  /\ stream.worker = "running"
  /\ stream' = [stream EXCEPT !.worker = "ended"]
  /\ UNCHANGED <<res, cli, cancel, log>>

-----------------------------------------------------------------------------
CliStep ==
  \/ Resolving \/ Resolved \/ Dispatch
  \/ LoopTop \/ TakeDelta \/ TakeTerminal \/ Disconnected \/ Expire
  \/ HttpRetry \/ Backoff \/ Switch

Next ==
  \/ \E o \in Options, deadline \in BOOLEAN, owner \in Owners \cup {Unset} :
       Start(o, deadline, owner)
  \/ SessionNotFound
  \/ CtrlC
  \/ CliStep
  \/ SendDelta \/ SendTerminal \/ DropSender

Spec == Init /\ [][Next]_vars

\* The command-line thread runs on, probes and sleeps end; the backend owes
\* nothing.
FairSpec == Spec /\ WF_vars(CliStep)

-----------------------------------------------------------------------------
(* Properties. *)

\* A retry or another provider starts only when the backend before it has
\* ended its stream: two backends never work on the prompt at once.
OneStreamAtATime == cli.pc = "dispatch" => stream.worker # "running"

\* After Ctrl-C at most one more backend is started, by a dispatch that was
\* on its way.
CancelStopsSoon == Cardinality({i \in 1..Len(log) : log[i].late}) <= 1

\* A server error is reported only when the last attempt met it, never one
\* that a later limit has made stale.
ServerErrorIsFresh ==
  cli.result = "server" => log # <<>> /\ log[Len(log)].outcome = "server"

\* A resumed session runs only on the backend that owns it, on one provider.
ResumedOnOwner ==
  Resume => \A i \in 1..Len(log) :
    /\ \/ Config[log[i].entry].sdk = cli.owner
       \/ {Config[log[i].entry].sdk, cli.owner} \subseteq ClaudeSdks
    /\ log[i].entry = log[1].entry

\* Only failures that are known to be transient are repeated, within the
\* attempts the policy allows each entry.
RepeatsAreBounded ==
  /\ \A i \in 1..Len(log) : i < Len(log) =>
       log[i].outcome \in {"Limit", "server", "throttled", "client"}
  /\ \A e \in ConfigEntries :
       Cardinality({i \in 1..Len(log) : log[i].entry = e}) <= effective_max_attempts(e)

\* Ctrl-C ends the run, even when the backend never answers.
CancelEndsRun == cancel ~> cli.pc = "end"
=============================================================================
