------------------------------- MODULE Dispatch -------------------------------
(***************************************************************************)
(* Calls of stream_for_resolved (sdk/dispatch.rs) side by side: the probe  *)
(* of the provider, the choice of the backend, and the backends themselves *)
(* up to the last chunk.  Terminals of the same project share a directory, *)
(* in-process runs share the environment; every call has its own channel,  *)
(* and a token that only some backends look at.                            *)
(*                                                                         *)
(* The backends pi and omp are PiSession and OmpSession; here pi with      *)
(* tools brings its bridge.                                                *)
(***************************************************************************)
EXTENDS ClaudeAgent, ClaudeHeadless, ClaudeTerminal, PiRunner, Codexbar, Bridge

CONSTANT Scenarios   \* what the calls ask for: a subset of [Calls -> Plan]

VARIABLES
  call,       \* plan and progress of each call
  cancelled   \* its cancel token

Sdks == {"pi", "omp", "pi-rust", "claude", "claude-headless", "claude-terminal", "other"}
Efforts == {"none", "low", "medium", "high", "xhigh", "max"}
Levels == Efforts \cup {"off", "minimal"}

Plan == [sdk : Sdks, probed : BOOLEAN, tools : BOOLEAN, resume : BOOLEAN,
         env : SUBSET EnvKeys, valid : BOOLEAN, leaves : BOOLEAN,
         efforts : SUBSET Efforts, suffixes : SUBSET Levels]
ASSUME ScenariosArePlans == Scenarios \subseteq [Calls -> Plan]
CallRec == [plan : Plan, pc : {"new", "resolved", "open", "elsewhere", "skipped"}]

agentVars == vars
headVars == <<head, child>>
termVars == <<term, pane, shared>>
rustVars == <<rust, environ, envLock>>
probeVars == <<probe, bar>>
callVars == <<call, cancelled>>
backends == <<agentVars, headVars, termVars, rustVars, probeVars, bridgeVars>>
allVars == <<callVars, chan, backends>>

Asks(c, sdk) == call[c].plan.sdk = sdk /\ call[c].pc = "open"

DispatchInit ==
  /\ cancelled = [c \in Calls |-> FALSE]
  /\ \E s \in Scenarios :
       /\ call = [c \in Calls |->
                    [plan |-> s[c], pc |-> IF s[c].probed THEN "new" ELSE "resolved"]]
       /\ Init
       /\ user.mode = IF \E c \in Calls : s[c].sdk = "claude" /\ s[c].tools
                      THEN "tools" ELSE "plain"
  /\ ChanInit /\ HeadInit /\ TermInit /\ RustInit /\ ProbeInit /\ BridgeInit

-----------------------------------------------------------------------------
(* The probe *)

Probing(c, step) ==
  /\ call[c].pc = "new" /\ step
  /\ UNCHANGED <<callVars, chan, agentVars, headVars, termVars, rustVars, bridgeVars>>

\* A limit sends the resolver on to the next candidate (module Resolve).
Probed(c) ==
  /\ call[c].pc = "new" /\ probe[c].pc = "end"
  /\ call' = [call EXCEPT ![c].pc = IF probe[c].answer.limited THEN "skipped" ELSE "resolved"]
  /\ UNCHANGED <<cancelled, chan, backends>>

-----------------------------------------------------------------------------
(* choose_backend *)

sdk_supports_tools(sdk) == sdk \in {"pi", "omp", "pi-rust", "claude"}

\* pi_agent_rust has no level max.
normalize_pi_rust_suffix(suffix) == IF suffix = "max" THEN "xhigh" ELSE suffix
effort_to_pi_rust_thinking(effort) == IF effort = "max" THEN "xhigh" ELSE effort

\* The command line of claude has no level off, and none below low.
effort_from_suffix(suffix) ==
  CASE suffix = "off" -> "none" [] suffix = "minimal" -> "low" [] OTHER -> suffix

\* The level the backend gets: the effort of the options or of the resolved
\* agent before the suffix of the model.
Level(sdk, effort, suffix) ==
  CASE sdk = "pi-rust" -> IF effort # "none" THEN effort_to_pi_rust_thinking(effort)
                          ELSE normalize_pi_rust_suffix(suffix)
    [] sdk \in {"claude", "claude-headless", "claude-terminal"} ->
         IF effort # "none" THEN effort ELSE effort_from_suffix(suffix)
    [] OTHER -> IF effort # "none" THEN effort ELSE suffix

\* parse_thinking of the in-process Pi.
PiLevels == {"none", "off", "minimal", "low", "medium", "high", "xhigh"}

-----------------------------------------------------------------------------
(* stream_for_resolved *)

\* Tools the backend does not support, or an unknown sdk: one Error chunk.
Refusal(c) == LET plan == call[c].plan IN
  plan.sdk = "other" \/ (plan.tools /\ ~sdk_supports_tools(plan.sdk))

Refuse(c) ==
  /\ call[c].pc = "resolved" /\ Refusal(c)
  /\ call' = [call EXCEPT ![c].pc = "open"]
  /\ SendLast(c, "Error")
  /\ UNCHANGED <<cancelled, backends>>

Starts(c, sdk) ==
  /\ call[c].pc = "resolved" /\ ~Refusal(c) /\ call[c].plan.sdk = sdk
  /\ call' = [call EXCEPT ![c].pc = IF sdk \in {"pi", "omp"} THEN "elsewhere" ELSE "open"]
  /\ UNCHANGED <<cancelled, probeVars>>

StartClaude(c) ==
  /\ Starts(c, "claude") /\ OpenChannel(c)
  /\ UNCHANGED <<agentVars, headVars, termVars, rustVars, bridgeVars>>

StartHeadless(c) ==
  /\ Starts(c, "claude-headless") /\ HeadStart(c)
  /\ UNCHANGED <<agentVars, termVars, rustVars, bridgeVars>>

StartTerminal(c) ==
  /\ Starts(c, "claude-terminal") /\ TermStart(c, call[c].plan.resume)
  /\ UNCHANGED <<agentVars, headVars, rustVars, bridgeVars>>

StartPiRust(c, e, s) == LET plan == call[c].plan IN
  /\ Starts(c, "pi-rust")
  /\ RustStart(c, plan.env, plan.resume, plan.valid /\ Level("pi-rust", e, s) \in PiLevels)
  /\ UNCHANGED <<agentVars, headVars, termVars, bridgeVars>>

\* The sessions of pi and omp; with tools pi's session brings up its bridge.
StartRpc(c) ==
  /\ Starts(c, "pi") \/ Starts(c, "omp")
  /\ IF call[c].plan.sdk = "pi" /\ call[c].plan.tools THEN BridgeUp ELSE UNCHANGED bridgeVars
  /\ UNCHANGED <<chan, agentVars, headVars, termVars, rustVars>>

StreamForResolved(c) ==
  \/ Refuse(c) \/ StartRpc(c) \/ StartClaude(c) \/ StartHeadless(c) \/ StartTerminal(c)
  \/ \E e \in call[c].plan.efforts, s \in call[c].plan.suffixes : StartPiRust(c, e, s)

-----------------------------------------------------------------------------
(* The backends *)

\* What a step of run_async sends: the session, a text, or the last chunk.  A
\* text that finds no receiver ends it.
AgentSends(c) ==
  IF user.pc = "end" \/ user' = user THEN UNCHANGED chan
  ELSE IF user'.named # user.named THEN Send(c, "Session")
  ELSE IF user'.deltas # user.deltas THEN chan[c].receiver /\ Send(c, "Delta")
  ELSE IF user'.pc # "end" THEN UNCHANGED chan
  ELSE IF user'.verdict = "none" THEN ~chan[c].receiver /\ DropSender(c)
  ELSE SendLast(c, user'.verdict)

Agent(c, step) ==
  /\ Asks(c, "claude") /\ step /\ AgentSends(c)
  /\ UNCHANGED <<callVars, headVars, termVars, rustVars, probeVars, bridgeVars>>

Headless(c, step) ==
  /\ Asks(c, "claude-headless") /\ step
  /\ UNCHANGED <<callVars, agentVars, termVars, rustVars, probeVars, bridgeVars>>

Terminal(c, step) ==
  /\ Asks(c, "claude-terminal") /\ step
  /\ UNCHANGED <<callVars, agentVars, headVars, rustVars, probeVars, bridgeVars>>

PiRust(c, step) ==
  /\ Asks(c, "pi-rust") /\ step
  /\ UNCHANGED <<callVars, agentVars, headVars, termVars, probeVars, bridgeVars>>

Bridging(step) ==
  /\ step
  /\ UNCHANGED <<callVars, chan, agentVars, headVars, termVars, rustVars, probeVars>>

\* The reader of a call goes away; its user cancels.
ReaderLeaves(c) == call[c].plan.leaves /\ HangUp(c) /\ UNCHANGED <<callVars, backends>>

Cancel(c) ==
  /\ ~cancelled[c] /\ Asks(c, "claude-headless")
  /\ cancelled' = [cancelled EXCEPT ![c] = TRUE]
  /\ UNCHANGED <<call, chan, backends>>

DispatchNext ==
  \/ \E c \in Calls :
       \/ Probing(c, ProbeStep(c)) \/ Probing(c, ProbeEnvironment(c)) \/ Probed(c)
       \/ StreamForResolved(c) \/ ReaderLeaves(c) \/ Cancel(c)
       \/ Agent(c, Next)
       \/ Headless(c, HeadStep(c, cancelled[c])) \/ Headless(c, HeadEnvironment(c))
       \/ Terminal(c, TermStep(c)) \/ Terminal(c, TermEnvironment(c))
       \/ PiRust(c, RustStep(c)) \/ PiRust(c, RustEngine(c))
  \/ Bridging(LoopStep) \/ Bridging(DropStops) \/ Bridging(DropStep)
  \/ \E p \in Peers :
       \/ Bridging(BridgeWorker(p)) \/ Bridging(HandlerReturns(p)) \/ Bridging(PeerConnects(p))

DispatchSpec == DispatchInit /\ [][DispatchNext]_allVars

\* Threads go on when they can; handlers of tools, codexbar and the children of
\* claude -p need not.  (For run_async see ClaudeAgent.)
FairDispatch ==
  /\ DispatchSpec
  /\ \A c \in Calls :
       /\ WF_allVars(Probing(c, ProbeStep(c)))
       /\ WF_allVars(Headless(c, HeadStep(c, cancelled[c])))
  /\ WF_allVars(Bridging(LoopStep)) /\ WF_allVars(Bridging(DropStep))

-----------------------------------------------------------------------------
(* Properties. *)

\* Whatever the backend, and whenever it fails, is cancelled or loses its
\* reader: the session is named once at most and never after the end, by every
\* backend but run_async before any text, and one terminal chunk ends the stream
\* of every call.
StreamsKeepContract ==
  /\ Contract!LateSpec
  /\ [][\A c \in Calls : Contract!NameLate(c) => Asks(c, "claude")]_allVars

\* A cancelled claude -p ends unless the child has ended by itself, although a
\* process that it started holds its pipes.
CancelStopsHeadless ==
  \A c \in Calls :
    cancelled[c] /\ head[c].pc \in {"start", "poll"} ~> head[c].pc = "end" \/ Ended(c)
=============================================================================
