# A TLA+ model of seher

Seher picks a coding agent that is not rate limited and runs a prompt on it.
This directory models the parts of the repository where order and failure
matter, checks them with TLC and proves some of the results with TLAPS. All
paths below are under `src/crates/`.

## 1. Inventory

| Component | Source | State | Operations | Hard part |
|---|---|---|---|---|
| Pi RPC sessions | `seher-sdk/src/sdk/pi_rpc.rs` | a process-wide registry, one `SessionEntry` (flags, child slot, stdin, pending map) and one worker thread per session, one command channel per worker | `stream_prompt`, `send_command`, `close_pi_session`, `close_all_pi_sessions`, the worker's loop | four kinds of threads on one entry; deadlines; a child that may exit at any point; sessions that change their key |
| Tool bridge | `pi_rpc.rs` 2256-2535 | a listener, its connections and workers | accept, serve, drop | limit and shutdown against handlers that never return |
| omp RPC sessions | `sdk/omp_rpc.rs` | as Pi, with a placeholder key until the handshake | as Pi | as Pi, and host tools inside the read loop |
| In-process Pi | `sdk/pi_runner.rs` | a thread per prompt, the environment lock, the environment itself | `run_pi_stream` | one environment for all threads; panics |
| Resolver | `sdk/resolve.rs`, `sleep.rs` | candidates and rescans of one call | `build_candidates`, `scan`, `resolve_agent`, `poll_for_agent` | termination, stale answers |
| Codexbar probe | `codexbar/` | a child in a process group, two reader threads | `run_blocking`, `classify` | helpers that hold the pipes; stale windows |
| Configuration | `sdk/config.rs`, `config_loader.rs` | none after loading | `resolve_retry`, `effective_max_attempts` | inheritance, zero |
| Errors | `sdk/errors.rs` | none | classifiers of messages | what may be repeated |
| SDK dispatch | `sdk/dispatch.rs` | exclusions, attempts, last error of one call | `stream_for_resolved`, `run_for_resolved`, `run_with_provider_fallback` | two nested retry loops |
| Command-line runs | `seher-cli/src/run_mode.rs`, `stream.rs` | the same, and a cancel token and a channel | `resolve_and_stream`, `resume_and_stream`, `drain_stream` | Ctrl-C, deadlines, a backend thread that outlives its reader |
| Plan and build | `mode_plan.rs`, `mode_build.rs` | none | one or two runs | |
| Claude SDK backend | `seher-sdk/src/claude_agent/`, crate `claude-agent-sdk` | a child, three tasks around it (writer, demultiplexer, reader of stderr), bounded channels, a control handler, the tail of stderr | `run_async`, `query`; `connect`, `write`, `end_input`, `close` | back pressure, senders that keep stdin open, deadlines of the teardown |
| Headless Claude | `claude_headless/runner.rs` | a child, two reader threads | `run` | timeout and cancel against exit; grandchildren |
| Claude in tmux | `claude_terminal/` | a tmux pane, the project's directory of transcripts | wait for prompt, paste, submit, wait for answer | other sessions' transcripts; earlier turns |

How they interact: `main` calls a mode; a mode runs `resolve_and_stream`, which
asks the resolver (which asks codexbar) and hands the prompt to a backend
through `stream_for_resolved`. A backend is a thread at the other end of a
channel of `StreamChunk`s; the only thing shared with it is a `CancelToken`.
The Pi and omp backends keep their processes between calls, so prompts, control
calls and closers of one embedder meet in the registry. Embedders call the
resolver, `run_with_provider_fallback` and the session functions directly.

What makes each component correct:

- *Pi sessions*: the registry never loses or confuses a session; one command at
  a time on a child's stdin; every call is answered, once; a prompt Pi may have
  worked on is not offered for repetition; closing ends.
- *Resolver*: the best free provider is picked, the call ends.
- *Retry loops*: only what is known to be transient is repeated, as often as the
  policy says, never on a provider that was left, never away from the owner of a
  resumed session; the error reported is the one that ended the run.
- *Claude SDK backend*: no frame, answer or limit is lost to a full channel or to
  the order in which the ends are dropped; a run ends.
- *Command line*: Ctrl-C always ends the run; two backends never work at once.
- *Every backend*: its stream names the session at most once and, but for the Claude
  SDK backend, before any text, and ends with one terminal chunk, whatever fails.
- *Headless Claude, codexbar, bridge*: a process or a handler that does not end
  does not keep a cancelled run, a probe whose codexbar hangs or a shutdown from ending.
- *Claude in tmux*: what is reported is the answer to this prompt, of this session.
- *In-process Pi*: a run's variables are its own and leave nothing behind.

## 2. Modules

| Module | Models | Runs |
|---|---|---|
| `PiSession` | registry, workers, streams, callers, closers of `pi_rpc.rs` | `pi_*` |
| `MCPiSession` | constants, symmetry and shorter starts for TLC | |
| `OmpSession` (+`MCOmpSession`) | the same for `omp_rpc.rs`, by the actions of `PiSession` | `omp_*` |
| `PiSessionProofs` | the theorems about types and registry of PiSession | |
| `PiCallProofs` | the theorems about its calls | |
| `OmpSessionProofs` | the theorems about OmpSession, on top of those of Pi | |
| `Resolve` | the resolver, as a component with the variable `res` | |
| `RunErrors` | error classes and retry policy, operators only | |
| `SdkRun` (+`MCSdkRun`) | `Resolve` composed with the fallback and retry loops of `dispatch.rs` | `sdk_run` |
| `CliRun` (+`MCCliRun`) | `Resolve` composed with the loops of `run_mode.rs`, the drain of `stream.rs` and a backend thread | `cli_run` |
| `ClaudeAgent` | `run_async` and `query()` over the transport of `claude-agent-sdk` | `claude_*`, `dispatch` |
| `StreamContract` | abstract: what the reader of a stream may rely on | |
| `Channel` | the channel of chunks of every call, and how it reads as a StreamContract | |
| `ClaudeHeadless`, `ClaudeTerminal`, `PiRunner` | the backends `claude-headless`, `claude-terminal`, `pi-rust`: one thread per call | |
| `Codexbar` | the probe of a provider, and the classification of its windows | |
| `Bridge` | the tool bridge of a Pi session | |
| `Dispatch` (+`MCDispatch`) | `stream_for_resolved`: composes the six modules above it with ClaudeAgent | `dispatch` |
| `ResolveProofs` | lemmas about a resolution, whoever started it | |
| `SdkRunProofs`, `CliRunProofs` | the theorems about SdkRun and CliRun, on these lemmas | |
| `ClaudeAgentProofs` | the theorems about ClaudeAgent | |
| `DispatchProofs` | the theorems about Dispatch, and the invariants of the parts it composes: bridge, environment, channels, probe, terminals | |

### PiSession

`registry[k]` is the map of the module; `entry[e]` holds the shared fields of a
`SessionEntry` (its atomics, the child slot, the pending map); `worker[e]` is
the program counter and the locals of the worker thread; `queue[e]` its
channel; `client[c]` a call of `stream_prompt` or `send_command`; `closer[x]` a
call of `close_pi_session` or `close_all_pi_sessions`. A step is one access to
shared state. `process` distinguishes a child that was spawned but is not yet in
the slot (`terminate_process` does not see it) from an installed one.

Accesses are merged where nothing can come between them that matters:
`send_command` reads the registry and the flags in one step (the second read
can only turn its answer into a refusal, which the model also produces);
settling a prompt clears `prompt_active`, `prompt_acknowledged` and `busy` in
one step, because no other thread acts on the first two without `busy`; a
waiter that is failed ends at once although its thread may still write its line,
whose answer nobody waits for. Durations are gone: a deadline may expire at any
moment, and a sleep ends at any moment. Frames are reduced to their effect (an
acknowledgement, an event, the end of the prompt, an answer, a rejection).

### OmpSession

`omp_rpc.rs` is a copy of the threads, flags and registry of `pi_rpc.rs`, so
OmpSession extends `PiSession` and groups its actions by the functions of the omp
runner; each was compared with its copy. What is its own: `OmpReserve` (a
placeholder, modelled as the stream itself, when there is nothing to resume),
`OmpHandshake` (omp names the session), `LeavePlaceholder` and `Publish` (the
registry moves, then the id is stored, stdin installed and `initialized` set),
`OmpAnnounce` (the stored id is reported), `OmpRekey` (the stored id moves too)
and `HostToolCall` (a tool served between two lines).

### Resolve, RunErrors, SdkRun, CliRun

`res` is the locals of `resolve_agent`: its candidates, the answers of the scan
under way, the number of rescans. Each probe's answer is a fresh choice. `call`
(SdkRun) and `cli` (CliRun) are the locals of the calling thread, `log` records
the attempts made, which the properties speak about. In SdkRun an attempt is one
step whose end is a choice; in CliRun it is a backend that appends chunks to
`stream.channel` while the command line drains it. A message is its class
(`RunErrors`); `StreamChunk::Session` is left out, it only prints.

### ClaudeAgent

`user` is the locals of `run_async` (modes `tools` and `plain`) or of a caller
that reads the stream of `query()`; `writer`, `demux` and `err` are the three
tasks of `SubprocessCliTransport`, `tail` the ring of the last lines of stderr;
`buf` holds the three channels and the three pipes; `cli` is the child. All tasks
run on one thread, so a step is what one of them does between two awaits. Two
consequences: `connect`, `write` and `end_input` are one step, as no other task
runs before the user first waits, and the path of `run_async` for a failed write
is not reachable. The two deadlines of the end (5 s for the exit of the child,
after which it is killed, and 2 s for the drain of stderr) may expire at any
moment.

The command line is external, and modelled as the code relies on it: it stops
while a pipe is full; with streaming input it exits only when its stdin has ended
(the comments of `query.rs`); it asks for control requests and waits for their
answers (`control.rs`); it may die at any moment. A message is a text or the last
one; that a limit phrase may also stand in the snippet of an error is left out.

The id of the session is optional in assistant frames and in the Result. `run_async`
sends it with the first frame that has it: before the texts of that frame, at the
latest with the Result, never after an error. `ReadSession` is that send: it is
enabled while such a frame is the next one to be taken, and whether the frame has an id
is chosen by taking the step or not. No other task runs between the two sends of one
frame; that the model lets them run there adds nothing, since they only add to the ends
of buffers of which `ReadSession` looks at the first item. Assistant frames without
text (calls of tools) are left out: one that carries the id behaves as
`ReadSession` before the next text does.

The model shows three facts about the code that the comments do not say. With
tools only `close` ends a run: the strong sender of the demultiplexer keeps stdin open as
long as stdout is open, and the command line keeps stdout open as long as stdin
is, so the 5 s always pass. A Result that succeeded is reported as a limit if a limit phrase is
among the last lines of stderr. A command line that dies without a Result is
reported as done.

### Channel and StreamContract

`chan[c]` is the channel between a backend's thread and the reader of call `c`:
the last chunk sent, whether the session was named (once, or again) and whether there
was text, what became of the sender, whether the receiver is still
there. It is unbounded and its send never fails for the model, as the threads
ignore the result, so nothing else of the past matters. `StreamContract` is the
abstract stream, in two strengths: by `Spec` the session is named once at most and
before any text, as the doc of `StreamChunk` says; `LateSpec` also allows `NameLate`,
the session after a text. In both nothing follows the terminal chunk.
`Channel!Contract` is its instance with `StreamOf(c)` as the
refinement mapping; a second Session would be the state "renamed", which the contract
does not have. A stream that ends without a terminal chunk has lost its
reader or its thread has panicked; the drains of `stream.rs` take both as an error.

### ClaudeHeadless

`head[c]` is the thread of `stream_headless` and `run`, `child[c]` the process
it starts. `heir` says that a process started by the child holds its pipes, so
that the readers cannot end. A cancel returns without joining the readers; a
timeout and a normal end join them, so after a timeout the call waits for the
grandchild.

### ClaudeTerminal

`term[c]` is the thread of `run_session`: list the directory, start the pane, wait for
its prompt, paste, wait until the paste is visible, submit, find the transcript,
wait for the end of the turn, stop the pane. `pane[c]` is what can be seen on the
screen. `dir`, `log` and `now` are shared by all calls: the transcripts in the
order of their last change, their messages, the clock. A transcript has the earlier
turn that a resumed session brings along; the mark of a turn's end comes with and
without a time. `find_session` excludes what was listed when the call began and
takes of the rest what has not changed for the longest time, so two fresh calls of
one directory may both report the older session; `ReportedIsOwn` speaks about one
fresh call beside resumed ones, for which it holds. Claude in its pane is external.

### PiRunner

`rust[c]` is the thread of `run_pi_stream`. `environ[k]` says whose value the
variable `k` has, `envLock` who holds `PI_ENV_MUTEX`; each variable is saved, set
and restored in a step of its own, as `EnvGuard` does. The engine (an external
crate) may end well, with a limit, with an error or in a panic, which unwinds
through the guard. `BadKeys` are the names and values that pass the check of the
code and make `set_var` panic: then the guard does not exist yet, and the
variables set so far stay. `EnvironmentIsolated` leaves this case out. A run
without variables takes no lock and sees those of the others; no doc promises
otherwise. The property follows the doc of the guard (`pi_runner.rs` 22-26); the doc
of the option `env` (155-157) still says that concurrent calls may race on a key, which is
weaker and describes the code before it had the lock.

### Codexbar

`probe[c]` is the blocking task, `bar[c]` the process and whether its helpers
hold the pipes. The helpers belong to its process group. A timeout kills the group, so
that the join of the readers ends. codexbar may also exit by itself while a helper goes on;
the readers are then joined without a deadline, and the probe ends only if the helper
does. So `ProbeEnds` promises that a probe ends or stands at the join with a
helper at the pipes (see the end of section 3). An error of any kind counts as no limit. `classify` is an operator over usage
windows, whose resets lie behind, ahead, or are not known.

### Bridge

`bridge` is the owner and the listener's thread, `worker[p]` the thread of each
connection, `tracked` and `handles` the two lists behind mutexes. Between the count of
the handles and the new handle the listener reaps and workers end, in any order.
A handler may never return. Any error of accept other than WouldBlock ends the listener.

### Dispatch

`call[c]` holds what a call asks for (`Plan`: sdk, tools, resume, variables) and
whether it is being probed, opened or refused. Each backend's action is one of its
module on the same channel, the rest unchanged; `AgentSends` says which chunk (session,
text, terminal chunk) goes with a step of `run_async`. `StreamsKeepContract` is the
refinement of `LateSpec`, and says that no backend but claude uses what
it allows more than `Spec`. The operators `Level`, `effort_from_suffix` and the others
are the conversions of `choose_backend` between efforts, suffixes and the levels a
backend knows. `ClaudeAgent` and `Bridge` have one instance, so at most one call
uses each. The calls to pi and omp go to the sessions of `PiSession` and `OmpSession`.

## 3. Runs

| Run | Question | Instance |
|---|---|---|
| `pi_control` | is `busy` a lock, is every call answered once, can `switch_session` take a key another session holds, do removal, teardown and failure classification survive every interleaving? | 2 keys, 3 kinds of call, in three starts: 1 entry, 1 cancellable stream, 2 control calls; the same with one call beside an established session; 1 entry with two streams and a closer |
| `pi_live` | do calls return and sessions close? | 1 key, 1 entry, 1 stream, 1 caller, 1 closer, no symmetry |
| `pi_one_process`, `pi_terminal_chunk`, `pi_reported_session` | three statements of the repository's comments that the code does not keep | the smallest instances that show it |
| `omp_rekey` | do the placeholder, the key and the stored id of omp sessions agree? | 2 ids, 2 entries, 2 cancellable streams, 1 call of 2 kinds, 1 closer, in three starts: a session beside an established one; one entry with all roles; two streams |
| `omp_stored_id` | is the stored id the session omp works in? (it is not) | 1 entry, 1 stream, 1 call |
| `sdk_run` | fallback, retries and polling of the SDK | 4 entries, 3 provider names, one entry that cannot run, four retry policies, four calls, every probe answer |
| `cli_run` | one run of the command line | 3 entries, 2 names, fresh and resumed, with and without a deadline, one delta per stream |
| `claude_agent` | does back pressure lose or block anything, and does a run end? | with and without tools; channels and pipes of one item, 2 frames, 2 requests, 2 lines, a tail of one line |
| `claude_stderr` | what becomes of lines of stderr that nobody takes? | `query()`, 4 lines |
| `dispatch` | does every backend keep the contract of its stream, do calls keep apart what they share, and do a cancel, a probe and a shutdown end? | 14 combinations of one or two calls: each backend alone with a reader that may leave, two terminals in one directory (one resumed), two in-process runs with overlapping variables, a probe, a bridge of 2 connections with limit 1 |

Bounds. `Entries` is how many sessions may exist in one behaviour: an entry is
never reused, so a run with two entries includes the replacement of a dead
session by a new one. `MaxCandidates` is the number of programs tried (pi, bunx,
npx). The shorter starts of `MCPiSession` and `MCOmpSession` replace calls by what
they leave behind: an idle session whose first prompt is over, or an entry that
is not used. Both are reachable, so nothing is added; a start only leaves out
interleavings with the calls that it takes as finished, which the other starts
and runs contain. Two streams and one closer already give every pair of threads that meet in
an entry; three different roles meet in `pi_control` and `pi_live`.
`MaxRescans = 1` gives a first and a last scan; `MaxDeltas = 1` a chunk that is
not the last. The log is bounded by the retry policies. In `dispatch`,
`CaptureFailureLimit = 2` (3 in the code) gives one failure that is forgiven and one that is
not; `MaxMessages` is two messages more than the earlier turn of a resumed session, so that
it may get a text and the end of the turn, and two for a new one. Two calls are
enough for what calls share: one directory and one environment. In
ClaudeAgent the capacities are one, so that every send of the code meets a full
buffer; the requests that may be open (2) are fewer than what the answers' way
can hold, as in the program (64 and a pipe of some kilobytes), where only a
command line that asks and never reads could block it.

`CHECK_DEADLOCK FALSE` is set everywhere because every system here may stop: all
calls have returned.

Fairness. `FairSpec` of PiSession gives weak fairness to each thread, and so
assumes that deadlines expire; it gives none to Pi's output or exit, none to
arrivals and none to `Cancel`. `FairSpec` of SdkRun and CliRun gives weak
fairness to the calling thread: probes end (codexbar is killed after 15 s; this leaves out a helper
that an exited codexbar has left at its pipes for good, see Codexbar in section 2), sleeps
end, and for SdkRun attempts end. In CliRun the backend is under no obligation. In ClaudeAgent every task that can
go on does (one runtime drives them), and the command line reads, writes,
finishes and exits when it can; that it says anything is not assumed.
`FairDispatch` gives weak fairness to the task of the probe, to the thread of a headless call, to
the bridge's listener and to its owner, which all poll. It gives none to handlers, to
workers of the bridge, to codexbar and its helpers, or to the child of `claude -p`
and what that has started: the properties are about these never ending.

### What the violations show

- `pi_one_process`: an entry leaves the registry (a start that failed, a close
  that has waited long enough) while its worker holds a child that is not
  installed in the slot. A new stream registers the key again and starts a
  second process for the session; the first is killed later.
- `pi_terminal_chunk`: the worker clears `busy` and sends Done, then looks whether
  the session is closing or its child has died. A prompt queued in between is
  dropped with the queue because `run_worker` returns `Ok`.
- `pi_reported_session`: `stream_prompt` looks its entry up by key and claims
  `busy` later. If a `new_session` or `switch_session` completes in between, the
  entry has moved to another key, and the prompt runs there while the stream
  reports the session it asked for. The omp runner reads the id after it has
  claimed `busy`, so `ReportedIsStored` holds there.
- `omp_stored_id`: when the `get_state` that follows a successful `new_session`
  fails, `control_once` returns without moving the entry or closing it. The
  session stays open under its old id, and later prompts run in the new one. The Pi
  runner has the same code.
- `claude_stderr`: the reader of stderr waits for room in a channel of 64 lines.
  `take_stderr_rx` promises that lines nobody drains are dropped, but the reader
  stops, the pipe fills and the command line blocks in a write. `query()` never drains, so
  its stream can stand still for good.

Two more statements of the docs are not kept, and the properties of `dispatch` name the
exception instead of a run of its own:

- The doc of `StreamChunk::Session` (`pi_runner.rs` 131-132) promises the session before any
  `Delta`. `run_async` names it with the first frame that has an id; if the assistant
  frames have none, that is the Result (`claude_agent/mod.rs` 208-213), after their texts
  have been sent. So `StreamsKeepContract` allows `NameLate` to calls of claude; with
  `Contract!Spec` in its place TLC finds Delta, then Session.
- The timeout of codexbar is documented as hard (`client.rs` 6-7 and 34), but `run_blocking`
  looks at it only while codexbar runs. If codexbar exits in time and leaves a helper that holds
  its pipes, the joins of the two readers (231-232) wait for the helper, and nothing kills it. So
  `ProbeEnds` excepts a probe at its joins with a helper at the pipes; without the
  exception TLC finds a probe that stays there.

## 4. Proofs

Every invariant that a passing run checks is stated by a theorem, as are the action
property `AnsweredOnce` and the refinement `StreamsKeepContract`.

Pi's sessions (`PiSessionProofs`, `PiCallProofs`). Proved for all sets of sessions, entries, streams, callers and closers, and all
bounds:

- `TypeCorrect`: `Spec => []TypeOK`. The type invariant is inductive as it
  stands: an action indexes `entry` by a local that may be `None`, and a change
  outside the domain of a function changes nothing.
- `RegistryCorrect`: `Spec => []RegistryInv`, proved together with `TypeOK`.
  RegistryInv strengthens the two properties below until it is inductive. Its parts:
  `RegisteredIsRunning` (a registered entry is filed under its worker's key and its
  worker is in its loop), `ChildHasWorker` (where the worker stands while its child
  runs and after it reported done), `OpenIsRegistered` (an entry whose worker may
  still start on a command and that is not closing is registered) and
  `RemoversClosed` (a stream that undoes its reservation and a closer act only on
  entries that are closing, initialized or done). The last one is needed because
  these threads remove an entry by identity without looking at it again: that
  they keep `OpenIsRegistered` follows only from what they saw before.
- `SessionsDistinct`: two open sessions have different keys, because both are
  registered under their own key.
- `DoneIsClean`: a worker that is done has no running child and is not registered.
- `OneCommandAlways`, `RefusedIsUnsent`, `WrittenIsNotReplayed`, `NoWaiterLeaks` and
  `FirstAnswerStays` (`PiCallProofs`): the properties about calls, the last one as an
  action property. They follow from `CallInv`, which says who may be where. A call in a
  channel is there once and waits for that entry (`Queued`); the worker serves a call that
  waits for it, and from the write to the answer of a prompt `prompt_acknowledged` is set
  (`Served`); while the worker is open `busy` is set exactly when one call owns it, and
  nobody knows an entry that has no worker (`Locked`); a call in the pending map is written or
  waits (`Waited`); and what is refused or reported as a process failure was not written
  (`Coherent`). None of the properties is inductive alone: that a worker which answers releases the
  flag of the right call needs that it serves the only owner, and that an answer, a
  deadline and a closer do not end a call twice needs that whoever is found in a
  channel or in a pending map still waits. The lemmas of the module are the kinds of steps
  (a worker that moves, answers or serves on; a call that claims, queues or waits), and every
  action is one of them.

omp's sessions (`OmpSessionProofs`), for the same constants:

- `OmpCorrect`: `OmpSpec => []OmpInv`. The proof of Pi is used, not repeated. `OmpSteps`
  shows that every step of omp is a step of PiSession that leaves the ids alone or stores
  what it reports, or one of five that Pi does not take: a stream that finds no
  stored id, an accepted handshake, a rekeying that fails or succeeds, and `Publish`. Only
  the five need new work for `TypeOK`, `RegistryInv` and `CallInv`, which is why the sets of
  program counters in PiSession (`StartPc`, `LivePc`) name the two states of omp's worker.
- `IdInv`, the part about the ids: nothing is stored before `Publish` (`Learned`); an entry
  that is initialized stores its worker's key (`Stored`); a stream that has
  reported an id and is not answered has the stored one of its entry (`Reported`).
  Alone it is not inductive: that no control call moves the entry under a prompt follows from
  `Locked` of CallInv, since only the owner of `busy` moves the entry.
- `OmpSessionsDistinct`, `IdsAreKeys`, `ReportsStand` and `OmpCallsCorrect` follow.

The retry loops (`ResolveProofs`, `SdkRunProofs`, `CliRunProofs`). Proved for all
configurations, retry policies and answers of probes and providers:

- `ResolveProofs` has what both loops rest on: `Resolution` (what the answers of the scan
  under way are worth, with `PickedIsBest` as a part) and `Offers` (no candidate is a
  provider the caller has left) are kept by every step of the resolver.
- `SdkRunCorrect`: `Spec => []SdkInv`, and from it `PickedIsAlwaysBest`, `NeverWayBack`,
  `OnlyRepeatableIsRepeated` and `LastErrorIsReported`. The properties speak of the log
  of attempts, and the log alone is not inductive. SdkInv adds when the call has a picked
  entry (`Progress`); that the attempts on the
  picked entry are those the call has counted, and that every other entry that was tried
  belongs to an excluded provider (`Counting`); that a change of entry in the log has put
  its provider into the excluded set (`History`); and what the last line of the log says
  about the state of the call (`LastAttempt`). A new attempt is on a candidate, a
  candidate is not excluded, and whatever was left is excluded: it never comes back.
- `CliRunCorrect`: `Spec => []CliInv`. `NeverTwoStreams` needs that a drain whose outcome
  may be followed by another backend has read the end of its own (`ThreadEnds`): the
  outcomes after which the backend may go on alone (a timeout, a cancel, a failed write) are
  not among `MovesOn`. `CancelStops` needs that a backend started after Ctrl-C is the
  last, and that its outcome is a cancel unless it is still to be looked at
  (`LateIsLast`). `ServerErrorsAreFresh` needs that a server error that is remembered while
  a provider is sought is that of the last stream (`Remembered`). `ResumeStaysOnOwner` needs
  that a resumed run resolves once, before its first stream (`Pinned`), and
  `RepeatsStayBounded` the same `Counting` as SdkRun, over two loops.

The Claude transport (`ClaudeAgentProofs`). Proved for both modes and `query()`, all sizes of
channels, pipes and tail, and all numbers of frames, requests and lines:

- `AgentCorrect`: `Spec => []AgentInv`, and from it `RequestsAreAnswered`, `NoTextIsLost`
  and `LimitsAreSeen`. Each property is about the two ends of a row of queues, so its
  invariant says what is on its way in each queue of the row. For the texts: those
  handed on and those in the channel, the reader's hand and the pipe are together what was
  written (`TextsCounted`), nothing is behind a frame that ends stdout (`EndersLast`), and the
  prompt is on its way at most once, so that no second turn follows (`OnePrompt`).
  For the requests: what is owed is what is in the pipe, at the handler, in the writer's
  channel and in stdin (`Owed`), and while the user reads, the tasks that carry it
  have not left (`Driven`). For the lines: there is a position in what was said such that the
  ring holds the end of what is before it, and channel, hand and pipe hold the
  rest in order (`LinesPlaced`); once the drain has ended, nothing is left outside the ring and
  a limit in it is the verdict (`LinesOver`). `Number` counts in a sequence; the lemmas about it stand at the beginning of the module.

The dispatch (`DispatchProofs`). Proved for all calls, scenarios, sets of variables, connections and limits, in every
interleaving of `Dispatch`:

- `EnvironmentIsAlwaysIsolated`: `DispatchSpec => []EnvironmentIsolated`. The
  property alone is not inductive: that a restored variable has its old value depends on
  what was saved. `EnvInv` says so: whoever stands in the guard
  holds the lock; while it sets, the variables still pending have the value of the
  start and the others its own; while it restores, the reverse; and what it saved is
  the value of the start. A run of no variables is never in the guard.
- `StreamsAlwaysKeepContract`: `DispatchSpec => StreamsKeepContract`: the refinement of
  `Contract!LateSpec`, and that a step which names a session late is one of a call to claude.
  Lemmas show each operation of `Channel` to be a step of `StreamContract` from a channel
  in the right state; the invariant `StreamInv` ties the program counter of every thread
  to its channel, so that every action of every backend finds that state. A thread that
  may still send has a live sender and no terminal chunk. The terminal and the in-process
  backend name the session only if they have sent nothing, `claude -p` never, and
  `run_async` only if it has not named one, whatever it has sent. A call has the thread of
  one backend at most. Both parts come from one lemma about the steps of Dispatch
  (`DispatchRefines`): each is a step of `Contract!Spec`, or the late naming of a call to
  claude.
- `WorkersAreAlwaysBounded`: `BridgeInv` says that until the listener has ended every
  worker that is not finished has a handle, and that the handles are as many as the
  limit allows, one less between accept and the start of the worker.
- `LimitsAreAhead`: `ProbeInv` says that the answer of a probe is the classification of
  its windows. The rest is about `classify`: `Min` is a CHOOSE, and that the resets that
  lie ahead have a least one follows from the well-founded order of the naturals
  (`LeastReset`), without a bound on the windows.
- `AnswersAreFresh` and `ReportsAreOwn`: `TermInv`. Times never run backwards, and every message of
  an assistant has one (`Times`); what was in the transcript of a resumed session when its call
  read it is older than the time the call compares with (`Past`), so that what passes
  `after` was not there (`NewAnswer`). For a new session, as long as no second call is looking for
  one: every transcript that the call did not exclude when it listed the directory is
  that of its own pane, whose turn has begun (`OwnTurn`); the others that are written
  to were there before. The property speaks of a cardinality, so the invariant also says that
  finitely many calls are fresh (`FewFresh`), for calls start one at a time.
- `LevelsAreKnown`: a fact about the operators of `choose_backend`.

The assumptions are those named in the modules. For the sessions: `NamesDistinct`,
`KindsKnown`, `CandidatesPositive`, and that the placeholders of omp are keys
(`PlaceholdersAreKeys`). For the retry loops: the shape of the
configuration, options and retry policies (`ConfigShape`, `OptionsShape`, `ResolveConstants`,
`RetryShape`, `OwnersKnown`, `MaxDeltasNat`) and that the mark for no result is no result
(`UnsetIsNoError`, `UnsetIsNoResult`). For ClaudeAgent: `ModesKnown`, and that capacities and bounds
are numbers, the capacities positive (`RoomForOne`, `BoundsNat`). For Dispatch:
`AmbientKeys` (the names set at the start are names), `CallsAreNoMarks` (a call is
not one of the marks for a value of the start), `BridgeBounds` (finitely many
connections, the limit is a number), `ResumedIsSession`, `ScenariosArePlans`, and for the
windows of codexbar `WindowsAreRecs`, `FallbackIsAhead` (the reset that is assumed when none is known
lies ahead) and `NoResetIsNoTime` (the mark for no reset is not a time).
TLC evaluates each of them in a run.

Only model-checked: liveness, which is out of the prover's reach (`CallersReturn`,
`CancelEndsStream`, `ClosingIsFinal`, `RunsEnd`, `CanceledPollEnds`, `CancelEndsRun`, `AgentEnds`,
`CancelStopsHeadless`, `ProbeEnds`, `BridgeDropEnds`).

## 5. Not modelled

- Parsing, formatting and file layout; the editor of plan mode, and a Ctrl-C between its
  two runs; delays and clocks, except the times of a transcript; the inside of child
  processes and of the in-process engine.
- A blank prompt, which some backends answer before they start; `keep_session`
  of the terminal, which leaves its pane running.
- A value of the environment that is not UTF-8: `EnvGuard` saves it as absent and
  removes the variable when it restores.
- The streams of pi and omp in `Dispatch`: their chunks are those of PiSession and
  OmpSession, where a stream may end without a terminal chunk (`pi_terminal_chunk`), so they
  do not implement StreamContract as it is.
- The cancel token of the terminal backend and of the in-process Pi: the code
  does not look at it.
- `ClaudeSDKClient` (several prompts over one transport), the types of the Claude
  agent SDK (data), custom tools (a record and a conversion), scripts, schema and
  skills.

## 6. Plan

Done: the session runners, resolver, retry loops, command line, the Claude
transport, the remaining backends, probe and bridge, their composition in `Dispatch`, and the
refinement of StreamContract. Left, in this order:

1. A weaker contract for the streams of PiSession and OmpSession, which allows the
   lost terminal chunk, and both shown and proved to implement it.
2. An abstract specification of the sessions (a lock with owners) that Pi and omp implement.
3. Liveness of omp's calls, with tool handlers that block.
4. `ClaudeSDKClient` as a further mode of `ClaudeAgent`.
5. Plan mode as two runs of `CliRun` with a token each.
