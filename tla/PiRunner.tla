------------------------------ MODULE PiRunner ------------------------------
(***************************************************************************)
(* The in-process Pi (sdk/pi_runner.rs): one thread per prompt.  A run     *)
(* that brings environment variables holds PI_ENV_MUTEX from before the    *)
(* engine starts until it has restored them; a run that brings none starts *)
(* its engine at once.  Variables are set and restored one at a time, and  *)
(* every engine reads the one environment of the process.                  *)
(***************************************************************************)
EXTENDS Channel, FiniteSets

CONSTANTS
  EnvKeys,  \* names of environment variables
  Ambient,  \* the names that are set when the program starts
  BadKeys   \* the names and values that set_var refuses although they pass
            \* the check: an empty name, a NUL in a value

ASSUME AmbientKeys == Ambient \subseteq EnvKeys \ BadKeys

VARIABLES
  rust,     \* the thread of each call
  environ,  \* environ[k]: whose value the variable k has
  envLock   \* the call that holds PI_ENV_MUTEX

NoCall == "nobody"
Unset == "unset"
AtStart == "at start"
ASSUME CallsAreNoMarks == Calls \cap {NoCall, Unset, AtStart} = {}

StartOf(k) == IF k \in Ambient THEN AtStart ELSE Unset

RustRec == [pc : {"off", "validate", "seed", "announce", "acquire", "engine", "ok", "limited",
                  "failed", "drop", "dropPanic", "end", "broken"},
            env : SUBSET EnvKeys, resume : BOOLEAN, valid : BOOLEAN,
            pending : SUBSET EnvKeys, saved : [EnvKeys -> Calls \cup {Unset, AtStart}]]

RustInit ==
  /\ rust = [c \in Calls |->
               [pc |-> "off", env |-> {}, resume |-> FALSE, valid |-> TRUE, pending |-> {},
                saved |-> [k \in EnvKeys |-> StartOf(k)]]]
  /\ environ = [k \in EnvKeys |-> StartOf(k)]
  /\ envLock = NoCall

RustGoes(c, from, to) ==
  /\ rust[c].pc = from
  /\ rust' = [rust EXCEPT ![c].pc = to]

environment == <<environ, envLock>>
Guarded(c) == rust[c].env # {}

-----------------------------------------------------------------------------
\* PiRunner::stream.  valid: names of tools and variables and the thinking
\* level are ones that Pi accepts.
RustStart(c, env, resume, valid) ==
  /\ rust[c].pc = "off"
  /\ rust' = [rust EXCEPT ![c].pc = "validate", ![c].env = env, ![c].resume = resume,
                          ![c].valid = valid]
  /\ OpenChannel(c)
  /\ UNCHANGED environment

\* An invalid run fails before anything is created; the mutant does not say so.
MutRustInvalid(c) ==
  /\ ~rust[c].valid /\ RustGoes(c, "validate", "end")
  /\ DropSender(c)
  /\ UNCHANGED environment
RustInvalid(c) ==
  /\ ~rust[c].valid /\ RustGoes(c, "validate", "end")
  /\ SendLast(c, "Error")
  /\ UNCHANGED environment

RustValid(c) ==
  /\ rust[c].valid
  /\ RustGoes(c, "validate", IF rust[c].resume THEN "announce" ELSE "seed")
  /\ UNCHANGED <<chan, environment>>

\* A fresh session needs its file.
SeedSessionFile(c) ==
  /\ \/ RustGoes(c, "seed", "announce") /\ UNCHANGED chan
     \/ RustGoes(c, "seed", "end") /\ SendLast(c, "Error")
  /\ UNCHANGED environment

Announce(c) ==
  /\ RustGoes(c, "announce", IF Guarded(c) THEN "acquire" ELSE "engine")
  /\ Send(c, "Session")
  /\ UNCHANGED environment

\* PiEnvGuard::acquire: waits for the lock, which a panic leaves usable, and
\* notes the values that will be restored.
Acquire(c) ==
  /\ rust[c].pc = "acquire" /\ envLock = NoCall
  /\ envLock' = c
  /\ rust' = [rust EXCEPT ![c].pending = rust[c].env, ![c].saved = environ]
  /\ UNCHANGED <<chan, environ>>

\* set_var, one by one; with the last the engine starts.
SetVar(c, k) ==
  /\ rust[c].pc = "acquire" /\ envLock = c /\ k \in rust[c].pending \ BadKeys
  /\ environ' = [environ EXCEPT ![k] = c]
  /\ rust' = [rust EXCEPT ![c].pending = @ \ {k},
                          ![c].pc = IF rust[c].pending = {k} THEN "engine" ELSE "acquire"]
  /\ UNCHANGED <<chan, envLock>>

\* set_var panics: there is no guard yet whose drop would restore the others.
SetVarPanics(c) ==
  /\ envLock = c /\ rust[c].pending \cap BadKeys # {}
  /\ RustGoes(c, "acquire", "broken") /\ PanicSender(c)
  /\ envLock' = NoCall
  /\ UNCHANGED environ

\* The engine streams text.
RustDelta(c) ==
  /\ RustGoes(c, "engine", "engine")
  /\ Send(c, "Delta")
  /\ UNCHANGED environment

\* create_agent_session or prompt fails, or the turn ends, well or with an
\* error that the returned message carries.
EngineEnds(c) ==
  /\ \E o \in {"ok", "limited", "failed"} : RustGoes(c, "engine", o)
  /\ UNCHANGED <<chan, environment>>

\* The terminal chunk is sent while the variables are still set.
RustLast(c) ==
  /\ \/ RustGoes(c, "ok", "drop") /\ Send(c, "Done")
     \/ RustGoes(c, "limited", "drop") /\ Send(c, "Limit")
     \/ RustGoes(c, "failed", "drop") /\ Send(c, "Error")
  /\ UNCHANGED environment

\* The engine panics, and unwinding drops the guard.
EnginePanics(c) ==
  /\ RustGoes(c, "engine", "dropPanic")
  /\ UNCHANGED <<chan, environment>>

Dropping(c) == rust[c].pc \in {"drop", "dropPanic"}

\* The guard's drop restores the variables it has set.  The mutant leaves the
\* ones that were not set before.
Changed(c) == {k \in rust[c].env : environ[k] # rust[c].saved[k]}
MutToRestore(c) == {k \in Changed(c) : rust[c].saved[k] # Unset}
ToRestore(c) == Changed(c)

RestoreVar(c, k) ==
  /\ Dropping(c) /\ k \in ToRestore(c)
  /\ environ' = [environ EXCEPT ![k] = rust[c].saved[k]]
  /\ UNCHANGED <<chan, rust, envLock>>

\* The guard is gone, then the sender.
RustEnd(c) ==
  /\ Dropping(c) /\ (Guarded(c) => ToRestore(c) = {})
  /\ rust' = [rust EXCEPT ![c].pc = "end"]
  /\ envLock' = IF Guarded(c) THEN NoCall ELSE envLock
  /\ IF rust[c].pc = "drop" THEN DropSender(c) ELSE PanicSender(c)
  /\ UNCHANGED environ

RustStep(c) ==
  \/ RustInvalid(c) \/ RustValid(c) \/ SeedSessionFile(c) \/ Announce(c) \/ Acquire(c)
  \/ (\E k \in EnvKeys : SetVar(c, k) \/ RestoreVar(c, k))
  \/ SetVarPanics(c) \/ RustLast(c) \/ RustEnd(c)

\* The engine is external.
RustEngine(c) == RustDelta(c) \/ EngineEnds(c) \/ EnginePanics(c)

-----------------------------------------------------------------------------
(* Properties. *)

InGuard(c) == Guarded(c) /\ rust[c].pc \in {"engine", "ok", "limited", "failed"}

\* While an engine runs with variables of its own it sees exactly these and the
\* ones of the start of the program, whatever other runs do; and when nobody
\* holds the lock, the environment is that of the start, also after a panic of
\* the engine; a panic of set_var leaves the variables set.
EnvironmentIsolated ==
  (\A c \in Calls : rust[c].pc # "broken") =>
    /\ \A c \in Calls : InGuard(c) =>
         \A k \in EnvKeys : environ[k] = IF k \in rust[c].env THEN c ELSE StartOf(k)
    /\ envLock = NoCall => \A k \in EnvKeys : environ[k] = StartOf(k)
=============================================================================
