------------------------------ MODULE Launcher ------------------------------
(***************************************************************************)
(* npm/tokfold/bin/tokfold: the Node process that starts the prebuilt       *)
(* binary, relays signals to it and reproduces its end.  Signals reach the  *)
(* launcher alone, the binary alone, or both; a listener runs on the event  *)
(* loop, never inside the synchronous code before and in spawn.             *)
(***************************************************************************)
EXTENDS Naturals, Sequences, SequencesExt

CONSTANTS
  Signals,      \* the signals there are
  Forwarded,    \* FORWARDED
  NodeIgnores,  \* signals Node ignores process-wide (SIGPIPE, SIGXFSZ)
  NodeCatches,  \* signals Node itself has a handler for at boot (SIGUSR1)
  Unnamed,      \* signals Node has no name for: reported as exit(0, null)
  Number,       \* os.constants.signals, by name; a named signal may be missing
  Terminate,    \* what child.kill() sends
  Platforms,    \* what process.on accepts and what child.kill delivers
  ChildCodes,   \* exit codes of the binary
  MaxSignals    \* bound: signals from outside

\* On some the kernel may refuse to signal the child (EPERM).
Platform == [listenable : SUBSET Signals, deliverable : SUBSET Signals, refuses : BOOLEAN]

ASSUME LauncherAssumption ==
  /\ Forwarded \subseteq Signals \ (NodeIgnores \cup Unnamed)
  /\ NodeIgnores \cup NodeCatches \cup Unnamed \subseteq Signals
  /\ DOMAIN Number \subseteq Signals \ Unnamed
  /\ Number \in [DOMAIN Number -> Nat \ {0}]
  /\ Platforms \subseteq Platform
  /\ \A f \in Platforms : Terminate \in f.deliverable
  /\ ChildCodes \subseteq Nat
  /\ MaxSignals \in Nat

VARIABLES
  platform,
  at,         \* "boot", "lookup", "spawn", "unspawned", "spawned", "running", "raising", "gone"
  listening,  \* signals with a listener
  queued,     \* signals delivered to a listener and not yet dispatched
  child,      \* "none", "alive" or "dead"
  doom,       \* signals delivered to the child, which has no handlers
  result,     \* how the child ended
  outcome,    \* how the launcher ended
  struck,     \* history: a signal from outside killed the launcher
  sent        \* signals from outside so far

launcherVars == <<at, listening, queued, outcome, struck>>
childVars == <<child, doom, result>>
vars == <<platform, launcherVars, childVars, sent>>

Nothing == [by |-> "nothing", n |-> 0, s |-> Terminate]
Code(n)   == [by |-> "code",   n |-> n, s |-> Terminate]
Death(s)  == [by |-> "signal", n |-> 0, s |-> s]

Init ==
  /\ platform \in Platforms
  /\ at = "boot" /\ listening = {} /\ queued = <<>>
  /\ child = "none" /\ doom = {} /\ result = Nothing
  /\ outcome = Nothing /\ struck = FALSE /\ sent = 0

ExitWith(end) == at' = "gone" /\ outcome' = end

----------------------------------------------------------------------------
(* Signals.                                                                 *)

\* What a signal does to the launcher: it waits for the event loop, is ignored (Node's
\* own handler does not end the process either), or has its default effect.
Receive(s) ==
  \/ /\ at # "gone" /\ s \in listening
     /\ queued' = Append(queued, s)
     /\ UNCHANGED <<at, listening, outcome, struck>>
  \/ /\ s \in NodeIgnores \/ (s \in NodeCatches /\ at = "boot") \/ at = "gone"
     /\ UNCHANGED launcherVars
  \/ /\ at # "gone" /\ s \notin listening \cup NodeIgnores
     /\ ExitWith(Death(s)) /\ struck' = TRUE
     /\ UNCHANGED <<listening, queued>>

Strike(s) == doom' = IF child = "alive" THEN doom \cup {s} ELSE doom

\* kill, timeout, a cancelled job: to the launcher alone.
SignalLauncher(s) ==
  /\ at # "gone" /\ Receive(s)
  /\ UNCHANGED childVars

\* A terminal's interrupt: to the whole process group.
SignalGroup(s) ==
  /\ at # "gone" /\ Receive(s)
  /\ Strike(s)
  /\ UNCHANGED <<child, result>>

SignalChild(s) ==
  /\ child = "alive" /\ Strike(s)
  /\ UNCHANGED <<launcherVars, child, result>>

Outside ==
  /\ sent < MaxSignals
  /\ sent' = sent + 1
  /\ \E s \in Signals : SignalLauncher(s) \/ SignalGroup(s) \/ SignalChild(s)
  /\ UNCHANGED platform

----------------------------------------------------------------------------
(* The binary.                                                              *)

ChildExits ==
  /\ child = "alive"
  /\ child' = "dead"
  /\ \E n \in ChildCodes : result' = Code(n)
  /\ UNCHANGED <<platform, launcherVars, doom, sent>>

ChildDies ==
  /\ child = "alive"
  /\ child' = "dead"
  /\ \E s \in doom : result' = Death(s)
  /\ UNCHANGED <<platform, launcherVars, doom, sent>>

----------------------------------------------------------------------------
(* The launcher, top to bottom.                                             *)

\* The listeners in place before the binary is looked up.
Early == Forwarded \cap platform.listenable

InstallListeners ==
  /\ at = "boot"
  /\ at' = "lookup"
  /\ listening' = Early
  /\ UNCHANGED <<platform, childVars, queued, outcome, struck, sent>>

\* resolveBinaryPath: no build for the platform, musl, or the package is not installed.
LookUp ==
  /\ at = "lookup"
  /\ \/ at' = "spawn" /\ UNCHANGED outcome
     \/ ExitWith(Code(1))
  /\ UNCHANGED <<platform, childVars, listening, queued, struck, sent>>

\* spawn starts the child, throws (ENOEXEC), or will report on the error event, which
\* comes before the loop turns (ENOENT, EACCES).
Spawn ==
  /\ at = "spawn"
  /\ \/ at' = "spawned" /\ child' = "alive" /\ UNCHANGED outcome
     \/ ExitWith(Code(1)) /\ UNCHANGED child
     \/ at' = "unspawned" /\ UNCHANGED <<child, outcome>>
  /\ UNCHANGED <<platform, doom, result, listening, queued, struck, sent>>

\* The call returns, the rest of the file runs, the event loop turns.
TurnLoop ==
  /\ at = "spawned"
  /\ at' = "running"
  /\ UNCHANGED <<platform, childVars, listening, queued, outcome, struck, sent>>

\* Mutant: every error event means that the binary did not start.
EveryErrorIsFatal == TRUE

\* No pid: the child was never started.
IsFatalError == child = "none"

ErrorEvent == IF IsFatalError THEN ExitWith(Code(1)) ELSE UNCHANGED <<at, outcome>>

SpawnFailed ==
  /\ at = "unspawned"
  /\ ErrorEvent
  /\ UNCHANGED <<platform, childVars, listening, queued, struck, sent>>

\* Mutant: a signal the platform cannot deliver is dropped.
DeliveredOrDropped(s) == {s} \cap platform.deliverable

\* What forward has the child sent: the signal, or a plain termination in its place.
Relayed(s) == IF s \in platform.deliverable THEN {s} ELSE {Terminate}

\* forward: a child that is already dead is not signalled; a refusal is an error event.
Forward ==
  /\ at = "running" /\ queued # <<>>
  /\ queued' = Tail(queued)
  /\ \/ /\ doom' = IF child = "alive" THEN doom \cup Relayed(Head(queued)) ELSE doom
        /\ UNCHANGED <<at, outcome>>
     \/ platform.refuses /\ child = "alive" /\ ErrorEvent /\ UNCHANGED doom
  /\ UNCHANGED <<platform, listening, child, result, struck, sent>>

\* Mutant: the listeners stay where they are.
ListenersKept == listening

\* removeAllListeners, for each that was installed.
ListenersLeft == listening \ Early

\* The exit event: a code is handed back; a signal with a name is raised again, once the
\* listeners are gone; one without a name looks like success.
ExitEvent ==
  /\ at = "running" /\ child = "dead"
  /\ \/ /\ result.by = "code"
        /\ ExitWith(result)
        /\ UNCHANGED listening
     \/ /\ result.by = "signal" /\ result.s \in Unnamed
        /\ ExitWith(Code(0))
        /\ UNCHANGED listening
     \/ /\ result.by = "signal" /\ result.s \notin Unnamed
        /\ at' = "raising"
        /\ listening' = ListenersLeft
        /\ UNCHANGED outcome
  /\ UNCHANGED <<platform, childVars, queued, struck, sent>>

\* The shell's encoding; 1, as if nothing had run, for a name without a number.
KilledBy(s) == IF s \in DOMAIN Number THEN 128 + Number[s] ELSE 1

\* process.kill(process.pid, signal) comes back for a signal that has a listener still,
\* which would run later, or that Node ignores.
Reraise ==
  /\ at = "raising"
  /\ IF result.s \in listening \cup NodeIgnores THEN ExitWith(Code(KilledBy(result.s)))
     ELSE ExitWith(Death(result.s))
  /\ UNCHANGED <<platform, childVars, listening, queued, struck, sent>>

Launch ==
  \/ InstallListeners \/ LookUp \/ Spawn \/ SpawnFailed \/ TurnLoop
  \/ Forward \/ ExitEvent \/ Reraise

Next == Outside \/ ChildExits \/ ChildDies \/ Launch

\* Node runs; a signal's default effect takes place.  The binary may run for ever.
Spec == Init /\ [][Next]_vars /\ WF_vars(Launch) /\ WF_vars(ChildDies)

----------------------------------------------------------------------------
(* Properties.                                                              *)

\* Type invariant; every relayed signal has its listener as long as the child may live.
LauncherTypeOK ==
  /\ platform \in Platforms
  /\ at \in {"boot", "lookup", "spawn", "unspawned", "spawned", "running", "raising", "gone"}
  /\ listening \subseteq Forwarded \cap platform.listenable
  /\ at \in {"spawned", "running"} =>
       child # "none" /\ listening = Forwarded \cap platform.listenable
  /\ queued \in Seq(Forwarded)
  /\ child \in {"none", "alive", "dead"}
  /\ doom \subseteq Signals /\ (doom # {} => child # "none")
  /\ (result # Nothing) = (child = "dead")
  /\ (outcome # Nothing) = (at = "gone")
  /\ struck \in BOOLEAN /\ sent \in 0..MaxSignals

\* "The binary does not outlive the launcher": the launcher's own exits never leave it
\* running, nor does a signal it relays, at whatever moment of the lookup, the spawn or
\* the child's life it arrives; only a death by another signal can.
\* (the listeners before the spawn, forward, the error handler)
NoOrphan ==
  at = "gone" /\ child = "alive" => struck /\ outcome.s \notin Forwarded \cap platform.listenable

\* "Never invent, remap or swallow" an exit code: whoever reads the launcher's end learns
\* the binary's, whatever signals came in between: a death by the very signal, which takes
\* listeners out of the way, and its number only where Node ignores it. 1 says that the
\* binary never ran, but for an ignored signal without a number; a signal Node cannot name
\* passes for success, as the header admits.
\* (failedToRun, the exit handler)
NothingInvented ==
  at = "gone" /\ ~struck =>
    \/ child = "none" /\ outcome = Code(1)
    \/ child = "dead" /\ outcome = result
    \/ /\ child = "dead" /\ result.by = "signal"
       /\ result.s \in NodeIgnores \cap DOMAIN Number
       /\ outcome = Code(128 + Number[result.s])
    \/ /\ child = "dead" /\ result.by = "signal"
       /\ result.s \in NodeIgnores \ DOMAIN Number
       /\ outcome = Code(1)
    \/ /\ child = "dead" /\ result.by = "signal" /\ result.s \in Unnamed
       /\ outcome = Code(0)

\* A request to stop is never lost: once a relayed signal has reached the launcher, in
\* the lookup or during the spawn too, the launcher ends and no binary is left, unless
\* another signal killed the launcher first or the kernel refused.
\* (forward, and the fallback for what the platform cannot deliver)
StopsWhenAsked ==
  queued # <<>> /\ ~platform.refuses ~> at = "gone" /\ (child # "alive" \/ struck)
=============================================================================
