--------------------------- MODULE LauncherProofs ---------------------------
(***************************************************************************)
(* The launcher's end, for any platform, any signals and any number of them: *)
(* it leaves no binary running that a relayed signal could have reached, and *)
(* it reports the binary's own end.                                          *)
(***************************************************************************)
EXTENDS Launcher, SequenceTheorems, TLAPS

\* The ways the binary may end.
Ends == {Code(n) : n \in ChildCodes} \cup {Death(s) : s \in Signals}

\* There is no binary before the spawn; one that is dead ended in one of its ways; only a
\* signal with a name is raised again, with no listener left; and while a binary may live, or has been left alive,
\* the listeners are those of every signal that is relayed; they are in place before the spawn.
Lifetime ==
  /\ at \in {"boot", "lookup", "spawn", "unspawned"} => child = "none"
  /\ child = "dead" => result \in Ends
  /\ at = "raising" =>
       child = "dead" /\ result.by = "signal" /\ result.s \notin Unnamed /\ listening = {}
  /\ child = "alive" \/ at \in {"lookup", "spawn"} => listening = Early

LauncherInv == LauncherTypeOK /\ Lifetime /\ NoOrphan /\ NothingInvented

\* What an end is made of.
LEMMA EndsApart ==
  ASSUME NEW e \in Ends
  PROVE  /\ e # Nothing
         /\ e.by \in {"code", "signal"}
         /\ e.by = "code" => \E n \in ChildCodes : e = Code(n)
         /\ e.by = "signal" => e.s \in Signals /\ e = Death(e.s)
<1>1. CASE \E n \in ChildCodes : e = Code(n)
  BY <1>1 DEF Code, Nothing
<1>2. CASE \E s \in Signals : e = Death(s)
  BY <1>2 DEF Death, Nothing
<1> QED
  BY <1>1, <1>2 DEF Ends

\* The launcher's own ends are not Nothing.
LEMMA ExitsAreEnds == \A n, s : Code(n) # Nothing /\ Death(s) # Nothing
BY DEF Code, Death, Nothing

\* A plain termination is a signal like another, and relayed signals are signals.
LEMMA RelayedAreSignals ==
  ASSUME platform \in Platforms, NEW s \in Forwarded
  PROVE  Relayed(s) \subseteq Signals
BY LauncherAssumption DEF Relayed, Platform

\* Before anything happened the invariant holds.
LEMMA AtBoot == Init => LauncherInv
<1> SUFFICES ASSUME Init PROVE LauncherInv
  OBVIOUS
<1>1. LauncherTypeOK
  <2>1. queued \in Seq(Forwarded)
    BY DEF Init
  <2>2. sent \in 0..MaxSignals
    BY LauncherAssumption DEF Init
  <2> QED
    BY <2>1, <2>2 DEF Init, LauncherTypeOK
<1>2. Lifetime /\ NoOrphan /\ NothingInvented
  BY DEF Init, Lifetime, NoOrphan, NothingInvented
<1> QED
  BY <1>1, <1>2 DEF LauncherInv

----------------------------------------------------------------------------
(* Signals from outside.                                                    *)

\* Reached by a signal, the launcher keeps its part of the invariant: it queues what it
\* listens for, and what kills it is nothing it would have relayed.
LEMMA ReceiveKeeps ==
  ASSUME LauncherInv, NEW s \in Signals, Receive(s), at # "gone",
         UNCHANGED <<platform, child, result>>
  PROVE  /\ at' \in {at, "gone"} /\ listening' = listening
         /\ queued' \in Seq(Forwarded)
         /\ struck' \in BOOLEAN /\ (outcome' # Nothing) = (at' = "gone")
         /\ at' = at => struck' = struck /\ outcome' = outcome
         /\ at' = "gone" => struck' /\ outcome'.s \notin listening
<1>1. at = "gone" <=> outcome # Nothing
  BY DEF LauncherInv, LauncherTypeOK
<1>2. CASE /\ s \in listening /\ queued' = Append(queued, s)
           /\ UNCHANGED <<at, listening, outcome, struck>>
  BY <1>1, <1>2, AppendProperties DEF LauncherInv, LauncherTypeOK
<1>3. CASE UNCHANGED launcherVars
  BY <1>1, <1>3 DEF LauncherInv, LauncherTypeOK, launcherVars
<1>4. CASE /\ s \notin listening \cup NodeIgnores /\ ExitWith(Death(s)) /\ struck' = TRUE
           /\ UNCHANGED <<listening, queued>>
  BY <1>4, ExitsAreEnds DEF LauncherInv, LauncherTypeOK, ExitWith, Death
<1> QED
  BY <1>2, <1>3, <1>4 DEF Receive

\* A signal from outside keeps the invariant, whoever it reaches.
LEMMA OutsideKeeps == LauncherInv /\ Outside => LauncherInv'
<1> SUFFICES ASSUME LauncherInv, Outside PROVE LauncherInv'
  OBVIOUS
<1>1. PICK s \in Signals : SignalLauncher(s) \/ SignalGroup(s) \/ SignalChild(s)
  BY DEF Outside
<1>2. sent' \in 0..MaxSignals /\ platform' = platform
  BY LauncherAssumption DEF Outside, LauncherInv, LauncherTypeOK
<1>3. child' = child /\ result' = result
  BY <1>1 DEF SignalLauncher, SignalGroup, SignalChild, childVars
<1>4. doom' \subseteq Signals /\ (doom' # {} => child' # "none")
  BY <1>1, <1>3 DEF SignalLauncher, SignalGroup, SignalChild, Strike, childVars, LauncherInv,
     LauncherTypeOK
<1>5. CASE at # "gone" /\ Receive(s)
  <2>1. /\ at' \in {at, "gone"} /\ listening' = listening
        /\ queued' \in Seq(Forwarded)
        /\ struck' \in BOOLEAN /\ (outcome' # Nothing) = (at' = "gone")
        /\ at' = at => struck' = struck /\ outcome' = outcome
        /\ at' = "gone" => struck' /\ outcome'.s \notin listening
    BY <1>2, <1>3, <1>5, ReceiveKeeps
  <2>2. LauncherTypeOK'
    BY <1>2, <1>3, <1>4, <2>1 DEF LauncherInv, LauncherTypeOK
  <2>3. Lifetime'
    BY <1>2, <1>3, <2>1 DEF LauncherInv, Lifetime, Early
  <2>4. NoOrphan' /\ NothingInvented'
    BY <1>2, <1>3, <1>5, <2>1 DEF LauncherInv, Lifetime, Early, NoOrphan, NothingInvented
  <2> QED
    BY <2>2, <2>3, <2>4 DEF LauncherInv
<1>6. CASE UNCHANGED launcherVars
  <2>1. LauncherTypeOK'
    BY <1>2, <1>3, <1>4, <1>6 DEF LauncherInv, LauncherTypeOK, launcherVars
  <2>2. Lifetime' /\ NoOrphan' /\ NothingInvented'
    BY <1>2, <1>3, <1>6 DEF LauncherInv, Lifetime, Early, NoOrphan, NothingInvented, launcherVars
  <2> QED
    BY <2>1, <2>2 DEF LauncherInv
<1> QED
  BY <1>1, <1>5, <1>6 DEF SignalLauncher, SignalGroup, SignalChild

----------------------------------------------------------------------------
(* The binary.                                                              *)

\* The binary ends in one of its ways; whatever the launcher has said by then stands.
LEMMA ChildKeeps == LauncherInv /\ (ChildExits \/ ChildDies) => LauncherInv'
<1> SUFFICES ASSUME LauncherInv, ChildExits \/ ChildDies PROVE LauncherInv'
  OBVIOUS
<1>1. /\ child = "alive" /\ child' = "dead" /\ result' \in Ends
      /\ UNCHANGED <<platform, launcherVars, doom, sent>>
  BY DEF ChildExits, ChildDies, Ends, LauncherInv, LauncherTypeOK
<1>2. result' # Nothing
  BY <1>1, EndsApart
<1>3. LauncherTypeOK'
  BY <1>1, <1>2 DEF LauncherInv, LauncherTypeOK, launcherVars
<1>4. Lifetime' /\ NoOrphan' /\ NothingInvented'
  BY <1>1 DEF LauncherInv, Lifetime, NoOrphan, NothingInvented, launcherVars
<1> QED
  BY <1>3, <1>4 DEF LauncherInv

----------------------------------------------------------------------------
(* The launcher's own steps.                                                *)

\* Each step of the script keeps the invariant; those that leave do so with the binary's
\* end, with 1 where there was no binary, or never while it lives.
LEMMA LaunchKeeps == LauncherInv /\ Launch => LauncherInv'
<1> SUFFICES ASSUME LauncherInv, Launch PROVE LauncherInv'
  OBVIOUS
<1> USE ExitsAreEnds DEF LauncherInv, LauncherTypeOK, Lifetime, NoOrphan, NothingInvented, ExitWith,
        childVars
<1>1. CASE InstallListeners
  BY <1>1 DEF InstallListeners, Early
<1>2. CASE LookUp
  BY <1>2 DEF LookUp, Early
<1>3. CASE Spawn
  <2>1. LauncherTypeOK'
    BY <1>3 DEF Spawn, Early
  <2>2. Lifetime'
    BY <1>3 DEF Spawn, Early
  <2>3. NoOrphan' /\ NothingInvented'
    BY <1>3 DEF Spawn, Early
  <2> QED
    BY <2>1, <2>2, <2>3
<1>4. CASE SpawnFailed
  BY <1>4 DEF SpawnFailed, ErrorEvent, IsFatalError
<1>5. CASE TurnLoop
  <2>1. LauncherTypeOK'
    BY <1>5 DEF TurnLoop
  <2>2. Lifetime' /\ NoOrphan' /\ NothingInvented'
    BY <1>5 DEF TurnLoop, Early
  <2> QED
    BY <2>1, <2>2
<1>6. CASE Forward
  <2>1. Head(queued) \in Forwarded /\ queued' \in Seq(Forwarded)
    BY <1>6, HeadTailProperties DEF Forward
  <2>2. Relayed(Head(queued)) \subseteq Signals
    BY <2>1, RelayedAreSignals
  <2>3. UNCHANGED <<at, outcome>>
    BY <1>6 DEF Forward, ErrorEvent, IsFatalError
  <2>4. doom' \subseteq Signals /\ (doom' # {} => child' # "none")
    BY <1>6, <2>2 DEF Forward
  <2>5. UNCHANGED <<platform, at, listening, child, result, outcome, struck, sent>>
    BY <1>6, <2>3 DEF Forward
  <2>6. LauncherTypeOK'
    BY <2>1, <2>4, <2>5
  <2>7. Lifetime' /\ NoOrphan' /\ NothingInvented'
    BY <2>5 DEF Early
  <2> QED
    BY <2>6, <2>7
<1>7. CASE ExitEvent
  <2>1. result # Nothing
    BY <1>7 DEF ExitEvent
  <2>2. listening = Early
    BY <1>7 DEF ExitEvent, Early
  <2>3. ListenersLeft = {}
    BY <2>2 DEF ListenersLeft
  <2> QED
    BY <1>7, <2>1, <2>3 DEF ExitEvent
<1>8. CASE Reraise
  <2>1. result = Death(result.s)
    BY <1>8, EndsApart DEF Reraise
  <2> QED
    BY <1>8, <2>1 DEF Reraise, KilledBy
<1> QED
  BY <1>1, <1>2, <1>3, <1>4, <1>5, <1>6, <1>7, <1>8 DEF Launch

\* Every step keeps the invariant.
LEMMA StepKeeps == LauncherInv /\ [Next]_vars => LauncherInv'
<1> SUFFICES ASSUME LauncherInv, [Next]_vars PROVE LauncherInv'
  OBVIOUS
<1>1. CASE Next
  BY <1>1, OutsideKeeps, ChildKeeps, LaunchKeeps DEF Next
<1>2. CASE UNCHANGED vars
  BY <1>2 DEF vars, launcherVars, childVars, LauncherInv, LauncherTypeOK, Lifetime, Early,
     NoOrphan, NothingInvented
<1> QED
  BY <1>1, <1>2

\* Type correctness of the launcher, its listeners included.
THEOREM LauncherTypes == Spec => []LauncherTypeOK
<1>1. LauncherInv => LauncherTypeOK
  BY DEF LauncherInv
<1> QED
  BY <1>1, AtBoot, StepKeeps, PTL DEF Spec

\* The launcher never leaves the binary running, unless a signal it does not relay killed
\* the launcher itself.  (the listeners before the spawn, forward, the error handler)
THEOREM NoBinaryLeftBehind == Spec => []NoOrphan
<1>1. LauncherInv => NoOrphan
  BY DEF LauncherInv
<1> QED
  BY <1>1, AtBoot, StepKeeps, PTL DEF Spec

\* The launcher's end is the binary's, or says that there was none.
\* (failedToRun, the exit handler)
THEOREM TheEndIsTheBinarys == Spec => []NothingInvented
<1>1. LauncherInv => NothingInvented
  BY DEF LauncherInv
<1> QED
  BY <1>1, AtBoot, StepKeeps, PTL DEF Spec
=============================================================================
