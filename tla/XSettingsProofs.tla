-------------------------- MODULE XSettingsProofs --------------------------
(***************************************************************************)
(* Theorems about XSettings, for every set of pids, every delay and every  *)
(* number of restart timers.                                               *)
(***************************************************************************)
EXTENDS XSettings, TLAPS

\* restart_delay is a table, so that it is a natural number is all the
\* typing proof needs.
LEMMA RestartDelayType ==
    ASSUME NEW q \in Nat
    PROVE  restart_delay(q) \in Nat
<1>1. CASE q < 5
  <2>1. q \in {0, 1, 2, 3, 4}
    BY <1>1
  <2>. QED
    BY <1>1, <2>1 DEF restart_delay
<1>2. CASE ~(q < 5)
  BY <1>2 DEF restart_delay
<1>. QED
  BY <1>1, <1>2

\* SIGTERM and the removal of a stale instance keep the process table typed
\* and never turn a process into a fresh xsettingsd.
LEMMA EndStaleTable ==
    ASSUME TypeOK, NEW table \in end_stale_instance
    PROVE  /\ table \in [Pids -> ProcStates]
           /\ \A p \in Pids : table[p] = "settings" => procs[p] = "settings"
           /\ \A p \in Pids : procs[p] = "other" => table[p] = "other"
BY PidsAssumption
   DEF TypeOK, end_stale_instance, Termed, owns_process, Live, ProcStates

\* What start() does to the process table and to the variables it touches.
LEMMA StartEffect ==
    ASSUME TypeOK, NEW s \in BOOLEAN, start(s)
    PROVE  /\ child' \in Pids \cup {NoPid}
           /\ age' \in 0..QuickExit
           /\ procs' \in [Pids -> ProcStates]
           /\ ready' \in BOOLEAN /\ stale' \in BOOLEAN
           /\ start_failed' \in BOOLEAN
           /\ state_file' \in Pids \cup {NoPid}
           /\ child' = NoPid => child = NoPid /\ start_failed'
           /\ child' = child => UNCHANGED <<age, ready, stale>>
           /\ child' # child => child = NoPid /\ age' = 0 /\ ~ready'
           /\ \A p \in Pids :
                 procs'[p] = "settings" => procs[p] = "settings" \/ p = child'
           /\ \A p \in Pids : procs[p] = "other" => procs'[p] = "other"
           /\ child # NoPid => UNCHANGED procs
<1>1. CASE /\ child # NoPid \/ s \/ ~available
           /\ start_failed' = (child = NoPid)
           /\ UNCHANGED <<child, age, procs, ready, stale, state_file>>
  BY <1>1 DEF TypeOK
<1>2. CASE child = NoPid /\ ~s /\ available /\ Spawn
  <2>1. PICK table \in end_stale_instance :
             SpawnFails(table) \/ \E p \in Pids : SpawnSucceeds(table, p)
    BY <1>2 DEF Spawn
  <2>2. /\ table \in [Pids -> ProcStates]
        /\ \A p \in Pids : table[p] = "settings" => procs[p] = "settings"
        /\ \A p \in Pids : procs[p] = "other" => table[p] = "other"
    BY EndStaleTable
  <2>3. CASE SpawnFails(table)
    BY <1>2, <2>2, <2>3 DEF TypeOK, SpawnFails
  <2>4. CASE \E p \in Pids : SpawnSucceeds(table, p)
    <3>1. PICK p \in Pids : SpawnSucceeds(table, p)
      BY <2>4
    <3>2. procs' \in [Pids -> ProcStates]
      BY <2>2, <3>1 DEF SpawnSucceeds, ProcStates
    <3>3. 0 \in 0..QuickExit
      BY DelaysAssumption
    <3>. QED
      BY <1>2, <2>2, <3>1, <3>2, <3>3, PidsAssumption
         DEF TypeOK, SpawnSucceeds
  <2>. QED
    BY <2>1, <2>3, <2>4
<1>. QED
  BY <1>1, <1>2 DEF start

-----------------------------------------------------------------------------
(* Types.                                                                  *)

\* The daemon starts with every variable in its type.
LEMMA InitType == Init => TypeOK
<1>. SUFFICES ASSUME Init
              PROVE  TypeOK
  OBVIOUS
<1>1. timers \in [TimerIds -> Nat \cup {Off}]
  BY DEF Init
<1>2. procs \in [Pids -> ProcStates]
  BY DEF Init, ProcStates
<1>3. age \in 0..QuickExit
  BY DelaysAssumption DEF Init
<1>. QED
  BY <1>1, <1>2, <1>3 DEF Init, TypeOK

\* Every callback of the daemon keeps the types.
LEMMA NextType == TypeOK /\ [Next]_vars => TypeOK'
<1>. SUFFICES ASSUME TypeOK, [Next]_vars
              PROVE  TypeOK'
  OBVIOUS
<1>. USE DelaysAssumption, PidsAssumption DEF Off
<1>1. CASE update
  <2>1. CASE child = NoPid
    <3>1. start(FALSE)
      BY <1>1, <2>1 DEF update, reload
    <3>2. /\ UNCHANGED <<timers, restart_source, reload_source, available>>
          /\ stopping' = FALSE /\ quick_exits' = 0
      BY <1>1, <2>1 DEF update, reload
    <3>. QED
      BY <3>1, <3>2, StartEffect DEF TypeOK
  <2>2. CASE child # NoPid
    <3>1. reload_delay \in Nat
      BY DEF TypeOK, reload_delay
    <3>. QED
      BY <1>1, <2>2, <3>1 DEF update, reload, TypeOK
  <2>. QED
    BY <2>1, <2>2
<1>2. CASE stop
  BY <1>2 DEF stop, TypeOK, Termed, ProcStates, TimerIds
<1>3. CASE reload_timeout
  <2>1. CASE child = NoPid /\ start(stopping)
    <3>1. stopping \in BOOLEAN
      BY DEF TypeOK
    <3>. QED
      BY <1>3, <2>1, <3>1, StartEffect DEF reload_timeout, TypeOK
  <2>2. CASE child # NoPid
    BY <1>3, <2>2 DEF reload_timeout, TypeOK, ProcStates, Live
  <2>. QED
    BY <1>3, <2>1, <2>2 DEF reload_timeout, Live
<1>4. ASSUME NEW t \in TimerIds, restart_timeout(t)
      PROVE  TypeOK'
  <2>1. start(stopping) /\ stopping \in BOOLEAN
    BY <1>4 DEF restart_timeout, TypeOK
  <2>2. timers' \in [TimerIds -> Nat \cup {Off}]
    BY <1>4 DEF restart_timeout, TypeOK
  <2>. QED
    BY <1>4, <2>1, <2>2, StartEffect DEF restart_timeout, TypeOK
<1>5. CASE on_child_exit
  <2>1. quick_exits_after \in Nat
    BY DEF TypeOK, quick_exits_after
  <2>2. restart_delay(quick_exits_after) \in Nat
    BY <2>1, RestartDelayType
  <2>3. /\ timers' \in [TimerIds -> Nat \cup {Off}]
        /\ restart_source' \in TimerIds \cup {0}
    BY <1>5, <2>2 DEF on_child_exit, TypeOK, FreeTimers
  <2>. QED
    BY <1>5, <2>1, <2>3 DEF on_child_exit, TypeOK
<1>6. CASE ChildReady
  BY <1>6 DEF ChildReady, TypeOK, daemonVars
<1>7. ASSUME NEW p \in Pids, SettingsProcessExits(p) \/ OtherProcess(p)
      PROVE  TypeOK'
  BY <1>7 DEF SettingsProcessExits, OtherProcess, TypeOK, daemonVars,
              ProcStates
<1>8. CASE AvailabilityChanges
  BY <1>8 DEF AvailabilityChanges, TypeOK, daemonVars
<1>9. CASE ShellRestarts
  <2>1. timers' \in [TimerIds -> Nat \cup {Off}]
    BY <1>9 DEF ShellRestarts
  <2>2. procs' \in [Pids -> ProcStates]
    BY <1>9 DEF ShellRestarts, Termed, TypeOK, ProcStates
  <2>3. age' \in 0..QuickExit
    BY <1>9 DEF ShellRestarts
  <2>. QED
    BY <1>9, <2>1, <2>2, <2>3 DEF ShellRestarts, TypeOK
<1>10. CASE Tick
  BY <1>10 DEF Tick, TypeOK, worldVars
<1>11. CASE UNCHANGED vars
  BY <1>11 DEF vars, daemonVars, worldVars, TypeOK
<1>. QED
  BY <1>1, <1>2, <1>3, <1>4, <1>5, <1>6, <1>7, <1>8, <1>9, <1>10, <1>11
     DEF Next

\* Every variable of the supervisor keeps its type, whatever the order of
\* timeouts, exits, settings changes and shell restarts.
THEOREM TypeCorrect == Spec => []TypeOK
BY InitType, NextType, PTL DEF Spec

-----------------------------------------------------------------------------
(* Safety.  Each part is inductive relative to the types.                  *)

\* The three callers of start(), with what they leave to start() to decide.
LEMMA StartCallers ==
    ASSUME TypeOK,
           \/ update /\ child = NoPid
           \/ reload_timeout /\ child = NoPid
           \/ \E t \in TimerIds : restart_timeout(t)
    PROVE  \E s \in BOOLEAN : start(s)
<1>. stopping \in BOOLEAN
  BY DEF TypeOK
<1>1. CASE update /\ child = NoPid
  <2>1. start(FALSE)
    BY <1>1 DEF update, reload
  <2>. QED
    BY <2>1
<1>2. CASE reload_timeout /\ child = NoPid
  <2>1. start(stopping)
    BY <1>2, PidsAssumption DEF reload_timeout, Live
  <2>. QED
    BY <2>1
<1>3. CASE \E t \in TimerIds : restart_timeout(t)
  <2>1. start(stopping)
    BY <1>3 DEF restart_timeout
  <2>. QED
    BY <2>1
<1>. QED
  BY <1>1, <1>2, <1>3

\* Every callback keeps: at most one xsettingsd of ours runs.
LEMMA OneInstanceStep ==
    TypeOK /\ OneInstance /\ [Next]_vars => OneInstance'
<1>. SUFFICES ASSUME TypeOK, OneInstance, [Next]_vars
              PROVE  OneInstance'
  OBVIOUS
<1>. USE PidsAssumption DEF OneInstance, Live
<1>1. CASE \E s \in BOOLEAN : start(s)
  <2>1. PICK s \in BOOLEAN : start(s)
    BY <1>1
  <2>2. CASE child = NoPid
    BY <2>1, <2>2, StartEffect
  <2>3. CASE child # NoPid
    BY <2>1, <2>3, StartEffect DEF TypeOK
  <2>. QED
    BY <2>2, <2>3
<1>2. CASE update /\ child # NoPid
  BY <1>2 DEF update, reload
<1>3. CASE stop
  BY <1>3 DEF stop, Termed, TypeOK
<1>4. CASE reload_timeout /\ child # NoPid
  BY <1>4 DEF reload_timeout, TypeOK
<1>5. CASE on_child_exit
  BY <1>5 DEF on_child_exit
<1>6. CASE ChildReady
  BY <1>6 DEF ChildReady, daemonVars
<1>7. ASSUME NEW p \in Pids, SettingsProcessExits(p) \/ OtherProcess(p)
      PROVE  OneInstance'
  BY <1>7 DEF SettingsProcessExits, OtherProcess, daemonVars, TypeOK
<1>8. CASE AvailabilityChanges
  BY <1>8 DEF AvailabilityChanges, daemonVars
<1>9. CASE ShellRestarts
  BY <1>9 DEF ShellRestarts, Termed, TypeOK
<1>10. CASE Tick
  BY <1>10 DEF Tick, worldVars
<1>11. CASE UNCHANGED vars
  BY <1>11 DEF vars, daemonVars, worldVars
<1>. QED
  BY <1>1, <1>2, <1>3, <1>4, <1>5, <1>6, <1>7, <1>8, <1>9, <1>10, <1>11,
     StartCallers
     DEF Next

\* Every callback keeps: a pending reload is due after the grace period.
LEMMA ReloadAfterGraceStep ==
    TypeOK /\ ReloadAfterGrace /\ [Next]_vars => ReloadAfterGrace'
<1>. SUFFICES ASSUME TypeOK, ReloadAfterGrace, [Next]_vars
              PROVE  ReloadAfterGrace'
  OBVIOUS
<1>. USE DelaysAssumption, PidsAssumption DEF ReloadAfterGrace, Off
<1>1. CASE update
  <2>1. CASE child = NoPid
    BY <1>1, <2>1 DEF update, reload
  <2>2. CASE child # NoPid
    <3>1. /\ UNCHANGED <<child, age>>
          /\ reload_source' = IF reload_source = Off THEN reload_delay
                                                     ELSE reload_source
      BY <1>1, <2>2 DEF update, reload
    <3>2. reload_delay \in Nat /\ age + reload_delay >= StartupGrace
      BY DEF reload_delay, TypeOK
    <3>. QED
      BY <2>2, <3>1, <3>2
  <2>. QED
    BY <2>1, <2>2
<1>2. CASE stop
  BY <1>2 DEF stop
<1>3. CASE reload_timeout
  BY <1>3 DEF reload_timeout
<1>4. ASSUME NEW t \in TimerIds, restart_timeout(t)
      PROVE  ReloadAfterGrace'
  <2>1. start(stopping) /\ stopping \in BOOLEAN /\ UNCHANGED reload_source
    BY <1>4 DEF restart_timeout, TypeOK
  <2>. QED
    BY <2>1, StartEffect
<1>5. CASE on_child_exit
  BY <1>5 DEF on_child_exit
<1>6. CASE ChildReady
  BY <1>6 DEF ChildReady, daemonVars
<1>7. ASSUME NEW p \in Pids, SettingsProcessExits(p) \/ OtherProcess(p)
      PROVE  ReloadAfterGrace'
  BY <1>7 DEF SettingsProcessExits, OtherProcess, daemonVars
<1>8. CASE AvailabilityChanges
  BY <1>8 DEF AvailabilityChanges, daemonVars
<1>9. CASE ShellRestarts
  BY <1>9 DEF ShellRestarts
<1>10. CASE Tick
  BY <1>10 DEF Tick, TypeOK
<1>11. CASE UNCHANGED vars
  BY <1>11 DEF vars, daemonVars
<1>. QED
  BY <1>1, <1>2, <1>3, <1>4, <1>5, <1>6, <1>7, <1>8, <1>9, <1>10, <1>11
     DEF Next

\* Every callback keeps: the remembered restart source is pending.
LEMMA NoDanglingSourceStep ==
    TypeOK /\ NoDanglingSource /\ [Next]_vars => NoDanglingSource'
<1>. SUFFICES ASSUME TypeOK, NoDanglingSource, [Next]_vars
              PROVE  NoDanglingSource'
  OBVIOUS
<1>. USE DelaysAssumption DEF NoDanglingSource, Off
<1>1. CASE UNCHANGED <<timers, restart_source>>
  BY <1>1
<1>2. CASE restart_source' = 0
  BY <1>2
<1>3. CASE on_child_exit
  <2>1. quick_exits_after \in Nat
    BY DEF TypeOK, quick_exits_after
  <2>2. restart_delay(quick_exits_after) \in Nat
    BY <2>1, RestartDelayType
  <2>. QED
    BY <1>3, <2>2 DEF on_child_exit, FreeTimers, TypeOK
<1>4. CASE Tick
  <2>1. CASE restart_source = 0
    BY <1>4, <2>1 DEF Tick
  <2>2. CASE restart_source # 0
    <3>1. restart_source \in TimerIds
      BY <2>2 DEF TypeOK
    <3>2. timers[restart_source] \in Nat \ {0}
      BY <1>4, <2>2, <3>1 DEF Tick, TypeOK
    <3>. QED
      BY <1>4, <3>1, <3>2 DEF Tick
  <2>. QED
    BY <2>1, <2>2
<1>. QED
  BY <1>1, <1>2, <1>3, <1>4
     DEF Next, update, reload, stop, reload_timeout, restart_timeout,
         ChildReady, SettingsProcessExits, OtherProcess,
         AvailabilityChanges, ShellRestarts, vars, daemonVars

\* Every callback keeps: a written change is reloaded or pending.
LEMMA NoLostReloadStep ==
    TypeOK /\ NoLostReload /\ [Next]_vars => NoLostReload'
<1>. SUFFICES ASSUME TypeOK, NoLostReload, [Next]_vars
              PROVE  NoLostReload'
  OBVIOUS
<1>. USE DelaysAssumption, PidsAssumption DEF NoLostReload, Live, Off
<1>1. CASE update
  <2>1. CASE child = NoPid
    <3>1. start(FALSE)
      BY <1>1, <2>1 DEF update, reload
    <3>. QED
      BY <2>1, <3>1, StartEffect
  <2>2. CASE child # NoPid
    <3>1. reload_delay \in Nat
      BY DEF reload_delay, TypeOK
    <3>2. reload_source' = IF reload_source = Off THEN reload_delay
                                                  ELSE reload_source
      BY <1>1, <2>2 DEF update, reload
    <3>3. reload_source' # Off
      BY <3>1, <3>2
    <3>. QED
      BY <3>3
  <2>. QED
    BY <2>1, <2>2
<1>2. CASE stop
  BY <1>2 DEF stop
<1>3. CASE reload_timeout
  <2>1. CASE child = NoPid
    <3>1. start(stopping) /\ stopping \in BOOLEAN
      BY <1>3, <2>1 DEF reload_timeout, TypeOK
    <3>. QED
      BY <2>1, <3>1, StartEffect
  <2>2. CASE child # NoPid
    BY <1>3, <2>2 DEF reload_timeout, TypeOK
  <2>. QED
    BY <2>1, <2>2
<1>4. ASSUME NEW t \in TimerIds, restart_timeout(t)
      PROVE  NoLostReload'
  <2>1. /\ start(stopping) /\ stopping \in BOOLEAN
        /\ UNCHANGED <<reload_source, stopping>>
    BY <1>4 DEF restart_timeout, TypeOK
  <2>. QED
    BY <2>1, StartEffect
<1>5. CASE on_child_exit
  BY <1>5 DEF on_child_exit
<1>6. CASE ChildReady
  BY <1>6 DEF ChildReady
<1>7. ASSUME NEW p \in Pids, SettingsProcessExits(p) \/ OtherProcess(p)
      PROVE  NoLostReload'
  BY <1>7 DEF SettingsProcessExits, OtherProcess, daemonVars, TypeOK
<1>8. CASE AvailabilityChanges
  BY <1>8 DEF AvailabilityChanges, daemonVars
<1>9. CASE ShellRestarts
  BY <1>9 DEF ShellRestarts
<1>10. CASE Tick
  BY <1>10 DEF Tick, worldVars, TypeOK
<1>11. CASE UNCHANGED vars
  BY <1>11 DEF vars, daemonVars, worldVars
<1>. QED
  BY <1>1, <1>2, <1>3, <1>4, <1>5, <1>6, <1>7, <1>8, <1>9, <1>10, <1>11
     DEF Next

\* Every callback keeps: after an exit a restart is on its way, or given up.
LEMMA RestartArmedStep ==
    TypeOK /\ RestartArmed /\ [Next]_vars => RestartArmed'
<1>. SUFFICES ASSUME TypeOK, RestartArmed, [Next]_vars
              PROVE  RestartArmed'
  OBVIOUS
<1>. USE DelaysAssumption, PidsAssumption DEF RestartArmed, Off
<1>1. CASE update
  <2>1. CASE child = NoPid
    <3>1. quick_exits' = 0
      BY <1>1, <2>1 DEF update, reload
    <3>. QED
      BY <3>1
  <2>2. CASE child # NoPid
    <3>1. UNCHANGED child
      BY <1>1, <2>2 DEF update, reload
    <3>. QED
      BY <2>2, <3>1
  <2>. QED
    BY <2>1, <2>2
<1>2. CASE stop
  BY <1>2 DEF stop
<1>3. CASE reload_timeout
  <2>1. CASE child = NoPid
    <3>1. start(stopping) /\ stopping \in BOOLEAN
      BY <1>3, <2>1 DEF reload_timeout, TypeOK, Live
    <3>. QED
      BY <2>1, <3>1, StartEffect
  <2>2. CASE child # NoPid
    BY <1>3, <2>2 DEF reload_timeout
  <2>. QED
    BY <2>1, <2>2
<1>4. ASSUME NEW t \in TimerIds, restart_timeout(t)
      PROVE  RestartArmed'
  <2>1. start(stopping) /\ stopping \in BOOLEAN
    BY <1>4 DEF restart_timeout, TypeOK
  <2>. QED
    BY <2>1, StartEffect
<1>5. CASE on_child_exit
  <2>1. quick_exits_after \in Nat
    BY DEF TypeOK, quick_exits_after
  <2>2. restart_delay(quick_exits_after) \in Nat
    BY <2>1, RestartDelayType
  <2>3. CASE stopping \/ quick_exits_after >= MaxQuickExits
    BY <1>5, <2>1, <2>3 DEF on_child_exit
  <2>4. CASE ~(stopping \/ quick_exits_after >= MaxQuickExits)
    <3>1. PICK t \in FreeTimers :
              timers' = [timers EXCEPT ![t] = restart_delay(quick_exits_after)]
      BY <1>5, <2>4 DEF on_child_exit
    <3>. QED
      BY <2>2, <3>1 DEF FreeTimers, TypeOK
  <2>. QED
    BY <2>3, <2>4
<1>6. CASE UNCHANGED daemonVars
  BY <1>6 DEF daemonVars
<1>7. CASE ShellRestarts
  BY <1>7 DEF ShellRestarts
<1>8. CASE Tick
  BY <1>8 DEF Tick, TypeOK
<1>. QED
  BY <1>1, <1>2, <1>3, <1>4, <1>5, <1>6, <1>7, <1>8
     DEF Next, ChildReady, SettingsProcessExits, OtherProcess,
         AvailabilityChanges, vars

\* The inductive invariant: the types, and the five facts above.
SafetyInv ==
    /\ TypeOK
    /\ OneInstance
    /\ ReloadAfterGrace
    /\ NoDanglingSource
    /\ NoLostReload
    /\ RestartArmed

\* The inductive invariant holds when the daemon starts.
LEMMA InitSafety == Init => SafetyInv
<1>. SUFFICES ASSUME Init
              PROVE  SafetyInv
  OBVIOUS
<1>1. TypeOK
  BY InitType
<1>. QED
  BY <1>1, PidsAssumption
     DEF Init, SafetyInv, OneInstance, ReloadAfterGrace, NoDanglingSource,
         NoLostReload, RestartArmed, Live, Off

\* Every callback keeps the inductive invariant.
LEMMA NextSafety == SafetyInv /\ [Next]_vars => SafetyInv'
BY NextType, OneInstanceStep, ReloadAfterGraceStep, NoDanglingSourceStep,
   NoLostReloadStep, RestartArmedStep
   DEF SafetyInv

\* The inductive invariant is an invariant of the daemon.
THEOREM SafetyInvariant == Spec => []SafetyInv
BY InitSafety, NextSafety, PTL DEF Spec

\* However restart timers leak and shells restart, no second xsettingsd is
\* left serving the display: one that is not the child has been told to end.
THEOREM OneInstanceAlways == Spec => []OneInstance
<1>1. SafetyInv => OneInstance
  BY DEF SafetyInv
<1>. QED
  BY <1>1, SafetyInvariant, PTL

\* A reload timeout never signals a child inside its start-up grace period.
THEOREM NoEarlyHupAlways == Spec => []NoEarlyHup
<1>1. SafetyInv => NoEarlyHup
  BY DelaysAssumption DEF SafetyInv, ReloadAfterGrace, NoEarlyHup, TypeOK, Off
<1>. QED
  BY <1>1, SafetyInvariant, PTL

\* stop() only removes timeouts that are still pending.
THEOREM NoDanglingSourceAlways == Spec => []NoDanglingSource
<1>1. SafetyInv => NoDanglingSource
  BY DEF SafetyInv
<1>. QED
  BY <1>1, SafetyInvariant, PTL

\* A settings change the child has not read has a reload on its way.
THEOREM NoLostReloadAlways == Spec => []NoLostReload
<1>1. SafetyInv => NoLostReload
  BY DEF SafetyInv
<1>. QED
  BY <1>1, SafetyInvariant, PTL

\* A child that exits before the give-up always has a restart on its way.
THEOREM RestartArmedAlways == Spec => []RestartArmed
<1>1. SafetyInv => RestartArmed
  BY DEF SafetyInv
<1>. QED
  BY <1>1, SafetyInvariant, PTL

\* No step of the daemon sends SIGTERM to a process that is not an
\* xsettingsd of its own, even when the pid file names a reused pid.
THEOREM SparesOthersAlways == Spec => SparesOthers
<1>. DEFINE Spares == \A p \in Pids : procs[p] = "other" => procs'[p] # "termed"
<1>1. TypeOK /\ [Next]_vars => [Spares]_vars
  <2>. SUFFICES ASSUME TypeOK, Next
                PROVE  Spares
    OBVIOUS
  <2>1. CASE \E s \in BOOLEAN : start(s)
    BY <2>1, StartEffect
  <2>2. CASE stop \/ ShellRestarts
    BY <2>2 DEF stop, ShellRestarts, Termed, Live, TypeOK
  <2>3. CASE reload_timeout /\ child # NoPid
    BY <2>3 DEF reload_timeout, Live, TypeOK
  <2>4. ASSUME NEW p \in Pids, SettingsProcessExits(p) \/ OtherProcess(p)
        PROVE  Spares
    BY <2>4 DEF SettingsProcessExits, OtherProcess, TypeOK
  <2>5. CASE UNCHANGED procs
    BY <2>5
  <2>. QED
    BY <2>1, <2>2, <2>3, <2>4, <2>5, StartCallers
       DEF Next, update, reload, on_child_exit, ChildReady,
           AvailabilityChanges, Tick, worldVars
<1>. QED
  BY <1>1, TypeCorrect, PTL DEF Spec, SparesOthers

=============================================================================
