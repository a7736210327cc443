----------------------------- MODULE XSettings -----------------------------
(***************************************************************************)
(* core/xsettings_daemon.vala: the shell's supervisor of its xsettingsd    *)
(* child.  The child is started, reloaded with SIGHUP, restarted after an  *)
(* exit with an exponential back-off, given up after a run of quick exits, *)
(* and looked for again (through a pid file) by a restarted shell.         *)
(*                                                                         *)
(* Everything here runs in the callbacks of one GLib main loop, so every   *)
(* callback is one action; what interleaves is time, the child's own       *)
(* steps, settings changes, other processes taking over a freed pid, and   *)
(* crashes of the shell.  One tick is 500 ms, the unit of the back-off.    *)
(***************************************************************************)
EXTENDS Integers

CONSTANTS
    Pids,           \* process ids the system may hand out
    NoPid,          \* no child, or no pid file
    MaxQuickExits,  \* MAX_QUICK_EXITS (5)
    QuickExit,      \* QUICK_EXIT_USEC in ticks (20)
    StartupGrace,   \* STARTUP_GRACE_USEC in ticks (2)
    ReloadDelay,    \* RELOAD_DELAY_MS, rounded up to ticks (1)
    MaxTimers       \* bound: restart timers alive at the same time

ASSUME PidsAssumption == NoPid \notin Pids
ASSUME DelaysAssumption ==
    /\ MaxQuickExits \in Nat \ {0}
    /\ StartupGrace \in Nat \ {0}
    /\ QuickExit \in Nat
    /\ StartupGrace <= QuickExit
    /\ ReloadDelay \in Nat \ {0}
    /\ MaxTimers \in Nat \ {0}

VARIABLES
    child,          \* child: the pid of the Subprocess held, or NoPid
    age,            \* ticks since started_at, capped at QuickExit
    quick_exits,
    timers,         \* ticks left of every GLib restart timeout, or Off
    restart_source, \* the timeout the daemon remembers, or 0
    reload_source,  \* ticks left of the reload timeout, or Off
    stopping,
    available,      \* the program is in PATH and DISPLAY is set
    start_failed,   \* the last start() spawned nothing (history)
    procs,          \* what runs under every pid
    ready,          \* the child has installed its handlers, read the file
    stale,          \* the file has changed since the child last read it
    state_file      \* the pid recorded in state_path, or NoPid

daemonVars == <<child, age, quick_exits, timers, restart_source,
                reload_source, stopping, start_failed>>
worldVars  == <<available, procs, ready, stale, state_file>>
vars       == <<daemonVars, worldVars>>

Off      == -1
TimerIds == 1..MaxTimers

\* "settings" is an xsettingsd this shell (or a previous one) spawned for
\* this file and this display, "termed" one that has been sent SIGTERM,
\* "other" any other process.
ProcStates == {"free", "settings", "termed", "other"}

TypeOK ==
    /\ child \in Pids \cup {NoPid}
    /\ age \in 0..QuickExit
    /\ quick_exits \in Nat
    /\ timers \in [TimerIds -> Nat \cup {Off}]
    /\ restart_source \in TimerIds \cup {0}
    /\ reload_source \in Nat \cup {Off}
    /\ stopping \in BOOLEAN
    /\ available \in BOOLEAN
    /\ start_failed \in BOOLEAN
    /\ procs \in [Pids -> ProcStates]
    /\ ready \in BOOLEAN
    /\ stale \in BOOLEAN
    /\ state_file \in Pids \cup {NoPid}

Live == {p \in Pids : procs[p] \in {"settings", "termed"}}

Init ==
    /\ child = NoPid
    /\ age = 0
    /\ quick_exits = 0
    /\ timers = [t \in TimerIds |-> Off]
    /\ restart_source = 0
    /\ reload_source = Off
    /\ stopping = FALSE
    /\ start_failed = FALSE
    /\ available \in BOOLEAN
    /\ procs = [p \in Pids |-> "free"]
    /\ ready = FALSE
    /\ stale = TRUE
    /\ state_file = NoPid

-----------------------------------------------------------------------------
(* start(), reload() and their timers.                                     *)

\* SIGTERM to p: what it does to the process table.
Termed(p) == [procs EXCEPT ![p] = IF @ = "free" THEN @ ELSE "termed"]

\* Same user, same command line, same configuration file, same DISPLAY.
owns_process(p) == p \in Live

\* The recorded process is sent SIGTERM and waited for, but only for 500 ms:
\* it may still be there afterwards.
end_stale_instance ==
    IF state_file # NoPid /\ owns_process(state_file)
    THEN {Termed(state_file), [procs EXCEPT ![state_file] = "free"]}
    ELSE {procs}

\* start() when nothing in it returns early: the pid file is consumed, then
\* the spawn fails, or succeeds and the new pid is (or cannot be) recorded.
SpawnFails(table) ==
    /\ procs' = table
    /\ state_file' = NoPid
    /\ start_failed' = TRUE
    /\ UNCHANGED <<child, age, ready, stale>>

SpawnSucceeds(table, p) ==
    /\ table[p] = "free"
    /\ child' = p
    /\ procs' = [table EXCEPT ![p] = "settings"]
    /\ age' = 0
    /\ ready' = FALSE
    /\ stale' = TRUE
    /\ state_file' \in {p, NoPid}
    /\ start_failed' = FALSE

Spawn ==
    \E table \in end_stale_instance :
        SpawnFails(table) \/ \E p \in Pids : SpawnSucceeds(table, p)

start_without_child_check(stop) ==
    \/ /\ stop \/ ~available
       /\ start_failed' = (child = NoPid)
       /\ UNCHANGED <<child, age, procs, ready, stale, state_file>>
    \/ /\ ~stop /\ available
       /\ Spawn

start(stop) ==
    \/ /\ child # NoPid \/ stop \/ ~available
       /\ start_failed' = (child = NoPid)
       /\ UNCHANGED <<child, age, procs, ready, stale, state_file>>
    \/ /\ child = NoPid /\ ~stop /\ available
       /\ Spawn

\* A young child gets its SIGHUP only after the grace period.
reload_delay ==
    IF age < StartupGrace THEN StartupGrace - age + ReloadDelay
                          ELSE ReloadDelay

\* reload(): the way out of a stop and of a give-up.
reload ==
    /\ stopping' = FALSE
    /\ \/ /\ child = NoPid
          /\ quick_exits' = 0
          /\ start(FALSE)
          /\ UNCHANGED reload_source
       \/ /\ child # NoPid
          /\ reload_source' = IF reload_source = Off THEN reload_delay
                                                     ELSE reload_source
          /\ stale' = TRUE
          /\ UNCHANGED <<quick_exits, child, age, procs, ready, state_file,
                         start_failed>>
    /\ UNCHANGED <<timers, restart_source, available>>

\* update(): the file is rewritten (stale), then reload() runs.
update == reload

reload_timeout_without_hup ==
    /\ reload_source = 0
    /\ reload_source' = Off
    /\ start(stopping)
    /\ UNCHANGED <<quick_exits, timers, restart_source, stopping, available>>

\* The reload timeout: SIGHUP makes a ready child read the file again and
\* kills one that has not installed its handler; without a child, start().
reload_timeout ==
    /\ reload_source = 0
    /\ reload_source' = Off
    /\ \/ /\ child \in Live
          /\ stale' = IF ready THEN FALSE ELSE stale
          /\ procs' = IF ready THEN procs
                      ELSE [procs EXCEPT ![child] = "free"]
          /\ UNCHANGED <<child, age, ready, state_file, start_failed>>
       \/ /\ child \notin Live /\ child # NoPid
          /\ UNCHANGED <<child, age, procs, ready, stale, state_file,
                         start_failed>>
       \/ /\ child = NoPid
          /\ start(stopping)
    /\ UNCHANGED <<quick_exits, timers, restart_source, stopping, available>>

\* A restart timeout, remembered or not: it forgets the remembered one.
restart_timeout(t) ==
    /\ timers[t] = 0
    /\ timers' = [timers EXCEPT ![t] = Off]
    /\ restart_source' = 0
    /\ start(stopping)
    /\ UNCHANGED <<quick_exits, reload_source, stopping, available>>

\* stop(): forgets the remembered timer and ends the child.
stop ==
    /\ stopping' = TRUE
    /\ timers' = [t \in TimerIds |-> IF t = restart_source THEN Off
                                     ELSE timers[t]]
    /\ restart_source' = 0
    /\ reload_source' = Off
    /\ procs' = IF child \in Live THEN Termed(child) ELSE procs
    /\ UNCHANGED <<child, age, quick_exits, start_failed, available, ready,
                   stale, state_file>>

-----------------------------------------------------------------------------
(* on_child_exit(): the exit is noticed some time after it happened.       *)

\* 500u << int.min(quick_exits, 5), in ticks.
restart_delay(q) == <<1, 2, 4, 8, 16, 32>>[IF q < 5 THEN q + 1 ELSE 6]

FreeTimers == {t \in TimerIds : timers[t] = Off}

quick_exits_after == IF age < QuickExit THEN quick_exits + 1 ELSE 0

on_child_exit_keeping_reload ==
    /\ child # NoPid /\ child \notin Live
    /\ child' = NoPid
    /\ state_file' = NoPid
    /\ quick_exits' = IF stopping THEN quick_exits ELSE quick_exits_after
    /\ IF stopping \/ quick_exits_after >= MaxQuickExits
       THEN UNCHANGED <<timers, restart_source>>
       ELSE \E t \in FreeTimers :
               /\ timers' = [timers EXCEPT ![t] =
                                 restart_delay(quick_exits_after)]
               /\ restart_source' = t
    /\ start_failed' = FALSE
    /\ UNCHANGED <<age, reload_source, stopping, available, procs, ready,
                   stale>>

on_child_exit_early_give_up ==
    /\ child # NoPid /\ child \notin Live
    /\ child' = NoPid
    /\ reload_source' = Off
    /\ state_file' = NoPid
    /\ quick_exits' = IF stopping THEN quick_exits ELSE quick_exits_after
    /\ IF stopping \/ quick_exits_after >= MaxQuickExits - 1
       THEN UNCHANGED <<timers, restart_source>>
       ELSE \E t \in FreeTimers :
               /\ timers' = [timers EXCEPT ![t] =
                                 restart_delay(quick_exits_after)]
               /\ restart_source' = t
    /\ start_failed' = FALSE
    /\ UNCHANGED <<age, stopping, available, procs, ready, stale>>

on_child_exit ==
    /\ child # NoPid /\ child \notin Live
    /\ child' = NoPid
    /\ reload_source' = Off
    /\ state_file' = NoPid
    /\ quick_exits' = IF stopping THEN quick_exits ELSE quick_exits_after
    /\ IF stopping \/ quick_exits_after >= MaxQuickExits
       THEN UNCHANGED <<timers, restart_source>>
       ELSE \E t \in FreeTimers :
               /\ timers' = [timers EXCEPT ![t] =
                                 restart_delay(quick_exits_after)]
               /\ restart_source' = t
    /\ start_failed' = FALSE
    /\ UNCHANGED <<age, stopping, available, procs, ready, stale>>

-----------------------------------------------------------------------------
(* The world around the daemon.                                            *)

\* xsettingsd installs its handlers and reads the file, within the grace
\* period the daemon counts on (Tick waits for it).
ChildReady ==
    /\ child \in Live /\ ~ready
    /\ ready' = TRUE
    /\ stale' = FALSE
    /\ UNCHANGED <<daemonVars, available, procs, state_file>>

\* An xsettingsd ends: told to, crashed, or because Xwayland went away.
SettingsProcessExits(p) ==
    /\ p \in Live
    /\ procs' = [procs EXCEPT ![p] = "free"]
    /\ UNCHANGED <<daemonVars, available, ready, stale, state_file>>

\* Another process gets the free pid p, or ends.
OtherProcess(p) ==
    /\ \/ procs[p] = "free"  /\ procs' = [procs EXCEPT ![p] = "other"]
       \/ procs[p] = "other" /\ procs' = [procs EXCEPT ![p] = "free"]
    /\ UNCHANGED <<daemonVars, available, ready, stale, state_file>>

\* DISPLAY is set once Xwayland is up; the program can be (un)installed.
AvailabilityChanges ==
    /\ available' = ~available
    /\ UNCHANGED <<daemonVars, procs, ready, stale, state_file>>

\* The shell dies and a new one starts.  PR_SET_PDEATHSIG gives the child a
\* SIGTERM; the pid file stays.
ShellRestarts ==
    /\ child' = NoPid
    /\ age' = 0
    /\ quick_exits' = 0
    /\ timers' = [t \in TimerIds |-> Off]
    /\ restart_source' = 0
    /\ reload_source' = Off
    /\ stopping' = FALSE
    /\ start_failed' = FALSE
    /\ procs' = IF child \in Live THEN Termed(child) ELSE procs
    /\ UNCHANGED <<available, ready, stale, state_file>>

\* Time passes; the main loop runs a timeout that is due before it sleeps.
Tick ==
    /\ reload_source # 0
    /\ \A t \in TimerIds : timers[t] # 0
    /\ child \in Live /\ ~ready => age + 1 < StartupGrace
    /\ age' = IF age < QuickExit THEN age + 1 ELSE age
    /\ timers' = [t \in TimerIds |-> IF timers[t] = Off THEN Off
                                     ELSE timers[t] - 1]
    /\ reload_source' = IF reload_source = Off THEN Off
                                               ELSE reload_source - 1
    /\ UNCHANGED <<child, quick_exits, restart_source, stopping,
                   start_failed, worldVars>>

Next ==
    \/ update
    \/ stop
    \/ reload_timeout
    \/ \E t \in TimerIds : restart_timeout(t)
    \/ on_child_exit
    \/ ChildReady
    \/ \E p \in Pids : SettingsProcessExits(p) \/ OtherProcess(p)
    \/ AvailabilityChanges
    \/ ShellRestarts
    \/ Tick

Spec == Init /\ [][Next]_vars

\* The main loop dispatches its sources, time passes, a started xsettingsd
\* gets ready.  Nothing is assumed of exits, settings changes or crashes.
Fairness ==
    /\ WF_vars(reload_timeout)
    /\ \A t \in TimerIds : WF_vars(restart_timeout(t))
    /\ WF_vars(on_child_exit)
    /\ WF_vars(ChildReady)
    /\ WF_vars(Tick)

FairSpec == Spec /\ Fairness

-----------------------------------------------------------------------------
(* Properties.                                                             *)

\* At most one xsettingsd serves the display: any live one that start()
\* does not hold as its child has been told to end.  Leaked restart timers
\* and restarted shells must not add a second one.
OneInstance == \A p \in Live : procs[p] = "settings" => p = child

\* "The shell never signals other xsettingsd processes": a process that is
\* not the shell's own survives every step of the daemon, whatever pid the
\* state file still names.
SparesOthers ==
    [][\A p \in Pids : procs[p] = "other" => procs'[p] # "termed"]_vars

\* SIGHUP never reaches a child inside its start-up grace period, when it
\* would kill it: a reload timeout never outlives the child it was set for.
NoEarlyHup == reload_source = 0 /\ child \in Live => age >= StartupGrace

\* stop() never removes a timeout that has already run: the remembered
\* restart_source is always pending.
NoDanglingSource == restart_source # 0 => timers[restart_source] # Off

\* No settings change is lost: a running child that has not read the latest
\* file has a reload timeout on its way.
NoLostReload ==
    (child \in Live /\ ready /\ stale /\ ~stopping) => reload_source # Off

\* After an exit that is not the last of a run of quick exits a restart is
\* always on its way, unless a start was attempted since and failed.
RestartArmed ==
    (/\ child = NoPid /\ ~stopping /\ ~start_failed
     /\ quick_exits \in 1..(MaxQuickExits - 1))
        => \E t \in TimerIds : timers[t] # Off

\* A pending reload timeout belongs to the child that is held, and is due
\* only after that child's grace period (inductive form of NoEarlyHup).
ReloadAfterGrace ==
    reload_source # Off =>
        child # NoPid /\ age + reload_source >= StartupGrace

\* Every settings change reaches the child, unless the child goes away.
ChangeReachesChild ==
    (child # NoPid /\ stale) ~> (~stale \/ child = NoPid \/ stopping)
=============================================================================
