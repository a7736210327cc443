-------------------------------- MODULE Idle --------------------------------
(***************************************************************************)
(* What happens while nobody uses the computer: the watches and the output *)
(* power of src/src/wayland/idle_notify.c, the decisions of                *)
(* idle_manager.vala and the D-Bus inhibitors of idle_inhibitors.vala.     *)
(*                                                                         *)
(* The compositor times the watches and tells when they become idle and    *)
(* when the user is back.  A watch that is dropped takes its events with   *)
(* it.  Events of outputs wait apart: nothing depends on their order.      *)
(* Clients of the bus add and release inhibitors, and die.  Locking and    *)
(* suspending are external.                                                *)
(***************************************************************************)
EXTENDS Naturals, Sequences, FiniteSets, SequencesExt

CONSTANTS
  Delays,      \* on battery? -> watch -> its delay; 0: the user wants none
  Probing,     \* the compositor has input-only watches (version 2)
  Clients,     \* bus names that may hold inhibitors
  Flags,       \* the sets of things an inhibitor may be about
  Outputs,     \* connectors
  MaxCookies,  \* bound: inhibitors ever made
  MaxChanges   \* bound: what users, windows, cables and D-Bus callers do

Ids == {"dim", "blank", "lock", "suspend"}
Order == <<"dim", "blank", "lock", "suspend">>   \* the order rearm() goes through
Watch == Ids \cup {"probe"}

ASSUME DelaysAssumption == Delays \in [BOOLEAN -> [Ids -> Nat]]

VARIABLES
  away, winhib,          \* compositor: nobody is there; a visible window inhibits
  notif,                 \* compositor: the state of the watch of each id
  outs, power,           \* compositor: outputs plugged in, and which are on
  evq, hotplug,          \* events that wait: of the watches, and of the outputs
  known, pobj, want_on,  \* idle.outputs, the ones with a power object, idle.want_on
  available, on_battery, fired, probe_target, probe_check, idle_since,
  dimmed, blanked, dbus_inhibited,            \* IdleManager
  inhib, watches, next_cookie, window_inhibit,   \* IdleInhibitors
  alive,                 \* the clients that are on the bus
  asked,                 \* a D-Bus caller's SetActive decided: "on", "off" or "none"
  stale,                 \* the watches were renewed while the session was idle
  changes

compositor == <<away, winhib, outs, hotplug>>
screens == <<power, known, pobj, want_on>>
manager == <<available, on_battery, fired, probe_target, probe_check, idle_since, dimmed, blanked, dbus_inhibited>>
registry == <<inhib, watches, next_cookie, window_inhibit, alive>>
vars == <<compositor, notif, evq, screens, manager, registry, asked, stale, changes>>

Inhibitor == [cookie : 1..MaxCookies, sender : Clients, flags : Flags]

TypeOK ==
  /\ away \in BOOLEAN /\ winhib \in BOOLEAN
  /\ notif \in [Watch -> {"off", "armed", "idled"}]
  /\ outs \subseteq Outputs /\ power \in [Outputs -> BOOLEAN]
  /\ known \subseteq Outputs /\ pobj \subseteq known /\ want_on \in BOOLEAN
  /\ fired \subseteq Ids /\ probe_target \in Ids \cup {"none"}
  /\ inhib \subseteq Inhibitor /\ watches \subseteq Clients /\ alive \subseteq Clients
  /\ next_cookie \in 1..(MaxCookies + 1)
  /\ asked \in {"on", "off", "none"}
  /\ changes \in 0..MaxChanges

Init ==
  /\ away = FALSE /\ winhib = FALSE
  /\ notif = [i \in Watch |-> "off"]
  /\ outs = Outputs /\ power = [o \in Outputs |-> TRUE]
  /\ evq = <<>> /\ hotplug = <<>>
  /\ known = {} /\ pobj = {} /\ want_on = TRUE
  /\ available = FALSE /\ on_battery = FALSE
  /\ fired = {} /\ probe_target = "none" /\ probe_check = FALSE /\ idle_since = FALSE
  /\ dimmed = FALSE /\ blanked = FALSE /\ dbus_inhibited = FALSE
  /\ inhib = {} /\ watches = {} /\ next_cookie = 1 /\ window_inhibit = FALSE
  /\ alive = Clients
  /\ asked = "none" /\ stale = FALSE
  /\ changes = 0

Change == changes < MaxChanges /\ changes' = changes + 1

------------------------------------------------------------------------------
(* The compositor, and who acts on it.                                      *)

Ev(kind, i) == [ev |-> kind, of |-> i]
Resume(S) == [i \in Watch |-> IF i \in S THEN "armed" ELSE notif[i]]
Events(kind, S) == SetToSeq({Ev(kind, i) : i \in S})
Idled(S) == {i \in S : notif[i] = "idled"}

Shell == <<screens, manager, registry, asked, stale>>

leave == Change /\ away' = TRUE /\ ~away /\ UNCHANGED <<winhib, outs, hotplug, notif, evq, Shell>>

activity ==
  /\ away
  /\ away' = FALSE
  /\ notif' = Resume(Idled(Watch))
  /\ evq' = evq \o Events("resumed", Idled(Watch))
  /\ UNCHANGED <<winhib, outs, hotplug, Shell, changes>>

\* A film starts or stops: the watches that heed windows are not idle then.
window_inhibits ==
  /\ Change
  /\ winhib' = ~winhib
  /\ notif' = IF winhib THEN notif ELSE Resume(Idled(Ids))
  /\ evq' = IF winhib THEN evq ELSE evq \o Events("resumed", Idled(Ids))
  /\ UNCHANGED <<away, outs, hotplug, Shell>>

DelayOf(i) == LET on == {Delays[on_battery][j] : j \in {k \in Ids : notif[k] # "off"}}
              IN  IF i = "probe" THEN CHOOSE d \in on : \A c \in on : d <= c ELSE Delays[on_battery][i]

\* A watch runs out; the shorter ones have before it.
expire(i) ==
  /\ away /\ notif[i] = "armed"
  /\ i # "probe" => ~winhib
  /\ \A j \in Watch : notif[j] = "armed" => DelayOf(j) >= DelayOf(i)
  /\ notif' = [notif EXCEPT ![i] = "idled"]
  /\ evq' = Append(evq, Ev("idled", i))
  /\ UNCHANGED <<compositor, Shell, changes>>

\* A cable: a new output is on; one that goes takes its power object with it.
plug(o) ==
  /\ Change /\ o \notin outs \cup known
  /\ \A i \in DOMAIN hotplug : hotplug[i].of # o   \* its global has a new name each time
  /\ outs' = outs \cup {o}
  /\ power' = [power EXCEPT ![o] = TRUE]
  /\ hotplug' = IF available THEN Append(hotplug, Ev("global", o)) ELSE hotplug
  /\ UNCHANGED <<away, winhib, evq, notif, known, pobj, want_on, manager, registry, asked, stale>>

unplug(o) ==
  /\ Change /\ o \in outs
  /\ outs' = outs \ {o}
  /\ hotplug' = hotplug \o (IF o \in pobj THEN <<Ev("failed", o)>> ELSE <<>>)
                        \o (IF available THEN <<Ev("gone", o)>> ELSE <<>>)
  /\ UNCHANGED <<away, winhib, notif, evq, Shell>>

------------------------------------------------------------------------------
(* idle_notify.c: output power.                                             *)

\* Every output the shell knows; a request for one that is gone does nothing.
output_apply(on) ==
  /\ pobj' = known
  /\ power' = [o \in Outputs |-> IF o \in known \cap outs THEN on ELSE power[o]]

singularity_output_power_set(on) ==
  /\ want_on' = on
  /\ output_apply(on)
  /\ UNCHANGED known

Hotplug(kind) == hotplug # <<>> /\ Head(hotplug).ev = kind /\ hotplug' = Tail(hotplug)
output == Head(hotplug).of

registry_global ==
  /\ Hotplug("global")
  /\ known' = known \cup {output}
  /\ UNCHANGED <<away, winhib, outs, evq, notif, power, pobj, want_on, manager, registry, asked, stale, changes>>

registry_global_remove ==
  /\ Hotplug("gone")
  /\ known' = known \ {output}
  /\ pobj' = pobj \ {output}
  /\ UNCHANGED <<away, winhib, outs, evq, notif, power, want_on, manager, registry, asked, stale, changes>>

power_failed ==
  /\ Hotplug("failed")
  /\ pobj' = pobj \ {output}
  /\ UNCHANGED <<away, winhib, outs, evq, notif, power, known, want_on, manager, registry, asked, stale, changes>>

------------------------------------------------------------------------------
(* IdleManager: what its methods do.  Each names the variables it sets.     *)

\* blank_screens(): brightening the screens undims them too.
blank_screens(on) ==
  /\ blanked' = on
  /\ dimmed' = (dimmed /\ on)
  /\ IF blanked = on THEN UNCHANGED screens ELSE singularity_output_power_set(~on)

\* undim() and, when the screens are off, blank_screens(false).
light == blank_screens(FALSE)
dark == UNCHANGED <<dimmed, blanked, screens>>

\* The first of the watches with the shortest delay.
Shortest(b) ==
  LET D(i) == Delays[b][Order[i]]
      on   == {i \in DOMAIN Order : D(i) > 0}
      min  == {i \in on : \A j \in on : D(i) <= D(j)}
  IN  IF on = {} THEN "none" ELSE Order[CHOOSE i \in min : \A j \in min : i <= j]

Armed(b) ==
  [i \in Watch |-> IF (IF i = "probe" THEN Probing /\ Shortest(b) # "none" ELSE Delays[b][i] > 0) THEN "armed" ELSE "off"]

keep == UNCHANGED <<notif, evq, fired, probe_target, stale>>

\* All watches are dropped, and with them the events that were under way.
singularity_idle_unwatch == evq' = <<>>

\* rearm(): new watches for all.  idle_since, the probe timer and the screens
\* stay as they are.
rearm(b) ==
  IF ~available THEN keep
  ELSE /\ notif' = Armed(b)
       /\ singularity_idle_unwatch
       /\ fired' = {}
       /\ probe_target' = Shortest(b)
       /\ stale' = (stale \/ idle_since \/ blanked' \/ dimmed')

IsIdle(fs) == "idle" \in fs

on_inhibitors_changed_silent(new) ==
  LET now == \E x \in new : IsIdle(x.flags)
  IN  /\ dbus_inhibited' = now
      /\ IF ~dbus_inhibited /\ now THEN light ELSE dark
      /\ keep

\* An application asks for light, or the last one that did lets go: then an
\* idle period that was held back starts anew.
on_inhibitors_changed(new) ==
  LET now == \E x \in new : IsIdle(x.flags)
  IN  /\ dbus_inhibited' = now
      /\ IF ~dbus_inhibited /\ now THEN light ELSE dark
      /\ IF dbus_inhibited /\ ~now /\ fired # {} THEN rearm(on_battery) ELSE keep

start ==
  /\ ~available
  /\ available' = TRUE
  /\ known' = outs
  /\ notif' = Armed(on_battery)
  /\ probe_target' = Shortest(on_battery)
  /\ UNCHANGED <<compositor, evq, power, pobj, want_on, on_battery, fired, probe_check, idle_since, dimmed, blanked,
                 dbus_inhibited, registry, asked, stale, changes>>

\* The charger is pulled or plugged in (a changed delay does the same).
on_battery_changed ==
  /\ Change
  /\ on_battery' = ~on_battery
  /\ dark
  /\ rearm(~on_battery)
  /\ UNCHANGED <<compositor, available, probe_check, idle_since, dbus_inhibited, registry, asked>>

------------------------------------------------------------------------------
(* Events of the watches.                                                   *)

Event(kind) == evq # <<>> /\ Head(evq).ev = kind /\ evq' = Tail(evq)
it == Head(evq).of

inhibits(what) == \E x \in inhib : x.flags \cap what # {}

handle_idle_probe ==
  /\ Event("idled") /\ it = "probe"
  /\ probe_check' = TRUE
  /\ idle_since' = TRUE
  /\ UNCHANGED <<compositor, notif, screens, available, on_battery, fired, probe_target, dimmed, blanked,
                 dbus_inhibited, registry, asked, stale, changes>>

handle_idle_unblocked ==
  /\ Event("idled") /\ it # "probe"
  /\ fired' = fired \cup {it}
  /\ idle_since' = TRUE /\ window_inhibit' = FALSE
  /\ IF it = "blank" THEN blank_screens(TRUE)
     ELSE dimmed' = (dimmed \/ it = "dim") /\ UNCHANGED <<blanked, screens>>
  /\ UNCHANGED <<compositor, notif, available, on_battery, probe_target, probe_check, dbus_inhibited,
                 inhib, watches, next_cookie, alive, asked, stale, changes>>

\* The watch is remembered as fired, whether an inhibitor holds it back or not.
handle_idle ==
  /\ Event("idled") /\ it # "probe"
  /\ fired' = fired \cup {it}
  /\ idle_since' = TRUE /\ window_inhibit' = FALSE
  /\ LET blocked == inhibits(IF it = "suspend" THEN {"idle", "suspend"} ELSE {"idle"})
     IN  IF ~blocked /\ it = "blank"
         THEN blank_screens(TRUE)
         ELSE dimmed' = (dimmed \/ (~blocked /\ it = "dim")) /\ UNCHANGED <<blanked, screens>>
  /\ UNCHANGED <<compositor, notif, available, on_battery, probe_target, probe_check, dbus_inhibited,
                 inhib, watches, next_cookie, alive, asked, stale, changes>>

\* One second after the probe: if the real watch did not follow, a window
\* keeps the session awake.
probe_timeout ==
  /\ probe_check
  /\ probe_check' = FALSE
  /\ window_inhibit' = (window_inhibit \/ probe_target \notin fired)
  /\ UNCHANGED <<compositor, notif, evq, screens, available, on_battery, fired, probe_target, idle_since, dimmed, blanked,
                 dbus_inhibited, inhib, watches, next_cookie, alive, asked, stale, changes>>

handle_resume_fired ==
  /\ Event("resumed")
  /\ fired' = fired \ {it}
  /\ probe_check' = (probe_check /\ it # "probe")
  /\ window_inhibit' = (window_inhibit /\ it # "probe")
  /\ idle_since' = FALSE
  /\ IF it = "blank" THEN light ELSE dark
  /\ asked' = "none" /\ stale' = FALSE
  /\ UNCHANGED <<compositor, notif, available, on_battery, probe_target, dbus_inhibited,
                 inhib, watches, next_cookie, alive, changes>>

\* The first of the watches that resumes lights the screens.
handle_resume ==
  /\ Event("resumed")
  /\ fired' = fired \ {it}
  /\ probe_check' = (probe_check /\ it # "probe")
  /\ window_inhibit' = (window_inhibit /\ it # "probe")
  /\ idle_since' = FALSE
  /\ light
  /\ asked' = "none" /\ stale' = FALSE
  /\ UNCHANGED <<compositor, notif, available, on_battery, probe_target, dbus_inhibited,
                 inhib, watches, next_cookie, alive, changes>>

------------------------------------------------------------------------------
(* The bus.                                                                 *)

\* org.freedesktop.ScreenSaver: SetActive and SimulateUserActivity.
set_active(on) ==
  /\ Change
  /\ IF blanked = on THEN dark /\ asked' = asked
     ELSE /\ asked' = IF on THEN "on" ELSE "off"
          /\ blank_screens(on)
  /\ UNCHANGED <<compositor, notif, evq, available, on_battery, fired, probe_target, probe_check, idle_since,
                 dbus_inhibited, registry, stale>>

wake ==
  /\ Change
  /\ light
  /\ rearm(on_battery)
  /\ asked' = "none"
  /\ UNCHANGED <<compositor, available, on_battery, probe_check, idle_since, dbus_inhibited, registry>>

\* A call that was sent before its client died is still served.
add(s, fs) ==
  /\ next_cookie <= MaxCookies
  /\ inhib' = inhib \cup {[cookie |-> next_cookie, sender |-> s, flags |-> fs]}
  /\ next_cookie' = next_cookie + 1
  /\ watches' = watches \cup {s}
  /\ on_inhibitors_changed(inhib')
  /\ UNCHANGED <<compositor, available, on_battery, probe_check, idle_since, window_inhibit, alive, asked, changes>>

drop_watch_always(s, left) == watches \ {s}

drop_watch_if_unused(s, left) == IF \E x \in left : x.sender = s THEN watches ELSE watches \ {s}

\* Only the client that made an inhibitor may release it.
remove(x, s) ==
  /\ x.sender = s
  /\ inhib' = inhib \ {x}
  /\ watches' = drop_watch_if_unused(s, inhib')
  /\ on_inhibitors_changed(inhib')
  /\ UNCHANGED <<compositor, available, on_battery, probe_check, idle_since, next_cookie, window_inhibit, alive, asked, changes>>

client_dies(s) ==
  /\ s \in alive /\ Change
  /\ alive' = alive \ {s}
  /\ UNCHANGED <<compositor, notif, evq, screens, manager, inhib, watches, next_cookie, window_inhibit, asked, stale>>

\* The bus says that a watched name is gone: all it held is released at once.
release_sender(s) ==
  /\ s \in watches \ alive
  /\ watches' = watches \ {s}
  /\ inhib' = {x \in inhib : x.sender # s}
  /\ on_inhibitors_changed(inhib')
  /\ UNCHANGED <<compositor, available, on_battery, probe_check, idle_since, next_cookie, window_inhibit, alive, asked, changes>>

------------------------------------------------------------------------------
Dispatch ==
  \/ registry_global \/ registry_global_remove \/ power_failed
  \/ handle_idle_probe \/ handle_idle \/ handle_resume

Next ==
  \/ start \/ on_battery_changed
  \/ leave \/ activity \/ window_inhibits
  \/ \E i \in Watch : expire(i)
  \/ \E o \in Outputs : plug(o) \/ unplug(o)
  \/ Dispatch
  \/ probe_timeout
  \/ \E on \in BOOLEAN : set_active(on)
  \/ wake
  \/ \E s \in Clients, fs \in Flags : add(s, fs)
  \/ \E x \in inhib, s \in Clients : remove(x, s)
  \/ \E s \in Clients : client_dies(s) \/ release_sender(s)

\* Events are delivered, time passes, and the bus reports who is gone.
Fairness ==
  /\ WF_vars(start) /\ WF_vars(Dispatch) /\ WF_vars(probe_timeout)
  /\ \A i \in Watch : WF_vars(expire(i))
  /\ \A s \in Clients : WF_vars(release_sender(s))

Spec == Init /\ [][Next]_vars /\ Fairness

------------------------------------------------------------------------------
(* Properties                                                               *)

Inhibited == \E x \in inhib : IsIdle(x.flags)

\* While a client inhibits idling, the screens are lit, unless a caller of
\* SetActive turned them off: also when the inhibitor comes while an idle
\* event is under way, or after the screens went dark.
InhibitedIsLit == Inhibited => ~dimmed /\ (blanked => asked = "on")

\* The bus is watched for exactly the clients that hold inhibitors, however
\* many of them each one has added and released.
HoldersWatched == watches = {x.sender : x \in inhib}

\* A user who is back, and whose watches have told so, sits in front of lit
\* screens and is not counted as idle; the exceptions are the ones asked for,
\* and what was left when the watches were renewed in an idle session.
PresentIsLit ==
  ~away /\ evq = <<>> =>
    /\ fired = {}
    /\ dimmed \/ idle_since => stale
    /\ blanked => stale \/ asked = "on"

\* While the screens are meant to be on, every output plugged in is on,
\* whatever was plugged and unplugged while they were off.
LitIsPowered == ~blanked => \A o \in outs : power[o]

\* Once nobody is there and no living client inhibits, the screens go dark for
\* good: an idle period that was held back is taken up again, and the
\* inhibitors of a client that died do not count.  Dark is what the manager
\* believes, blanked: an output plugged in meanwhile is not turned off (see
\* registry_global).  A caller whose SetActive(false) turned the screens on last
\* is excepted.
AwayGoesDark ==
  <>[](away /\ ~winhib /\ asked # "off" /\ \A x \in inhib : x.sender \in alive => ~IsIdle(x.flags)) => <>[]blanked
=============================================================================
