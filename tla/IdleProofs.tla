----------------------------- MODULE IdleProofs -----------------------------
(***************************************************************************)
(* Proofs about Idle, for any delays, clients and outputs: who holds       *)
(* inhibitors is watched, inhibited screens are lit, screens that are      *)
(* meant to be on have power, and a user who is back sees lit screens.     *)
(***************************************************************************)
EXTENDS Idle, FiniteSetTheorems, TLAPS

------------------------------------------------------------------------------
(* The bus: inhibitors, their holders, and what they keep lit.              *)

BusInv ==
  /\ dimmed \in BOOLEAN /\ blanked \in BOOLEAN /\ dbus_inhibited \in BOOLEAN
  /\ HoldersWatched
  /\ dbus_inhibited <=> Inhibited
  /\ InhibitedIsLit

\* Turning the screens on leaves them neither dimmed nor blanked.
LEMMA LightIsLit == light => blanked' = FALSE /\ dimmed' = FALSE
  BY DEF light, blank_screens

\* Whatever blank_screens() does keeps the two flags Boolean, and turning the
\* screens off dims nothing.
LEMMA BlankIsDark ==
  ASSUME NEW on \in BOOLEAN, dimmed \in BOOLEAN, blank_screens(on)
  PROVE  blanked' = on /\ dimmed' \in BOOLEAN /\ (dimmed' => dimmed)
  BY DEF blank_screens

\* on_inhibitors_changed() keeps dbus_inhibited true to the list, and lights
\* the screens for the first inhibitor.
LEMMA ChangedKeeps ==
  ASSUME BusInv, on_inhibitors_changed(inhib'), UNCHANGED asked,
         watches' = {x.sender : x \in inhib'}
  PROVE  BusInv'
  <1> DEFINE now == \E x \in inhib' : IsIdle(x.flags)
  <1>1. dbus_inhibited' = now /\ (now <=> Inhibited')
    BY DEF on_inhibitors_changed, Inhibited
  <1>2. CASE ~dbus_inhibited /\ now
    <2>1. blanked' = FALSE /\ dimmed' = FALSE
      BY <1>2, LightIsLit DEF on_inhibitors_changed
    <2> QED BY <1>1, <2>1 DEF BusInv, HoldersWatched, InhibitedIsLit
  <1>3. CASE ~(~dbus_inhibited /\ now)
    <2>1. UNCHANGED <<dimmed, blanked>>
      BY <1>3 DEF on_inhibitors_changed, dark
    <2> QED BY <1>1, <1>3, <2>1 DEF BusInv, HoldersWatched, InhibitedIsLit
  <1> QED BY <1>2, <1>3

\* A step that leaves the bus, the flags and asked alone keeps BusInv.
LEMMA BusUntouched ==
  ASSUME BusInv, UNCHANGED <<inhib, watches, dbus_inhibited, dimmed, blanked, asked>>
  PROVE  BusInv'
  BY DEF BusInv, HoldersWatched, Inhibited, InhibitedIsLit

\* A step that lights the screens keeps BusInv when it leaves the bus alone.
LEMMA BusLit ==
  ASSUME BusInv, light, UNCHANGED <<inhib, watches, dbus_inhibited>>
  PROVE  BusInv'
  BY LightIsLit DEF BusInv, HoldersWatched, Inhibited, InhibitedIsLit

\* Every step keeps BusInv.
LEMMA BusStep == BusInv /\ [Next]_vars => BusInv'
  <1> SUFFICES ASSUME BusInv, [Next]_vars PROVE BusInv'
    OBVIOUS
  <1>1. ASSUME NEW s \in Clients, NEW fs \in Flags, add(s, fs) PROVE BusInv'
    <2> DEFINE new == [cookie |-> next_cookie, sender |-> s, flags |-> fs]
    <2>a. inhib' = inhib \cup {new} /\ watches' = watches \cup {s} /\ new.sender = s
      BY <1>1 DEF add
    <2> HIDE DEF new
    <2>1. watches' = {x.sender : x \in inhib'}
      BY <2>a DEF BusInv, HoldersWatched
    <2> QED BY <1>1, <2>1, ChangedKeeps DEF add
  <1>2. ASSUME NEW x \in inhib, NEW s \in Clients, remove(x, s) PROVE BusInv'
    <2>1. watches' = {y.sender : y \in inhib'}
      BY <1>2 DEF remove, drop_watch_if_unused, BusInv, HoldersWatched
    <2> QED BY <1>2, <2>1, ChangedKeeps DEF remove
  <1>3. ASSUME NEW s \in Clients, release_sender(s) PROVE BusInv'
    <2>1. watches' = {y.sender : y \in inhib'}
      BY <1>3 DEF release_sender, BusInv, HoldersWatched
    <2> QED BY <1>3, <2>1, ChangedKeeps DEF release_sender
  <1>4. CASE handle_idle
    <2> DEFINE blocked == inhibits(IF it = "suspend" THEN {"idle", "suspend"} ELSE {"idle"})
    <2>1. UNCHANGED <<inhib, watches, dbus_inhibited, asked>>
      BY <1>4 DEF handle_idle
    <2>2. Inhibited => blocked
      BY DEF Inhibited, IsIdle, inhibits
    <2>3. CASE blocked
      <3>1. blanked' = blanked /\ dimmed' = dimmed
        BY <1>4, <2>3 DEF handle_idle, BusInv
      <3> QED BY <2>1, <3>1, BusUntouched
    <2>4. CASE ~blocked
      <3>1. ~Inhibited
        BY <2>2, <2>4
      <3>2. blanked' \in BOOLEAN /\ dimmed' \in BOOLEAN
        <4>1. CASE it = "blank"
          <5>1. blank_screens(TRUE)
            BY <1>4, <2>4, <4>1 DEF handle_idle
          <5> QED BY <5>1, BlankIsDark DEF BusInv
        <4>2. CASE it # "blank"
          BY <1>4, <4>2 DEF handle_idle, BusInv
        <4> QED BY <4>1, <4>2
      <3> QED BY <2>1, <3>1, <3>2 DEF BusInv, HoldersWatched, Inhibited, InhibitedIsLit
    <2> QED BY <2>3, <2>4
  <1>5. CASE handle_resume
    <2>1. light /\ UNCHANGED <<inhib, watches, dbus_inhibited>>
      BY <1>5 DEF handle_resume
    <2> QED BY <2>1, BusLit
  <1>6. CASE wake
    <2>1. light /\ UNCHANGED <<inhib, watches, dbus_inhibited>>
      BY <1>6 DEF wake, registry
    <2> QED BY <2>1, BusLit
  <1>7. ASSUME NEW on \in BOOLEAN, set_active(on) PROVE BusInv'
    <2>1. UNCHANGED <<inhib, watches, dbus_inhibited>>
      BY <1>7 DEF set_active, registry
    <2>2. CASE blanked = on
      <3>1. UNCHANGED <<dimmed, blanked, asked>>
        BY <1>7, <2>2 DEF set_active, dark
      <3> QED BY <2>1, <3>1, BusUntouched
    <2>3. CASE blanked # on
      <3>1. blank_screens(on) /\ asked' = (IF on THEN "on" ELSE "off")
        BY <1>7, <2>3 DEF set_active
      <3>2. blanked' = on /\ dimmed' \in BOOLEAN /\ (dimmed' => dimmed)
        BY <3>1, BlankIsDark DEF BusInv
      <3> QED BY <2>1, <3>1, <3>2 DEF BusInv, HoldersWatched, Inhibited, InhibitedIsLit
    <2> QED BY <2>2, <2>3
  <1>8. ASSUME NEW s \in Clients, client_dies(s) PROVE BusInv'
    BY <1>8, BusUntouched DEF client_dies, manager
  <1>9. CASE start
    BY <1>9, BusUntouched DEF start, registry
  <1>10. CASE on_battery_changed
    BY <1>10, BusUntouched DEF on_battery_changed, dark, registry
  <1>11. CASE leave \/ activity \/ window_inhibits
    BY <1>11, BusUntouched DEF leave, activity, window_inhibits, Shell, manager, registry
  <1>12. ASSUME NEW i \in Watch, expire(i) PROVE BusInv'
    BY <1>12, BusUntouched DEF expire, Shell, manager, registry
  <1>13. ASSUME NEW o \in Outputs, plug(o) \/ unplug(o) PROVE BusInv'
    BY <1>13, BusUntouched DEF plug, unplug, Shell, manager, registry
  <1>14. CASE registry_global \/ registry_global_remove \/ power_failed
    BY <1>14, BusUntouched DEF registry_global, registry_global_remove, power_failed, manager, registry
  <1>15. CASE handle_idle_probe
    BY <1>15, BusUntouched DEF handle_idle_probe, registry
  <1>16. CASE probe_timeout
    BY <1>16, BusUntouched DEF probe_timeout
  <1>17. CASE UNCHANGED vars
    BY <1>17, BusUntouched DEF vars, manager, registry
  <1> QED
    BY <1>1, <1>2, <1>3, <1>4, <1>5, <1>6, <1>7, <1>8, <1>9, <1>10, <1>11, <1>12, <1>13, <1>14, <1>15, <1>16, <1>17
    DEF Next, Dispatch

\* BusInv holds in every reachable state.
THEOREM BusInvariance == Spec => []BusInv
  <1>1. Init => BusInv
    BY DEF Init, BusInv, HoldersWatched, Inhibited, InhibitedIsLit
  <1> QED BY <1>1, BusStep, PTL DEF Spec

\* The bus is watched for exactly the clients that hold inhibitors.
THEOREM HoldersAreWatched == Spec => []HoldersWatched
  <1>1. BusInv => HoldersWatched
    BY DEF BusInv
  <1> QED BY <1>1, BusInvariance, PTL

\* While a client inhibits idling, no idle event, resume, timer or other
\* client leaves the screens dark.
THEOREM InhibitedStaysLit == Spec => []InhibitedIsLit
  <1>1. BusInv => InhibitedIsLit
    BY DEF BusInv
  <1> QED BY <1>1, BusInvariance, PTL

------------------------------------------------------------------------------
(* The screens: what is plugged in, known and powered.                      *)

HotEvent == [ev : {"global", "gone", "failed"}, of : Outputs]

\* An output that is off is one the shell knows, so that lighting the screens
\* reaches it; the event that makes the shell forget an output only comes
\* after the output is gone.
ScreenInv ==
  /\ blanked \in BOOLEAN
  /\ outs \subseteq Outputs /\ known \subseteq Outputs /\ power \in [Outputs -> BOOLEAN]
  /\ hotplug \in Seq(HotEvent)
  /\ \A i \in DOMAIN hotplug : hotplug[i].ev = "gone" => hotplug[i].of \notin outs
  /\ \A o \in outs : ~power[o] => o \in known
  /\ LitIsPowered

\* blank_screens() switches exactly the outputs the shell knows, and when it
\* turns the screens on, none is left off.
LEMMA BlankKeeps ==
  ASSUME ScreenInv, NEW on \in BOOLEAN, blank_screens(on), UNCHANGED <<outs, hotplug>>
  PROVE  ScreenInv'
  <1>1. CASE blanked = on
    BY <1>1 DEF ScreenInv, LitIsPowered, blank_screens, screens
  <1>2. CASE blanked # on
    <2>1. /\ blanked' = on /\ known' = known
          /\ power' = [o \in Outputs |-> IF o \in known \cap outs THEN ~on ELSE power[o]]
      BY <1>2 DEF blank_screens, singularity_output_power_set, output_apply
    <2>2. power' \in [Outputs -> BOOLEAN]
      BY <2>1 DEF ScreenInv
    <2>3. \A o \in outs : ~power'[o] => o \in known
      BY <2>1 DEF ScreenInv
    <2>4. ~on => \A o \in outs : power'[o]
      BY <2>1 DEF ScreenInv
    <2> QED BY <2>1, <2>2, <2>3, <2>4 DEF ScreenInv, LitIsPowered
  <1> QED BY <1>1, <1>2

\* A step that touches no output, flag or event of an output keeps ScreenInv.
LEMMA ScreensUntouched ==
  ASSUME ScreenInv, UNCHANGED <<outs, hotplug, known, power, blanked>>
  PROVE  ScreenInv'
  BY DEF ScreenInv, LitIsPowered

\* A new inhibitor lights the screens or leaves them alone.
LEMMA ChangedScreens ==
  ASSUME ScreenInv, NEW new, on_inhibitors_changed(new), UNCHANGED <<outs, hotplug>>
  PROVE  ScreenInv'
  <1>1. CASE light
    BY <1>1, BlankKeeps DEF light
  <1>2. CASE dark
    BY <1>2, ScreensUntouched DEF dark, screens
  <1> QED BY <1>1, <1>2 DEF on_inhibitors_changed

\* Taking the first event off the queue keeps what is known of the others.
LEMMA TailKeeps ==
  ASSUME ScreenInv, hotplug # <<>>
  PROVE  /\ Tail(hotplug) \in Seq(HotEvent)
         /\ \A i \in DOMAIN Tail(hotplug) : Tail(hotplug)[i].ev = "gone" => Tail(hotplug)[i].of \notin outs
         /\ Head(hotplug) \in HotEvent
         /\ Head(hotplug).ev = "gone" => Head(hotplug).of \notin outs
  <1>1. hotplug \in Seq(HotEvent) /\ Len(hotplug) \in Nat /\ Len(hotplug) > 0
    BY DEF ScreenInv
  <1>2. Tail(hotplug) \in Seq(HotEvent) /\ Head(hotplug) \in HotEvent /\ Head(hotplug) = hotplug[1] /\ 1 \in DOMAIN hotplug
    BY <1>1
  <1>3. \A i \in DOMAIN Tail(hotplug) : i + 1 \in DOMAIN hotplug /\ Tail(hotplug)[i] = hotplug[i + 1]
    BY <1>1
  <1> QED BY <1>2, <1>3 DEF ScreenInv

\* Every step keeps ScreenInv.
LEMMA ScreenStep == ScreenInv /\ [Next]_vars => ScreenInv'
  <1> SUFFICES ASSUME ScreenInv, [Next]_vars PROVE ScreenInv'
    OBVIOUS
  <1>1. ASSUME NEW s \in Clients, NEW fs \in Flags, add(s, fs) PROVE ScreenInv'
    BY <1>1, ChangedScreens DEF add, compositor
  <1>2. ASSUME NEW x \in inhib, NEW s \in Clients, remove(x, s) PROVE ScreenInv'
    BY <1>2, ChangedScreens DEF remove, compositor
  <1>3. ASSUME NEW s \in Clients, release_sender(s) PROVE ScreenInv'
    BY <1>3, ChangedScreens DEF release_sender, compositor
  <1>4. CASE handle_idle
    <2>1. UNCHANGED <<outs, hotplug>>
      BY <1>4 DEF handle_idle, compositor
    <2>2. CASE blank_screens(TRUE)
      BY <2>1, <2>2, BlankKeeps
    <2>3. CASE UNCHANGED <<blanked, screens>>
      BY <2>1, <2>3, ScreensUntouched DEF screens
    <2> QED BY <1>4, <2>2, <2>3 DEF handle_idle
  <1>5. CASE handle_resume
    BY <1>5, BlankKeeps DEF handle_resume, light, compositor
  <1>6. CASE wake
    BY <1>6, BlankKeeps DEF wake, light, compositor
  <1>7. ASSUME NEW on \in BOOLEAN, set_active(on) PROVE ScreenInv'
    <2>1. UNCHANGED <<outs, hotplug>>
      BY <1>7 DEF set_active, compositor
    <2>2. CASE blanked = on
      BY <1>7, <2>1, <2>2, ScreensUntouched DEF set_active, dark, screens
    <2>3. CASE blanked # on
      BY <1>7, <2>1, <2>3, BlankKeeps DEF set_active
    <2> QED BY <2>2, <2>3
  <1>8. ASSUME NEW s \in Clients, client_dies(s) PROVE ScreenInv'
    BY <1>8, ScreensUntouched DEF client_dies, manager, screens, compositor
  <1>9. CASE start
    <2>1. known' = outs /\ UNCHANGED <<outs, hotplug, power, blanked>>
      BY <1>9 DEF start, compositor
    <2> QED BY <2>1 DEF ScreenInv, LitIsPowered
  <1>10. CASE on_battery_changed
    BY <1>10, ScreensUntouched DEF on_battery_changed, dark, screens, compositor
  <1>11. CASE leave \/ activity \/ window_inhibits
    BY <1>11, ScreensUntouched DEF leave, activity, window_inhibits, Shell, manager, screens
  <1>12. ASSUME NEW i \in Watch, expire(i) PROVE ScreenInv'
    BY <1>12, ScreensUntouched DEF expire, Shell, manager, screens, compositor
  <1>13. ASSUME NEW o \in Outputs, plug(o) PROVE ScreenInv'
    <2>1. /\ o \notin outs /\ outs' = outs \cup {o} /\ power' = [power EXCEPT ![o] = TRUE]
          /\ UNCHANGED <<known, blanked>>
          /\ \A i \in DOMAIN hotplug : hotplug[i].of # o
      BY <1>13 DEF plug, manager
    <2>2. hotplug' = hotplug \/ hotplug' = Append(hotplug, Ev("global", o))
      BY <1>13 DEF plug
    <2>3. Ev("global", o) \in HotEvent /\ Ev("global", o).ev # "gone"
      BY DEF Ev, HotEvent
    <2>4. hotplug' \in Seq(HotEvent)
      BY <2>2, <2>3 DEF ScreenInv
    <2>5. \A i \in DOMAIN hotplug' : hotplug'[i].ev = "gone" => i \in DOMAIN hotplug /\ hotplug'[i] = hotplug[i]
      BY <2>2, <2>3 DEF ScreenInv
    <2>6. \A i \in DOMAIN hotplug' : hotplug'[i].ev = "gone" => hotplug'[i].of \notin outs'
      BY <2>1, <2>5 DEF ScreenInv
    <2> QED BY <2>1, <2>4, <2>6 DEF ScreenInv, LitIsPowered
  <1>14. ASSUME NEW o \in Outputs, unplug(o) PROVE ScreenInv'
    <2> DEFINE f == IF o \in pobj THEN <<Ev("failed", o)>> ELSE <<>>
               g == IF available THEN <<Ev("gone", o)>> ELSE <<>>
    <2>1. outs' = outs \ {o} /\ hotplug' = (hotplug \o f) \o g /\ UNCHANGED <<power, known, blanked>>
      BY <1>14 DEF unplug, Shell, screens, manager
    <2>2. /\ Ev("failed", o) \in HotEvent /\ Ev("failed", o).of = o
          /\ Ev("gone", o) \in HotEvent /\ Ev("gone", o).of = o
      BY DEF Ev, HotEvent
    <2>3. f \in Seq(HotEvent) /\ \A i \in DOMAIN f : f[i].of = o
      BY <2>2
    <2>4. g \in Seq(HotEvent) /\ \A i \in DOMAIN g : g[i].of = o
      BY <2>2
    <2> HIDE DEF f, g
    <2>5. hotplug' \in Seq(HotEvent)
      BY <2>1, <2>3, <2>4 DEF ScreenInv
    <2>6. \A i \in DOMAIN hotplug' : hotplug'[i].of = o \/ (i \in DOMAIN hotplug /\ hotplug'[i] = hotplug[i])
      BY <2>1, <2>3, <2>4 DEF ScreenInv
    <2>7. \A i \in DOMAIN hotplug' : hotplug'[i].ev = "gone" => hotplug'[i].of \notin outs'
      BY <2>1, <2>6 DEF ScreenInv
    <2> QED BY <2>1, <2>5, <2>7 DEF ScreenInv, LitIsPowered
  <1>15. CASE registry_global
    <2>1. hotplug # <<>> /\ hotplug' = Tail(hotplug) /\ known' = known \cup {Head(hotplug).of} /\ UNCHANGED <<outs, power, blanked>>
      BY <1>15 DEF registry_global, Hotplug, output, manager
    <2>2. Head(hotplug).of \in Outputs
      BY <2>1, TailKeeps DEF HotEvent
    <2> QED BY <2>1, <2>2, TailKeeps DEF ScreenInv, LitIsPowered
  <1>16. CASE registry_global_remove
    <2>1. /\ hotplug # <<>> /\ hotplug' = Tail(hotplug) /\ Head(hotplug).ev = "gone"
          /\ known' = known \ {Head(hotplug).of} /\ UNCHANGED <<outs, power, blanked>>
      BY <1>16 DEF registry_global_remove, Hotplug, output, manager
    <2>2. Head(hotplug).of \notin outs
      BY <2>1, TailKeeps
    <2> QED BY <2>1, <2>2, TailKeeps DEF ScreenInv, LitIsPowered
  <1>17. CASE power_failed
    <2>1. hotplug # <<>> /\ hotplug' = Tail(hotplug) /\ UNCHANGED <<outs, known, power, blanked>>
      BY <1>17 DEF power_failed, Hotplug, manager
    <2> QED BY <2>1, TailKeeps DEF ScreenInv, LitIsPowered
  <1>18. CASE handle_idle_probe
    BY <1>18, ScreensUntouched DEF handle_idle_probe, compositor, screens
  <1>19. CASE probe_timeout
    BY <1>19, ScreensUntouched DEF probe_timeout, compositor, screens
  <1>20. CASE UNCHANGED vars
    BY <1>20, ScreensUntouched DEF vars, compositor, screens, manager
  <1> QED
    BY <1>1, <1>2, <1>3, <1>4, <1>5, <1>6, <1>7, <1>8, <1>9, <1>10, <1>11, <1>12, <1>13, <1>14, <1>15, <1>16, <1>17,
       <1>18, <1>19, <1>20
    DEF Next, Dispatch

\* While the screens are meant to be on, every output plugged in has power,
\* whatever was plugged and unplugged while they were off.
THEOREM LitScreensHavePower == Spec => []LitIsPowered
  <1>1. ASSUME Init PROVE ScreenInv
    <2>1. hotplug \in Seq(HotEvent) /\ DOMAIN hotplug = {}
      BY <1>1 DEF Init
    <2>2. power = [o \in Outputs |-> TRUE] /\ outs = Outputs /\ known = {} /\ blanked = FALSE
      BY <1>1 DEF Init
    <2>3. power \in [Outputs -> BOOLEAN] /\ \A o \in outs : power[o]
      BY <2>2
    <2> QED BY <2>1, <2>2, <2>3 DEF ScreenInv, LitIsPowered
  <1>2. ScreenInv => LitIsPowered
    BY DEF ScreenInv
  <1> QED BY <1>1, <1>2, ScreenStep, PTL DEF Spec

------------------------------------------------------------------------------
(* The watches: whatever is idle, or was told to the shell as idle, resumes *)
(* or has resumed.                                                          *)

\* SetToSeq lists all members of a finite set.
LEMMA SetToSeqLists ==
  ASSUME NEW S, IsFiniteSet(S)
  PROVE  /\ SetToSeq(S) \in Seq(S)
         /\ \A x \in S : \E k \in 1..Len(SetToSeq(S)) : SetToSeq(S)[k] = x
  <1> DEFINE n == Cardinality(S)
             c == SetToSeq(S)
  <1>1. n \in Nat /\ \E f : f \in Bijection(1..n, S)
    BY FS_CardinalityType DEF ExistsBijection
  <1>2. \E f \in [1..n -> S] : IsInjective(f)
    BY <1>1 DEF Bijection, Injection
  <1>3. c \in [1..n -> S] /\ IsInjective(c)
    BY <1>2 DEF SetToSeq
  <1>4. c \in Seq(S) /\ Len(c) = n
    <2> HIDE DEF c, n
    <2> QED BY <1>1, <1>3
  <1> HIDE DEF c
  <1>5. c \in Injection(1..n, S) /\ IsFiniteSet(1..n) /\ Cardinality(1..n) = n
    BY <1>1, <1>3, FS_Interval DEF Injection
  <1>6. c \in Surjection(1..n, S)
    BY <1>5, FS_Injection
  <1> QED BY <1>4, <1>6 DEF c, Surjection

WatchEvent == [ev : {"idled", "resumed"}, of : Watch]

\* After the first k events, the shell will still be told that watch i resumes:
\* the news is in the queue, or the compositor owes it.
Awaited(i, k) ==
  notif[i] = "idled" \/ \E m \in (k + 1)..Len(evq) : evq[m] = Ev("resumed", i)

\* No watch is idle while the user is there, and there is none before start();
\* every idle event, every watch in
\* fired, and whatever is dark without being asked for will be followed by a
\* resume, unless the watches were renewed in between.
WatchInv ==
  /\ notif \in [Watch -> {"off", "armed", "idled"}]
  /\ evq \in Seq(WatchEvent)
  /\ fired \subseteq Ids
  /\ dimmed \in BOOLEAN /\ blanked \in BOOLEAN /\ idle_since \in BOOLEAN /\ stale \in BOOLEAN
  /\ ~away => \A i \in Watch : notif[i] # "idled"
  /\ ~available => \A i \in Watch : notif[i] = "off"
  /\ \A k \in 1..Len(evq) : evq[k].ev = "idled" => Awaited(evq[k].of, k)
  /\ \A i \in fired : Awaited(i, 0)
  /\ dimmed \/ idle_since \/ (blanked /\ asked # "on") => stale \/ \E i \in Watch : Awaited(i, 0)

\* A step that touches neither the watches nor what they made dark.
LEMMA WatchesUntouched ==
  ASSUME WatchInv, UNCHANGED <<notif, evq, fired, dimmed, blanked, idle_since, stale, asked, available>>, away => away'
  PROVE  WatchInv'
  BY DEF WatchInv, Awaited

\* The compositor tells that watches resume: whatever was awaited still is.
LEMMA ResumesQueued ==
  ASSUME WatchInv, NEW q \in Seq(WatchEvent), evq' = evq \o q,
         notif' \in [Watch -> {"off", "armed", "idled"}],
         \A k \in 1..Len(q) : q[k].ev = "resumed",
         \A i \in Watch : notif[i] = "idled" => notif'[i] = "idled" \/ \E k \in 1..Len(q) : q[k] = Ev("resumed", i),
         ~away' => \A i \in Watch : notif'[i] # "idled",
         ~available => \A i \in Watch : notif[i] = "off" => notif'[i] = "off",
         UNCHANGED <<fired, dimmed, blanked, idle_since, stale, asked, available>>
  PROVE  WatchInv'
  <1> DEFINE n == Len(evq)
  <1>1. /\ n \in Nat /\ Len(q) \in Nat /\ Len(evq') = n + Len(q)
        /\ \A k \in 1..n : evq'[k] = evq[k]
        /\ \A k \in 1..Len(q) : evq'[n + k] = q[k]
    BY DEF WatchInv
  <1>2. ASSUME NEW i \in Watch, NEW k \in 0..n, Awaited(i, k) PROVE Awaited(i, k)'
    <2>1. CASE notif[i] = "idled" /\ notif'[i] # "idled"
      <3>1. PICK m \in 1..Len(q) : q[m] = Ev("resumed", i)
        BY <2>1
      <3>2. n + m \in (k + 1)..Len(evq') /\ evq'[n + m] = Ev("resumed", i)
        BY <1>1, <3>1
      <3> QED BY <3>2 DEF Awaited, Ev
    <2>2. CASE notif'[i] = "idled"
      BY <2>2 DEF Awaited
    <2>3. CASE notif[i] # "idled"
      <3>1. PICK m \in (k + 1)..n : evq[m] = Ev("resumed", i)
        BY <1>2, <2>3 DEF Awaited
      <3>2. m \in (k + 1)..Len(evq') /\ evq'[m] = Ev("resumed", i)
        BY <1>1, <3>1
      <3> QED BY <3>2 DEF Awaited, Ev
    <2> QED BY <2>1, <2>2, <2>3
  <1>3. evq' \in Seq(WatchEvent)
    BY DEF WatchInv
  <1>4. ASSUME NEW k \in 1..Len(evq'), evq'[k].ev = "idled" PROVE Awaited(evq[k].of, k)' /\ evq'[k] = evq[k]
    <2>1. k \in 1..n
      <3>1. CASE k > n
        <4>1. k - n \in 1..Len(q) /\ evq'[n + (k - n)] = q[k - n] /\ n + (k - n) = k
          BY <1>1, <3>1
        <4> QED BY <1>4, <4>1
      <3> QED BY <1>1, <3>1
    <2>2. evq'[k] = evq[k] /\ evq[k].ev = "idled"
      BY <1>1, <1>4, <2>1
    <2>3. Awaited(evq[k].of, k) /\ evq[k].of \in Watch
      <3>1. evq[k] \in WatchEvent
        BY <2>1 DEF WatchInv
      <3>2. evq[k].of \in Watch
        BY <3>1 DEF WatchEvent
      <3>3. Awaited(evq[k].of, k)
        BY <2>1, <2>2 DEF WatchInv
      <3> QED BY <3>2, <3>3
    <2>4. \A i \in Watch : Awaited(i, k) => Awaited(i, k)'
      BY <1>1, <1>2, <2>1
    <2> QED BY <2>2, <2>3, <2>4 DEF Awaited
  <1>5. \A i \in fired' : Awaited(i, 0)'
    BY <1>1, <1>2 DEF WatchInv, Watch
  <1>6. (\E i \in Watch : Awaited(i, 0)) => \E i \in Watch : Awaited(i, 0)'
    BY <1>1, <1>2
  <1>7. \A k \in 1..Len(evq') : evq'[k].ev = "idled" => Awaited(evq[k].of, k)' /\ evq'[k] = evq[k]
    BY <1>4
  <1> QED BY <1>3, <1>5, <1>6, <1>7 DEF WatchInv, Awaited

\* The events that tell of resumes are in the queue, one for each watch.
LEMMA ResumedEvents ==
  ASSUME NEW S, S \subseteq Watch
  PROVE  /\ Events("resumed", S) \in Seq(WatchEvent)
         /\ \A k \in 1..Len(Events("resumed", S)) : Events("resumed", S)[k].ev = "resumed"
         /\ \A i \in S : \E k \in 1..Len(Events("resumed", S)) : Events("resumed", S)[k] = Ev("resumed", i)
  <1> DEFINE E == {Ev("resumed", i) : i \in S}
             A == {Ev("resumed", i) : i \in Watch}
             q == SetToSeq(E)
  <1>1. IsFiniteSet(E)
    <2>1. A = ((({Ev("resumed", "dim")} \cup {Ev("resumed", "blank")}) \cup {Ev("resumed", "lock")})
                 \cup {Ev("resumed", "suspend")}) \cup {Ev("resumed", "probe")}
      BY DEF Watch, Ids
    <2> HIDE DEF A
    <2>2. IsFiniteSet(A)
      <3>1. \A T, x : IsFiniteSet(T) => IsFiniteSet(T \cup {x})
        BY FS_AddElement
      <3>2. IsFiniteSet({Ev("resumed", "dim")})
        BY FS_Singleton, Zenon
      <3>3. IsFiniteSet({Ev("resumed", "dim")} \cup {Ev("resumed", "blank")})
        BY <3>1, <3>2
      <3>4. IsFiniteSet(({Ev("resumed", "dim")} \cup {Ev("resumed", "blank")}) \cup {Ev("resumed", "lock")})
        BY <3>1, <3>3
      <3>5. IsFiniteSet((({Ev("resumed", "dim")} \cup {Ev("resumed", "blank")}) \cup {Ev("resumed", "lock")})
                 \cup {Ev("resumed", "suspend")})
        BY <3>1, <3>4
      <3> QED BY <2>1, <3>1, <3>5
    <2>3. E \subseteq A
      BY DEF A
    <2> QED BY <2>2, <2>3, FS_Subset
  <1>2. q \in Seq(E) /\ \A x \in E : \E k \in 1..Len(q) : q[k] = x
    BY <1>1, SetToSeqLists
  <1>3. E \subseteq WatchEvent /\ \A x \in E : x.ev = "resumed"
    BY DEF Ev, WatchEvent
  <1>4. Events("resumed", S) = q
    BY DEF Events
  <1>5. \A i \in S : Ev("resumed", i) \in E
    OBVIOUS
  <1> HIDE DEF E, q
  <1>6. q \in Seq(WatchEvent) /\ \A k \in 1..Len(q) : q[k].ev = "resumed"
    BY <1>2, <1>3
  <1>7. \A i \in S : \E k \in 1..Len(q) : q[k] = Ev("resumed", i)
    BY <1>2, <1>5
  <1> QED BY <1>4, <1>6, <1>7

\* The first event is taken: what is awaited after it still is.
LEMMA EventTaken ==
  ASSUME WatchInv, evq # <<>>, evq' = Tail(evq), UNCHANGED notif
  PROVE  /\ Head(evq) \in WatchEvent /\ evq' \in Seq(WatchEvent)
         /\ \A i \in Watch : Awaited(i, 1) => Awaited(i, 0)'
         /\ \A i \in Watch : Awaited(i, 0) /\ Head(evq) # Ev("resumed", i) => Awaited(i, 0)'
         /\ \A k \in 1..Len(evq') : evq'[k].ev = "idled" => Awaited(evq[k].of, k)'
         /\ Head(evq).ev = "idled" => Awaited(Head(evq).of, 1)
  <1> DEFINE n == Len(evq)
  <1>1. /\ evq \in Seq(WatchEvent) /\ n \in Nat /\ n > 0 /\ Len(evq') = n - 1
        /\ Head(evq) = evq[1] /\ \A k \in 1..(n - 1) : evq'[k] = evq[k + 1]
    BY DEF WatchInv
  <1>2. Head(evq) \in WatchEvent /\ evq' \in Seq(WatchEvent)
    BY <1>1
  <1>3. ASSUME NEW i \in Watch, NEW k \in 0..(n - 1), Awaited(i, k + 1) PROVE Awaited(i, k)'
    <2>1. CASE notif[i] = "idled"
      BY <2>1 DEF Awaited
    <2>2. CASE notif[i] # "idled"
      <3>1. PICK m \in (k + 2)..n : evq[m] = Ev("resumed", i)
        BY <1>1, <1>3, <2>2 DEF Awaited
      <3>2. m - 1 \in (k + 1)..Len(evq') /\ m - 1 \in 1..(n - 1) /\ (m - 1) + 1 = m
        BY <1>1, <3>1
      <3>3. evq'[m - 1] = Ev("resumed", i)
        BY <1>1, <3>1, <3>2
      <3> QED BY <3>2, <3>3 DEF Awaited, Ev
    <2> QED BY <2>1, <2>2
  <1>4. \A i \in Watch : Awaited(i, 1) => Awaited(i, 0)'
    <2>1. 0 \in 0..(n - 1) /\ 0 + 1 = 1
      BY <1>1
    <2> QED BY <1>3, <2>1
  <1>5. ASSUME NEW i \in Watch, Awaited(i, 0), Head(evq) # Ev("resumed", i) PROVE Awaited(i, 1)
    <2>1. CASE notif[i] = "idled"
      BY <2>1 DEF Awaited
    <2>2. CASE notif[i] # "idled"
      <3>1. PICK m \in 1..n : evq[m] = Ev("resumed", i)
        BY <1>1, <1>5, <2>2 DEF Awaited
      <3>2. m # 1
        BY <1>1, <1>5, <3>1
      <3> QED BY <1>1, <3>1, <3>2 DEF Awaited
    <2> QED BY <2>1, <2>2
  <1>6. ASSUME NEW k \in 1..Len(evq'), evq'[k].ev = "idled" PROVE Awaited(evq[k].of, k)'
    <2>1. k \in 0..(n - 1) /\ k + 1 \in 1..n /\ evq'[k] = evq[k + 1] /\ evq[k + 1] \in WatchEvent
      BY <1>1
    <2>2. Awaited(evq[k + 1].of, k + 1)
      BY <1>6, <2>1 DEF WatchInv
    <2>3. evq[k + 1].of \in Watch
      BY <2>1 DEF WatchEvent
    <2>4. \A i \in Watch : Awaited(i, k + 1) => Awaited(i, k)'
      BY <1>3, <2>1
    <2> QED BY <2>1, <2>2, <2>3, <2>4 DEF Awaited
  <1>7. Head(evq).ev = "idled" => Awaited(Head(evq).of, 1)
    BY <1>1 DEF WatchInv
  <1> QED BY <1>2, <1>4, <1>5, <1>6, <1>7

\* An idle event is taken: the watch it is about will resume, so what the event
\* darkens is not dark for good.
LEMMA IdledTaken ==
  ASSUME WatchInv, evq # <<>>, evq' = Tail(evq), Head(evq).ev = "idled",
         fired' = fired \/ (fired' = fired \cup {Head(evq).of} /\ Head(evq).of # "probe"),
         UNCHANGED <<away, notif, stale, available>>,
         dimmed' \in BOOLEAN, blanked' \in BOOLEAN, idle_since' = TRUE
  PROVE  WatchInv'
  <1>1. PICK i : i = Head(evq).of
    OBVIOUS
  <1>2. i \in Watch /\ Awaited(i, 0)'
    <2>1. Head(evq) \in WatchEvent
      BY EventTaken
    <2>2. i \in Watch /\ Awaited(i, 1)
      BY <1>1, <2>1, EventTaken DEF WatchEvent
    <2> QED BY <2>2, EventTaken
  <1>3. \A j \in fired' : Awaited(j, 0)'
    <2>1. \A j \in fired : j \in Watch /\ Awaited(j, 0) /\ Head(evq) # Ev("resumed", j)
      BY DEF WatchInv, Watch, Ev
    <2>2. \A j \in fired : Awaited(j, 0)'
      BY <2>1, EventTaken
    <2> QED BY <1>1, <1>2, <2>2
  <1>4. evq' \in Seq(WatchEvent) /\ \A k \in 1..Len(evq') : evq'[k].ev = "idled" => Awaited(evq[k].of, k)'
    BY EventTaken
  <1>5. fired' \subseteq Ids
    BY <1>1, <1>2 DEF WatchInv, Watch
  <1> QED BY <1>2, <1>3, <1>4, <1>5 DEF WatchInv

\* New watches, and the old events dropped: what is dark is stale from then on.
LEMMA Renewed ==
  ASSUME WatchInv, NEW b \in BOOLEAN, rearm(b),
         dimmed' \in BOOLEAN, blanked' \in BOOLEAN,
         ~available => UNCHANGED <<dimmed, blanked, asked>> \/ (~dimmed' /\ ~blanked'),
         UNCHANGED <<away, idle_since, available>>
  PROVE  WatchInv'
  <1>1. CASE ~available
    <2>1. UNCHANGED <<notif, evq, fired, stale>>
      BY <1>1 DEF rearm, keep
    <2> QED BY <1>1, <2>1 DEF WatchInv, Awaited
  <1>2. CASE available
    <2>1. /\ notif' = Armed(b) /\ evq' = <<>> /\ fired' = {}
          /\ stale' = (stale \/ idle_since \/ blanked' \/ dimmed')
      BY <1>2 DEF rearm, singularity_idle_unwatch
    <2>2. notif' \in [Watch -> {"off", "armed", "idled"}] /\ \A i \in Watch : notif'[i] # "idled"
      BY <2>1 DEF Armed
    <2>3. evq' \in Seq(WatchEvent) /\ Len(evq') = 0
      BY <2>1
    <2>4. \A k \in 1..Len(evq') : FALSE
      BY <2>3
    <2>5. stale' \in BOOLEAN /\ (dimmed' \/ idle_since' \/ blanked' => stale')
      BY <2>1 DEF WatchInv
    <2> QED BY <1>2, <2>1, <2>2, <2>3, <2>4, <2>5 DEF WatchInv
  <1> QED BY <1>1, <1>2

\* An inhibitor comes or goes: the screens are lit, or the watches renewed.
LEMMA ChangedWatches ==
  ASSUME WatchInv, NEW new, on_inhibitors_changed(new), on_battery \in BOOLEAN, UNCHANGED <<away, idle_since, asked, available>>
  PROVE  WatchInv'
  <1>1. dimmed' \in BOOLEAN /\ blanked' \in BOOLEAN
        /\ (UNCHANGED <<dimmed, blanked>> \/ (~dimmed' /\ ~blanked'))
    BY LightIsLit DEF on_inhibitors_changed, dark, WatchInv
  <1>2. CASE rearm(on_battery)
    BY <1>1, <1>2, Renewed
  <1>3. CASE keep
    <2>1. UNCHANGED <<notif, evq, fired, stale>>
      BY <1>3 DEF keep
    <2> QED BY <1>1, <2>1 DEF WatchInv, Awaited
  <1> QED BY <1>2, <1>3 DEF on_inhibitors_changed

PowerInv == WatchInv /\ on_battery \in BOOLEAN

\* Every step keeps WatchInv.
LEMMA WatchStep == PowerInv /\ [Next]_vars => PowerInv'
  <1> SUFFICES ASSUME WatchInv, on_battery \in BOOLEAN, [Next]_vars PROVE WatchInv' /\ on_battery' \in BOOLEAN
    BY DEF PowerInv
  <1>1. ASSUME NEW s \in Clients, NEW fs \in Flags, add(s, fs) PROVE WatchInv' /\ UNCHANGED on_battery
    BY <1>1, ChangedWatches DEF add, compositor
  <1>2. ASSUME NEW x \in inhib, NEW s \in Clients, remove(x, s) PROVE WatchInv' /\ UNCHANGED on_battery
    BY <1>2, ChangedWatches DEF remove, compositor
  <1>3. ASSUME NEW s \in Clients, release_sender(s) PROVE WatchInv' /\ UNCHANGED on_battery
    BY <1>3, ChangedWatches DEF release_sender, compositor
  <1>4. CASE handle_idle_probe
    <2>1. /\ evq # <<>> /\ evq' = Tail(evq) /\ Head(evq).ev = "idled"
          /\ idle_since' = TRUE /\ fired' = fired
          /\ UNCHANGED <<away, notif, dimmed, blanked, stale, on_battery, available>>
      BY <1>4 DEF handle_idle_probe, Event, compositor
    <2> QED BY <2>1, IdledTaken DEF WatchInv
  <1>5. CASE handle_idle
    <2>1. /\ evq # <<>> /\ evq' = Tail(evq) /\ Head(evq).ev = "idled" /\ Head(evq).of # "probe"
          /\ idle_since' = TRUE /\ fired' = fired \cup {Head(evq).of}
          /\ UNCHANGED <<away, notif, stale, on_battery, available>>
      BY <1>5 DEF handle_idle, Event, it, compositor
    <2>2. dimmed' \in BOOLEAN /\ blanked' \in BOOLEAN
      <3>1. CASE blank_screens(TRUE)
        BY <3>1, BlankIsDark DEF WatchInv
      <3>2. CASE ~blank_screens(TRUE)
        BY <1>5, <3>2 DEF handle_idle, WatchInv
      <3> QED BY <3>1, <3>2
    <2> QED BY <2>1, <2>2, IdledTaken
  <1>6. CASE handle_resume
    <2>1. /\ evq # <<>> /\ evq' = Tail(evq) /\ Head(evq).ev = "resumed"
          /\ fired' = fired \ {Head(evq).of}
          /\ idle_since' = FALSE /\ stale' = FALSE /\ light
          /\ UNCHANGED <<away, notif, on_battery, available>>
      BY <1>6 DEF handle_resume, Event, it, compositor
    <2>2. blanked' = FALSE /\ dimmed' = FALSE
      BY <2>1, LightIsLit
    <2>3. \A i \in fired' : Awaited(i, 0)'
      <3>1. \A i \in fired' : i \in Watch /\ Awaited(i, 0) /\ Head(evq).of # i
        BY <2>1 DEF WatchInv, Watch
      <3>2. \A i \in fired' : Head(evq) # Ev("resumed", i)
        BY <3>1 DEF Ev
      <3> QED BY <2>1, <3>1, <3>2, EventTaken
    <2>4. evq' \in Seq(WatchEvent) /\ \A k \in 1..Len(evq') : evq'[k].ev = "idled" => Awaited(evq[k].of, k)'
      BY <2>1, EventTaken
    <2> QED BY <2>1, <2>2, <2>3, <2>4 DEF WatchInv
  <1>7. CASE wake
    <2>1. rearm(on_battery) /\ light /\ UNCHANGED <<away, idle_since, on_battery, available>>
      BY <1>7 DEF wake, compositor
    <2>2. blanked' = FALSE /\ dimmed' = FALSE
      BY <2>1, LightIsLit
    <2> QED BY <2>1, <2>2, Renewed
  <1>8. CASE on_battery_changed
    <2>1. rearm(~on_battery) /\ on_battery' = ~on_battery /\ UNCHANGED <<away, idle_since, dimmed, blanked, asked, available>>
      BY <1>8 DEF on_battery_changed, dark, compositor
    <2> QED BY <2>1, Renewed DEF WatchInv
  <1>9. ASSUME NEW on \in BOOLEAN, set_active(on) PROVE WatchInv' /\ UNCHANGED on_battery
    <2>1. UNCHANGED <<away, notif, evq, fired, idle_since, stale, on_battery, available>>
      BY <1>9 DEF set_active, compositor
    <2>2. CASE blanked = on
      <3>1. UNCHANGED <<dimmed, blanked, asked>>
        BY <1>9, <2>2 DEF set_active, dark
      <3> QED BY <2>1, <3>1, WatchesUntouched
    <2>3. CASE blanked # on
      <3>1. blank_screens(on) /\ asked' = (IF on THEN "on" ELSE "off")
        BY <1>9, <2>3 DEF set_active
      <3>2. blanked' = on /\ dimmed' \in BOOLEAN /\ (dimmed' => dimmed)
        BY <3>1, BlankIsDark DEF WatchInv
      <3> QED BY <2>1, <3>1, <3>2 DEF WatchInv, Awaited
    <2> QED BY <2>2, <2>3
  <1>10. CASE start
    <2>1. /\ notif' = Armed(on_battery)
          /\ ~available /\ available' = TRUE
          /\ UNCHANGED <<away, evq, fired, dimmed, blanked, idle_since, stale, asked, on_battery>>
      BY <1>10 DEF start, compositor
    <2>2. notif' \in [Watch -> {"off", "armed", "idled"}] /\ \A i \in Watch : notif'[i] # "idled" /\ notif[i] # "idled"
      BY <2>1 DEF Armed, WatchInv
    <2>3. \A i \in Watch, k \in Nat : Awaited(i, k) => Awaited(i, k)'
      BY <2>1, <2>2 DEF Awaited
    <2>4. ASSUME NEW k \in 1..Len(evq), evq[k].ev = "idled" PROVE Awaited(evq[k].of, k)'
      <3>1. evq[k].of \in Watch /\ k \in Nat /\ Awaited(evq[k].of, k)
        <4>1. evq[k] \in WatchEvent
          BY DEF WatchInv
        <4> QED BY <2>4, <4>1 DEF WatchInv, WatchEvent
      <3> QED BY <2>1, <2>2, <3>1 DEF Awaited
    <2>5. \A i \in fired' : Awaited(i, 0)'
      BY <2>1, <2>3 DEF WatchInv, Watch
    <2>6. (\E i \in Watch : Awaited(i, 0)) => \E i \in Watch : Awaited(i, 0)'
      BY <2>3
    <2> QED BY <2>1, <2>2, <2>4, <2>5, <2>6 DEF WatchInv
  <1>11. CASE leave
    BY <1>11, WatchesUntouched DEF leave, Shell, manager
  <1>12. CASE activity
    <2>1. /\ away' = FALSE /\ notif' = Resume(Idled(Watch)) /\ evq' = evq \o Events("resumed", Idled(Watch))
          /\ UNCHANGED <<fired, dimmed, blanked, idle_since, stale, asked, on_battery, available>>
      BY <1>12 DEF activity, Shell, manager
    <2>2. Idled(Watch) \subseteq Watch
      BY DEF Idled
    <2>3. /\ notif' \in [Watch -> {"off", "armed", "idled"}]
          /\ \A i \in Watch : notif'[i] # "idled" /\ (notif[i] = "off" => notif'[i] = "off")
          /\ \A i \in Watch : notif[i] = "idled" => i \in Idled(Watch)
      BY <2>1 DEF Resume, Idled, WatchInv
    <2> QED BY <2>1, <2>2, <2>3, ResumedEvents, ResumesQueued
  <1>13. CASE window_inhibits
    <2>1. UNCHANGED <<away, fired, dimmed, blanked, idle_since, stale, asked, on_battery, available>>
      BY <1>13 DEF window_inhibits, Shell, manager
    <2>2. CASE winhib
      BY <1>13, <2>1, <2>2, WatchesUntouched DEF window_inhibits
    <2>3. CASE ~winhib
      <3>1. notif' = Resume(Idled(Ids)) /\ evq' = evq \o Events("resumed", Idled(Ids))
        BY <1>13, <2>3 DEF window_inhibits
      <3>2. Idled(Ids) \subseteq Watch
        BY DEF Idled, Watch
      <3>3. /\ notif' \in [Watch -> {"off", "armed", "idled"}]
            /\ \A i \in Watch : notif[i] # "idled" => notif'[i] = notif[i]
            /\ \A i \in Watch : notif[i] = "idled" => notif'[i] = "idled" \/ i \in Idled(Ids)
        BY <3>1 DEF Resume, Idled, WatchInv
      <3>4. /\ ~away' => \A i \in Watch : notif'[i] # "idled"
            /\ \A i \in Watch : notif[i] = "off" => notif'[i] = "off"
        BY <2>1, <3>3 DEF WatchInv
      <3>5. PICK q \in Seq(WatchEvent) :
              /\ evq' = evq \o q /\ \A k \in 1..Len(q) : q[k].ev = "resumed"
              /\ \A i \in Idled(Ids) : \E k \in 1..Len(q) : q[k] = Ev("resumed", i)
        BY <3>1, <3>2, ResumedEvents
      <3>6. \A i \in Watch : notif[i] = "idled" => notif'[i] = "idled" \/ \E k \in 1..Len(q) : q[k] = Ev("resumed", i)
        BY <3>3, <3>5
      <3> QED BY <2>1, <3>3, <3>4, <3>5, <3>6, ResumesQueued
    <2> QED BY <2>2, <2>3
  <1>14. ASSUME NEW i \in Watch, expire(i) PROVE WatchInv' /\ UNCHANGED on_battery
    <2>1. /\ away /\ notif[i] = "armed" /\ notif' = [notif EXCEPT ![i] = "idled"] /\ evq' = Append(evq, Ev("idled", i))
          /\ UNCHANGED <<away, fired, dimmed, blanked, idle_since, stale, asked, on_battery, available>>
      BY <1>14 DEF expire, Shell, manager, compositor
    <2>2. /\ evq' \in Seq(WatchEvent) /\ Len(evq) \in Nat /\ Len(evq') = Len(evq) + 1
          /\ evq'[Len(evq) + 1] = Ev("idled", i) /\ \A k \in 1..Len(evq) : evq'[k] = evq[k]
      <3>1. Ev("idled", i) \in WatchEvent
        BY DEF Ev, WatchEvent
      <3> QED BY <2>1, <3>1 DEF WatchInv
    <2>3. /\ notif' \in [Watch -> {"off", "armed", "idled"}] /\ notif'[i] = "idled"
          /\ \A j \in Watch : notif[j] = "idled" => notif'[j] = "idled"
          /\ available
      BY <2>1 DEF WatchInv
    <2>4. ASSUME NEW j \in Watch, NEW k \in Nat, Awaited(j, k) PROVE Awaited(j, k)'
      <3>1. CASE notif[j] = "idled"
        BY <2>3, <3>1 DEF Awaited
      <3>2. CASE notif[j] # "idled"
        <4>1. PICK m \in (k + 1)..Len(evq) : evq[m] = Ev("resumed", j)
          BY <2>4, <3>2 DEF Awaited
        <4>2. m \in (k + 1)..Len(evq') /\ evq'[m] = Ev("resumed", j)
          BY <2>2, <4>1
        <4> QED BY <4>2 DEF Awaited, Ev
      <3> QED BY <3>1, <3>2
    <2>5. ASSUME NEW k \in 1..Len(evq'), evq'[k].ev = "idled" PROVE Awaited(evq[k].of, k)'
      <3>1. CASE k = Len(evq) + 1
        <4>1. evq'[k].of = i
          BY <2>2, <3>1 DEF Ev
        <4> QED BY <2>3, <4>1 DEF Awaited
      <3>2. CASE k # Len(evq) + 1
        <4>1. k \in 1..Len(evq) /\ evq'[k] = evq[k] /\ evq[k] \in WatchEvent
          BY <2>2, <3>2 DEF WatchInv
        <4>2. Awaited(evq[k].of, k) /\ evq[k].of \in Watch
          BY <2>5, <4>1 DEF WatchInv, WatchEvent
        <4>3. \A j \in Watch : Awaited(j, k) => Awaited(j, k)'
          BY <2>4
        <4> QED BY <4>1, <4>2, <4>3 DEF Awaited
      <3> QED BY <3>1, <3>2
    <2>6. \A j \in fired' : Awaited(j, 0)'
      BY <2>1, <2>4 DEF WatchInv, Watch
    <2>7. (\E j \in Watch : Awaited(j, 0)) => \E j \in Watch : Awaited(j, 0)'
      BY <2>4
    <2> QED BY <2>1, <2>2, <2>3, <2>5, <2>6, <2>7 DEF WatchInv
  <1>15. ASSUME NEW o \in Outputs, plug(o) \/ unplug(o) PROVE WatchInv' /\ UNCHANGED on_battery
    <2>1. CASE plug(o)
      BY <2>1, WatchesUntouched DEF plug, manager
    <2>2. CASE unplug(o)
      BY <2>2, WatchesUntouched DEF unplug, Shell, manager
    <2> QED BY <1>15, <2>1, <2>2
  <1>16. CASE registry_global \/ registry_global_remove \/ power_failed
    BY <1>16, WatchesUntouched DEF registry_global, registry_global_remove, power_failed, manager
  <1>17. CASE probe_timeout
    BY <1>17, WatchesUntouched DEF probe_timeout, compositor
  <1>18. ASSUME NEW s \in Clients, client_dies(s) PROVE WatchInv' /\ UNCHANGED on_battery
    BY <1>18, WatchesUntouched DEF client_dies, manager, compositor
  <1>19. CASE UNCHANGED vars
    BY <1>19, WatchesUntouched DEF vars, manager, compositor
  <1> QED
    BY <1>1, <1>2, <1>3, <1>4, <1>5, <1>6, <1>7, <1>8, <1>9, <1>10, <1>11, <1>12, <1>13, <1>14, <1>15, <1>16, <1>17,
       <1>18, <1>19
    DEF Next, Dispatch

\* For any delays and any order of events: a user who is back and whose watches
\* have told so is not counted as idle and sees lit screens, but for what was
\* asked for or left by rearm() in an idle session.
THEOREM PresentUserIsLit == Spec => []PresentIsLit
  <1>1. Init => PowerInv
    <2> SUFFICES ASSUME Init PROVE WatchInv /\ on_battery \in BOOLEAN
      BY DEF PowerInv
    <2>1. evq \in Seq(WatchEvent) /\ Len(evq) = 0 /\ notif = [i \in Watch |-> "off"]
      BY DEF Init
    <2>2. \A k \in 1..Len(evq) : FALSE
      BY <2>1
    <2>3. notif \in [Watch -> {"off", "armed", "idled"}] /\ \A i \in Watch : notif[i] = "off"
      BY <2>1
    <2> QED BY <2>1, <2>2, <2>3 DEF Init, WatchInv
  <1>2. PowerInv => PresentIsLit
    <2> SUFFICES ASSUME WatchInv, ~away, evq = <<>>
                 PROVE  fired = {} /\ (dimmed \/ idle_since => stale) /\ (blanked => stale \/ asked = "on")
      BY DEF PresentIsLit, PowerInv
    <2>1. \A i \in Watch : ~Awaited(i, 0)
      BY DEF WatchInv, Awaited
    <2> QED BY <2>1 DEF WatchInv, Watch
  <1> QED BY <1>1, <1>2, WatchStep, PTL DEF Spec
=============================================================================
