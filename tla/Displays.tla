------------------------------ MODULE Displays ------------------------------
(***************************************************************************)
(* Displays: the heads and configurations of the output manager in         *)
(* src/src/wayland/wayland_integration.c, the monitors of                  *)
(* src/src/core/display_manager.vala and the lid switch of                 *)
(* src/src/core/lid_manager.vala, which turns the internal panel off while *)
(* the lid is closed and another display is on.                            *)
(*                                                                         *)
(* The compositor (external) tells its changes in batches that end with a  *)
(* done event and a new serial; a configuration made with an older serial  *)
(* is cancelled.  Of the attributes of a head the model keeps what the     *)
(* arrangement is about: whether it is on and its mode.                    *)
(***************************************************************************)
EXTENDS Naturals, Sequences

CONSTANTS
  Heads,       \* displays; a display that returns has the same handle
  Internal,    \* those that are the panel of the laptop
  Modes, SizeOf,  \* modes (a size and a refresh rate), and their size
  HeadModes,   \* the modes each head announces, the first is its own choice
  Configs,     \* bound: configuration objects that exist at once
  MaxChanges,  \* bound: changes from outside (plugs, lid, user, other clients)
  Changes,     \* the kinds of change in this instance
  Plugged,     \* the heads at the start
  SavedAtStart,   \* what displays.json can say of each head at the start
  DockedSuspends  \* lid-close-docked-action is "suspend"

ASSUME HeadsAssumption == Internal \subseteq Heads /\ Plugged \subseteq Heads
ASSUME ModesAssumption ==
  /\ DOMAIN HeadModes = Heads /\ DOMAIN SizeOf = Modes /\ "none" \notin Modes
  /\ \A h \in Heads : HeadModes[h] \in Seq(Modes) /\ HeadModes[h] # <<>>
ASSUME BoundsAssumption ==
  /\ Configs \in SUBSET (Nat \ {0}) /\ MaxChanges \in Nat
  /\ DockedSuspends \in BOOLEAN
  /\ Changes \subseteq {"plug", "user", "lid", "other", "refuse", "damage"}

\* A monitor in displays.json (named), whether it is on, and its mode.
SavedRecord == [named : BOOLEAN, on : BOOLEAN, mode : Modes \cup {"none"}]
Unsaved == [named |-> FALSE, on |-> FALSE, mode |-> "none"]
ASSUME SavedAssumption ==
  /\ DOMAIN SavedAtStart = Heads
  /\ \A h \in Heads : SavedAtStart[h] \subseteq SavedRecord

VARIABLES
  outs, on, cur, cserial,  \* the compositor: its heads, which are on, their modes
  evq, reqq,               \* events to the shell and configurations to the compositor
  changes, seen,           \* the number and the kinds of changes from outside so far
  hd,        \* heads_list: the HeadData of every head
  current,   \* current_config, 0 for NULL
  live,      \* configuration objects that are not destroyed
  mon,       \* DisplayManager.monitors
  serial, topo, restore,   \* serial, _topology_changed, _restore_timeout_id # 0
  saved,     \* displays.json
  closed, pending, dimmed, inhibitor  \* LidManager

compositor == <<outs, on, cur, cserial, reqq>>
manager == <<serial, topo, restore, saved>>
lid == <<closed, pending, dimmed, inhibitor>>
outside == <<changes, seen>>
vars == <<compositor, evq, outside, hd, current, live, mon, manager, lid>>

Gone == [known |-> FALSE, named |-> FALSE, on |-> FALSE, modes |-> <<>>, cur |-> "none", vrr |-> "none"]
HeadRecord == [known : BOOLEAN, named : BOOLEAN, on : BOOLEAN, modes : Seq(Modes),
               cur : Modes \cup {"none"}, vrr : {"none", "off", "on"}]

TypeOK ==
  /\ outs \subseteq Heads /\ on \in [Heads -> BOOLEAN] /\ cur \in [Heads -> Modes]
  /\ hd \in [Heads -> HeadRecord] /\ mon \in [Heads -> HeadRecord]
  /\ current \in Configs \cup {0} /\ live \subseteq Configs
  /\ cserial \in Nat /\ serial \in Nat /\ changes \in 0..MaxChanges /\ seen \subseteq Changes
  /\ {topo, restore, closed, pending, inhibitor} \subseteq BOOLEAN
  /\ saved \in [Heads -> SavedRecord] /\ dimmed \subseteq Heads

\* The shell starts up with what the two roundtrips of its start have told it.
Shown(h) == [known |-> TRUE, named |-> TRUE, on |-> TRUE, modes |-> HeadModes[h],
             cur |-> HeadModes[h][1], vrr |-> "none"]
Init ==
  /\ outs = Plugged /\ on = [h \in Heads |-> TRUE] /\ cur = [h \in Heads |-> HeadModes[h][1]]
  /\ cserial = 1 /\ evq = <<>> /\ reqq = <<>> /\ changes = 0 /\ seen = {}
  /\ hd = [h \in Heads |-> IF h \in Plugged THEN Shown(h) ELSE Gone]
  /\ mon = hd
  /\ current = 0 /\ live = {}
  /\ serial = 1 /\ topo = FALSE /\ restore = TRUE
  /\ saved \in [Heads -> SavedRecord] /\ \A h \in Heads : saved[h] \in SavedAtStart[h]
  /\ closed = FALSE /\ pending = FALSE /\ dimmed = {} /\ inhibitor = FALSE

----------------------------------------------------------------------------
(* The compositor *)

Attributes(hs) == [ev |-> "attributes", hs |-> hs, on |-> on', cur |-> cur']
ModeEvents(h) == [i \in 1..Len(HeadModes[h]) |-> [ev |-> "mode", h |-> h, m |-> HeadModes[h][i]]]

\* A batch of events, closed by done with the new serial.
Batch(events) == events \o <<[ev |-> "done", serial |-> cserial + 1]>>

Change(kind) ==
  /\ kind \in Changes /\ changes < MaxChanges
  /\ changes' = changes + 1 /\ seen' = seen \cup {kind}

plug(h) ==
  /\ Change("plug") /\ h \notin outs
  /\ outs' = outs \cup {h} /\ cserial' = cserial + 1
  /\ on' = [on EXCEPT ![h] = TRUE] /\ cur' = [cur EXCEPT ![h] = HeadModes[h][1]]
  /\ evq' = evq \o Batch(<<[ev |-> "head", h |-> h]>> \o ModeEvents(h)
                         \o <<Attributes({h}), [ev |-> "sync", h |-> h]>>)
  /\ UNCHANGED <<reqq, hd, current, live, mon, manager, lid>>

unplug(h) ==
  /\ Change("plug") /\ h \in outs
  /\ outs' = outs \ {h} /\ cserial' = cserial + 1
  /\ evq' = evq \o Batch(<<[ev |-> "finished", h |-> h]>>)
  /\ UNCHANGED <<on, cur, reqq, hd, current, live, mon, manager, lid>>

\* Another client of the output manager turns a head on or off.
alter(h) ==
  /\ Change("other") /\ h \in outs
  /\ on' = [on EXCEPT ![h] = ~@] /\ cserial' = cserial + 1
  /\ UNCHANGED <<outs, cur, reqq, hd, current, live, mon, manager, lid>>
  /\ evq' = evq \o Batch(<<Attributes({h})>>)

\* The next configuration: applied, unless its serial is not the last one.
accept_config ==
  LET c == Head(reqq)
      changed == {h \in Heads : on'[h] # on[h] \/ cur'[h] # cur[h]}
  IN /\ reqq # <<>> /\ c.serial = cserial
     /\ on' = [h \in Heads |-> IF h \in DOMAIN c.heads THEN c.heads[h].on ELSE on[h]]
     /\ cur' = [h \in Heads |-> IF h \in DOMAIN c.heads /\ c.heads[h].mode # "none"
                                THEN c.heads[h].mode ELSE cur[h]]
     /\ cserial' = IF changed = {} THEN cserial ELSE cserial + 1
     /\ evq' = Append(evq, [ev |-> "answer", id |-> c.id])
               \o IF changed = {} THEN <<>> ELSE Batch(<<Attributes(changed)>>)
     /\ reqq' = Tail(reqq)
     /\ UNCHANGED <<outs, outside, hd, current, live, mon, manager, lid>>

\* Cancelled, or failed.
reject_config ==
  /\ reqq # <<>>
  /\ \/ Head(reqq).serial # cserial /\ UNCHANGED outside
     \/ Head(reqq).serial = cserial /\ Change("refuse")
  /\ evq' = Append(evq, [ev |-> "answer", id |-> Head(reqq).id])
  /\ reqq' = Tail(reqq)
  /\ UNCHANGED <<outs, on, cur, cserial, hd, current, live, mon, manager, lid>>

----------------------------------------------------------------------------
(* DisplayManager: configurations, and what follows from its signals *)

\* The mode object config_head_v2 picks among those of the head: the very mode,
\* else the last announced one of the same size (modes are kept last first).
Match(h, m) ==
  LET ms == hd[h].modes
      size == {i \in 1..Len(ms) : m # "none" /\ SizeOf[ms[i]] = SizeOf[m]}
  IN IF \E i \in 1..Len(ms) : ms[i] = m THEN m
     ELSE IF size # {} THEN ms[CHOOSE i \in size : \A j \in size : i <= j] ELSE "none"

\* enable_head with a mode, or disable_head, which has none.
config_head_v2(h, on_h, m) == [on |-> on_h, mode |-> IF on_h THEN Match(h, m) ELSE "none"]

apply_configuration_stale(m) ==
  \E id \in Configs \ live :
    /\ \A x \in Configs \ live : id <= x
    /\ current' = id /\ live' = live \cup {id}
    /\ reqq' = Append(reqq, [id |-> id, serial |-> cserial,
                 heads |-> [h \in {x \in Heads : m[x].known} |->
                              config_head_v2(h, m[h].on, m[h].cur)]])

\* apply_configuration for the monitors m: begin_output_config with the last
\* serial, config_head_v2 for each monitor, finish_output_config.  (Its callers
\* are those below and BatteryRefresh.update, which is not modelled.)
apply_configuration(m) ==
  \E id \in Configs \ live :
    /\ \A x \in Configs \ live : id <= x
    /\ current' = id /\ live' = live \cup {id}
    /\ reqq' = Append(reqq, [id |-> id, serial |-> serial,
                 heads |-> [h \in {x \in Heads : m[x].known} |->
                              config_head_v2(h, m[h].on, m[h].cur)]])

NoConfig == UNCHANGED <<reqq, current, live>>

\* The monitors_changed signal: a closed lid is looked at again.
monitors_changed_ignored == UNCHANGED lid

monitors_changed ==
  /\ pending' = (pending \/ closed)
  /\ UNCHANGED <<closed, dimmed, inhibitor>>

HasMode(h, m) == \E i \in 1..Len(mon[h].modes) : mon[h].modes[i] = m

\* The monitors as the file wants them; a saved mode that a monitor does not
\* have leaves its current one.
FromFile == [h \in Heads |->
  IF mon[h].named /\ saved[h].named
  THEN [mon[h] EXCEPT !.on = saved[h].on,
                      !.cur = IF HasMode(h, saved[h].mode) THEN saved[h].mode ELSE @]
  ELSE mon[h]]

\* The restore timer: load_and_apply_saved.  Without a file (it names no
\* monitor) everything is applied as it is; a file that cannot be read or
\* parsed this time is given up with a warning and nothing is applied.
load_and_apply_saved ==
  /\ restore /\ restore' = FALSE
  /\ \/ mon' = FromFile /\ apply_configuration(FromFile) /\ UNCHANGED outside
     \/ Change("damage") /\ UNCHANGED mon /\ NoConfig
  /\ UNCHANGED <<outs, on, cur, cserial, evq, hd, serial, topo, saved, lid>>

\* The displays page: the user turns a monitor on or off or takes another mode;
\* apply_changes applies it and saves the monitors that are there.
apply_changes(h, v, m) ==
  LET x == [mon EXCEPT ![h].on = v, ![h].cur = m]
  IN /\ Change("user") /\ mon[h].named
     /\ HasMode(h, m)
     /\ mon' = x
     /\ apply_configuration(x)
     /\ saved' = [g \in Heads |-> IF x[g].named
                                 THEN [named |-> TRUE, on |-> x[g].on, mode |-> x[g].cur]
                                 ELSE Unsaved]
     /\ UNCHANGED <<outs, on, cur, cserial, evq, hd, serial, topo, restore, lid>>

----------------------------------------------------------------------------
(* Events of the output manager *)

Event(kind) == evq # <<>> /\ Head(evq).ev = kind /\ evq' = Tail(evq)

output_manager_head ==
  LET h == Head(evq).h IN
  /\ Event("head")
  /\ hd' = [hd EXCEPT ![h] = [Gone EXCEPT !.known = TRUE]]
  /\ mon' = [mon EXCEPT ![h] = [Gone EXCEPT !.known = TRUE, !.on = TRUE]]
  /\ topo' = TRUE
  /\ monitors_changed
  /\ UNCHANGED <<compositor, outside, current, live, serial, restore, saved>>

head_handle_mode ==
  LET e == Head(evq) IN
  /\ Event("mode")
  /\ hd' = [hd EXCEPT ![e.h].modes = <<e.m>> \o @]
  /\ UNCHANGED <<compositor, outside, current, live, mon, manager, lid>>

\* name, enabled, current_mode, position, scale and the like.
head_handle_attributes ==
  LET e == Head(evq) IN
  /\ Event("attributes")
  /\ hd' = [h \in Heads |-> IF h \in e.hs /\ hd[h].known
                            THEN [hd[h] EXCEPT !.named = TRUE, !.on = e.on[h], !.cur = e.cur[h]]
                            ELSE hd[h]]
  /\ UNCHANGED <<compositor, outside, current, live, mon, manager, lid>>

\* The state goes to the HeadData; the monitor is looked up with the address of
\* the HeadData, which is no monitor's head_handle.
head_handle_adaptive_sync ==
  /\ Event("sync")
  /\ hd' = [hd EXCEPT ![Head(evq).h].vrr = "on"]
  /\ UNCHANGED <<compositor, outside, current, live, mon, manager, lid>>

head_handle_finished_kept ==
  LET h == Head(evq).h IN
  /\ Event("finished")
  /\ hd' = [hd EXCEPT ![h] = Gone]
  /\ topo' = TRUE
  /\ monitors_changed
  /\ UNCHANGED <<compositor, outside, current, live, mon, serial, restore, saved>>

head_handle_finished ==
  LET h == Head(evq).h IN
  /\ Event("finished")
  /\ hd' = [hd EXCEPT ![h] = Gone]
  /\ mon' = [mon EXCEPT ![h] = Gone]
  /\ topo' = TRUE
  /\ monitors_changed
  /\ UNCHANGED <<compositor, outside, current, live, serial, restore, saved>>

\* set_serial, which starts the restore timer after a change of topology, then
\* every head is copied to its monitor.
output_manager_done_at_start ==
  /\ Event("done")
  /\ serial' = Head(evq).serial
  /\ UNCHANGED <<topo, restore>>
  /\ mon' = [h \in Heads |-> IF hd[h].known THEN [hd[h] EXCEPT !.vrr = mon[h].vrr] ELSE mon[h]]
  /\ monitors_changed
  /\ UNCHANGED <<compositor, outside, hd, current, live, saved>>

output_manager_done ==
  /\ Event("done")
  /\ serial' = Head(evq).serial
  /\ topo' = FALSE /\ restore' = (restore \/ topo)
  /\ mon' = [h \in Heads |-> IF hd[h].known THEN [hd[h] EXCEPT !.vrr = mon[h].vrr] ELSE mon[h]]
  /\ monitors_changed
  /\ UNCHANGED <<compositor, outside, hd, current, live, saved>>

\* succeeded, failed and cancelled: the object is destroyed, nothing is retried.
config_handle_answer ==
  LET id == Head(evq).id IN
  /\ Event("answer")
  /\ live' = live \ {id}
  /\ current' = IF current = id THEN 0 ELSE current
  /\ UNCHANGED <<compositor, outside, hd, mon, manager, lid>>

Dispatch ==
  \/ output_manager_head \/ head_handle_mode \/ head_handle_attributes
  \/ head_handle_adaptive_sync \/ head_handle_finished \/ output_manager_done
  \/ config_handle_answer

----------------------------------------------------------------------------
(* The lid *)

\* A monitor whose name is not known yet is not internal.
IsInternal(h) == mon[h].named /\ h \in Internal
HasExternal == \E h \in Heads : mon[h].known /\ mon[h].on /\ ~IsInternal(h)

Restored == [h \in Heads |-> IF h \in dimmed /\ mon[h].known THEN [mon[h] EXCEPT !.on = TRUE] ELSE mon[h]]
restore_internal ==
  /\ dimmed' = {}
  /\ IF dimmed = {} THEN UNCHANGED mon /\ NoConfig
     ELSE mon' = Restored /\ apply_configuration(Restored)

Dimming == {h \in Heads : IsInternal(h) /\ mon[h].on}
dim_internal ==
  LET m == [h \in Heads |-> IF h \in Dimming THEN [mon[h] EXCEPT !.on = FALSE] ELSE mon[h]]
  IN /\ dimmed' = dimmed \cup Dimming
     /\ IF Dimming = {} THEN UNCHANGED mon /\ NoConfig ELSE mon' = m /\ apply_configuration(m)

\* logind's answer to take_inhibitor; nothing is scheduled by it.
take_inhibitor ==
  /\ ~inhibitor /\ inhibitor' = TRUE
  /\ UNCHANGED <<compositor, evq, outside, hd, current, live, mon, manager, closed, pending, dimmed>>

set_closed ==
  /\ Change("lid")
  /\ closed' = ~closed
  /\ IF closed' THEN pending' = TRUE /\ UNCHANGED <<mon, dimmed>> /\ NoConfig
     ELSE restore_internal /\ UNCHANGED pending
  /\ UNCHANGED <<outs, on, cur, cserial, evq, hd, manager, inhibitor>>

\* The 800 ms timer.  The lid is open again, or logind has not answered: nothing,
\* and nothing is scheduled for the time when it has.
\* Docked, the panel is turned off or the session suspended, as the setting says;
\* else the panel is turned on and the session locked or suspended.
act ==
  /\ pending /\ pending' = FALSE
  /\ IF ~closed \/ ~inhibitor THEN UNCHANGED <<mon, dimmed>> /\ NoConfig
     ELSE \/ HasExternal /\ ~DockedSuspends /\ dim_internal
          \/ (DockedSuspends \/ ~HasExternal) /\ restore_internal
  /\ UNCHANGED <<outs, on, cur, cserial, evq, outside, hd, manager, closed, inhibitor>>

Next ==
  \/ \E h \in Heads : plug(h) \/ unplug(h) \/ alter(h)
  \/ accept_config \/ reject_config
  \/ Dispatch
  \/ load_and_apply_saved
  \/ \E h \in Heads, v \in BOOLEAN, m \in Modes : apply_changes(h, v, m)
  \/ take_inhibitor \/ set_closed \/ act

\* The compositor answers, the main loop dispatches events and timers.  logind
\* need not answer.
Fairness ==
  /\ WF_vars(accept_config \/ reject_config) /\ WF_vars(Dispatch)
  /\ WF_vars(load_and_apply_saved) /\ WF_vars(act)

Spec == Init /\ [][Next]_vars /\ Fairness

----------------------------------------------------------------------------
(* Properties *)

\* The shell configures exactly the heads it was told of: no monitor keeps the
\* handle of a head whose proxy is destroyed (head_handle_finished), and every
\* head of heads_list has a monitor.
MonitorsMirrorHeads == \A h \in Heads : mon[h].known <=> hd[h].known

\* A configuration the compositor takes covers all of its heads and no other:
\* anything else is the protocol error unconfigured_head, which ends the shell.
ConfigCoversHeads ==
  \A i \in 1..Len(reqq) : reqq[i].serial = cserial => DOMAIN reqq[i].heads = outs

\* A display is as the file has it.
Shows(h, s) ==
  /\ on[h] = s.on
  /\ s.on /\ (\E i \in 1..Len(HeadModes[h]) : HeadModes[h][i] = s.mode) => cur[h] = s.mode

\* What the file says of a display is shown in the end, whatever is plugged and
\* unplugged while the restore timer runs and configurations are in flight: a
\* cancelled one is followed by another done event that restores again.  A
\* display that is to be on has the saved mode too, if it has such a mode.  (The
\* lid, the user, another client, a refusal or a file that could not be read
\* when it was wanted may leave something else.)
SavedIsRestored ==
  \/ <>(~(seen \subseteq {"plug"}))
  \/ <>[](\A h \in outs : saved[h].named => Shows(h, saved[h]))

\* When the lid closes, or the displays change while it is closed, beside another
\* display that stays on, the panel is off in the end: a cancelled configuration
\* is tried again at the next done event.  Two things leave it on: a compositor
\* that refuses the configuration, and logind not having answered when the 800 ms
\* timer runs out (~pending /\ ~inhibitor), for its late answer schedules nothing.
DockedPanelOff ==
  \A h \in Internal :
    []((closed /\ pending) => <>(~closed \/ ~HasExternal \/ ~on[h] \/ ~mon[h].known
                                \/ "refuse" \in seen \/ (~pending /\ ~inhibitor)))
=============================================================================
