----------------------------- MODULE StageSync ------------------------------
(***************************************************************************)
(* core/stage/stage_manager.vala over a compositor that answers at once:   *)
(* what the window groups promise when no request or event is in flight.   *)
(* The handlers drive the models of StageModel, one for each monitor, and  *)
(* carry their plans out; the compositor keeps each window's group number  *)
(* and hidden flag, from which a restarted shell rebuilds its models.      *)
(*                                                                         *)
(* enable() is the steps enable, RestoreWindow and Finish..., with nothing *)
(* in between; every other handler is one action.                          *)
(***************************************************************************)
EXTENDS StageModel, FiniteSets

CONSTANTS
    Monitors,
    App,                \* the application of every window
    QuietWhileDown      \* no window opens or moves while the shell restarts

ASSUME QuietAssumption == QuietWhileDown \in BOOLEAN

VARIABLES
    phase,      \* "down", "off" (not enabled), "restoring", "on"
    models,     \* _models; a monitor without one has NewModel
    next_id,    \* StageModel._next_id
    todo,       \* windows enable() has not looked at yet
    unfinished, \* monitors enable() has not finished yet
    restored,   \* enable() has met a window with a group
    saved,      \* the active sets in stage-groups.json
    save_due,   \* the save timeout is pending
    plugged,    \* monitors there are
    open,       \* windows there are
    out,        \* the monitor of every window
    minimized,  \* windows minimized, by whomever
    hid,        \* those minimized by set_hidden
    group       \* group number the compositor keeps for every window

managerVars    == <<phase, models, next_id, todo, unfinished, restored>>
savedVars      == <<saved, save_due>>
compositorVars == <<plugged, open, out, minimized, hid, group>>
vars           == <<managerVars, savedVars, compositorVars>>

known == {w \in Windows : contains(models[out[w]], w)}

TypeOK ==
    /\ phase \in {"down", "off", "restoring", "on"}
    /\ models \in [Monitors -> Models]
    /\ next_id \in 1..(MaxId + 1)
    /\ todo \subseteq open
    /\ unfinished \subseteq plugged
    /\ restored \in BOOLEAN
    /\ saved \in [Monitors -> Ids \cup {NoSet}]
    /\ save_due \in BOOLEAN
    /\ plugged \subseteq Monitors
    /\ open \subseteq Windows
    /\ out \in [Windows -> Monitors]
    /\ minimized \subseteq open
    /\ hid \subseteq minimized
    /\ group \in [Windows -> Ids \cup {NoSet}]
    /\ known \subseteq open

NoModels == [k \in Monitors |-> NewModel]

Init ==
    /\ phase \in {"off", "on"}
    /\ models = NoModels
    /\ next_id = 1
    /\ todo = {} /\ unfinished = {} /\ restored = FALSE
    /\ saved = [k \in Monitors |-> NoSet]
    /\ save_due = FALSE
    /\ plugged \in SUBSET Monitors \ {{}}
    /\ open = {} /\ minimized = {} /\ hid = {}
    /\ out \in [Windows -> plugged]
    /\ group = [w \in Windows |-> NoSet]

-----------------------------------------------------------------------------
(* Shared by the handlers.                                                 *)

\* src/src/wayland/stage.c, over a compositor of version 2 that answers at
\* once.  It minimizes and restores the windows it is asked to hide and show,
\* and keeps a group number and the hidden flag of each for the shell to ask.
singularity_stage_set_hidden(hide, show) ==
    /\ minimized' = (minimized \cup hide) \ show
    /\ hid' = (hid \cup hide) \ show

singularity_stage_set_group(ids) == group' = ids

singularity_stage_get_group(w) == [group |-> group[w], hidden |-> w \in hid]

\* Carrying a plan out: set_hidden() of every window of it.
set_hidden(hide, show) == singularity_stage_set_hidden(hide, show)

sync_tags_of_new ==
    singularity_stage_set_group(
        [w \in Windows |-> IF contains(models'[out'[w]], w) /\ group[w] = NoSet
                           THEN models'[out'[w]].owner[w] ELSE group[w]])

\* sync_tags(): the compositor is told every window's set, all models over.
sync_tags ==
    singularity_stage_set_group(
        [w \in Windows |-> IF contains(models'[out'[w]], w)
                           THEN models'[out'[w]].owner[w] ELSE group[w]])

\* Plan p of monitor k: the model changes and the plan is carried out.
Apply(k, p) ==
    /\ models' = [models EXCEPT ![k] = p.model]
    /\ set_hidden(p.hide, p.show)
    /\ out' = out
    /\ save_due' = TRUE

\* new_set(), when an operation on model m needs one.
NewSetIf(needed) ==
    /\ needed => next_id <= MaxId
    /\ next_id' = IF needed THEN next_id + 1 ELSE next_id

restoringVars == <<todo, unfinished, restored>>

-----------------------------------------------------------------------------
(* enable(), disable(), start() and the end of the shell.                  *)

\* Bound: enable() is run only when the ids it may need are left.
RoomForIds ==
    LET tagged == {w \in open : group[w] # NoSet}
        bare   == {k \in plugged : \A w \in tagged : out[w] # k}
        need   == Cardinality(open \ tagged)
                    + (IF tagged = {} THEN 0 ELSE Cardinality(bare))
    IN  \A t \in {next_id} \cup {group[w] + 1 : w \in tagged} :
            t + need <= MaxId + 1

\* enable() starts over with the windows there are: the compositor announces
\* them all while the shell connects to it.
enable ==
    /\ phase \in {"down", "off"}
    /\ RoomForIds
    /\ phase' = "restoring"
    /\ todo' = open
    /\ restored' = \E w \in open : group[w] # NoSet
    /\ unfinished' = plugged
    /\ UNCHANGED <<models, next_id, savedVars, compositorVars>>

\* One window of the loop over get_mru_windows(), whatever their order.
RestoreWindow(w) ==
    LET k == out[w]
        m == models[k]
        r == singularity_stage_get_group(w)
    IN  /\ phase = "restoring" /\ w \in todo
        /\ todo' = todo \ {w}
        /\ models' = [models EXCEPT ![k] =
                        restore_window(m, w, r.group, w \in minimized, r.hidden,
                                       next_id)]
        /\ IF r.group = NoSet THEN NewSetIf(m.active = NoSet)
                              ELSE next_id' = reserve_id(next_id, r.group)
        /\ UNCHANGED <<phase, unfinished, restored, savedVars,
                       compositorVars>>

\* The monitors are finished one after the other, then the windows tagged.
Finished(k) ==
    /\ phase = "restoring" /\ todo = {} /\ k \in unfinished
    /\ unfinished' = unfinished \ {k}
    /\ IF unfinished' = {} THEN phase' = "on" /\ sync_tags
                           ELSE UNCHANGED <<phase, group>>
    /\ UNCHANGED <<todo, restored, saved, plugged, open>>

FinishRestored(k) ==
    /\ restored
    /\ \E wanted \in wanted_sets(models[k], saved[k]) :
          /\ NewSetIf(wanted = NoSet)
          /\ Apply(k, restore_finish(models[k], wanted, next_id))
    /\ Finished(k)

\* split_by_app(): the windows of every application but the lead's leave
\* the stage for a set of their own.  as names the sets it makes.
split_by_app(m, lead, as) ==
    LET leave == {w \in windows(m, m.active) : App[w] # lead}
        hide  == leave \ (m.user_minimized \cup m.hidden)
    IN  Plan([m EXCEPT !.owner = [w \in Windows |->
                                    IF w \in leave THEN as[App[w]] ELSE @[w]],
                       !.inactive = @ \cup {as[App[w]] : w \in leave},
                       !.hidden = @ \cup hide],
             hide, {})

\* The sets get the next ids; which application gets which does not matter.
FinishSplit(k) ==
    LET m      == models[k]
        staged == windows(m, m.active)
    IN  /\ ~restored
        /\ \/ /\ staged = {}
              /\ Apply(k, Plan(m, {}, {}))
              /\ UNCHANGED next_id
           \/ \E first \in staged, top \in next_id..(MaxId + 1) :
                LET others == {App[w] : w \in staged} \ {App[first]}
                IN  \E as \in [others -> next_id..(top - 1)] :
                      /\ \A a, b \in others : as[a] = as[b] => a = b
                      /\ \A id \in next_id..(top - 1) :
                            \E a \in others : as[a] = id
                      /\ next_id' = top
                      /\ Apply(k, split_by_app(m, App[first], as))
        /\ Finished(k)

disable ==
    LET show == UNION {clear(models[k]).show : k \in plugged}
    IN  /\ phase = "on"
        /\ phase' = "off"
        /\ models' = [k \in Monitors |-> clear(models[k]).model]
        /\ set_hidden({}, show)
        /\ singularity_stage_set_group(
              [w \in Windows |-> IF w \in known THEN NoSet ELSE group[w]])
        /\ saved' = [k \in Monitors |-> NoSet]
        /\ UNCHANGED <<next_id, restoringVars, save_due, plugged, open, out>>

StartOff_still_hidden ==
    /\ phase = "down"
    /\ phase' = "off"
    /\ set_hidden({}, {})
    /\ singularity_stage_set_group([w \in Windows |-> NoSet])
    /\ UNCHANGED <<models, next_id, restoringVars, savedVars, plugged, open,
                   out>>

\* start() with the mode off: release_leftover() of every grouped window.
StartOff ==
    /\ phase = "down"
    /\ phase' = "off"
    /\ set_hidden({}, {w \in hid : group[w] # NoSet})
    /\ singularity_stage_set_group([w \in Windows |-> NoSet])
    /\ UNCHANGED <<models, next_id, restoringVars, savedVars, plugged, open,
                   out>>

\* The shell ends; _next_id starts over with the next one.
ShellEnds ==
    /\ phase \in {"off", "on"}
    /\ phase' = "down"
    /\ models' = NoModels
    /\ next_id' = 1
    /\ save_due' = FALSE
    /\ UNCHANGED <<restoringVars, saved, compositorVars>>

save_state ==
    /\ save_due
    /\ phase # "restoring"
    /\ save_due' = FALSE
    /\ saved' = IF phase = "on"
                THEN [k \in Monitors |-> IF k \in plugged
                                         THEN models[k].active ELSE NoSet]
                ELSE saved
    /\ UNCHANGED <<managerVars, compositorVars>>

-----------------------------------------------------------------------------
(* Windows.                                                                *)

\* A window is mapped.  The compositor has no group for a new window, so
\* the branch of the handler that restores one is not taken.
on_window_opened(w) ==
    /\ phase # "restoring" /\ ~(QuietWhileDown /\ phase = "down")
    /\ w \notin open
    /\ open' = open \cup {w}
    /\ \E k \in plugged :
          /\ out' = [out EXCEPT ![w] = k]
          /\ \/ /\ phase = "on"
                /\ NewSetIf(models[k].active = NoSet)
                /\ models' = [models EXCEPT ![k] =
                                add_window(@, w, next_id)]
                /\ sync_tags
                /\ save_due' = TRUE
             \/ /\ phase # "on"
                /\ UNCHANGED <<next_id, models, group, save_due>>
    /\ UNCHANGED <<phase, restoringVars, saved, plugged, minimized, hid>>

on_window_closed(w) ==
    /\ phase # "restoring"
    /\ w \in open
    /\ models' = [models EXCEPT ![out[w]] = remove_window(@, w)]
    /\ save_due' = (save_due \/ w \in known)
    /\ open' = open \ {w}
    /\ minimized' = minimized \ {w}
    /\ hid' = hid \ {w}
    /\ group' = [group EXCEPT ![w] = NoSet]
    /\ UNCHANGED <<phase, next_id, restoringVars, saved, plugged, out>>

\* The user minimizes a window: on_window_state_changed().
UserMinimizes(w) ==
    LET m == models[out[w]]
    IN  /\ phase # "restoring"
        /\ w \in open \ minimized
        /\ minimized' = minimized \cup {w}
        /\ models' = [models EXCEPT ![out[w]] =
                        IF contains(m, w) /\ m.owner[w] = m.active
                        THEN set_user_minimized(m, w, TRUE) ELSE m]
        /\ UNCHANGED <<phase, next_id, restoringVars, savedVars, plugged,
                       open, out, hid, group>>

\* The user restores a window: on stage that is all; off stage the window
\* brings its set on stage, on_window_state_changed() and activate_later().
UserRestores(w) ==
    LET k == out[w]
        m == models[k]
        p == activate(mark_shown(m, w), m.owner[w])
    IN  /\ phase # "restoring"
        /\ w \in minimized
        /\ out' = out
        /\ \/ /\ m.owner[w] = m.active \/ phase # "on"
              /\ models' = [models EXCEPT ![k] =
                              set_user_minimized(@, w, FALSE)]
              /\ minimized' = minimized \ {w}
              /\ hid' = hid \ {w}
              /\ UNCHANGED <<save_due, group>>
           \/ /\ m.owner[w] # m.active /\ phase = "on"
              /\ models' = [models EXCEPT ![k] = p.model]
              /\ minimized' = ((minimized \ {w}) \cup p.hide) \ p.show
              /\ hid' = ((hid \ {w}) \cup p.hide) \ p.show
              /\ sync_tags
              /\ save_due' = TRUE
        /\ UNCHANGED <<phase, next_id, restoringVars, saved, plugged, open>>

on_window_output_changed_forgetting(w, k) ==
    LET from == models[out[w]]
        was_hidden == w \in from.hidden
        dest == add_window(models[k], w, next_id)
    IN  /\ phase = "on" /\ w \in known /\ k # out[w]
        /\ NewSetIf(models[k].active = NoSet)
        /\ models' = [models EXCEPT ![out[w]] = remove_window(from, w),
                                    ![k] = dest]
        /\ set_hidden({}, IF was_hidden THEN {w} ELSE {})
        /\ sync_tags
        /\ save_due' = TRUE

\* A window moves to monitor k and joins the set on stage there.
on_window_output_changed(w, k) ==
    LET from       == models[out[w]]
        was_hidden == w \in from.hidden
        dest       == add_window(models[k], w, next_id)
        moved      == IF w \in minimized /\ ~was_hidden
                      THEN set_user_minimized(dest, w, TRUE) ELSE dest
    IN  /\ phase = "on" /\ w \in known /\ k # out[w]
        /\ NewSetIf(models[k].active = NoSet)
        /\ models' = [models EXCEPT ![out[w]] = remove_window(from, w),
                                    ![k] = moved]
        /\ set_hidden({}, IF was_hidden THEN {w} ELSE {})
        /\ sync_tags
        /\ save_due' = TRUE

\* A window is dragged to, or put by the compositor on, another monitor.
WindowMoves(w, k) ==
    /\ w \in open /\ k \in plugged \ {out[w]}
    /\ out' = [out EXCEPT ![w] = k]
    /\ \/ on_window_output_changed(w, k)
       \/ /\ phase = "off" \/ (phase = "down" /\ ~QuietWhileDown)
          /\ UNCHANGED <<models, next_id, save_due, minimized, hid, group>>
    /\ UNCHANGED <<phase, restoringVars, saved, plugged, open>>

-----------------------------------------------------------------------------
(* The strip, D-Bus, and monitors.                                         *)

\* activate(id), on the monitor monitor_of_set() finds for the id.
Activate(k, id) ==
    /\ phase = "on"
    /\ find_set(models[k], id) /\ id # models[k].active
    /\ Apply(k, activate(models[k], id))
    /\ sync_tags
    /\ UNCHANGED <<phase, next_id, restoringVars, saved, plugged, open>>

MoveWindow(w, target_id) ==
    LET k == out[w]
    IN  /\ phase = "on" /\ w \in known
        /\ target_id # NoSet => find_set(models[k], target_id)
        /\ NewSetIf(target_id = NoSet)
        /\ Apply(k, move_window(models[k], w, target_id, next_id))
        /\ sync_tags
        /\ UNCHANGED <<phase, restoringVars, saved, plugged, open>>

MonitorPlugged(k) ==
    /\ phase # "restoring"
    /\ k \in Monitors \ plugged
    /\ plugged' = plugged \cup {k}
    /\ save_due' = (save_due \/ phase = "on")
    /\ UNCHANGED <<managerVars, saved, open, out, minimized, hid, group>>

\* sync_monitors(): the windows of monitor k are now on another one, t, the
\* first in GDK's list, which adopts its sets.  Two sets of one id, as a
\* restart can leave them, are not merged in this model.
MonitorUnplugged(k, t) ==
    LET guests == windows(models[k], models[k].active)
    IN  /\ phase # "restoring"
        /\ k \in plugged /\ t \in plugged \ {k}
        /\ \A id \in Ids : ~(find_set(models[k], id) /\ find_set(models[t], id))
        /\ plugged' = plugged \ {k}
        /\ out' = [w \in Windows |-> IF out[w] = k THEN t ELSE out[w]]
        /\ NewSetIf(models[t].active = NoSet /\ guests # {})
        /\ models' = [models EXCEPT ![t] = adopt(@, models[k], next_id),
                                    ![k] = NewModel]
        /\ save_due' = (save_due \/ phase = "on")
        /\ UNCHANGED <<phase, restoringVars, saved, open, minimized, hid,
                       group>>

Next ==
    \/ enable \/ disable \/ StartOff \/ ShellEnds \/ save_state
    \/ \E w \in Windows :
          \/ RestoreWindow(w)
          \/ on_window_opened(w)
          \/ on_window_closed(w)
          \/ UserMinimizes(w)
          \/ UserRestores(w)
          \/ \E k \in Monitors : WindowMoves(w, k)
          \/ \E id \in Ids \cup {NoSet} : MoveWindow(w, id)
    \/ \E k \in Monitors :
          \/ FinishRestored(k)
          \/ FinishSplit(k)
          \/ \E id \in Ids : Activate(k, id)
          \/ MonitorPlugged(k)
          \/ \E t \in Monitors : MonitorUnplugged(k, t)

Spec == Init /\ [][Next]_vars

-----------------------------------------------------------------------------
(* Properties.                                                             *)

\* The models that are in use: all of them when the mode is on, the finished
\* ones while enable() runs.
InUse == IF phase = "restoring" THEN plugged \ unfinished
         ELSE IF phase = "on" THEN plugged ELSE {}

\* The sets of every monitor stay well formed (see StageModel), whatever
\* order windows, groups and monitors come and go in: no window is lost to
\* the strips, and no thumbnail stands for nothing.
SetsWellFormed ==
    /\ \A k \in Monitors : WellFormed(models[k])
    /\ \A k \in Monitors : \A w \in all_windows(models[k]) : out[w] = k

\* "shows one group of windows at a time and the others as thumbnails":
\* a window of the set on stage is minimized only if the user did it, and
\* every window of another set is minimized.
OneGroupShown ==
    \A k \in InUse : \A w \in all_windows(models[k]) :
        IF models[k].owner[w] = models[k].active
        THEN w \in minimized => w \notin hid
        ELSE w \in minimized

\* What the shell believes is what the compositor keeps: which windows the
\* shell has hidden and which ones the user has minimized.  A shell that
\* restarts can tell them apart only by that.
FlagsMatch ==
    \A k \in Monitors : \A w \in all_windows(models[k]) :
        /\ w \in models[k].hidden <=> w \in hid
        /\ w \in models[k].user_minimized <=> w \in minimized \ hid

\* "a shell restart finds the same groups": no window that has a group is
\* put into another one by enable().
GroupsKept ==
    [][\A w \in Windows :
          /\ group[w] # NoSet
          /\ phase = "restoring"
          => group'[w] = group[w]]_vars

\* The group number the compositor keeps for a window names no set the window
\* is not in, so that a restart at any time never joins windows of two sets.
\* (sync_monitors() does not call sync_tags(): the windows another monitor
\* adopts may keep the number of a set that is gone, but not of a live one.)
GroupsNotMixed ==
    phase = "on" => \A w \in known : \A k \in Monitors :
        find_set(models[k], group[w]) => k = out[w] /\ models[k].owner[w] = group[w]

\* The rest of the inductive invariant.  Every window is in the model of the
\* monitor it is on, once enable() has got to it; monitors that are gone, and
\* all of them when the mode is not on, have no sets.
Placed ==
    /\ \A k \in Monitors : all_windows(models[k]) \subseteq open
    /\ \A w \in open : out[w] \in plugged
    /\ \A k \in Monitors : k \notin plugged \/ phase \in {"down", "off"}
                             => models[k] = NewModel
    /\ phase = "restoring" => /\ open = todo \cup known
                              /\ todo \cap known = {}
                              /\ todo = {} \/ unfinished = plugged
    /\ phase # "restoring" => todo = {} /\ unfinished = {}
    /\ phase = "on" => open = known

\* An id that new_set() hands out names no set of any monitor.
FreshIds ==
    \A k \in Monitors : \A id \in Ids :
        find_set(models[k], id) => id < next_id

\* The models in use hide what is off stage and nothing else.
AllStaged == \A k \in InUse : Staged(models[k])

\* A hidden window has a group, so that release_leftover() and enable() find
\* it; enable() meets a hidden window only if it meets a group.
HiddenGrouped ==
    /\ \A w \in Windows \ open : group[w] = NoSet
    /\ phase = "on" => \A w \in open : group[w] # NoSet
    /\ phase = "down" => \A w \in hid : group[w] # NoSet
    /\ (phase = "restoring" /\ ~restored) =>
          /\ \A w \in open : group[w] = NoSet
          /\ \A w \in hid : out[w] \notin unfinished
          /\ \A k \in unfinished : models[k].inactive = {}

\* With the mode off nothing stays hidden or grouped, whether it was turned
\* off or found off by a shell that starts: "windows hidden by a previous
\* session are shown again".
OffShowsAll ==
    phase = "off" => hid = {} /\ \A w \in open : group[w] = NoSet

\* A set id names one set of one monitor, as activate() and move_window()
\* take it to (monitor_of_set() returns the first monitor it finds).
OneSetPerId ==
    \A j, k \in Monitors : \A id \in Ids :
        find_set(models[j], id) /\ find_set(models[k], id) => j = k
=============================================================================
