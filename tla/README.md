# Singularity shell: a TLA+ verification project

This directory models the parts of the Singularity desktop shell whose
correctness depends on the order of events: the session locker, the supervisor
of the X11 settings daemon, the window groups ("stage"), the list of windows and
workspaces, the displays with the lid switch, idling and its inhibitors, the
input method and the virtual keyboard, window previews, and the clipboard
history. The modules are translated from the code under `src/`, checked with TLC
on small instances and, for the properties that matter most, proved with TLAPS
for every value of the constants. `PROJECT.json` lists the runs, the source lines
of every definition, the hazards and the theorems in machine-readable form.

Running a check, in this directory:

    tlc -workers 2 -config LockScreen_lock.cfg MC_LockScreen
    tlapm LockScreenProofs.tla

## 1. The system

The shell is one GTK 4 process written in Vala (`src/src/core`,
`src/src/components`) with a C layer that speaks Wayland to the compositor
labwc (`src/src/wayland`), a separate locker process in C
(`src/src/lockscreen`), a few privileged helpers (`src/src/services`) and small
tools (`src/src/tools`).

Two facts shape every model:

- **One main loop.** Each process has one thread that runs Wayland handlers,
  GLib timeouts, idle callbacks and the continuations of asynchronous D-Bus
  calls. A callback is therefore atomic, and an action of a module is a whole
  callback. The exceptions are places that re-enter the dispatcher (a Wayland
  roundtrip inside a handler), which are split into two actions.
- **Everything else is asynchronous.** The compositor, child processes, D-Bus
  services, timers, hot-plugged outputs and crashes of the shell itself
  interleave freely between two callbacks. Most of the code's state exists to
  remember what was asked of whom: a pending timeout id, a pending call, the
  state a window is expected to reach.

### Inventory

| Component | State | Operations | Talks to | What is hard | What makes it correct |
|---|---|---|---|---|---|
| Session locker (`lockscreen/lock_main.c`, `lock_fprint.c`, `pam_auth.c`) | lock object, outputs and surfaces, frame callbacks, animation phase, password buffer, fingerprint calls | Wayland handlers, key handler, fprintd chain, unlock | compositor, fprintd, password broker, PAM | unlocking is paced by frame callbacks; a nested roundtrip; outputs that come and go; late D-Bus answers | unlocks only after authentication, and then surely; every output covered; lock object not used after destruction |
| X11 settings daemon (`core/xsettings_daemon.vala`) | child, its start time, quick exits, restart and reload timers, pid file | update, reload, stop, timeouts, exit handler | xsettingsd child, process table | two timers against exits and changes; pid reuse; crash of the shell | one child; no signal too early or to a stranger; no change lost; restarts stop after five quick exits |
| Window groups: model (`core/stage/stage_model.vala`) | active and inactive sets, owner of every window, hidden and user-minimized windows | add, remove, activate, move, adopt, restore | returns plans to the manager | many paths into and out of a set | sets well formed; off stage means hidden |
| Window groups: manager (`core/stage/stage_manager.vala`, `wayland/stage.c`) | one model per monitor, saved state, expected echoes | enable, disable, window and monitor handlers, activate, move | compositor (group number and hidden flag of each window), window list, D-Bus clients | restart in any state; monitors that come and go; windows that open or move while the shell is down | one group shown; flags agree with the compositor; a restart finds the same groups |
| Windows and workspaces (`wayland/wayland_integration.c`, `core/app_system.vala`) | valid handles, caches by handle, workspaces, groups, windows of each workspace, orphans | toplevel and workspace handlers, queries, requests, adoption | compositor, stage manager | handles are addresses that are used again; queries dispatch other events inside a handler; a workspace that goes away with windows on it | caches and requests are of live windows; no window falls off the workspaces |
| Displays (`core/display_manager.vala`, `wayland_integration.c`) | heads and modes, serial, configuration, monitors, saved arrangement, restore timer | head handlers, done, configure, answers | compositor, settings page, lid switch | a configuration races with hot-plug; refused and cancelled ones | a configuration covers the heads; the saved choice is shown in the end |
| Lid (`core/lid_manager.vala`) | closed, logind inhibitor, 800 ms timer, displays turned off | close, open, dock, act | UPower, logind, displays | answer of logind after the lid closes; displays that come and go meanwhile | a closed lid beside another display turns the panel off |
| Idle manager, inhibitors (`core/idle_*.vala`, `wayland/idle_notify.c`) | watches, fired set, blanked, dimmed, inhibitors, power of each output | idle and resume events, inhibit, rearm, wake | compositor, D-Bus clients, locker, logind | inhibitors against idle events; rearming while blanked; clients that die | an inhibitor is respected and released; who is back finds the screens on; an empty desk goes dark |
| Input method (`wayland/ime.c`, `core/input_method_service.vala`) | text field, grab, forwarded keys, queue of keys, engine | field and key handlers, engine answers, set grab | compositor, engine process | the grab goes in the middle of a key; engine answers late | no key stuck; keys in order; none waits for ever |
| Virtual keyboard (`wayland/vkbd.c`) | queue of texts, run, keymap uploaded, timer | type text, set layout, timer | compositor | keymap upload before the keys; layout changes | the text arrives character by character |
| Window previews (`wayland_integration.c`, `core/preview_cache.vala`, `components/app_switcher`) | buffer pool, requests, cache, tokens | capture, cancel, frame events, trim, clear | compositor, overview, switcher | cancelling what is in flight; a pool at its limit; allocation that fails | no buffer shared or lost; no freed request used; every caller answered |
| Clipboard history (`wayland/clipboard_watch.c`, `core/clipboard`) | offers, reads, own source, entries, pins, files | selection, read, copy, pin, save | compositor, applications, disk | late cancellations; reads in any order; crash in a save | secrets are not kept; the choice is served; pins and images on disk |
| Process terminator (`core/process_terminator.vala`) | targets with start times | add, TERM, poll, KILL | process table | pid reuse during the grace period | only recorded processes are signalled |
| Screen recorder (`core/screen_recorder.vala`) | child, kill timer, status | start, stop, status line, exit | recorder child | stop grace against exit and a new start | one recorder; an old child's events do not touch the new one |
| Search (`core/search`) | session, round, flush timer, cancellable | start, provider answer, cancel | providers | late answers after cancel | one finish; the last results are shown |
| Session recovery (`core/session_recovery.vala`) | snapshot, queue of placements | capture, restore, window opened | window list, compositor | windows that open in another order, or never | each entry is used at most once |
| Updates (`core/updates_scheduler.vala`) | running flag | run_automatic | package provider | `running` is kept across several awaits | every error path resets it |
| Others | see `PROJECT.json` | | | | |

The remaining components (notifications, parental controls, tiling, colour,
wallpapers, plugins, user interface, helpers, tools) are listed in
`PROJECT.json` with the reason why each is not modelled.

How the modelled components interact: the idle manager, the lid switch and the
power keys start the locker process; from then on the locker depends only on the
compositor and the authentication services, so it is a system of its own. The
settings daemon is driven by settings changes. The stage manager is driven by
the window list and by the monitor list, and leaves its only durable state (the
group number and hidden flag of each window) in the compositor. The compositions
that matter are inside modules: StageModel in StageSync, the lid switch with the
displays in Displays, the C layer with the Vala list above it in Windows,
Clipboard, Previews, Idle and InputMethod. Where one of them meets another, the
other side appears as free events: Windows has the stage manager's question
whether a window is tileable, Displays has another client of the output manager.

## 2. Plan

Done: XSettings, LockScreen, StageModel and StageSync; InputMethod, TypeText
(with its abstract specification Typing), Previews, Displays, Windows, Clipboard
and Idle; proofs for each of them.

Next, in this order:

1. The stage manager with requests and events in flight (`_expected`,
   `_switching`, `activate_later`, `is_minimized` lagging behind); StageSync is
   the abstract specification, and the question is whether the two agree once
   nothing is in flight.
2. The process terminator, the screen recorder and search: late events of
   something that was replaced.
3. Night light (the gamma controls of `wayland_integration.c`), session
   recovery, updates, app pause.

## 3. Modules

### XSettings

Models `core/xsettings_daemon.vala`. One tick is 500 ms, the unit of the
restart back-off.

- `child`, `quick_exits`, `restart_source`, `reload_source`, `stopping` are the
  fields of the class. GLib keeps timeouts alive even when the class has lost
  their id, so `timers` holds all of them and `restart_source` only says which
  one is remembered. `age` is the time since `started_at`, capped where the code
  stops to distinguish.
- `procs`, `ready`, `stale`, `state_file`, `available` are the world: what runs
  under each pid, whether the child has installed its SIGHUP handler and which
  version of the file it has read, the pid file, and whether the program and
  `DISPLAY` are there. They are modelled from how the code uses them.
- `start`, `reload`, `stop`, `on_child_exit`, `reload_timeout` and
  `restart_timeout` are the methods and callbacks. `Spawn` covers failure to
  spawn and failure to record the pid. `end_stale_instance` may give up waiting
  after its 500 ms, leaving the old process behind, as in the code.
- `ShellRestarts` is a crash (or end) of the shell at any moment between two
  callbacks; the parent-death signal reaches the child, the pid file stays.

`Tick` waits for timeouts that are due (the main loop dispatches them before it
sleeps) and for a child that has yet to become ready within its grace period:
the one-second `STARTUP_GRACE_USEC` is the code's own assumption about
xsettingsd. `restart_delay(q)` is `500u << min(q, 5)` in ticks.

### LockScreen

Models `lock_main.c`, `lock_fprint.c` and `pam_auth.c`.

- `outputs`, `surfaced`, `configured`, `frames` describe the list of outputs by
  what each has: a lock surface, a first configure, a pending frame callback.
- `phase`, `anim`, `shaking` are `anim_phase`, the clock of the animation
  reduced to unset, running and elapsed, and the shake of a wrong password.
- `rendered(S, m)` is the set of results of rendering the outputs of `S`: an
  output that still waits for a callback is skipped, buffer creation may fail on
  any output, and what was drawn may advance the phase and ask for a callback.
- `unlock_session` ends at its `wl_display_roundtrip()`, and `RoundtripDone` is
  the rest. In between, Wayland handlers may run (`Wayland`), GLib callbacks may
  not (`Glib`). `depth` counts nested roundtrips.
- `call`, `device`, `claimed`, `verifying`, `cancelled` are the statics of
  `lock_fprint.c`; each `on_...` continuation may be answered, fail, or come back
  cancelled.
- `authenticated` is history: a right password or a matching finger was seen.
  `unlocks` and `misused` record requests on the lock object; an unlock request
  releases the session only if the compositor had sent locked before it
  (`released`), and is the protocol error `invalid_unlock` otherwise (`refused`),
  after which the locker is gone (`CrashOfMisuse`). `daemon_verify`
  and `singularity_pam_authenticate` give the verdicts of broker and PAM.

`CompositorSends` is the compositor's part of ext-session-lock-v1: locked may
come at any time, finished may come at any time before the unlock.
VerifyStatus signals come from the VerifyStart call on, answered or not
(`Reporting`): `on_signal()` has no guard of its own, so this is said of fprintd.

### StageModel and StageSync

StageModel has one operator for each method of `stage_model.vala`: a model is a
record (`active`, `inactive`, `owner`, `hidden`, `user_minimized`) and a method
that returns a `StagePlan` is an operator that returns the new record with what
is to be hidden and shown. The order of the thumbnails is left out, so "the
first inactive set" is any of them. `WellFormed` and `Staged` say what the class
keeps.

StageSync is `stage_manager.vala` over a compositor that speaks version 2 of the
stage protocol and answers at once. Its handlers are actions; `enable()` is the
step `enable`, one `RestoreWindow` for each window, in any order, and one
`FinishRestored` or `FinishSplit` for each monitor, with nothing in between
(`phase = "restoring"`). The compositor's side (`open`, `out`, `minimized`,
`hid`, `group`, `plugged`) survives `ShellEnds`; the rest does not. Choices made
in the translation:

- Windows are announced before `start()`: connecting makes two roundtrips, so
  `enable()` sees every window. A new window has no group, so the branch of
  `on_window_opened` that restores one is not taken.
- `MonitorUnplugged(k, t)` is the order in which the monitor list changes before
  the windows report their new output; the other order is a number of
  `WindowMoves` steps. Two sets with one id on two monitors (see the
  observations in section 4) are not merged in this model: the action is then
  disabled.
- `singularity_stage_set_hidden`, `singularity_stage_set_group` and
  `singularity_stage_get_group` are the requests of `wayland/stage.c`, which the
  manager's actions use.
- The file `stage-groups.json` is `saved` with its pending timeout `save_due`;
  of its contents only the active set of each monitor matters here.

### InputMethod

Models `wayland/ime.c` and the queue of keys of `core/input_method_service.vala`.

- `im` is the input method object, `pending` and `current` the double-buffered
  text field, `want` the wish for keys, `kmset` whether the keymap has been
  forwarded.
- `kb` has the grab, `forwarded[]` (which remembers only keys below `KEY_COUNT`)
  and, on the compositor's side, the keys and modifiers the virtual keyboard
  holds down.
- `queue` and `asked` are the keys that wait for an engine, and the one it has
  been asked about; `events` numbers what comes from the compositor and `last` is
  the number that left last.
- One action for each handler of `ime.c`. `grab_key` has the five answers the
  callback may give (`a`) and lets the callback give up the grab in the middle
  (`w`). `drain_keys` is one turn of the coroutine: the answer, an error or a
  timeout of the engine.

### TypeText and Typing

TypeText models `wayland/vkbd.c`: `jobs` is what is left of every text, `run`,
`pend`, `inlayout` and `batch` describe the run in progress, `uploaded` what the
shell believes about the keymap and `km` the keymap the compositor has. A
character pressed under the wrong keymap arrives as `"wrong"`. `run_job` is one
run: choose it, upload the keymap if it differs, and a timer later press the
keys; a keymap whose memory cannot be had gives up the text.

Typing is the promise: texts are submitted, typed piece by piece in order, or
given up from some point to their end. `TypesExactly` says that TypeText
implements it under `todo <- jobs`, `out <- typed`.

### Previews

Models the capture requests and the buffer pool of `wayland_integration.c`, the
cache of `core/preview_cache.vala` and the items of the window switcher.

- `pool` has the geometry and the `in_use` flag of each slot, `req` the request
  objects, `pending` and `waiter` the cache and those who wait for it, `token`
  the capture each switcher item may cancel.
- `FrameEvent(r)` is what the compositor says about a frame: the geometry of the
  buffer (a free slot is reused, changed or made; this may fail), ready, or
  failed. A request is freed, and the pool trimmed, where the code does so.
- `request`, `clear`, `capture` and `on_destroy` are the calls of the users.

### Displays

Models the output manager's heads and configurations in
`wayland_integration.c`, `core/display_manager.vala` and `core/lid_manager.vala`.

- The compositor has heads, which of them are on, their modes and a serial; its
  batches of events wait in `evq`, configurations in `reqq`. It accepts, refuses,
  or cancels a configuration whose serial is old.
- `hd`, `current` and `live` are the C layer's heads and configuration objects;
  `mon`, `serial`, `topo`, `restore` and `saved` belong to the display manager;
  `closed`, `pending`, `dimmed` and `inhibitor` to the lid manager.
- `plug`, `unplug` and `alter` (another client) change the outputs,
  `apply_changes` is the settings page, `load_and_apply_saved` the restore timer,
  `act` the lid's timer or its retry, `take_inhibitor` the answer of logind.
- `saved` is what `displays.json` says of each display: whether it is on, and its
  mode, which a display that lacks it ignores (`FromFile`). No file is a file that
  names nothing. A file that is damaged when it is read (the change "damage")
  leaves everything as it is, without a configuration.
- `apply_configuration` is one `config_head_v2` for each monitor; a head that is
  turned off is sent without a mode. Its third caller, `BatteryRefresh.update`, is
  not modelled.

### Windows

Models the toplevels, workspaces, groups and queries of `wayland_integration.c`
and the lists of `core/app_system.vala`.

- A handle is an address: once its proxy is destroyed, a new window may have the
  same one. `valid_handles`, `outmap`, `geom` and `title` are the caches by
  handle; `winof` gives the Window object of a handle. A Window is the pair of its
  handle and a number (`Win`), so that two windows at one address differ.
- `stack` holds the roundtrips that have not returned: `window_is_tileable`,
  `get_window_geometry` and `get_window_workarea` send a question and dispatch
  events until the answer is there, so every handler may run inside a handler
  that asks. `Return` is the rest of the caller.
- `spaces` and `orphans` are the workspaces with their windows, and the windows
  whose workspace is gone; `idle` holds the idle callbacks, which adopt orphans
  and follow a window to another monitor. The loop of `adopt_orphan_windows()` is
  a recursive function, `Adoption`, whose argument is the number of orphans done.
- `PerMonitor` says that each output has a group of workspaces of its own. The run
  and the theorems about the lists and the types assume it, the other theorems do
  not.

### Clipboard

Models `wayland/clipboard_watch.c`, `clipboard_model.vala` and
`clipboard_history.vala`, with data control and with the GDK fallback.

- `sel` is the selection in the compositor, `evq` the events on their way, `own`
  the source of the shell and its data, `jobs` the reads under way; reads go on
  in any order, in pieces of 64 KiB, and may be cut short by an error.
- `entries`, `limit`, `enabled` and `save_id` are the history. `disk` is
  `pinned.json` with the image files. In every save each image and the index may
  fail to be written; `crash` ends the shell after 0, 1 or 2 steps of a save, with
  any of the images written. `failed` is history: a write of the last save failed.
- A text is taken to be valid UTF-8 without NUL, for which `ClipboardEntry.text`
  is the data itself. A `pinned.json` that is there and cannot be read, and a
  pruning that fails (it leaves files no one names), are left out.

### Idle

Models `core/idle_manager.vala`, `core/idle_inhibitors.vala` and
`wayland/idle_notify.c`.

- `notif` is the compositor's view of the watches, `evq` their events, `power`
  and `hotplug` the outputs; a watch that is dropped takes its events with it.
- `fired`, `idle_since`, `dimmed`, `blanked` and the probe belong to the idle
  manager, `inhib`, `watches` and `next_cookie` to the inhibitors. `add`,
  `remove`, `client_dies` and `release_sender` are what bus clients do.
- `asked` records who decided by `SetActive`, `stale` that the watches were
  renewed in an idle session: both are history, for the properties only.

## 4. Runs

Each module `M` has an instance `MC_M` with the values of its constants.

| Run | Instance | Result |
|---|---|---|
| `xsettings_supervise` (MC_XSettings) | 2 pids, 3 quick exits, 2 timers; 122 000 states | holds: `OneInstance`, `NoEarlyHup`, `RestartArmed`, `ChangeReachesChild` |
| `lock_session` (MC_LockScreen) | 2 outputs, 2 nested roundtrips; 82 000 states | holds: `TypeOK`, `UnlockOnlyAfterAuth`, `EveryOutputCovered`, `UnlocksLocked`, `FprintStaysStopped`, `LeaveUnlocks` |
| `lock_use_after` (MC_LockScreen) | 2 outputs | `LockNotUsedAfterDestroy` violated |
| `stage_monitors` (MC_StageSync) | 2 monitors, 2 windows, quiet restarts; 115 000 states | holds: `OneSetPerId`, `GroupsNotMixed`, `GroupsKept` |
| `stage_shown` (MC_StageSync) | 2 monitors, 2 windows, anything while down; 176 000 states | holds: `OneGroupShown`, `FlagsMatch`, `OffShowsAll` |
| `input_method` (MC_InputMethod) | 3 keys, one of them beyond `KEY_COUNT`, 3 key events | holds: `HeldKeysRecorded`, `KeysInOrder`, `QueueDrains` |
| `type_text` (MC_TypeText) | 3 texts, 2 layouts, keymaps of 2 keys that may fail | holds: `TypesExactly`, `EveryTextTyped` |
| `previews` (MC_Previews) | 2 slots, 3 requests, 2 callers of one key, 1 item; 56 000 states | holds: `PoolOwned`, `TokensInFlight`, `WaitersAnswered` |
| `displays` (MC_Displays) | a panel and an external display, 4 files, 3 changes from outside; 651 000 states | holds: `MonitorsMirrorHeads`, `ConfigCoversHeads`, `SavedIsRestored`, `DockedPanelOff` |
| `windows` (MC_Windows) | 1 address, 2 windows, 2 outputs, 3 workspaces, 3 changes; 2 400 000 states | holds: `HandlesLive`, `TileableFresh`, `NoWindowLost`, `NoDeadRequest` |
| `clipboard` (MC_Clipboard) | a text, an image, a secret, white space, writes that fail; 1 396 000 states | holds: `SecretsNotKept`, `SelectionServed`, `ImagesOnDisk`, `PinsSurvive` |
| `idle` (MC_Idle) | 1 client, 2 inhibitors, 2 outputs, 3 changes; 547 000 states | holds: `InhibitedIsLit`, `HoldersWatched`, `PresentIsLit`, `AwayGoesDark` |

Every property of a passing run has a mutant in `PROJECT.json`: an operator that
differs from the code's by a plausible slip (a dropped guard, a missing reset)
and breaks it. The mutants stand beside the definitions they vary
(`frame_done_any_phase`, `start_without_child_check`, `workspace_handle_removed_lost`,
...).

### Where code and text disagree

The run `lock_use_after`: during the roundtrip of `unlock_session()` the lock
pointer and the leave phase are as before, so an output that appears gets a lock
surface from the destroyed lock, and one that disappears can unlock again. The
finding in `PROJECT.json` quotes the protocol.

Other observations met while modelling. They bound what the passing runs claim:

- XSettings: `on_child_exit()` overwrites `restart_source` while an older timer
  is pending, because `reload()` starts a child without removing it. The leaked
  timer may restart the child after the daemon said it would "not restart until
  the next settings change".
- LockScreen: `begin_leave()` takes "no output is configured" as a reason to
  unlock at once (`lock_main.c:534-536`), which is also true before the locked
  event, when only a finger can have matched. That request is the protocol error
  `invalid_unlock` (`ext-session-lock-v1.xml:127-128, 225-227`). `UnlocksLocked`
  excepts this request, by name, and says that it is the only one: no order of
  outputs, frames and the locked event leads to another. `LeaveUnlocks` asks for
  a request the compositor takes, or the end of the locker.
- StageSync: `sync_monitors()` does not call `sync_tags()`, so windows adopted by
  another monitor keep the number of a set that is gone until the next change
  (`GroupsNotMixed` says that the number is at least of no other set). A window
  without a group that `enable()` meets first gets an id that a later window's
  group already has, and a window dragged to another monitor while the shell is
  down takes its set id there: hence `QuietWhileDown` in `stage_monitors`.
- Displays: the configuration that turns the panel on again when the lid opens
  is not retried when the compositor cancels it, so the panel may stay off
  (`lid_manager.vala:131`, `wayland_integration.c:1543`); `DockedPanelOff` is
  about the other direction, which is retried.
- Displays: `act()` does nothing without logind's inhibitor (`lid_manager.vala:93`)
  and clears the pending timer; when logind answers after the 800 ms,
  `take_inhibitor()` schedules nothing (`lid_manager.vala:45-59`), so the panel of
  a closed, docked laptop stays on until the displays change. `DockedPanelOff`
  excepts this (`~pending /\ ~inhibitor`) and a refused configuration.
- Windows: when the leave event of the old output comes after the enter event of
  the new one, the window is left without a monitor (`wayland_integration.c:744`).
- TypeText: a change of the layout between the upload of a keymap and its key
  presses types characters of the other layout. The constant `LayoutMoves` turns
  this on; `TypesExactly` holds without it.
- Idle: watches that are renewed while the screens are dark have not fired, so
  they do not tell when the user comes back: the screens stay dark until they
  have fired and the user is active again. `PresentIsLit` excludes this as
  `stale`.
- Idle: an output that is plugged in while the screens are off is not turned off
  (`idle_notify.c:118-127` does not apply `want_on`). `AwayGoesDark` speaks of
  what the manager believes (`blanked`), and excepts a caller whose
  `SetActive(false)` was the last to turn the screens on.
- Clipboard: a save that fails is not retried. The timer's id is cleared first, a
  failed write of `pinned.json` is only a warning, and `prune_images()` runs all
  the same (`clipboard_history.vala:142-150`), so the old index may name images
  that are gone; a failed write of an image is a warning too, and the image is
  named (`clipboard_model.vala:160-165`). `ImagesOnDisk` and `PinsSurvive` except
  what this leaves behind (`failed`), until a save succeeds.
- Clipboard: a pin made less than 500 ms before a crash is lost, as the save is
  still due; `PinsSurvive` says that nothing else is.
- Clipboard: a read that fails half way makes an entry of what had arrived
  (`clipboard_watch.c:127`), and a lower history limit trims at the next copy only.

### Bounds

- XSettings: two pids are one more than the daemon ever needs, so a leftover
  child or a stranger can hold one while the other is in use. `QuickExit = 4` and
  `MaxQuickExits = 3` keep the order `ReloadDelay < StartupGrace < QuickExit` and
  let a run of quick exits, a give-up, and a slow exit that ends the run all
  occur. Two timers are one remembered and one leaked timer; `on_child_exit`
  waits when `MaxTimers` is reached.
- LockScreen: two outputs are one that stays and one that comes and goes. A
  password buffer of 4 bytes and key texts of 2 meet the boundary of the length
  check. Two nested roundtrips are a handler inside the roundtrip that starts
  another one.
- StageSync: `MaxId = 3` set ids in one life of the shell allow a set on each of
  two monitors plus a new one. `RoomForIds` lets `enable()` run only when it
  cannot run out in the middle.
- InputMethod: three events are a press, another press and a release, so that a
  key waits for the engine while another follows, and one is released after its
  field is gone.
- TypeText: texts that mix characters of the layout and others, one with more
  different characters than a generated keymap has keys.
- Previews: three requests fill a pool of two slots; one key with two callers is
  the case in which callers are joined.
- Displays: two heads and two configuration objects let a configuration be
  cancelled by a plug while the next one is made. Three changes are, for
  instance, unplug, plug and lid. The files name no display, or want the panel at
  its second rate, or the external display off, or on in a mode it does not have.
- Windows: one address with two windows is the reuse of an address; two outputs
  with workspaces of their own, one of which goes, make orphans. Events in flight
  are bounded by `MaxQueue` only when the compositor starts something new.
- Clipboard: the image needs two reads, so another selection comes in between;
  `MaxSets = 2` is a cancellation that is under way while the next source is made.
- Idle: two inhibitors of one client that are about idling or only about
  suspending; mains (dim, blank) and battery (blank, suspend) differ in their
  watches, so that a change of the charger renews them.

### Deadlock

Deadlock is checked in `xsettings_supervise`, the stage runs and `previews`. The
other configurations say `CHECK_DEADLOCK FALSE`: the locker ends, and the
changes from outside (events, texts, plugs, copies) are bounded, after which
nothing is left to do.

### Fairness

- XSettings: weak fairness of the reload and restart timeouts, of the exit
  handler, of `ChildReady` and of `Tick`. The main loop dispatches a source that
  is due, GLib reports a child that has ended, time passes, and an xsettingsd
  that runs reads its file. Nothing is assumed about exits, changes, `DISPLAY`
  or crashes.
- LockScreen: weak fairness of some frame callback (the compositor presents the
  lock surfaces that ask for it), of the passing of time, of the answer to a
  roundtrip, and of a repaint that succeeds in drawing something (the loop
  repaints every minute; a buffer that cannot be created once is not refused
  forever). Nothing is assumed about users, sensors or outputs; `LeaveUnlocks`
  excludes by its hypothesis that outputs change forever.
- InputMethod: weak fairness of `drain_keys`: a D-Bus call returns, with an
  answer, an error or its timeout. TypeText: weak fairness of the timer.
- Previews: weak fairness of the events of each frame; the protocol ends every
  frame with ready or failed.
- Displays: the compositor answers configurations, events are dispatched, the
  restore timer and the lid's timer fire. Nothing is assumed of logind, which may
  answer late or never. `SavedIsRestored` excludes refusals by its hypothesis,
  `DockedPanelOff` refusals and a late logind.
- Idle: `start`, the delivery of events, the probe's timer, the expiry of a watch
  while nobody is there, and the report of a bus name that is gone.
- Windows states the fairness of its event loop, which none of its present
  properties needs. StageSync and Clipboard state no liveness.

## 5. Proofs

The theorems hold for any number of pids, timers, outputs, windows, monitors,
applications, keys, texts, buffers and clients, under the `ASSUME`s of the
modules: `NoPid` is not a pid; delays are positive and the grace period is not
longer than a quick exit; the password buffer has at least two bytes; texts are
not empty; names of different kinds differ; bounds are positive; a head announces
at least one mode; every clip has a number of chunks, and a clip
from a nearby device carries no password hint; addresses of windows and workspace
groups are finitely many, and every group has an output and a workspace.

- **XSettingsProofs.** `TypeCorrect`, then `SafetyInv`, the conjunction of
  `OneInstance`, `NoDanglingSource`, `ReloadAfterGrace`, `NoLostReload` and
  `RestartArmed` with the type invariant. `NoEarlyHup` is not inductive: nothing
  in it excludes a timeout that was set for an older child. `ReloadAfterGrace`
  does (the timeout belongs to the child that is held, and age plus remaining
  time reach the grace period), and implies it. `SparesOthersAlways` is an
  action property that follows from the test of the process's identity.
- **LockScreenProofs.** First lemmas on what rendering may change (a rendered
  motion keeps the leave phase, asks for callbacks only of configured outputs).
  `LockInv` adds to the properties `AuthInv` (the leave phase is entered only
  after authentication; `UnlockOnlyAfterAuth` alone is not inductive, because
  the unlock happens frames later), `DepthInv` (a roundtrip on the stack means an
  unlock was sent), `FprintInv` (a stopped chain holds no claim) and `LockedInv`
  (surfaces, and with them passwords and frame callbacks, exist only from the
  locked event on), from which `UnlocksLocked` follows.
- **StageSyncProofs.** The first part is about StageModel alone: for every
  operation of the class a lemma that it keeps `WellFormed` and `Staged` and that
  its plan accounts for every change of `hidden`; `RestoreFinish` and `Adopt` are
  the two of interest by themselves. The inductive invariant `Inv` of the manager
  adds `Placed` (windows are in the model of their monitor), `FreshIds` (a new id
  names no set), `AllStaged` and `HiddenGrouped` (a hidden window has a group, so
  that a shell that starts finds it) to the properties. `OneGroupShown` follows
  from `AllStaged` and `FlagsMatch`. One lemma for each action.

  The last part is about a restart in peace, so its theorems (`OneSetPerIdAlways`,
  `GroupsNotMixedAlways`, `RestartKeepsGroups`) have the hypothesis
  `QuietWhileDown`: no window opens or moves while the shell is down. None of the
  three properties is inductive: what `enable()` finds are the tags that were left
  in the compositor. `QuietInv` says what they are worth in each phase: below
  `next_id` while the shell is on (`TagsOld`); windows with one tag are on one
  monitor (`TagsTogether`); while the shell is down either all windows have a tag
  or none has one (`AllOrNone`), which excludes the branch of `restore_finish()`
  that would invent a set beside them; and during a restore every window of a
  model is in the set its tag names, and a monitor that is not finished has no
  active set (`AsTagged`).
- **KeyboardProofs**, about InputMethod and TypeText. `GrabInv` is the type
  invariant with `KbOK` (held keys are recorded and modifiers end with the grab),
  `OrderOK` (the numbers of queued keys ascend and lie after `last`, without which
  `KeysInOrder` cannot be shown), `GrabAsWanted` and `StartOK`. Lemmas show that
  each helper of `ime.c` keeps `KbOK`; then one step for each handler.
  `HeldKeysAreRecorded` and `KeysStayInOrder` are properties of the run;
  `GrabIsAsWanted`, `ModifiersEndWithGrab` and `UngrabReleasesKeys` are proved
  only. For TypeText, `QueueInv` (a run lies within the first text, a queue has
  its timer) holds always. `KInv` (what is believed of the keymap is true, and the
  run that waits has its characters in it) holds if the layout holds still during
  a run and can be uploaded (`Steady`), and gives the refinement
  `TypeTextImplementsTyping`: each step of TypeText is a step of Typing or
  changes neither `jobs` nor `typed`. (So that one module can extend both, the
  standard definitions of InputMethod are called `ImInit`, `ImNext`, `ImSpec`,
  `ImTypeOK` and `imVars`.)
- **WaylandProofs**, about Previews. `PInv` strengthens `PoolOwned` to `BuffersOwned`, which
  tells for every request whose buffer it has, and adds `WaitersHaveCapture` (a
  caller that waits has a capture in flight, also after `clear()`): the safety
  part of `WaitersAnswered`.
- **WaylandProofs**, about Windows. A handle is an address that is used again, so
  `HandlesLive` holds only because events of an old window never come after those
  of a new one. `WinInv` says that of the queue: of one handle, toplevel is the
  first event and closed the last (`InOrder`); every event is of a handle that has
  a proxy or is announced before it (`Introduced`); a window is open at the
  compositor exactly if its handle is known and no closed event is under way
  (`Ends`). Hence whatever a handler writes into a map is of a live proxy
  (`HeadKnown`). For `TileableFresh` the invariant follows the answers too: one
  that is no longer true has a parent event behind it (`AnswersFresh`). Four
  lemmas carry the actions: events the compositor adds (`Told`), a window that
  opens (`Opens`) or closes (`Closes`), and an event that is handled (`Handled`).
  That the lists of events made with `FlattenSeq` and `SetToSeq` are sequences of
  events is shown by induction as in ClipboardProofs (`Flat`, `Listed`). The
  theorems hold for queries nested to any depth, as `WinInv` does not depend on
  `stack`.

  `NoWindowLost` is about what the shell believes of workspaces, and its invariant
  is `ListInv`. The shell hears of the workspaces of an output in several events
  (that a group has the output, that a workspace is in the group, has a name, is
  active), and any number of them may be under way when a window opens, closes or
  loses its workspace. `AllTold` says, for each group whose output is plugged, that
  apart from the events in flight the shell knows the group's output, its
  workspaces and the active one: either it knows already and no event will take
  that back, or the last event that decides is one that says so (`LastIs`; for the
  active workspace, which is first named and then activated, two of them in that
  order, `LastAre`). `EvsRight` says that events of a group are about its own
  outputs and workspaces, and `AllSafe` that every open window is held by a
  workspace, waits with the callback of adoption scheduled, or is in the midst of
  opening. The callback runs when no event is left, so by `AllTold` the shell then
  knows every workspace of every plugged output, and the active one; hence the
  monitor of an orphan has one that can take it (`TargetThere`), and the loop,
  followed one orphan at a time (`AdoptionRound`), leaves none behind. Moving a
  window takes it out of one list and into another in one step (`PlacedLists`),
  and a workspace that is removed hands all its windows to the orphans
  (`RemovedLists`).

  `NoWindowIsLost` and `WinTypeCorrect` have the hypothesis `PerMonitor`, and the
  first needs it: with a group on two outputs beside groups on one, TLC finds an
  orphan on an output for which `get_workspaces_for_monitor` lists nothing, and
  `adopt_orphan_windows` then places it nowhere. (The standard definitions of
  Windows are called `WinInit`, `WinNext`, `WinSpec`, `WinTypeOK` and `winVars` so
  that one module can extend both.)
- **IdleProofs.** `BusInv`: `dbus_inhibited` agrees with the inhibitors, their
  senders are watched, and an inhibitor keeps the screens lit. `ScreenInv`: an
  output without power is one the shell knows, so turning the screens on reaches
  it; it gives `LitScreensHavePower`. `WatchInv`, for `PresentIsLit`: the property
  speaks of an empty queue, so the invariant has to say what is in it. Every idle
  event in the queue, every watch in `fired` and whatever is dark without being
  asked for is `Awaited`: a resume of that watch is behind it in the queue, or the
  watch is idle at the compositor, which will send one. The three are independent
  of each other and proved apart.
- **ClipboardProofs.** The history is a list the code filters again and again.
  `Filter` is a recursive function; that its recursion has a solution
  (`FilterDef`), that it returns members of the list that belong to the set
  (`FilterType`), and returns the list itself if they all do (`FilterAll`) is
  shown by induction for a set of naturals (`SetInduction`), which follows from
  the well-foundedness of `<` in the library and needs no operator parameter. The
  inductive invariant is `SourcesOK` (no job, source or event under way carries a
  secret but an application's own offer; a source that is the selection has not
  been cancelled; the numbers of sources that were made bound all those in
  flight), `HistoryOK` (list and disk hold only safe data), `SelectionServed`,
  `ImagesOnDisk` and `PinsSaved` (the pins are on the disk, or a save is due, or a
  write failed). `AfterStep` tells what each step of a save leaves on the disk,
  whatever fails; `CrashDisk` what a crash leaves of it; and a disk that has every
  image its index names loads as the list that was saved (`LoadAll`), which gives
  `PinsSurvive`. `SelectionServed` needs the second conjunct: a late cancellation
  names an older source.
- **DisplaysProofs.** `ConfigCoversHeads` compares what the shell knew when it
  made a configuration with what the compositor has when it takes it. `Inv` adds
  what connects the two: `Told` (apart from the events in flight, the last of
  which decides for each head, the shell knows the heads), `Batched` (an event
  about a head is followed by a done event), `DoneSerials` (done events carry
  ascending serials the shell has not seen) and `OldSerials` (no serial is ahead
  of the compositor). If the shell's serial is the last one, no done event is in
  flight, hence no event about a head, hence the shell knows the heads
  (`UpToDate`); otherwise the configuration is cancelled. Three lemmas do the work
  for all actions: one for steps that add events (`Announced`), one for handlers
  (`Handled`) and one for configurations (`Configured`).

Each of these invariants was checked with TLC, on the constants of the run,
before it was proved.

Only model-checked: liveness (`ChangeReachesChild`, `LeaveUnlocks`,
`QueueDrains`, `EveryTextTyped`, `WaitersAnswered`, `SavedIsRestored`,
`DockedPanelOff`, `AwayGoesDark`), because fairness is out of the prover's reach.

## 6. What is not modelled

- Requests in flight between the stage manager and the compositor, its
  `_expected` and `_switching` state, version 1 of the protocol, and a crash in
  the middle of `enable()`. StageSync shows what the design promises when every
  request has been answered.
- The order of thumbnails, rectangles, strips and animations; positions, scale
  and transforms of displays; titles, icons and the order of recent use of
  windows; workspaces the shell itself creates.
- The text of `~/.xsettingsd`, command lines and `/proc`: `owns_process` is the
  verdict of the comparison.
- Drawing, fonts, the media card and notifications of the locker; the wording of
  status lines.
- Of input: the engines themselves, their popups and preedit text, the on-screen
  keyboard's pointer (`osk.c`), the paste key strokes, and a virtual keyboard that
  cannot be made. Of idling: the windows and brightness that dim the screen, and
  what locking and suspending do. Of displays: night light and the gamma controls.
- Memory and numeric behaviour inside libraries, the compositor, PAM and fprintd,
  which are external and appear only through what they may send.
- The components listed as not modelled in `PROJECT.json`, with their reasons.
