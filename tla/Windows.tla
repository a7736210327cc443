------------------------------ MODULE Windows -------------------------------
(***************************************************************************)
(* Windows and workspaces: the toplevel handles, workspaces, groups and    *)
(* per-window caches of src/src/wayland/wayland_integration.c, and the     *)
(* lists src/src/core/app_system.vala keeps from their events.             *)
(*                                                                         *)
(* The events of the compositor (external) come in order on one            *)
(* connection.  A query (tileable, geometry, workarea) waits for its       *)
(* answer in wl_display_roundtrip, which dispatches every event before it: *)
(* other handlers, and their queries, run inside the caller.  A handle is  *)
(* an address, free for a new window once its proxy is destroyed.  The     *)
(* order of recent use, titles, icons and the running-app list are left    *)
(* out, and so are workspaces the shell itself creates.                    *)
(***************************************************************************)
EXTENDS Naturals, Sequences, SequencesExt

CONSTANTS
  Handles,     \* addresses of toplevel handles
  Outputs,     \* outputs, the connectors of monitors
  Groups, OutsOf, SpacesOf,  \* groups: their outputs and their workspaces, in order
  MaxOpens,    \* bound: Window objects
  MaxQueue,    \* bound: events in flight when the compositor changes something
  MaxChanges,  \* bound: changes from outside
  Changes,     \* the kinds of change in this instance
  StageOn      \* the window groups ask about every window that opens

ASSUME WinBoundsAssumption == {MaxOpens, MaxQueue, MaxChanges} \subseteq Nat /\ StageOn \in BOOLEAN
Phantom == "null"   \* the handle of the workspace made when none is known
Spaces == UNION {Range(SpacesOf[g]) : g \in Groups}
ASSUME GroupsAssumption ==
  /\ "none" \notin Handles \cup Outputs \cup Groups /\ Phantom \notin Spaces
  /\ OutsOf \in [Groups -> SUBSET Outputs] /\ SpacesOf \in [Groups -> Seq(Spaces)]
  /\ \A g \in Groups : OutsOf[g] # {} /\ SpacesOf[g] # <<>>
ASSUME FiniteAssumption == IsFiniteSet(Handles) /\ IsFiniteSet(Groups)

\* Workspaces per monitor: every output has a group of its own.
PerMonitor ==
  /\ Outputs # {} /\ \A o \in Outputs : \E g \in Groups : OutsOf[g] = {o}
  /\ \A g, k \in Groups : g # k => /\ OutsOf[g] \cap OutsOf[k] = {}
                                  /\ Range(SpacesOf[g]) \cap Range(SpacesOf[k]) = {}

ASSUME ChangesAssumption ==
  Changes \subseteq {"drag", "parent", "focus", "plug", "switch", "move", "query", "request",
               "unnamed"}

VARIABLES
  top, plugged, active, reqq, changes,  \* the compositor
  evq,                                  \* events on their way to the shell
  proxy, valid_handles,                 \* proxies not destroyed, and ctx.valid_handles
  outmap, geom, title,                  \* toplevel_output_map, geometry_map, toplevel_title_map
  wsgroup, gouts, ctxgroup,   \* workspace_group_map, group_outputs_map, ctx.workspace_group
  winof, opens,               \* AppSystem.windows: the number of the Window of each handle
  spaces, orphans,            \* workspaces with their windows, orphan_windows
  focused, minimized,         \* current_focused_window_handle, is_minimized
  idle, stack                 \* idle callbacks; roundtrips that have not returned

compositor == <<top, plugged, active, reqq, changes>>
caches == <<proxy, valid_handles, outmap, geom, title>>
groups == <<wsgroup, gouts, ctxgroup>>
lists == <<winof, opens, spaces, orphans>>
focus == <<focused, minimized>>
winVars == <<compositor, evq, caches, groups, lists, focus, idle, stack>>

NoEntry == [entry |-> FALSE, got |-> FALSE, workarea_got |-> FALSE, tileable_got |-> FALSE, tileable |-> FALSE]
NoTop == [live |-> FALSE, outs |-> {}, tile |-> TRUE]

WinTypeOK ==
  /\ top \in [Handles -> [live : BOOLEAN, outs : SUBSET Outputs, tile : BOOLEAN]]
  /\ plugged \subseteq Outputs /\ active \in [Groups -> Spaces] /\ changes \in 0..MaxChanges
  /\ proxy \subseteq Handles /\ valid_handles \subseteq Handles /\ title \subseteq Handles
  /\ outmap \in [Handles -> Outputs \cup {"none"}]
  /\ \A h \in Handles : DOMAIN geom[h] = DOMAIN NoEntry
  /\ wsgroup \in [Spaces -> Groups \cup {"none"}] /\ gouts \in [Groups -> SUBSET Outputs]
  /\ ctxgroup \in Groups \cup {"none"}
  /\ winof \in [Handles -> Nat] /\ opens \in Nat
  /\ focused \in Handles \cup {"none"} /\ minimized \subseteq Handles
  /\ \A i \in 1..Len(spaces) : /\ spaces[i].w \in Spaces \cup {Phantom}
                               /\ Range(spaces[i].wl) \subseteq [h : Handles, n : Nat]

\* The shell starts beside a compositor that has workspaces and no windows: the
\* groups were announced one after the other, each with its workspaces.
WinInit ==
  /\ top = [h \in Handles |-> NoTop] /\ plugged = Outputs /\ reqq = <<>> /\ changes = 0
  /\ active = [g \in Groups |-> SpacesOf[g][1]]
  /\ evq = <<>>
  /\ proxy = {} /\ valid_handles = {} /\ title = {}
  /\ outmap = [h \in Handles |-> "none"] /\ geom = [h \in Handles |-> NoEntry]
  /\ wsgroup = [w \in Spaces |-> CHOOSE g \in Groups : w \in Range(SpacesOf[g])]
  /\ gouts = OutsOf /\ ctxgroup \in Groups
  /\ winof = [h \in Handles |-> 0] /\ opens = 0
  /\ \E order \in SetToSeqs(Groups) :
       LET s == FlattenSeq([i \in 1..Len(order) |-> SpacesOf[order[i]]])
       IN spaces = [i \in 1..Len(s) |-> [w |-> s[i], act |-> \E g \in Groups : s[i] = SpacesOf[g][1],
                                         wl |-> <<>>]]
  /\ ctxgroup = wsgroup[spaces[1].w]
  /\ orphans = <<>> /\ focused = "none" /\ minimized = {} /\ idle = <<>> /\ stack = <<>>

----------------------------------------------------------------------------
(* The compositor *)

Ev(kind, h) == [ev |-> kind, h |-> h]
Change(kind) == kind \in Changes /\ changes < MaxChanges /\ changes' = changes + 1
Room == Len(evq) < MaxQueue
Shell == <<caches, groups, lists, focus, idle, stack>>

Activated(h, a, m) == [ev |-> "state", h |-> h, act |-> a, min |-> m]
Enter(h, o) == [ev |-> "enter", h |-> h, o |-> o]
Leave(h, o) == [ev |-> "leave", h |-> h, o |-> o]
Of(g, w) == [ev |-> "", h |-> "none", g |-> g, w |-> w]
GroupEv(kind, g, w) == [Of(g, w) EXCEPT !.ev = kind]
SpaceState(w, a) == [ev |-> "wsstate", h |-> "none", w |-> w, act |-> a]

\* A window without an app_id is never opened for the shell.
map(h, o, named) ==
  /\ Room /\ IF named THEN UNCHANGED changes ELSE Change("unnamed")
  /\ ~top[h].live /\ h \notin proxy /\ (\A i \in 1..Len(evq) : evq[i].h # h)
  /\ opens + Cardinality({x \in Handles : \E i \in 1..Len(evq) : evq[i] = Ev("app_id", x)}) < MaxOpens
  /\ o \in plugged
  /\ top' = [top EXCEPT ![h] = [live |-> TRUE, outs |-> {o}, tile |-> TRUE]]
  /\ evq' = evq \o <<Ev("toplevel", h), Ev("title", h)>>
                \o (IF named THEN <<Ev("app_id", h)>> ELSE <<>>)
                \o <<Enter(h, o), Activated(h, TRUE, FALSE)>>
  /\ UNCHANGED <<plugged, active, reqq, Shell>>

unmap(h) ==
  /\ Room /\ top[h].live
  /\ top' = [top EXCEPT ![h] = NoTop]
  /\ evq' = Append(evq, Ev("closed", h))
  /\ UNCHANGED <<plugged, active, reqq, changes, Shell>>

\* A window is dragged over the edge of an output.
drag(h, o) ==
  /\ Room /\ Change("drag") /\ top[h].live /\ o \in plugged
  /\ \/ o \notin top[h].outs /\ top' = [top EXCEPT ![h].outs = @ \cup {o}]
        /\ evq' = Append(evq, Enter(h, o))
     \/ o \in top[h].outs /\ top[h].outs # {o} /\ top' = [top EXCEPT ![h].outs = @ \ {o}]
        /\ evq' = Append(evq, Leave(h, o))
  /\ UNCHANGED <<plugged, active, reqq, Shell>>

\* It becomes a dialog of another window, or stops being one.
reparent(h) ==
  /\ Room /\ Change("parent") /\ top[h].live
  /\ top' = [top EXCEPT ![h].tile = ~@]
  /\ evq' = Append(evq, Ev("parent", h))
  /\ UNCHANGED <<plugged, active, reqq, Shell>>

restate(h, a, m) ==
  /\ Room /\ Change("focus") /\ top[h].live /\ ~(a /\ m)
  /\ evq' = Append(evq, Activated(h, a, m))
  /\ UNCHANGED <<top, plugged, active, reqq, Shell>>

switch(g, w) ==
  /\ Room /\ Change("switch") /\ w \in Range(SpacesOf[g]) \ {active[g]} /\ OutsOf[g] \cap plugged # {}
  /\ active' = [active EXCEPT ![g] = w]
  /\ evq' = evq \o <<SpaceState(active[g], FALSE), SpaceState(w, TRUE)>>
  /\ UNCHANGED <<top, plugged, reqq, Shell>>

\* The windows of a lost output move to another; a workspace leaves its group
\* before it is removed, and all have left before the group is.
unplug(o, to) ==
  LET gone == {g \in Groups : OutsOf[g] \cap plugged = {o}}
      moved == {h \in Handles : top[h].outs = {o}}
      on == {h \in Handles : o \in top[h].outs}
      ends == FlattenSeq([i \in 1..Cardinality(gone) |->
                LET g == SetToSeq(gone)[i] IN
                FlattenSeq([j \in 1..Len(SpacesOf[g]) |->
                  <<GroupEv("wsleave", g, SpacesOf[g][j]), GroupEv("wsremoved", g, SpacesOf[g][j])>>])
                \o <<GroupEv("gremoved", g, o)>>])
  IN /\ Room /\ Change("plug") /\ o \in plugged /\ to \in plugged \ {o}
     /\ plugged' = plugged \ {o}
     /\ top' = [h \in Handles |-> IF h \in moved THEN [top[h] EXCEPT !.outs = {to}]
                                  ELSE [top[h] EXCEPT !.outs = @ \ {o}]]
     /\ evq' = evq \o SetToSeq({Enter(h, to) : h \in moved}) \o SetToSeq({Leave(h, o) : h \in on})
                   \o SetToSeq({GroupEv("gleave", g, o) : g \in {x \in Groups : o \in OutsOf[x]}})
                   \o ends
     /\ UNCHANGED <<active, reqq, Shell>>

plug(o) ==
  LET new == {g \in Groups : o \in OutsOf[g] /\ OutsOf[g] \cap plugged = {}}
      starts == FlattenSeq([i \in 1..Cardinality(new) |->
                  LET g == SetToSeq(new)[i] IN
                  <<GroupEv("group", g, o)>> \o
                  FlattenSeq([j \in 1..Len(SpacesOf[g]) |->
                    LET w == SpacesOf[g][j] IN
                    <<GroupEv("wsenter", g, w), GroupEv("wsname", g, w), SpaceState(w, w = active[g])>>])])
  IN /\ Room /\ Change("plug") /\ o \notin plugged
     /\ plugged' = plugged \cup {o}
     /\ evq' = evq \o starts
                   \o SetToSeq({GroupEv("genter", g, o) : g \in {x \in Groups : o \in OutsOf[x]}})
     /\ UNCHANGED <<top, active, reqq, Shell>>

\* The next request: a query of a window that is gone has no answer, the end of
\* the roundtrip always comes.
answer ==
  LET r == Head(reqq)
      reply == IF r.k \in {"tileable", "geometry", "workarea"} /\ top[r.h].live
               THEN <<[ev |-> r.k, h |-> r.h, v |-> top[r.h].tile]>> ELSE <<>>
      sync == IF r.n = 0 THEN <<>> ELSE <<[ev |-> "sync", h |-> "none", n |-> r.n]>>
  IN /\ reqq # <<>>
     /\ reqq' = Tail(reqq)
     /\ evq' = evq \o reply \o sync
     /\ UNCHANGED <<top, plugged, active, changes, Shell>>

----------------------------------------------------------------------------
(* AppSystem: monitors and workspaces *)

\* The monitor of the connector of the output in toplevel_output_map; GDK, on a
\* connection of its own, lists the plugged ones.  (The fallback, which compares
\* object ids of the two connections, is taken to find nothing.)
get_window_monitor(h) == IF outmap[h] \in plugged THEN outmap[h] ELSE "none"

get_workspace_group(w) == IF w = Phantom THEN "none" ELSE wsgroup[w]
get_workspace_connector(w) ==
  LET g == get_workspace_group(w)
  IN IF g # "none" /\ Cardinality(gouts[g]) = 1 THEN CHOOSE o \in gouts[g] : TRUE ELSE "none"

workspaces_per_monitor ==
  \E i \in 1..Len(spaces) : /\ get_workspace_connector(spaces[i].w) # "none"
                            /\ get_workspace_group(spaces[i].w) # get_workspace_group(spaces[1].w)

get_active_monitor ==
  IF focused # "none" /\ get_window_monitor(focused) # "none" THEN get_window_monitor(focused)
  ELSE CHOOSE o \in plugged : TRUE

\* The first of some positions, and the one at a place among them; 0 for none.
First(S) == IF S = {} THEN 0 ELSE Min(S)
Nth(S, n) == First({i \in S : Cardinality({j \in S : j < i}) = n})

\* Positions in spaces of the workspaces of a monitor, and of the active one.
get_workspaces_for_monitor(m) ==
  LET per == workspaces_per_monitor
      conn == IF per /\ m = "none" THEN get_active_monitor ELSE m
  IN {i \in 1..Len(spaces) : ~per \/ conn = "none" \/ get_workspace_connector(spaces[i].w) = conn}
get_active_workspace_on(m) == First({i \in get_workspaces_for_monitor(m) : spaces[i].act})

\* The Window of a handle, and the position of the workspace that holds it.
Win(h) == [h |-> h, n |-> winof[h]]
workspace_of(win) == First({i \in 1..Len(spaces) : win \in Range(spaces[i].wl)})

Put(sp, win, i) == [sp EXCEPT ![i].wl = Append(@, win)]
Drop(sp, win, i) == IF i = 0 THEN sp ELSE [sp EXCEPT ![i].wl = RemoveFirst(@, win)]

WsIdle == [k |-> "ws", h |-> "none"]
schedule_workspaces_changed(q) == IF WsIdle \in Range(q) THEN q ELSE Append(q, WsIdle)

\* spaces after place_window.
place_window(win, i) ==
  IF workspace_of(win) = i THEN spaces ELSE Put(Drop(spaces, win, workspace_of(win)), win, i)

\* The rest of add_running_app, after its app_opened signal.
Opened(win) ==
  LET i == get_active_workspace_on(get_window_monitor(win.h))
  IN IF spaces = <<>> THEN <<[w |-> Phantom, act |-> TRUE, wl |-> <<win>>]>>
     ELSE Put(spaces, win, IF i = 0 THEN 1 ELSE i)

----------------------------------------------------------------------------
(* Events *)

e == Head(evq)
Event(kind) == evq # <<>> /\ e.ev = kind /\ evq' = Tail(evq) /\ UNCHANGED compositor

toplevel_manager_toplevel ==
  /\ Event("toplevel")
  /\ proxy' = proxy \cup {e.h} /\ valid_handles' = valid_handles \cup {e.h}
  /\ UNCHANGED <<outmap, geom, title, groups, lists, focus, idle, stack>>

toplevel_handle_title ==
  /\ Event("title") /\ title' = title \cup {e.h}
  /\ UNCHANGED <<proxy, valid_handles, outmap, geom, groups, lists, focus, idle, stack>>

\* add_running_app: the Window is listed, the window groups may ask about it in
\* the app_opened signal, and only then it gets its workspace.  (A handle that is
\* listed already returns at once; the windows here name their application once.)
Asks(h) == StageOn /\ ~geom[h].tileable_got
toplevel_handle_app_id ==
  LET id == opens + 1 IN
  /\ evq # <<>> /\ e.ev = "app_id" /\ evq' = Tail(evq)
  /\ opens' = id /\ winof' = [winof EXCEPT ![e.h] = id]
  /\ minimized' = minimized \ {e.h}
  /\ \/ /\ Asks(e.h)
        /\ stack' = Append(stack, [k |-> "opening", h |-> e.h, id |-> id, done |-> FALSE])
        /\ reqq' = Append(reqq, [k |-> "tileable", h |-> e.h, n |-> Len(stack) + 1])
        /\ UNCHANGED <<spaces, idle>>
     \/ /\ ~Asks(e.h)
        /\ spaces' = Opened([h |-> e.h, n |-> id]) /\ idle' = schedule_workspaces_changed(idle)
        /\ UNCHANGED <<stack, reqq>>
  /\ UNCHANGED <<top, plugged, active, changes, caches, groups, orphans, focused>>

toplevel_handle_output_enter ==
  /\ Event("enter")
  /\ outmap' = [outmap EXCEPT ![e.h] = e.o]
  /\ idle' = Append(idle, [k |-> "out", h |-> e.h])
  /\ UNCHANGED <<proxy, valid_handles, geom, title, groups, lists, focus, stack>>

toplevel_handle_output_leave ==
  /\ Event("leave")
  /\ outmap' = [outmap EXCEPT ![e.h] = IF @ = e.o THEN "none" ELSE @]
  /\ idle' = Append(idle, [k |-> "out", h |-> e.h])
  /\ UNCHANGED <<proxy, valid_handles, geom, title, groups, lists, focus, stack>>

\* handle_app_focused takes any handle; a focused window that gets minimized
\* gives the focus to the desktop.
toplevel_handle_state ==
  LET known == winof[e.h] # 0
      f == IF e.act THEN e.h ELSE focused
  IN /\ Event("state")
     /\ focused' = IF known /\ e.min /\ e.h \notin minimized /\ f = e.h THEN "none" ELSE f
     /\ minimized' = IF known THEN IF e.min THEN minimized \cup {e.h} ELSE minimized \ {e.h} ELSE minimized
     /\ UNCHANGED <<caches, groups, lists, idle, stack>>

\* The maps forget the handle, valid_handles before remove_running_app is
\* called, and the proxy is destroyed last.
remove_running_app(h) ==
  LET i == workspace_of(Win(h))
  IN \/ winof[h] = 0 /\ UNCHANGED <<winof, spaces, focused, idle>>
     \/ /\ winof[h] # 0
        /\ winof' = [winof EXCEPT ![h] = 0]
        /\ focused' = IF focused = h THEN "none" ELSE focused
        /\ spaces' = Drop(spaces, Win(h), i)
        /\ idle' = IF i = 0 THEN idle ELSE schedule_workspaces_changed(idle)

toplevel_handle_closed_keep_title ==
  /\ Event("closed")
  /\ outmap' = [outmap EXCEPT ![e.h] = "none"] /\ geom' = [geom EXCEPT ![e.h] = NoEntry]
  /\ valid_handles' = valid_handles \ {e.h} /\ proxy' = proxy \ {e.h}
  /\ remove_running_app(e.h)
  /\ UNCHANGED <<title, groups, opens, orphans, minimized, stack>>

toplevel_handle_closed ==
  /\ Event("closed")
  /\ outmap' = [outmap EXCEPT ![e.h] = "none"] /\ geom' = [geom EXCEPT ![e.h] = NoEntry]
  /\ title' = title \ {e.h}
  /\ valid_handles' = valid_handles \ {e.h} /\ proxy' = proxy \ {e.h}
  /\ remove_running_app(e.h)
  /\ UNCHANGED <<groups, opens, orphans, minimized, stack>>

invalidate_toplevel_tileable(h) == [geom EXCEPT ![h].tileable_got = FALSE]

toplevel_handle_parent_kept ==
  Event("parent") /\ UNCHANGED Shell

toplevel_handle_parent ==
  /\ Event("parent")
  /\ geom' = invalidate_toplevel_tileable(e.h)
  /\ UNCHANGED <<proxy, valid_handles, outmap, title, groups, lists, focus, idle, stack>>

tiling_handle_tileable ==
  /\ Event("tileable")
  /\ geom' = [geom EXCEPT ![e.h] = [@ EXCEPT !.entry = TRUE, !.tileable_got = TRUE, !.tileable = e.v]]
  /\ UNCHANGED <<proxy, valid_handles, outmap, title, groups, lists, focus, idle, stack>>

tiling_handle_geometry ==
  /\ Event("geometry")
  /\ geom' = [geom EXCEPT ![e.h] = [@ EXCEPT !.entry = TRUE, !.got = TRUE]]
  /\ UNCHANGED <<proxy, valid_handles, outmap, title, groups, lists, focus, idle, stack>>

tiling_handle_workarea ==
  /\ Event("workarea")
  /\ geom' = [geom EXCEPT ![e.h] = [@ EXCEPT !.entry = TRUE, !.workarea_got = TRUE]]
  /\ UNCHANGED <<proxy, valid_handles, outmap, title, groups, lists, focus, idle, stack>>

roundtrip_done ==
  /\ Event("sync")
  /\ stack' = [stack EXCEPT ![e.n].done = TRUE]
  /\ UNCHANGED <<caches, groups, lists, focus, idle>>

workspace_manager_workspace_group ==
  /\ Event("group")
  /\ ctxgroup' = IF ctxgroup = "none" THEN e.g ELSE ctxgroup
  /\ UNCHANGED <<caches, wsgroup, gouts, lists, focus, idle, stack>>

workspace_group_output ==
  /\ \/ Event("genter") /\ gouts' = [gouts EXCEPT ![e.g] = @ \cup {e.w}]
     \/ Event("gleave") /\ gouts' = [gouts EXCEPT ![e.g] = @ \ {e.w}]
  /\ UNCHANGED <<caches, wsgroup, ctxgroup, lists, focus, idle, stack>>

workspace_group_workspace ==
  /\ \/ Event("wsenter") /\ wsgroup' = [wsgroup EXCEPT ![e.w] = e.g]
     \/ Event("wsleave") /\ wsgroup' = [wsgroup EXCEPT ![e.w] = IF @ = e.g THEN "none" ELSE @]
  /\ UNCHANGED <<caches, gouts, ctxgroup, lists, focus, idle, stack>>

workspace_group_removed ==
  /\ Event("gremoved")
  /\ ctxgroup' = IF ctxgroup = e.g THEN "none" ELSE ctxgroup
  /\ gouts' = [gouts EXCEPT ![e.g] = {}]
  /\ UNCHANGED <<caches, wsgroup, lists, focus, idle, stack>>

\* on_workspace_created, which ignores a second name.
workspace_handle_name ==
  /\ Event("wsname")
  /\ \/ (\E i \in 1..Len(spaces) : spaces[i].w = e.w) /\ UNCHANGED <<spaces, idle>>
     \/ /\ \A i \in 1..Len(spaces) : spaces[i].w # e.w
        /\ spaces' = Append(spaces, [w |-> e.w, act |-> FALSE, wl |-> <<>>])
        /\ idle' = schedule_workspaces_changed(idle)
  /\ UNCHANGED <<caches, groups, winof, opens, orphans, focus, stack>>

workspace_handle_state ==
  /\ Event("wsstate")
  /\ spaces' = [i \in 1..Len(spaces) |-> IF spaces[i].w = e.w THEN [spaces[i] EXCEPT !.act = e.act] ELSE spaces[i]]
  /\ idle' = schedule_workspaces_changed(idle)
  /\ UNCHANGED <<caches, groups, winof, opens, orphans, focus, stack>>

\* on_workspace_destroyed: the windows of the workspace wait as orphans for a
\* workspace at its place among those that have the same group at this moment
\* (a number kept with the Window, the last one counts).
index_in_group(i) == Cardinality({j \in 1..(i - 1) : get_workspace_group(spaces[j].w) = get_workspace_group(spaces[i].w)})
workspace_handle_removed_lost ==
  /\ Event("wsremoved")
  /\ spaces' = SelectSeq(spaces, LAMBDA s : s.w # e.w)
  /\ idle' = schedule_workspaces_changed(idle)
  /\ wsgroup' = [wsgroup EXCEPT ![e.w] = "none"]
  /\ UNCHANGED <<caches, gouts, ctxgroup, winof, opens, orphans, focus, stack>>

workspace_handle_removed ==
  /\ Event("wsremoved")
  /\ \E i \in 1..Len(spaces) :
       /\ spaces[i].w = e.w
       /\ orphans' = [j \in 1..Len(orphans) |-> IF orphans[j].win \in Range(spaces[i].wl)
                                                 THEN [orphans[j] EXCEPT !.idx = index_in_group(i)] ELSE orphans[j]]
                     \o [j \in 1..Len(spaces[i].wl) |-> [win |-> spaces[i].wl[j], idx |-> index_in_group(i)]]
       /\ spaces' = RemoveAt(spaces, i)
  /\ idle' = schedule_workspaces_changed(idle)
  /\ wsgroup' = [wsgroup EXCEPT ![e.w] = "none"]
  /\ UNCHANGED <<caches, gouts, ctxgroup, winof, opens, focus, stack>>

\* wl_display_dispatch(), from the main loop or inside a roundtrip.
Dispatch ==
  \/ toplevel_manager_toplevel \/ toplevel_handle_title \/ toplevel_handle_app_id
  \/ toplevel_handle_output_enter \/ toplevel_handle_output_leave \/ toplevel_handle_state
  \/ toplevel_handle_closed \/ toplevel_handle_parent
  \/ tiling_handle_tileable \/ tiling_handle_geometry \/ tiling_handle_workarea
  \/ roundtrip_done
  \/ workspace_manager_workspace_group \/ workspace_group_output \/ workspace_group_workspace
  \/ workspace_group_removed
  \/ workspace_handle_name \/ workspace_handle_state \/ workspace_handle_removed

----------------------------------------------------------------------------
(* Main loop *)

Idling == stack = <<>>

\* The roundtrip of the innermost query returns.
Return ==
  LET f == Last(stack) IN
  /\ stack # <<>> /\ f.done
  /\ stack' = Front(stack)
  /\ \/ f.k = "query" /\ UNCHANGED <<spaces, idle>>
     \/ /\ f.k = "opening"
        /\ spaces' = Opened([h |-> f.h, n |-> f.id]) /\ idle' = schedule_workspaces_changed(idle)
  /\ UNCHANGED <<compositor, evq, caches, groups, winof, opens, orphans, focus>>

\* Idle callbacks run when no event is left to dispatch.
NextIdle(k) == Idling /\ evq = <<>> /\ idle # <<>> /\ Head(idle).k = k

\* Every orphan that is still open goes to the workspace at its place, else to
\* the active one, else to none.
Target(o) ==
  LET m == get_window_monitor(o.win.h)
      i == Nth(get_workspaces_for_monitor(m), o.idx)
  IN IF i = 0 THEN get_active_workspace_on(m) ELSE i
Adopted(sp, o) ==
  IF o.win # Win(o.win.h) \/ Target(o) = 0 THEN sp ELSE Put(sp, o.win, Target(o))
\* spaces after the first n orphans.
Adoption[n \in 0..Len(orphans)] ==
  IF n = 0 THEN spaces ELSE Adopted(Adoption[n - 1], orphans[n])
adopt_orphan_windows ==
  /\ NextIdle("ws")
  /\ idle' = Tail(idle)
  /\ IF orphans = <<>> \/ spaces = <<>> THEN UNCHANGED <<spaces, orphans>>
     ELSE spaces' = Adoption[Len(orphans)] /\ orphans' = <<>>
  /\ UNCHANGED <<compositor, evq, caches, groups, winof, opens, focus, stack>>

follow_window_monitor ==
  LET h == Head(idle).h
      m == get_window_monitor(h)
      cur == workspace_of(Win(h))
      i == get_active_workspace_on(m)
      stays == \/ ~workspaces_per_monitor \/ winof[h] = 0 \/ m = "none" \/ i = 0
               \/ cur # 0 /\ get_workspace_connector(spaces[cur].w) = m
  IN /\ NextIdle("out")
     /\ IF stays THEN idle' = Tail(idle) /\ UNCHANGED spaces
        ELSE /\ spaces' = place_window(Win(h), i)
             /\ idle' = IF cur = i THEN Tail(idle) ELSE schedule_workspaces_changed(Tail(idle))
     /\ UNCHANGED <<compositor, evq, caches, groups, winof, opens, orphans, focus, stack>>

\* The user moves a window to the n-th workspace of its monitor.
move_window_to_workspace_by_index(h, n) ==
  LET i == Nth(get_workspaces_for_monitor(get_window_monitor(h)), n - 1) IN
  /\ Idling /\ Change("move") /\ winof[h] # 0 /\ i # 0
  /\ spaces' = place_window(Win(h), i)
  /\ idle' = IF workspace_of(Win(h)) = i THEN idle ELSE schedule_workspaces_changed(idle)
  /\ UNCHANGED <<top, plugged, active, reqq, evq, caches, groups, winof, opens, orphans, focus, stack>>

\* Handles the shell may still use: of its windows, of the windows in its
\* workspaces, and the focused one.
Held == {h \in Handles : winof[h] # 0 \/ focused = h
                         \/ \E i \in 1..Len(spaces) : \E win \in Range(spaces[i].wl) : win.h = h}

\* A request whose answer is waited for in a roundtrip.
query(h, k) ==
  /\ Idling /\ Change("query") /\ h \in Held /\ h \in valid_handles
  /\ reqq' = Append(reqq, [k |-> k, h |-> h, n |-> 1])
  /\ stack' = <<[k |-> "query", h |-> h, id |-> 0, done |-> FALSE]>>
  /\ UNCHANGED <<top, plugged, active, evq, proxy, valid_handles, outmap, title, groups, lists, focus, idle>>

get_window_geometry(h) ==
  query(h, "geometry") /\ geom' = [geom EXCEPT ![h].got = FALSE]

get_window_workarea(h) ==
  query(h, "workarea") /\ geom' = [geom EXCEPT ![h].workarea_got = FALSE]

\* What is known already is not asked again.
window_is_tileable(h) ==
  query(h, "tileable") /\ ~geom[h].tileable_got /\ UNCHANGED geom

\* activate, minimize, close, snap_view, set_geometry and the like: sent only
\* for a handle of valid_handles.
Request(h) ==
  /\ reqq' = Append(reqq, [k |-> "request", h |-> h, n |-> 0])
  /\ UNCHANGED <<top, plugged, active, evq, Shell>>
window_request_unguarded(h) ==
  Idling /\ Change("request") /\ h \in Held /\ Request(h)

window_request(h) ==
  Idling /\ Change("request") /\ h \in Held /\ h \in valid_handles /\ Request(h)

WinNext ==
  \/ \E h \in Handles, o \in Outputs : drag(h, o)
  \/ \E h \in Handles, o \in Outputs, named \in BOOLEAN : map(h, o, named)
  \/ \E h \in Handles : unmap(h) \/ reparent(h) \/ window_request(h)
  \/ \E h \in Handles, a, m \in BOOLEAN : restate(h, a, m)
  \/ \E g \in Groups, w \in Spaces : switch(g, w)
  \/ \E o, to \in Outputs : unplug(o, to)
  \/ \E o \in Outputs : plug(o)
  \/ answer
  \/ Dispatch \/ Return
  \/ adopt_orphan_windows \/ follow_window_monitor
  \/ \E h \in Handles, n \in 1..Cardinality(Spaces) : move_window_to_workspace_by_index(h, n)
  \/ \E h \in Handles : get_window_geometry(h) \/ get_window_workarea(h) \/ window_is_tileable(h)

WinFairness == WF_winVars(answer) /\ WF_winVars(Dispatch) /\ WF_winVars(Return)
            /\ WF_winVars(adopt_orphan_windows) /\ WF_winVars(follow_window_monitor)

WinSpec == WinInit /\ [][WinNext]_winVars /\ WinFairness

----------------------------------------------------------------------------
(* Properties *)

\* No map keeps an address that is free for another window: what is cached for
\* a handle is of the window it stands for now.  Windows are listed for live
\* handles, and a request may be made for exactly those.
HandlesLive ==
  /\ valid_handles = proxy
  /\ \A h \in Handles \ proxy : outmap[h] = "none" /\ geom[h] = NoEntry /\ h \notin title /\ winof[h] = 0

\* "so that snap_view is never called on a dead resource": no request goes out
\* for a handle that is destroyed, whatever the lists of windows still hold.
NoDeadRequest ==
  [][Len(reqq') > Len(reqq) => Last(reqq').h \in proxy]_winVars

\* A cached answer of window_is_tileable is the compositor's, or the event that
\* drops it is on its way.
TileableFresh ==
  \A h \in Handles :
    geom[h].tileable_got /\ top[h].live /\ top[h].tile # geom[h].tileable
      => \E i \in 1..Len(evq) : evq[i].h = h /\ evq[i].ev \in {"parent", "closed"}

\* An open window is in a workspace, or an orphan that is adopted as soon as
\* there is a workspace (or in the midst of opening): it never falls off the
\* overview.
NoWindowLost ==
  \A h \in Handles : winof[h] # 0 =>
    \/ workspace_of(Win(h)) # 0
    \/ /\ \E i \in 1..Len(orphans) : orphans[i].win = Win(h)
       /\ spaces = <<>> \/ \E i \in 1..Len(idle) : idle[i].k = "ws"
    \/ \E i \in 1..Len(stack) : stack[i].k = "opening" /\ stack[i].h = h /\ stack[i].id = winof[h]
=============================================================================
