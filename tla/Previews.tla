------------------------------ MODULE Previews ------------------------------
(***************************************************************************)
(* Window previews: the capture requests and the pool of buffers of        *)
(* src/src/wayland/wayland_integration.c, and their two users, the cache   *)
(* of src/src/core/preview_cache.vala (which joins callers that want the   *)
(* same window) and the items of the window switcher (which cancel their   *)
(* capture when they are destroyed).                                       *)
(*                                                                         *)
(* A capture is a frame object: the compositor names the geometry of the   *)
(* buffer it needs, gets one and says that it is filled, or that it fails. *)
(* A geometry stands for format, width, height and stride.                 *)
(***************************************************************************)
EXTENDS Naturals, FiniteSets

CONSTANTS
  Geoms,     \* geometries of buffers
  PoolMax,   \* PREVIEW_POOL_MAX
  MaxReqs,   \* bound: PreviewRequest objects that exist at once
  Keys,      \* keys of the cache: a window and a size
  Waiters,   \* callers of PreviewCache.request
  KeyOf,     \* the key each of them asks for
  Items      \* items of the window switcher

ASSUME BoundsAssumption == PoolMax \in Nat \ {0} /\ MaxReqs \in Nat \ {0}
ASSUME NamesAssumption == Keys \cap Items = {} /\ "none" \notin Geoms \cup Keys \cup Items
ASSUME KeyOfAssumption == KeyOf \in [Waiters -> Keys]

Slots == 1..PoolMax
Reqs == 1..MaxReqs
NoGeom == "none"
Off == MaxReqs + 1   \* the token of an item that does not exist

VARIABLES
  pool,     \* preview_pool: the geometry of the buffer (or no buffer) and in_use
  req,      \* the PreviewRequest objects
  pending,  \* PreviewCache.pending
  waiter,   \* the callers of the cache; "waiting" is membership in waiters[key]
  token     \* _capture_token of each switcher item, 0 for none, Off without item

vars == <<pool, req, pending, waiter, token>>

\* "asked" waits for the buffer event, "copying" for ready or failed; "done" is
\* an external request after either, "free" is memory that holds no request.
\* A copying request whose pb is 0 owns a transient buffer.
Requests == [st : {"free", "asked", "copying", "done"}, pb : Slots \cup {0},
             geom : Geoms \cup {NoGeom}, by : Keys \cup Items \cup {"none"}]
Free == [st |-> "free", pb |-> 0, geom |-> NoGeom, by |-> "none"]

TypeOK ==
  /\ pool \in [Slots -> [geom : Geoms \cup {NoGeom}, in_use : BOOLEAN]]
  /\ req \in [Reqs -> Requests]
  /\ pending \in SUBSET Keys
  /\ waiter \in [Waiters -> {"idle", "waiting", "dropped"}]
  /\ token \in [Items -> Reqs \cup {0, Off}]

Init ==
  /\ pool = [s \in Slots |-> [geom |-> NoGeom, in_use |-> FALSE]]
  /\ req = [r \in Reqs |-> Free]
  /\ pending = {}
  /\ waiter = [w \in Waiters |-> "idle"]
  /\ token = [i \in Items |-> Off]

InFlight(r) == req[r].st \in {"asked", "copying"}

----------------------------------------------------------------------------
(* The pool *)

IsFirst(s, S) == s \in S /\ \A t \in S : s <= t

Idle == {s \in Slots : ~pool[s].in_use}
Matching(g) == {s \in Idle : pool[s].geom = g}

\* Making shared memory for a buffer succeeds or fails.
create_shm_file == BOOLEAN

\* preview_buffer_acquire returns slot s, 0 for NULL: an idle buffer of the
\* geometry, else the first idle slot if a new buffer can be made for it.
Acquired(s, g, shm) ==
  \/ IsFirst(s, Matching(g))
  \/ Matching(g) = {} /\ IsFirst(s, Idle) /\ shm
  \/ Matching(g) = {} /\ s = 0 /\ (shm => Idle = {})

\* The pool after it: the buffer of another geometry in the slot is destroyed,
\* also when the new one cannot be made.
preview_buffer_acquire(s, g) ==
  [t \in Slots |-> IF t = s THEN [geom |-> g, in_use |-> TRUE]
                   ELSE IF s = 0 /\ IsFirst(t, Idle) THEN [geom |-> NoGeom, in_use |-> FALSE]
                   ELSE pool[t]]

\* preview_request_free_buffer: a pooled buffer is recycled (a transient one is
\* destroyed, which leaves the pool alone).
preview_request_free_buffer(r) ==
  IF req[r].pb = 0 THEN pool ELSE [pool EXCEPT ![req[r].pb].in_use = FALSE]

preview_pool_trim_all ==
  [s \in Slots |-> [pool[s] EXCEPT !.geom = NoGeom]]

preview_pool_trim ==
  [s \in Slots |-> IF pool[s].in_use THEN pool[s] ELSE [geom |-> NoGeom, in_use |-> FALSE]]

----------------------------------------------------------------------------
(* What the callback of a capture does: PreviewCache answers every caller   *)
(* that waits for the key, the switcher item forgets its token.             *)

Served(k) == [w \in Waiters |-> IF KeyOf[w] = k /\ waiter[w] = "waiting" THEN "idle"
                                ELSE waiter[w]]

Callback_keep_token(by) ==
  /\ pending' = pending \ {by}
  /\ waiter' = Served(by)
  /\ UNCHANGED token

Callback(by) ==
  /\ pending' = pending \ {by}
  /\ waiter' = Served(by)
  /\ token' = [i \in Items |-> IF i = by THEN 0 ELSE token[i]]

----------------------------------------------------------------------------
(* Starting and cancelling captures *)

\* The request object of a new capture: requests are alike, so the first one.
Start(r, by) ==
  /\ req[r] = Free /\ \A q \in Reqs : req[q] = Free => r <= q
  /\ req' = [req EXCEPT ![r] = [Free EXCEPT !.st = "asked", !.by = by]]

\* PreviewCache.request and capture_preview: a caller joins the capture that is
\* pending for its key, or starts one.
request(w) ==
  LET k == KeyOf[w] IN
  /\ waiter[w] # "waiting"
  /\ waiter' = [waiter EXCEPT ![w] = "waiting"]
  /\ IF k \in pending
     THEN UNCHANGED <<req, pending>>
     ELSE /\ pending' = pending \cup {k}
          /\ \E r \in Reqs : Start(r, k)
  /\ UNCHANGED <<pool, token>>

\* The same when the capture cannot be started (no manager, no shm, the window
\* is closed): the callback runs at once.
request_refused(w) ==
  /\ waiter[w] # "waiting"
  /\ KeyOf[w] \notin pending
  /\ waiter' = [Served(KeyOf[w]) EXCEPT ![w] = "idle"]
  /\ UNCHANGED <<pool, req, pending, token>>

\* PreviewCache.clear, when an overview closes.
clear ==
  /\ pending' = {}
  /\ waiter' = [w \in Waiters |-> IF waiter[w] = "waiting" THEN "dropped" ELSE waiter[w]]
  /\ pool' = preview_pool_trim
  /\ UNCHANGED <<req, token>>

\* A switcher item is made and captures its window with
\* capture_preview_cancellable; refused, its callback runs and the token is NULL.
capture(i) ==
  /\ token[i] = Off
  /\ \/ \E r \in Reqs : Start(r, i) /\ token' = [token EXCEPT ![i] = r]
     \/ token' = [token EXCEPT ![i] = 0] /\ UNCHANGED req
  /\ UNCHANGED <<pool, pending, waiter>>

\* cancel_capture: a request that is done is only freed.
cancel_capture(r) ==
  /\ pool' = IF req[r].st = "done" THEN pool ELSE preview_request_free_buffer(r)
  /\ req' = [req EXCEPT ![r] = Free]

\* on_destroy of a switcher item.
on_destroy(i) ==
  /\ token[i] # Off
  /\ token' = [token EXCEPT ![i] = Off]
  /\ IF token[i] = 0 THEN UNCHANGED <<pool, req>> ELSE cancel_capture(token[i])
  /\ UNCHANGED <<pending, waiter>>

----------------------------------------------------------------------------
(* The events of a frame *)

\* The compositor names the geometry it needs.  shm: the pool's allocation
\* succeeds; own: the one for a transient buffer does.  When both fail the
\* request is freed, an external one too.
frame_handle_buffer(r, g, shm, own) ==
  /\ req[r].st = "asked"
  /\ \E s \in Slots \cup {0} :
       /\ Acquired(s, g, shm)
       /\ pool' = preview_buffer_acquire(s, g)
       /\ IF s # 0 \/ own
          THEN /\ req' = [req EXCEPT ![r] = [@ EXCEPT !.st = "copying", !.geom = g, !.pb = s]]
               /\ UNCHANGED <<pending, waiter, token>>
          ELSE /\ req' = [req EXCEPT ![r] = Free]
               /\ Callback(req[r].by)

\* ready and failed end the capture alike, but for what the callback is given:
\* an external request is left to cancel_capture.
Finish(r) ==
  /\ Callback(req[r].by)
  /\ pool' = preview_request_free_buffer(r)
  /\ req' = [req EXCEPT ![r] = IF req[r].by \in Items
                               THEN [Free EXCEPT !.st = "done", !.by = req[r].by]
                               ELSE Free]

frame_handle_ready(r) == req[r].st = "copying" /\ Finish(r)

frame_handle_failed_silent(r) ==
  /\ InFlight(r)
  /\ pool' = preview_request_free_buffer(r)
  /\ req' = [req EXCEPT ![r] = Free]
  /\ UNCHANGED <<pending, waiter, token>>

frame_handle_failed(r) == InFlight(r) /\ Finish(r)

FrameEvent(r) ==
  \/ \E g \in Geoms, shm, own \in create_shm_file : frame_handle_buffer(r, g, shm, own)
  \/ frame_handle_ready(r)
  \/ frame_handle_failed(r)

Next ==
  \/ \E w \in Waiters : request(w) \/ request_refused(w)
  \/ clear
  \/ \E i \in Items : capture(i) \/ on_destroy(i)
  \/ \E r \in Reqs : FrameEvent(r)

\* The compositor answers every frame object.
Fairness == \A r \in Reqs : WF_vars(FrameEvent(r))

Spec == Init /\ [][Next]_vars /\ Fairness

----------------------------------------------------------------------------
(* Properties *)

\* A slot of the pool is in_use exactly while one capture copies into it, and
\* holds a buffer of the geometry that capture was asked for: neither reuse, nor
\* the change of a slot's geometry, nor the trim takes a buffer from a capture
\* in flight, and no slot is lost (preview_buffer_acquire, preview_pool_trim).
PoolOwned ==
  \A s \in Slots :
    LET users == {r \in Reqs : req[r].pb = s}
    IN /\ pool[s].in_use <=> users # {}
       /\ \A r, q \in users : r = q
       /\ \A r \in users : req[r].st = "copying" /\ req[r].geom = pool[s].geom
                           /\ pool[s].geom # NoGeom

\* A caller that waits has a capture of its window in flight, so it will be
\* answered: also when clear() has forgotten the captures that still run.
WaitersHaveCapture ==
  /\ \A w \in Waiters : waiter[w] = "waiting" => KeyOf[w] \in pending
  /\ \A k \in pending : \E r \in Reqs : InFlight(r) /\ req[r].by = k

\* The token of a switcher item is a capture in flight for that item: it is
\* never memory that frame_handle_buffer has freed, and no capture outlives
\* its item, so no callback reaches a destroyed one.
TokensInFlight ==
  /\ \A i \in Items : token[i] \in Reqs => InFlight(token[i]) /\ req[token[i]].by = i
  /\ \A r \in Reqs : InFlight(r) /\ req[r].by \in Items => token[req[r].by] = r

\* Every caller of the cache is answered or told to forget it.
WaitersAnswered == \A w \in Waiters : waiter[w] = "waiting" ~> waiter[w] # "waiting"
=============================================================================
