---------------------------- MODULE WaylandProofs ----------------------------
(***************************************************************************)
(* Proofs about Previews and Windows, the two models of the C layer under  *)
(* src/src/wayland.                                                        *)
(*                                                                         *)
(* Previews, for any pool size, number of requests, callers and items: no  *)
(* buffer is shared or lost, the token of a switcher item is a live        *)
(* capture of that item, and a caller that waits has a capture.            *)
(*                                                                         *)
(* Windows, for any number of addresses, windows, outputs, groups and      *)
(* events under way, and queries nested to any depth: no cache keeps an    *)
(* address that is free, no request goes to one, and a cached answer of    *)
(* window_is_tileable is dropped when it stops being true; and, where each *)
(* group of workspaces is of one output and each output has one, no open   *)
(* window is lost from the lists of the workspaces.                        *)
(***************************************************************************)
EXTENDS Previews, Windows, FiniteSetTheorems, TLAPS

----------------------------------------------------------------------------
(* Previews *)

\* What a request is for: a key or an item while it is in flight, an item when
\* it is done, and nobody when it is free memory.
ReqsInOrder ==
  \A r \in Reqs :
    /\ InFlight(r) => req[r].by \in Keys \cup Items
    /\ req[r].st # "copying" => req[r].pb = 0

\* PoolOwned, said of the requests one by one.
BuffersOwned ==
  /\ \A r \in Reqs : req[r].pb # 0 =>
       /\ pool[req[r].pb].in_use
       /\ pool[req[r].pb].geom = req[r].geom
       /\ req[r].geom # NoGeom
  /\ \A r, q \in Reqs : req[r].pb # 0 /\ req[r].pb = req[q].pb => r = q
  /\ \A s \in Slots : pool[s].in_use => \E r \in Reqs : req[r].pb = s

PInv ==
  /\ TypeOK
  /\ ReqsInOrder
  /\ BuffersOwned
  /\ TokensInFlight
  /\ WaitersHaveCapture

\* Slots and requests are positive, so that 0 and Off are neither.
LEMMA Numbers == /\ 0 \notin Slots /\ 0 \notin Reqs /\ Off \notin Reqs /\ Off # 0
                 /\ Slots \subseteq Nat /\ Reqs \subseteq Nat
  BY BoundsAssumption DEF Slots, Reqs, Off

\* Free memory is a request of the right shape.
LEMMA FreeOK == /\ Free \in Requests /\ Free.pb = 0 /\ Free.st = "free" /\ Free.by = "none"
  BY DEF Free, Requests, NoGeom

\* Taking a slot: it is free before, and what the pool becomes.
LEMMA AcquireOK ==
  ASSUME TypeOK, NEW g \in Geoms, NEW shm \in BOOLEAN, NEW s \in Slots \cup {0}, Acquired(s, g, shm)
  PROVE  /\ s # 0 => s \in Slots /\ ~pool[s].in_use
         /\ preview_buffer_acquire(s, g) \in [Slots -> [geom : Geoms \cup {NoGeom}, in_use : BOOLEAN]]
         /\ \A t \in Slots : t # s => preview_buffer_acquire(s, g)[t].in_use = pool[t].in_use
         /\ \A t \in Slots : pool[t].in_use => preview_buffer_acquire(s, g)[t] = pool[t]
         /\ s # 0 => preview_buffer_acquire(s, g)[s] = [geom |-> g, in_use |-> TRUE]
  <1>1. s # 0 => s \in Idle
    BY Numbers DEF Acquired, IsFirst, Matching
  <1>2. \A t \in Idle : t \in Slots /\ ~pool[t].in_use
    BY DEF Idle
  <1>3. \A t \in Slots : IsFirst(t, Idle) => ~pool[t].in_use
    BY <1>2 DEF IsFirst
  <1>4. pool \in [Slots -> [geom : Geoms \cup {NoGeom}, in_use : BOOLEAN]]
    BY DEF TypeOK
  <1> QED BY <1>1, <1>2, <1>3, <1>4, Numbers DEF preview_buffer_acquire

\* Ending a capture that is in flight, for whatever reason, keeps PInv: its
\* buffer goes back, whoever waited for it is answered, and its token is gone.
LEMMA EndKeeps ==
  ASSUME PInv, NEW r \in Reqs, InFlight(r), NEW left \in Requests,
         left.st \in {"free", "done"}, left.pb = 0,
         req' = [req EXCEPT ![r] = left],
         pool' \in [Slots -> [geom : Geoms \cup {NoGeom}, in_use : BOOLEAN]],
         \A s \in Slots : s # req[r].pb => (pool'[s].in_use <=> pool[s].in_use) /\ (pool[s].in_use => pool'[s] = pool[s]),
         req[r].pb # 0 => ~pool'[req[r].pb].in_use,
         pending' = pending \ {req[r].by},
         waiter' \in [Waiters -> {"idle", "waiting", "dropped"}],
         \A w \in Waiters : waiter'[w] = "waiting" => waiter[w] = "waiting" /\ KeyOf[w] # req[r].by,
         token' \in [Items -> Reqs \cup {0, Off}],
         \A i \in Items : i # req[r].by => token'[i] = token[i],
         \A i \in Items : i = req[r].by => token'[i] \notin Reqs
  PROVE  PInv'
  <1>1. /\ req'[r] = left /\ \A q \in Reqs : q # r => req'[q] = req[q]
        /\ req' \in [Reqs -> Requests]
    BY DEF PInv, TypeOK
  <1>3. TypeOK'
    BY <1>1 DEF PInv, TypeOK
  <1>4. ReqsInOrder'
    BY <1>1 DEF PInv, ReqsInOrder, InFlight
  <1>5. BuffersOwned'
    <2>1. \A q \in Reqs : req'[q].pb # 0 => q # r /\ req'[q] = req[q] /\ req[q].pb \in Slots /\ req[q].pb # req[r].pb
      BY <1>1 DEF PInv, BuffersOwned, TypeOK, Requests
    <2>2. \A s \in Slots : pool'[s].in_use => s # req[r].pb /\ pool[s].in_use
      BY Numbers
    <2>3. \A s \in Slots : pool'[s].in_use => \E q \in Reqs : req'[q].pb = s
      BY <1>1, <2>2 DEF PInv, BuffersOwned
    <2>4. \A q \in Reqs : req'[q].pb # 0 => pool'[req'[q].pb] = pool[req[q].pb]
      BY <2>1 DEF PInv, BuffersOwned
    <2> QED BY <2>1, <2>3, <2>4 DEF PInv, BuffersOwned
  <1>6. TokensInFlight'
    <2>1. \A i \in Items : token'[i] \in Reqs => i # req[r].by /\ token'[i] = token[i] /\ token[i] # r
      BY DEF PInv, TokensInFlight
    <2>2. \A q \in Reqs : InFlight(q)' => q # r /\ InFlight(q) /\ req'[q] = req[q]
      BY <1>1 DEF InFlight
    <2>3. \A q \in Reqs : q # r /\ InFlight(q) /\ req[q].by \in Items => req[q].by # req[r].by
      BY DEF PInv, TokensInFlight
    <2>4. \A i \in Items : token'[i] \in Reqs => /\ req'[token'[i]].st \in {"asked", "copying"}
                                               /\ req'[token'[i]].by = i
      BY <1>1, <2>1 DEF PInv, TokensInFlight, InFlight
    <2>5. \A q \in Reqs : InFlight(q)' /\ req'[q].by \in Items => token'[req'[q].by] = q
      BY <2>2, <2>3 DEF PInv, TokensInFlight
    <2> QED BY <2>4, <2>5 DEF TokensInFlight, InFlight
  <1>7. WaitersHaveCapture'
    <2>2. \A k \in pending' : k \in pending /\ k # req[r].by
      OBVIOUS
    <2>3. \A q \in Reqs : q # r /\ InFlight(q) => InFlight(q)'
      BY <1>1 DEF InFlight
    <2>4. \A k \in pending' : \E q \in Reqs : InFlight(q)' /\ req'[q].by = k
      BY <1>1, <2>2, <2>3 DEF PInv, WaitersHaveCapture
    <2>5. \A w \in Waiters : waiter'[w] = "waiting" => KeyOf[w] \in pending'
      BY DEF PInv, WaitersHaveCapture
    <2> QED BY <2>4, <2>5 DEF WaitersHaveCapture
  <1> QED BY <1>3, <1>4, <1>5, <1>6, <1>7 DEF PInv

\* Giving a buffer back: the pool stays well formed and only that slot changes.
LEMMA FreeBufferOK ==
  ASSUME PInv, NEW r \in Reqs
  PROVE  /\ preview_request_free_buffer(r) \in [Slots -> [geom : Geoms \cup {NoGeom}, in_use : BOOLEAN]]
         /\ \A s \in Slots : s # req[r].pb => preview_request_free_buffer(r)[s] = pool[s]
         /\ req[r].pb # 0 => ~preview_request_free_buffer(r)[req[r].pb].in_use
  <1>1. pool \in [Slots -> [geom : Geoms \cup {NoGeom}, in_use : BOOLEAN]] /\ req[r].pb \in Slots \cup {0}
    BY DEF PInv, TypeOK, Requests
  <1>2. CASE req[r].pb = 0
    BY <1>1, <1>2 DEF preview_request_free_buffer
  <1>3. CASE req[r].pb # 0
    <2> DEFINE s == req[r].pb
    <2>1. s \in Slots /\ preview_request_free_buffer(r) = [pool EXCEPT ![s].in_use = FALSE]
      BY <1>1, <1>3 DEF preview_request_free_buffer
    <2> HIDE DEF s
    <2>2. [pool EXCEPT ![s].in_use = FALSE] \in [Slots -> [geom : Geoms \cup {NoGeom}, in_use : BOOLEAN]]
      BY <1>1, <2>1
    <2>3. ~[pool EXCEPT ![s].in_use = FALSE][s].in_use /\ \A t \in Slots : t # s => [pool EXCEPT ![s].in_use = FALSE][t] = pool[t]
      BY <1>1, <2>1
    <2> QED BY <2>1, <2>2, <2>3 DEF s
  <1> QED BY <1>2, <1>3

\* What a callback leaves behind is what EndKeeps asks for.
LEMMA CallbackOK ==
  ASSUME PInv, NEW by, Callback(by)
  PROVE  /\ pending' = pending \ {by}
         /\ waiter' \in [Waiters -> {"idle", "waiting", "dropped"}]
         /\ \A w \in Waiters : waiter'[w] = "waiting" => waiter[w] = "waiting" /\ KeyOf[w] # by
         /\ token' \in [Items -> Reqs \cup {0, Off}]
         /\ \A i \in Items : i # by => token'[i] = token[i]
         /\ \A i \in Items : i = by => token'[i] \notin Reqs
  <1>1. waiter \in [Waiters -> {"idle", "waiting", "dropped"}] /\ token \in [Items -> Reqs \cup {0, Off}]
    BY DEF PInv, TypeOK
  <1>2. pending' = pending \ {by} /\ waiter' = Served(by) /\ token' = [i \in Items |-> IF i = by THEN 0 ELSE token[i]]
    BY DEF Callback
  <1> QED BY <1>1, <1>2, Numbers DEF Served

\* ready and failed.
LEMMA FinishKeeps == ASSUME PInv, NEW r \in Reqs, InFlight(r), Finish(r) PROVE PInv'
  <1> DEFINE left == IF req[r].by \in Items THEN [Free EXCEPT !.st = "done", !.by = req[r].by] ELSE Free
  <1>1. left \in Requests /\ left.st \in {"free", "done"} /\ left.pb = 0
    BY DEF Free, Requests, NoGeom
  <1>2. req' = [req EXCEPT ![r] = left] /\ pool' = preview_request_free_buffer(r) /\ Callback(req[r].by)
    BY DEF Finish
  <1>3. \A s \in Slots : s # req[r].pb => (pool'[s].in_use <=> pool[s].in_use) /\ (pool[s].in_use => pool'[s] = pool[s])
    BY <1>2, FreeBufferOK
  <1> HIDE DEF left
  <1>4. /\ pending' = pending \ {req[r].by}
        /\ waiter' \in [Waiters -> {"idle", "waiting", "dropped"}]
        /\ \A w \in Waiters : waiter'[w] = "waiting" => waiter[w] = "waiting" /\ KeyOf[w] # req[r].by
        /\ token' \in [Items -> Reqs \cup {0, Off}]
        /\ \A i \in Items : i # req[r].by => token'[i] = token[i]
        /\ \A i \in Items : i = req[r].by => token'[i] \notin Reqs
    BY <1>2, CallbackOK
  <1>5. /\ pool' \in [Slots -> [geom : Geoms \cup {NoGeom}, in_use : BOOLEAN]]
        /\ req[r].pb # 0 => ~pool'[req[r].pb].in_use
    BY <1>2, FreeBufferOK
  <1> QED BY <1>1, <1>2, <1>3, <1>4, <1>5, EndKeeps

\* A new capture: it has no buffer yet, and no other request changes.
LEMMA StartOK ==
  ASSUME PInv, NEW r \in Reqs, NEW by \in Keys \cup Items, Start(r, by), pool' = pool
  PROVE  /\ req' \in [Reqs -> Requests]
         /\ req[r].st = "free" /\ req'[r].st = "asked" /\ req'[r].by = by
         /\ \A q \in Reqs : q # r => req'[q] = req[q]
         /\ ReqsInOrder' /\ BuffersOwned'
  <1> DEFINE new == [Free EXCEPT !.st = "asked", !.by = by]
  <1>1. new \in Requests /\ new.st = "asked" /\ new.by = by /\ new.pb = 0
    BY DEF Free, Requests, NoGeom
  <1>2. req' = [req EXCEPT ![r] = new] /\ req[r] = Free /\ req \in [Reqs -> Requests]
    BY DEF Start, PInv, TypeOK
  <1> HIDE DEF new
  <1>3. /\ req' \in [Reqs -> Requests] /\ req'[r] = new /\ \A q \in Reqs : q # r => req'[q] = req[q]
    BY <1>1, <1>2
  <1>4. \A q \in Reqs : req'[q].pb = req[q].pb /\ (req[q].pb # 0 => req'[q] = req[q])
    BY <1>1, <1>2, <1>3, FreeOK
  <1>5. ReqsInOrder'
    BY <1>1, <1>3 DEF PInv, ReqsInOrder, InFlight
  <1>6. BuffersOwned'
    BY <1>4 DEF PInv, BuffersOwned
  <1> QED BY <1>1, <1>2, <1>3, <1>5, <1>6, FreeOK

\* A caller of the cache.
LEMMA RequestKeeps == ASSUME PInv, NEW w \in Waiters, request(w) PROVE PInv'
  <1>k. KeyOf[w] \in Keys /\ KeyOf[w] \notin Items
    BY KeyOfAssumption, NamesAssumption
  <1>w. /\ waiter' = [waiter EXCEPT ![w] = "waiting"] /\ pool' = pool /\ token' = token
        /\ waiter' \in [Waiters -> {"idle", "waiting", "dropped"}]
        /\ \A v \in Waiters : waiter'[v] = "waiting" => v = w \/ waiter[v] = "waiting"
    BY DEF request, PInv, TypeOK
  <1>1. CASE KeyOf[w] \in pending
    <2>1. req' = req /\ pending' = pending
      BY <1>1 DEF request
    <2>2. TypeOK' /\ ReqsInOrder' /\ BuffersOwned' /\ TokensInFlight'
      BY <1>w, <2>1 DEF PInv, TypeOK, ReqsInOrder, BuffersOwned, TokensInFlight, InFlight
    <2>3. WaitersHaveCapture'
      BY <1>1, <1>w, <2>1 DEF PInv, WaitersHaveCapture, InFlight
    <2> QED BY <2>2, <2>3 DEF PInv
  <1>2. CASE KeyOf[w] \notin pending
    <2>1. PICK r \in Reqs : Start(r, KeyOf[w])
      BY <1>2 DEF request
    <2>2. pending' = pending \cup {KeyOf[w]}
      BY <1>2 DEF request
    <2>3. /\ req' \in [Reqs -> Requests]
          /\ req[r].st = "free" /\ req'[r].st = "asked" /\ req'[r].by = KeyOf[w]
          /\ \A q \in Reqs : q # r => req'[q] = req[q]
          /\ ReqsInOrder' /\ BuffersOwned'
      BY <1>k, <1>w, <2>1, StartOK
    <2>4. TypeOK'
      BY <1>k, <1>w, <2>2, <2>3 DEF PInv, TypeOK
    <2>5. TokensInFlight'
      BY <1>k, <1>w, <2>3 DEF PInv, TokensInFlight, InFlight
    <2>6. WaitersHaveCapture'
      <3>1. \A k \in pending' : \E q \in Reqs : req'[q].st \in {"asked", "copying"} /\ req'[q].by = k
        <4>1. \A k \in pending : \E q \in Reqs : q # r /\ InFlight(q) /\ req[q].by = k
          BY <2>3 DEF PInv, WaitersHaveCapture, InFlight
        <4> QED BY <2>2, <2>3, <4>1 DEF InFlight
      <3> QED BY <1>w, <2>2, <3>1 DEF PInv, WaitersHaveCapture, InFlight
    <2> QED BY <2>3, <2>4, <2>5, <2>6 DEF PInv
  <1> QED BY <1>1, <1>2

\* A caller whose capture cannot start, and an overview that closes.
LEMMA RefusedKeeps == ASSUME PInv, NEW w \in Waiters, request_refused(w) PROVE PInv'
  <1>1. waiter' = [Served(KeyOf[w]) EXCEPT ![w] = "idle"] /\ UNCHANGED <<pool, req, pending, token>>
    BY DEF request_refused
  <1>2. /\ waiter' \in [Waiters -> {"idle", "waiting", "dropped"}]
        /\ \A v \in Waiters : waiter'[v] = "waiting" => waiter[v] = "waiting"
    BY <1>1 DEF Served, PInv, TypeOK
  <1>3. TypeOK' /\ ReqsInOrder' /\ BuffersOwned' /\ TokensInFlight'
    BY <1>1, <1>2 DEF PInv, TypeOK, ReqsInOrder, BuffersOwned, TokensInFlight, InFlight
  <1>4. WaitersHaveCapture'
    BY <1>1, <1>2 DEF PInv, WaitersHaveCapture, InFlight
  <1> QED BY <1>3, <1>4 DEF PInv

\* The cache is cleared.
LEMMA ClearKeeps == ASSUME PInv, clear PROVE PInv'
  <1>1. /\ pending' = {} /\ pool' = preview_pool_trim /\ UNCHANGED <<req, token>>
        /\ waiter' \in [Waiters -> {"idle", "waiting", "dropped"}]
        /\ \A v \in Waiters : waiter'[v] # "waiting"
    BY DEF clear, PInv, TypeOK
  <1>2. /\ pool' \in [Slots -> [geom : Geoms \cup {NoGeom}, in_use : BOOLEAN]]
        /\ \A s \in Slots : (pool'[s].in_use <=> pool[s].in_use) /\ (pool[s].in_use => pool'[s] = pool[s])
    BY <1>1 DEF preview_pool_trim, PInv, TypeOK
  <1>3. \A r \in Reqs : req[r].pb \in Slots \cup {0}
    BY DEF PInv, TypeOK, Requests
  <1>4. TypeOK' /\ ReqsInOrder' /\ TokensInFlight'
    BY <1>1, <1>2 DEF PInv, TypeOK, ReqsInOrder, TokensInFlight, InFlight
  <1>5. BuffersOwned'
    BY <1>1, <1>2, <1>3 DEF PInv, BuffersOwned
  <1>6. WaitersHaveCapture'
    BY <1>1 DEF WaitersHaveCapture
  <1> QED BY <1>4, <1>5, <1>6 DEF PInv

\* A switcher item is made, and destroyed.
LEMMA CaptureKeeps == ASSUME PInv, NEW i \in Items, capture(i) PROVE PInv'
  <1>k. i \notin Keys
    BY NamesAssumption
  <1>u. token[i] = Off /\ UNCHANGED <<pool, pending, waiter>> /\ token \in [Items -> Reqs \cup {0, Off}]
    BY DEF capture, PInv, TypeOK
  <1>1. ASSUME NEW r \in Reqs, Start(r, i), token' = [token EXCEPT ![i] = r] PROVE PInv'
    <2>1. /\ req' \in [Reqs -> Requests]
          /\ req[r].st = "free" /\ req'[r].st = "asked" /\ req'[r].by = i
          /\ \A q \in Reqs : q # r => req'[q] = req[q]
          /\ ReqsInOrder' /\ BuffersOwned'
      BY <1>u, <1>1, StartOK
    <2>2. /\ token' \in [Items -> Reqs \cup {0, Off}]
          /\ token'[i] = r /\ \A j \in Items : j # i => token'[j] = token[j]
      BY <1>u, <1>1
    <2>3. TypeOK'
      BY <1>u, <2>1, <2>2 DEF PInv, TypeOK
    <2>4. TokensInFlight'
      <3>1. \A q \in Reqs : InFlight(q) => q # r /\ req[q].by # i
        BY <1>u, <2>1, Numbers DEF PInv, TokensInFlight, InFlight
      <3> QED BY <2>1, <2>2, <3>1 DEF PInv, TokensInFlight, InFlight
    <2>5. WaitersHaveCapture'
      <3>1. \A k \in pending : \E q \in Reqs : q # r /\ InFlight(q) /\ req[q].by = k
        BY <2>1 DEF PInv, WaitersHaveCapture, InFlight
      <3> QED BY <1>u, <2>1, <3>1 DEF PInv, WaitersHaveCapture, InFlight
    <2> QED BY <2>1, <2>3, <2>4, <2>5 DEF PInv
  <1>2. ASSUME token' = [token EXCEPT ![i] = 0], req' = req PROVE PInv'
    <2>1. /\ token' \in [Items -> Reqs \cup {0, Off}]
          /\ token'[i] = 0 /\ \A j \in Items : j # i => token'[j] = token[j]
      BY <1>u, <1>2
    <2>2. TypeOK' /\ ReqsInOrder' /\ BuffersOwned' /\ WaitersHaveCapture'
      BY <1>u, <1>2, <2>1 DEF PInv, TypeOK, ReqsInOrder, BuffersOwned, WaitersHaveCapture, InFlight
    <2>3. TokensInFlight'
      <3>1. \A q \in Reqs : InFlight(q) => req[q].by # i
        BY <1>u, Numbers DEF PInv, TokensInFlight
      <3> QED BY <1>2, <2>1, <3>1, Numbers DEF PInv, TokensInFlight, InFlight
    <2> QED BY <2>2, <2>3 DEF PInv
  <1> QED BY <1>1, <1>2 DEF capture

\* An item of the switcher is destroyed.
LEMMA DestroyKeeps == ASSUME PInv, NEW i \in Items, on_destroy(i) PROVE PInv'
  <1>u. /\ UNCHANGED <<pending, waiter>> /\ token' = [token EXCEPT ![i] = Off] /\ token[i] # Off
        /\ token \in [Items -> Reqs \cup {0, Off}] /\ i \notin Keys
        /\ waiter \in [Waiters -> {"idle", "waiting", "dropped"}] /\ pending \in SUBSET Keys
    BY NamesAssumption DEF on_destroy, PInv, TypeOK
  <1>t. /\ token' \in [Items -> Reqs \cup {0, Off}]
        /\ token'[i] = Off /\ \A j \in Items : j # i => token'[j] = token[j]
    BY <1>u
  <1>1. CASE token[i] = 0
    <2>1. req' = req /\ pool' = pool
      BY <1>1 DEF on_destroy
    <2>2. TypeOK' /\ ReqsInOrder' /\ BuffersOwned' /\ WaitersHaveCapture'
      BY <1>u, <1>t, <2>1 DEF PInv, TypeOK, ReqsInOrder, BuffersOwned, WaitersHaveCapture, InFlight
    <2>3. TokensInFlight'
      <3>1. \A q \in Reqs : InFlight(q) => req[q].by # i
        <4> SUFFICES ASSUME NEW q \in Reqs, InFlight(q), req[q].by = i PROVE FALSE
          OBVIOUS
        <4>1. token[req[q].by] = q
          BY DEF PInv, TokensInFlight
        <4>2. token[i] = q
          BY <4>1
        <4> QED BY <1>1, <4>2, Numbers
      <3> QED BY <1>t, <2>1, <3>1, Numbers DEF PInv, TokensInFlight, InFlight
    <2> QED BY <2>2, <2>3 DEF PInv
  <1>2. CASE token[i] # 0
    <2> DEFINE r == token[i]
    <2>1. r \in Reqs /\ InFlight(r) /\ req[r].by = i
      BY <1>u, <1>2 DEF PInv, TokensInFlight
    <2>2. pool' = preview_request_free_buffer(r) /\ req' = [req EXCEPT ![r] = Free]
      BY <1>2, <2>1 DEF on_destroy, cancel_capture, InFlight
    <2> HIDE DEF r
    <2>3. \A s \in Slots : s # req[r].pb => (pool'[s].in_use <=> pool[s].in_use) /\ (pool[s].in_use => pool'[s] = pool[s])
      BY <2>1, <2>2, FreeBufferOK
    <2>4. pending' = pending \ {req[r].by} /\ waiter' \in [Waiters -> {"idle", "waiting", "dropped"}]
      BY <1>u, <2>1
    <2>5. \A w \in Waiters : waiter'[w] = "waiting" => waiter[w] = "waiting" /\ KeyOf[w] # req[r].by
      BY <1>u, <2>1, KeyOfAssumption
    <2>6. /\ \A j \in Items : j # req[r].by => token'[j] = token[j]
          /\ \A j \in Items : j = req[r].by => token'[j] \notin Reqs
      BY <1>t, <2>1, Numbers
    <2> QED BY <1>t, <2>1, <2>2, <2>3, <2>4, <2>5, <2>6, FreeOK, FreeBufferOK, EndKeeps
  <1> QED BY <1>1, <1>2

\* The buffer event.
LEMMA BufferKeeps ==
  ASSUME PInv, NEW r \in Reqs, NEW g \in Geoms, NEW shm \in BOOLEAN, NEW own \in BOOLEAN,
         frame_handle_buffer(r, g, shm, own)
  PROVE  PInv'
  <1>1. PICK s \in Slots \cup {0} :
          /\ Acquired(s, g, shm)
          /\ pool' = preview_buffer_acquire(s, g)
          /\ IF s # 0 \/ own
             THEN /\ req' = [req EXCEPT ![r] = [@ EXCEPT !.st = "copying", !.geom = g, !.pb = s]]
                  /\ UNCHANGED <<pending, waiter, token>>
             ELSE /\ req' = [req EXCEPT ![r] = Free]
                  /\ Callback(req[r].by)
    BY DEF frame_handle_buffer
  <1>2. req[r].st = "asked" /\ InFlight(r) /\ req[r].pb = 0 /\ req[r].by \in Keys \cup Items
    BY DEF frame_handle_buffer, InFlight, PInv, ReqsInOrder
  <1>3. /\ s # 0 => s \in Slots /\ ~pool[s].in_use
        /\ pool' \in [Slots -> [geom : Geoms \cup {NoGeom}, in_use : BOOLEAN]]
        /\ \A t \in Slots : t # s => pool'[t].in_use = pool[t].in_use
        /\ \A t \in Slots : pool[t].in_use => pool'[t] = pool[t]
        /\ s # 0 => pool'[s] = [geom |-> g, in_use |-> TRUE]
    BY <1>1, AcquireOK DEF PInv
  <1>4. CASE s # 0 \/ own
    <2> DEFINE new == [req[r] EXCEPT !.st = "copying", !.geom = g, !.pb = s]
    <2>1. req' = [req EXCEPT ![r] = new] /\ UNCHANGED <<pending, waiter, token>> /\ req \in [Reqs -> Requests]
      BY <1>1, <1>4 DEF PInv, TypeOK
    <2>2. /\ new \in Requests /\ new.st = "copying" /\ new.pb = s /\ new.geom = g /\ new.by = req[r].by
      <3> DEFINE x == req[r]
                 y == [x EXCEPT !.st = "copying", !.geom = g, !.pb = s]
      <3>1. x \in Requests /\ s \in Slots \cup {0} /\ g \in Geoms
        BY <1>1, <2>1
      <3> HIDE DEF x
      <3>2. y \in Requests /\ y.st = "copying" /\ y.pb = s /\ y.geom = g /\ y.by = x.by
        BY <3>1 DEF Requests
      <3> QED BY <3>2 DEF x
    <2> HIDE DEF new
    <2>3. /\ req' \in [Reqs -> Requests] /\ req'[r] = new /\ \A q \in Reqs : q # r => req'[q] = req[q]
      BY <2>1, <2>2
    <2>4. TypeOK'
      BY <1>3, <2>1, <2>3 DEF PInv, TypeOK
    <2>5. ReqsInOrder'
      BY <1>2, <2>2, <2>3 DEF PInv, ReqsInOrder, InFlight
    <2>6. BuffersOwned'
      <3>0. \A q \in Reqs : q # r => req'[q].pb \in Slots \cup {0}
        BY <2>3 DEF Requests
      <3>1. \A q \in Reqs : q # r /\ req'[q].pb # 0 =>
              /\ pool[req'[q].pb].in_use /\ pool'[req'[q].pb] = pool[req'[q].pb]
              /\ pool[req'[q].pb].geom = req'[q].geom /\ req'[q].geom # NoGeom
              /\ req'[q].pb # s
        BY <1>3, <2>3, <3>0 DEF PInv, BuffersOwned
      <3>2. req'[r].pb # 0 => pool'[s].in_use /\ pool'[s].geom = g /\ g # NoGeom /\ req'[r].pb = s /\ req'[r].geom = g
        BY <1>3, <2>2, <2>3, NamesAssumption DEF NoGeom
      <3>3. \A q, p \in Reqs : req'[q].pb # 0 /\ req'[q].pb = req'[p].pb => q = p
        BY <2>2, <2>3, <3>1 DEF PInv, BuffersOwned
      <3>4. \A t \in Slots : pool'[t].in_use => \E q \in Reqs : req'[q].pb = t
        <4> TAKE t \in Slots
        <4> HAVE pool'[t].in_use
        <4>1. CASE t = s
          BY <2>2, <2>3, <4>1
        <4>2. CASE t # s
          <5>1. pool[t].in_use
            BY <1>3, <4>2
          <5>2. PICK q \in Reqs : req[q].pb = t
            BY <5>1 DEF PInv, BuffersOwned
          <5>3. q # r
            BY <1>2, <5>2, Numbers
          <5> QED BY <2>3, <5>2, <5>3
        <4> QED BY <4>1, <4>2
      <3>5. \A q \in Reqs : req'[q].pb # 0 =>
              /\ pool'[req'[q].pb].in_use /\ pool'[req'[q].pb].geom = req'[q].geom /\ req'[q].geom # NoGeom
        BY <3>1, <3>2
      <3> QED BY <3>3, <3>4, <3>5 DEF BuffersOwned
    <2>7. TokensInFlight'
      BY <1>2, <2>1, <2>2, <2>3 DEF PInv, TokensInFlight, InFlight
    <2>8. WaitersHaveCapture'
      <3>1. \A q \in Reqs : InFlight(q) => req'[q].st \in {"asked", "copying"} /\ req'[q].by = req[q].by
        BY <2>2, <2>3 DEF InFlight
      <3> QED BY <2>1, <3>1 DEF PInv, WaitersHaveCapture, InFlight
    <2> QED BY <2>4, <2>5, <2>6, <2>7, <2>8 DEF PInv
  <1>5. CASE ~(s # 0 \/ own)
    <2>1. s = 0 /\ req' = [req EXCEPT ![r] = Free] /\ Callback(req[r].by)
      BY <1>1, <1>5
    <2>2. \A t \in Slots : t # req[r].pb => (pool'[t].in_use <=> pool[t].in_use) /\ (pool[t].in_use => pool'[t] = pool[t])
      BY <1>3, <2>1, Numbers
    <2>3. /\ pending' = pending \ {req[r].by}
          /\ waiter' \in [Waiters -> {"idle", "waiting", "dropped"}]
          /\ \A w \in Waiters : waiter'[w] = "waiting" => waiter[w] = "waiting" /\ KeyOf[w] # req[r].by
          /\ token' \in [Items -> Reqs \cup {0, Off}]
          /\ \A i \in Items : i # req[r].by => token'[i] = token[i]
          /\ \A i \in Items : i = req[r].by => token'[i] \notin Reqs
      BY <2>1, CallbackOK
    <2> QED BY <1>2, <1>3, <2>1, <2>2, <2>3, FreeOK, EndKeeps
  <1> QED BY <1>4, <1>5

----------------------------------------------------------------------------

\* The invariant holds at the start.
LEMMA InitOK == Init => PInv
  <1> SUFFICES ASSUME Init PROVE PInv
    OBVIOUS
  <1>1. /\ \A r \in Reqs : req[r] = Free
        /\ \A s \in Slots : ~pool[s].in_use
        /\ pending = {} /\ \A w \in Waiters : waiter[w] = "idle"
        /\ \A i \in Items : token[i] = Off
    BY DEF Init
  <1>2. TypeOK
    BY FreeOK DEF Init, TypeOK
  <1>3. ReqsInOrder /\ BuffersOwned
    BY <1>1, FreeOK DEF ReqsInOrder, BuffersOwned, InFlight
  <1>4. TokensInFlight /\ WaitersHaveCapture
    BY <1>1, FreeOK, Numbers DEF TokensInFlight, WaitersHaveCapture, InFlight
  <1> QED BY <1>2, <1>3, <1>4 DEF PInv

\* Every step keeps the invariant.
LEMMA StepKeeps == PInv /\ [Next]_vars => PInv'
  <1> SUFFICES ASSUME PInv, [Next]_vars PROVE PInv'
    OBVIOUS
  <1>1. ASSUME NEW w \in Waiters, request(w) \/ request_refused(w) PROVE PInv'
    BY <1>1, RequestKeeps, RefusedKeeps
  <1>2. CASE clear
    BY <1>2, ClearKeeps
  <1>3. ASSUME NEW i \in Items, capture(i) \/ on_destroy(i) PROVE PInv'
    BY <1>3, CaptureKeeps, DestroyKeeps
  <1>4. ASSUME NEW r \in Reqs, FrameEvent(r) PROVE PInv'
    <2>1. ASSUME NEW g \in Geoms, NEW shm \in BOOLEAN, NEW own \in BOOLEAN, frame_handle_buffer(r, g, shm, own)
          PROVE  PInv'
      BY <2>1, BufferKeeps
    <2>2. CASE frame_handle_ready(r) \/ frame_handle_failed(r)
      BY <2>2, FinishKeeps DEF frame_handle_ready, frame_handle_failed, InFlight
    <2> QED BY <1>4, <2>1, <2>2 DEF FrameEvent, create_shm_file
  <1>5. CASE UNCHANGED vars
    BY <1>5 DEF vars, PInv, TypeOK, ReqsInOrder, BuffersOwned, TokensInFlight, WaitersHaveCapture, InFlight
  <1> QED BY <1>1, <1>2, <1>3, <1>4, <1>5 DEF Next

\* The invariant of the captures holds in every state of every behaviour.
THEOREM CaptureInvariance == Spec => []PInv
  BY InitOK, StepKeeps, PTL DEF Spec

\* The types of the pool, the requests and their users (wayland_integration.c,
\* preview_cache.vala).
THEOREM TypeCorrect == Spec => []TypeOK
  <1>1. PInv => TypeOK
    BY DEF PInv
  <1> QED BY <1>1, CaptureInvariance, PTL

\* No buffer of the pool is shared, changed under a capture or lost
\* (preview_buffer_acquire, preview_pool_trim).
THEOREM PoolIsOwned == Spec => []PoolOwned
  <1>1. PInv => PoolOwned
    <2> SUFFICES ASSUME PInv, NEW s \in Slots
                 PROVE  LET users == {r \in Reqs : req[r].pb = s}
                        IN /\ pool[s].in_use <=> users # {}
                           /\ \A r, q \in users : r = q
                           /\ \A r \in users : req[r].st = "copying" /\ req[r].geom = pool[s].geom
                                               /\ pool[s].geom # NoGeom
      BY DEF PoolOwned
    <2>1. s # 0
      BY Numbers
    <2>2. \A r \in Reqs : req[r].pb = s => /\ req[r].st = "copying" /\ pool[s].in_use
                                            /\ req[r].geom = pool[s].geom /\ pool[s].geom # NoGeom
      BY <2>1 DEF PInv, ReqsInOrder, BuffersOwned
    <2>3. \A r, q \in Reqs : req[r].pb = s /\ req[q].pb = s => r = q
      BY <2>1 DEF PInv, BuffersOwned
    <2>4. pool[s].in_use => \E r \in Reqs : req[r].pb = s
      BY DEF PInv, BuffersOwned
    <2>5. pool[s].in_use \in BOOLEAN
      BY DEF PInv, TypeOK
    <2> QED BY <2>2, <2>3, <2>4, <2>5
  <1> QED BY <1>1, CaptureInvariance, PTL

\* The token a switcher item holds is a capture in flight for it, and no capture
\* outlives its item (cancel_capture, frame_handle_buffer).
THEOREM TokensAreInFlight == Spec => []TokensInFlight
  <1>1. PInv => TokensInFlight
    BY DEF PInv
  <1> QED BY <1>1, CaptureInvariance, PTL

\* A caller of the cache that waits has a capture in flight (PreviewCache).
THEOREM WaitersAlwaysHaveCapture == Spec => []WaitersHaveCapture
  <1>1. PInv => WaitersHaveCapture
    BY DEF PInv
  <1> QED BY <1>1, CaptureInvariance, PTL

----------------------------------------------------------------------------
(* Windows *)

\* The events of a handle, and the others.
HandleKinds == {"toplevel", "title", "app_id", "closed", "parent", "state", "enter", "leave",
                "tileable", "geometry", "workarea"}
HandleEvs ==
  [ev : {"toplevel", "title", "app_id", "closed", "parent"}, h : Handles]
  \cup [ev : {"state"}, h : Handles, act : BOOLEAN, min : BOOLEAN]
  \cup [ev : {"enter", "leave"}, h : Handles, o : Outputs]
  \cup [ev : {"tileable", "geometry", "workarea"}, h : Handles, v : BOOLEAN]
OtherEvs ==
  [ev : {"group", "genter", "gleave", "gremoved", "wsenter", "wsleave", "wsname", "wsremoved"},
   h : {"none"}, g : Groups, w : Outputs \cup Spaces]
  \cup [ev : {"wsstate"}, h : {"none"}, w : Spaces, act : BOOLEAN]
  \cup [ev : {"sync"}, h : {"none"}, n : Nat]
Evs == HandleEvs \cup OtherEvs

Tops == [live : BOOLEAN, outs : SUBSET Outputs, tile : BOOLEAN]
Entries == [entry : BOOLEAN, got : BOOLEAN, workarea_got : BOOLEAN, tileable_got : BOOLEAN, tileable : BOOLEAN]
Frames == [k : {"opening", "query"}, h : Handles, id : Nat, done : BOOLEAN]
Asked == [k : {"tileable", "geometry", "workarea", "request"}, h : Handles, n : Nat]

\* The types of the caches, the windows and the queues; those of the lists of
\* workspaces are ListsOK, below.
QueuesOK == /\ evq \in Seq(Evs) /\ reqq \in Seq(Asked) /\ stack \in Seq(Frames) /\ opens \in Nat
            /\ active \in [Groups -> Spaces] /\ plugged \subseteq Outputs
CachesOK ==
  /\ top \in [Handles -> Tops] /\ geom \in [Handles -> Entries]
  /\ outmap \in [Handles -> Outputs \cup {"none"}] /\ winof \in [Handles -> Nat]
  /\ proxy \subseteq Handles /\ valid_handles \subseteq Handles /\ title \subseteq Handles

At(i, kind, h) == evq[i].h = h /\ evq[i].ev = kind
Queued(kind, h) == \E i \in 1..Len(evq) : At(i, kind, h)
Known(h) == h \in proxy \/ Queued("toplevel", h)

\* Of one handle, toplevel is the first event in the queue and closed the last.
InOrder ==
  \A h \in Handles : \A i, j \in 1..Len(evq) :
    evq[i].h = h => /\ At(j, "toplevel", h) => j <= i
                    /\ At(j, "closed", h) => i <= j

\* Events are of handles that are known, or will be before the event is handled;
\* a handle is announced once.
Introduced ==
  \A h \in Handles :
    /\ \A i \in 1..Len(evq) : evq[i].h = h => Known(h)
    /\ h \in proxy => ~Queued("toplevel", h)

\* A window is open at the compositor exactly if its handle is known and no
\* closed event is under way.
Ends ==
  \A h \in Handles : /\ top[h].live <=> Known(h) /\ ~Queued("closed", h)
                     /\ ~top[h].live => top[h] = NoTop

\* An answer to tileable that is no longer true is followed by a parent event.
AnswersFresh ==
  \A h \in Handles : \A i \in 1..Len(evq) :
    At(i, "tileable", h) /\ top[h].live /\ evq[i].v # top[h].tile
      => \E j \in 1..Len(evq) : i < j /\ At(j, "parent", h)

QueueInv == InOrder /\ Introduced /\ Ends /\ AnswersFresh
WinInv == QueuesOK /\ CachesOK /\ QueueInv /\ HandlesLive /\ TileableFresh

----------------------------------------------------------------------------
(* Sequences *)

\* A set of naturals has a least member.
LEMMA LeastNat ==
  ASSUME NEW T \in SUBSET Nat, T # {}
  PROVE  \E n \in T : \A m \in T : n <= m
<1> DEFINE R == {p \in Nat \X Nat : p[1] < p[2]}
<1>1. IsWellFoundedOn(R, Nat)
  <2>1. OpToRel(<, Nat) = R
    BY DEF OpToRel
  <2> QED BY <2>1, NatLessThanWellFounded, Zenon
<1>2. \A m, n \in Nat : <<m, n>> \in R <=> m < n
  OBVIOUS
<1> HIDE DEF R
<1>3. PICK n \in T : \A m \in T : ~(<<m, n>> \in R)
  BY <1>1, WFMin, Zenon
<1>4. \A m \in T : ~(m < n)
  BY <1>2, <1>3, Zenon
<1>5. \A m \in T : n <= m
  BY <1>4
<1> QED
  BY <1>5

\* Induction over the naturals, for a set.
LEMMA SetInduction ==
  ASSUME NEW T, 0 \in T, \A n \in Nat : n \in T => n + 1 \in T
  PROVE  Nat \subseteq T
<1> SUFFICES ASSUME Nat \ T # {} PROVE FALSE
  OBVIOUS
<1>1. PICK n \in Nat \ T : \A m \in Nat \ T : n <= m
  BY LeastNat
<1>2. n # 0 /\ n - 1 \in T
  BY <1>1
<1> QED
  BY <1>1, <1>2

\* A pair is a sequence.
LEMMA Pair == ASSUME NEW S, NEW x \in S, NEW y \in S PROVE <<x, y>> \in Seq(S)
  OBVIOUS

\* Three members make a sequence.
LEMMA Triple == ASSUME NEW S, NEW x \in S, NEW y \in S, NEW z \in S PROVE <<x, y, z>> \in Seq(S)
  OBVIOUS

\* So does a function on the first numbers, here of sequences.
LEMMA FunSeq ==
  ASSUME NEW S, NEW n \in Nat, NEW f, f = [j \in 1..n |-> f[j]], \A j \in 1..n : f[j] \in Seq(S)
  PROVE  f \in Seq(Seq(S))
<1> DEFINE E == Seq(S)
<1>1. \A j \in 1..n : f[j] \in E
  OBVIOUS
<1> HIDE DEF E
<1>2. f \in [1..n -> E]
  BY <1>1
<1>3. f \in Seq(E)
  BY <1>2
<1> QED BY <1>3 DEF E

\* Joining sequences is associative.
LEMMA Assoc ==
  ASSUME NEW S, NEW p \in Seq(S), NEW q \in Seq(S), NEW r \in Seq(S)
  PROVE  (p \o q) \o r = p \o (q \o r)
<1>1. Len((p \o q) \o r) = Len(p \o (q \o r))
  OBVIOUS
<1>2. (p \o q) \o r \in Seq(S) /\ p \o (q \o r) \in Seq(S)
  OBVIOUS
<1>3. \A i \in 1..(Len(p) + Len(q) + Len(r)) : ((p \o q) \o r)[i] = (p \o (q \o r))[i]
  OBVIOUS
<1> QED BY <1>1, <1>2, <1>3

\* SetToSeq lists a finite set.
LEMMA Listed ==
  ASSUME NEW S, IsFiniteSet(S)
  PROVE  /\ SetToSeq(S) \in Seq(S) /\ Len(SetToSeq(S)) = Cardinality(S) /\ Cardinality(S) \in Nat
         /\ \A i \in 1..Cardinality(S) : SetToSeq(S)[i] \in S
<1> DEFINE c == Cardinality(S)
<1>1. c \in Nat /\ ExistsBijection(1..c, S)
  BY FS_CardinalityType
<1>2. \E f \in [1..c -> S] : IsInjective(f)
  BY <1>1 DEF ExistsBijection, Bijection, Injection, Surjection
<1>3. SetToSeq(S) \in [1..c -> S]
  <2> HIDE DEF c
  <2>1. SetToSeq(S) = CHOOSE f \in [1..c -> S] : IsInjective(f)
    BY DEF SetToSeq, c
  <2> QED BY <1>2, <2>1
<1> HIDE DEF c
<1>4. SetToSeq(S) \in Seq(S) /\ Len(SetToSeq(S)) = c /\ \A i \in 1..c : SetToSeq(S)[i] \in S
  BY <1>1, <1>3
<1> QED BY <1>1, <1>4 DEF c

\* As many different members as a finite set has are all of them.
LEMMA AllOfThem ==
  ASSUME NEW S, IsFiniteSet(S), NEW f \in [1..Cardinality(S) -> S], \A i, j \in 1..Cardinality(S) : i # j => f[i] # f[j]
  PROVE  \A x \in S : \E i \in 1..Cardinality(S) : f[i] = x
<1> DEFINE c == Cardinality(S)
           D == 1..c
<1>1. c \in Nat
  BY FS_CardinalityType
<1>2. IsFiniteSet(D) /\ Cardinality(D) = c
  <2>1. ExistsBijection(D, S)
    BY FS_CardinalityType
  <2>2. IsFiniteSet(D)
    BY <1>1, FS_Interval
  <2> HIDE DEF D, c
  <2>3. Cardinality(S) = Cardinality(D)
    BY <2>1, <2>2, FS_Bijection
  <2> QED BY <2>2, <2>3 DEF c
<1>3. f \in Injection(D, S)
  BY DEF Injection, IsInjective
<1> HIDE DEF D
<1>4. f \in Surjection(D, S)
  BY <1>2, <1>3, FS_Injection
<1> QED BY <1>4 DEF Surjection, D

\* SetToSeq lists all members.
LEMMA ListedAll ==
  ASSUME NEW S, IsFiniteSet(S)
  PROVE  \A x \in S : \E i \in 1..Len(SetToSeq(S)) : SetToSeq(S)[i] = x
<1> DEFINE c == Cardinality(S)
           f == SetToSeq(S)
<1>1. c \in Nat /\ ExistsBijection(1..c, S)
  BY FS_CardinalityType
<1>2. \E h \in [1..c -> S] : IsInjective(h)
  BY <1>1 DEF ExistsBijection, Bijection, Injection, Surjection
<1>3. f \in [1..c -> S] /\ IsInjective(f)
  <2> HIDE DEF c
  <2>1. SetToSeq(S) = CHOOSE h \in [1..c -> S] : IsInjective(h)
    BY DEF SetToSeq, c
  <2> QED BY <1>2, <2>1
<1>4. Len(f) = c
  BY Listed
<1> HIDE DEF f
<1>5. \A i, j \in 1..c : i # j => f[i] # f[j]
  BY <1>3 DEF IsInjective
<1>6. \A x \in S : \E i \in 1..c : f[i] = x
  BY <1>3, <1>5, AllOfThem
<1> QED BY <1>4, <1>6 DEF f

\* The members of a sequence.
LEMMA InRange ==
  ASSUME NEW S, NEW s \in Seq(S), NEW x
  PROVE  x \in Range(s) <=> \E i \in 1..Len(s) : s[i] = x
  BY DEF Range

\* The image of a finite set is finite.
LEMMA FiniteImage ==
  ASSUME NEW S, IsFiniteSet(S), NEW T, NEW f \in [S -> T], \A t \in T : \E x \in S : f[x] = t
  PROVE  IsFiniteSet(T)
<1>1. f \in Surjection(S, T)
  BY DEF Surjection
<1> QED BY <1>1, FS_Surjection

\* One step of the loop in FlattenSeq.
Joined(s, F, i) == IF i = 1 THEN s[i] ELSE F[i-1] \o s[i]

\* The sequences FlattenSeq joins one after the other.
LEMMA FlatSteps ==
  ASSUME NEW E, NEW s \in Seq(Seq(E)), Len(s) # 0
  PROVE  \E C : /\ FlattenSeq(s) = C[Len(s)]
                /\ \A i \in 1..Len(s) : C[i] = Joined(s, C, i) /\ C[i] \in Seq(E)
<1> DEFINE Sol(F, n) == F = [i \in 1..n |-> Joined(s, F, i)]
           T == {n \in Nat : n + 1 <= Len(s) => \E F : Sol(F, n + 1)}
<1>1. 0 \in T
  <2> DEFINE F == [i \in 1..(0 + 1) |-> s[1]]
  <2>1. Sol(F, 0 + 1)
    BY DEF Joined
  <2> QED BY <2>1
<1>2. ASSUME NEW n \in Nat, NEW G, Sol(G, n)
      PROVE  \A i \in 1..n : G[i] = Joined(s, G, i)
  <2> DEFINE H == [i \in 1..n |-> Joined(s, G, i)]
  <2>1. G = H
    BY <1>2
  <2>2. \A i \in 1..n : H[i] = Joined(s, G, i)
    OBVIOUS
  <2> HIDE DEF H
  <2> QED BY <2>1, <2>2
<1>3. ASSUME NEW n \in Nat, n \in T PROVE n + 1 \in T
  <2> DEFINE m == n + 1
  <2> SUFFICES ASSUME m + 1 <= Len(s) PROVE \E F : Sol(F, m + 1)
    <3> HIDE DEF Sol
    <3>1. m \in Nat
      OBVIOUS
    <3> QED BY <3>1
  <2>1. PICK G : Sol(G, m)
    BY <1>3
  <2>1a. m \in Nat /\ m >= 1 /\ m + 1 \in 1..Len(s)
    OBVIOUS
  <2> HIDE DEF m
  <2>2. \A i \in 1..m : G[i] = Joined(s, G, i)
    BY <1>2, <2>1, <2>1a
  <2> HIDE DEF Sol
  <2> DEFINE F == [i \in 1..(m+1) |-> IF i <= m THEN G[i] ELSE Joined(s, G, m+1)]
  <2>3. \A i \in 1..m : F[i] = G[i]
    BY <2>1a
  <2>4. F[m+1] = Joined(s, G, m+1)
    BY <2>1a
  <2>5. \A i \in 1..(m+1) : Joined(s, F, i) = Joined(s, G, i)
    <3> HIDE DEF F
    <3>1. \A i \in 1..(m+1) : i # 1 => F[i-1] = G[i-1]
      BY <2>3, <2>1a
    <3> QED BY <3>1 DEF Joined
  <2>6. \A i \in 1..(m+1) : F[i] = Joined(s, F, i)
    <3> HIDE DEF F
    <3>1. ASSUME NEW i \in 1..(m + 1), i # m + 1 PROVE F[i] = Joined(s, F, i)
      <4>1. i \in 1..m
        BY <2>1a, <3>1
      <4> QED BY <4>1, <2>2, <2>3, <2>5
    <3>2. F[m + 1] = Joined(s, F, m + 1)
      <4>1. m + 1 \in 1..(m + 1)
        BY <2>1a
      <4> QED BY <4>1, <2>4, <2>5
    <3> QED BY <3>1, <3>2
  <2>7. F = [i \in 1..(m+1) |-> F[i]]
    OBVIOUS
  <2>8. Sol(F, m + 1)
    <3> HIDE DEF F
    <3> QED BY <2>6, <2>7 DEF Sol
  <2> QED BY <2>8
<1>4. Len(s) - 1 \in T
  <2> HIDE DEF T
  <2>1. Len(s) - 1 \in Nat
    OBVIOUS
  <2> QED BY <1>1, <1>3, <2>1, SetInduction
<1>5. \E F : Sol(F, Len(s))
  <2>1. (Len(s) - 1) + 1 = Len(s)
    OBVIOUS
  <2> HIDE DEF Sol
  <2> QED BY <1>4, <2>1
<1> DEFINE C == CHOOSE G : Sol(G, Len(s))
<1>6. Sol(C, Len(s))
  <2> HIDE DEF Sol
  <2> QED BY <1>5, Zenon
<1>7. FlattenSeq(s) = C[Len(s)]
  BY DEF FlattenSeq, Joined
<1>8. \A i \in 1..Len(s) : C[i] = Joined(s, C, i)
  <2> HIDE DEF Sol, C
  <2> QED BY <1>2, <1>6
<1> HIDE DEF C, Sol
<1> DEFINE U == {n \in Nat : n + 1 <= Len(s) => C[n + 1] \in Seq(E)}
<1>9. 0 \in U
  <2>1. 1 \in 1..Len(s) /\ 0 + 1 = 1
    OBVIOUS
  <2>2. C[1] = s[1] /\ s[1] \in Seq(E)
    BY <1>8, <2>1 DEF Joined
  <2> QED BY <2>1, <2>2
<1>10. ASSUME NEW n \in Nat, n \in U PROVE n + 1 \in U
  <2> SUFFICES ASSUME (n + 1) + 1 <= Len(s) PROVE C[(n + 1) + 1] \in Seq(E)
    OBVIOUS
  <2>1. C[n + 1] \in Seq(E) /\ s[(n + 1) + 1] \in Seq(E)
    BY <1>10
  <2>2. (n + 1) + 1 \in 1..Len(s) /\ (n + 1) + 1 # 1 /\ ((n + 1) + 1) - 1 = n + 1
    OBVIOUS
  <2>3. C[(n + 1) + 1] = C[n + 1] \o s[(n + 1) + 1]
    BY <1>8, <2>2 DEF Joined
  <2> QED BY <2>1, <2>3
<1>11. ASSUME NEW i \in 1..Len(s) PROVE C[i] \in Seq(E)
  <2>1. \A n \in Nat : n \in U
    <3> HIDE DEF U
    <3> QED BY <1>9, <1>10, SetInduction
  <2>2. i - 1 \in Nat /\ (i - 1) + 1 = i /\ i <= Len(s)
    OBVIOUS
  <2>3. i - 1 \in U
    <3> HIDE DEF U
    <3> QED BY <2>1, <2>2
  <2> QED BY <2>2, <2>3
<1>12. /\ FlattenSeq(s) = C[Len(s)]
       /\ \A i \in 1..Len(s) : C[i] = Joined(s, C, i) /\ C[i] \in Seq(E)
  BY <1>7, <1>8, <1>11, Zenon
<1> QED BY <1>12, Zenon

\* FlattenSeq joins sequences of one type to a sequence of that type.
LEMMA Flat ==
  ASSUME NEW E, NEW s \in Seq(Seq(E))
  PROVE  FlattenSeq(s) \in Seq(E)
<1>1. CASE Len(s) = 0
  <2>1. FlattenSeq(s) = s /\ s = <<>>
    BY <1>1 DEF FlattenSeq
  <2> QED BY <2>1
<1>2. CASE Len(s) # 0
  <2>1. PICK C : /\ FlattenSeq(s) = C[Len(s)]
                 /\ \A i \in 1..Len(s) : C[i] = Joined(s, C, i) /\ C[i] \in Seq(E)
    BY <1>2, FlatSteps, Zenon
  <2>2. Len(s) \in 1..Len(s)
    BY <1>2
  <2> QED BY <2>1, <2>2, Zenon
<1> QED BY <1>1, <1>2

\* What an event of each kind has.
LEMMA EvFields ==
  \A x \in Evs : /\ x.h \in Handles \cup {"none"}
                 /\ x.h \in Handles <=> x.ev \in HandleKinds
                 /\ x.ev \in {"enter", "leave"} => x.o \in Outputs
                 /\ x.ev = "tileable" => x.v \in BOOLEAN
  BY GroupsAssumption DEF Evs, HandleEvs, OtherEvs, HandleKinds

\* Events at the end of a queue.
LEMMA Longer ==
  ASSUME NEW S, NEW q \in Seq(S), NEW b \in Seq(S)
  PROVE  /\ q \o b \in Seq(S) /\ Len(q \o b) = Len(q) + Len(b) /\ Len(q) \in Nat /\ Len(b) \in Nat
         /\ \A i \in 1..Len(q) : (q \o b)[i] = q[i]
         /\ \A i \in 1..(Len(q) + Len(b)) : i \notin 1..Len(q) =>
              i > Len(q) /\ i - Len(q) \in 1..Len(b) /\ (q \o b)[i] = b[i - Len(q)]
         /\ \A i \in 1..Len(b) : Len(q) + i \in 1..(Len(q) + Len(b)) /\ (q \o b)[Len(q) + i] = b[i]
  OBVIOUS

\* The sequence r is in l, after d others.
Within(r, l, d) == \A j \in 1..Len(r) : d + j \in 1..Len(l) /\ l[d + j] = r[j]

\* The result has each of the sequences, one after the other.
LEMMA FlatParts ==
  ASSUME NEW E, NEW s \in Seq(Seq(E)), NEW i \in 1..Len(s)
  PROVE  \E d \in Nat : Within(s[i], FlattenSeq(s), d)
<1>0. Len(s) # 0 /\ Len(s) \in Nat /\ i \in Nat /\ i >= 1 /\ i <= Len(s)
  OBVIOUS
<1>1. PICK C : /\ FlattenSeq(s) = C[Len(s)]
               /\ \A n \in 1..Len(s) : C[n] = Joined(s, C, n) /\ C[n] \in Seq(E)
  BY <1>0, FlatSteps, Zenon
<1>2. \A n \in 1..Len(s) : s[n] \in Seq(E)
  <2> DEFINE S == Seq(E)
  <2>1. s \in Seq(S)
    OBVIOUS
  <2> HIDE DEF S
  <2>2. \A n \in 1..Len(s) : s[n] \in S
    BY <2>1
  <2> QED BY <2>2 DEF S
<1> DEFINE Has(c, d) == \A j \in 1..Len(s[i]) : d + j \in 1..Len(c) /\ c[d + j] = s[i][j]
           U == {n \in Nat : i + n <= Len(s) => \E d \in Nat : Has(C[i + n], d)}
<1>3. 0 \in U
  <2> SUFFICES \E d \in Nat : Has(C[i], d)
    <3>1. i + 0 = i /\ 0 \in Nat
      BY <1>0
    <3> HIDE DEF Has
    <3> QED BY <3>1
  <2>1. CASE i = 1
    <3>1. C[i] = s[i]
      BY <1>1, <2>1 DEF Joined
    <3>2. Has(C[i], 0)
      BY <1>2, <3>1
    <3> HIDE DEF Has
    <3> QED BY <3>2
  <2>2. CASE i # 1
    <3> DEFINE c == C[i - 1]
               d == Len(c)
    <3>0. i - 1 \in 1..Len(s)
      BY <1>0, <2>2
    <3>1. C[i] = c \o s[i]
      <4>1. C[i] = Joined(s, C, i)
        BY <1>1
      <4> QED BY <2>2, <4>1 DEF Joined
    <3>2. c \in Seq(E) /\ s[i] \in Seq(E)
      BY <1>1, <1>2, <3>0
    <3> HIDE DEF c
    <3>3. Has(c \o s[i], d) /\ d \in Nat
      <4>1. /\ Len(c \o s[i]) = Len(c) + Len(s[i]) /\ Len(c) \in Nat
            /\ \A j \in 1..Len(s[i]) : Len(c) + j \in 1..(Len(c) + Len(s[i])) /\ (c \o s[i])[Len(c) + j] = s[i][j]
        BY <3>2, Longer
      <4> QED BY <4>1
    <3> HIDE DEF Has, d
    <3> QED BY <3>1, <3>3
  <2> QED BY <2>1, <2>2
<1>4. ASSUME NEW n \in Nat, n \in U PROVE n + 1 \in U
  <2> SUFFICES ASSUME i + (n + 1) <= Len(s) PROVE \E d \in Nat : Has(C[i + (n + 1)], d)
    OBVIOUS
  <2>1. i + n \in 1..Len(s) /\ i + (n + 1) \in 1..Len(s) /\ i + (n + 1) # 1 /\ (i + (n + 1)) - 1 = i + n
    BY <1>0
  <2> DEFINE c == C[i + n]
             b == s[i + (n + 1)]
  <2>2. C[i + (n + 1)] = c \o b /\ c \in Seq(E) /\ b \in Seq(E)
    BY <1>1, <1>2, <2>1 DEF Joined
  <2>3. PICK d \in Nat : Has(c, d)
    BY <1>4, <2>1
  <2> HIDE DEF c, b
  <2>4. Has(c \o b, d)
    <3>1. /\ Len(c \o b) = Len(c) + Len(b) /\ Len(c) \in Nat /\ Len(b) \in Nat
          /\ \A j \in 1..Len(c) : (c \o b)[j] = c[j]
      BY <2>2, Longer
    <3>2. \A j \in 1..Len(s[i]) : d + j \in 1..Len(c) /\ c[d + j] = s[i][j]
      BY <2>3
    <3>3. 1..Len(c) \subseteq 1..Len(c \o b)
      BY <3>1
    <3> DEFINE r == c \o b
               n1 == Len(r)
    <3> HIDE DEF r, n1
    <3>4. \A j \in 1..Len(s[i]) : d + j \in 1..n1 /\ r[d + j] = s[i][j]
      BY <3>1, <3>2, <3>3 DEF r, n1
    <3> QED BY <3>4 DEF r, n1
  <2> HIDE DEF Has
  <2> QED BY <2>2, <2>4
<1>5. Len(s) - i \in U
  <2> HIDE DEF U
  <2>1. Len(s) - i \in Nat
    BY <1>0
  <2> QED BY <1>3, <1>4, <2>1, SetInduction
<1>6. i + (Len(s) - i) = Len(s)
  BY <1>0
<1> HIDE DEF Has
<1>7. \E d \in Nat : Has(FlattenSeq(s), d)
  BY <1>1, <1>5, <1>6
<1> QED BY <1>7 DEF Has, Within

\* A queue without its first event.
LEMMA Shorter ==
  ASSUME NEW S, NEW q \in Seq(S), q # <<>>
  PROVE  /\ Tail(q) \in Seq(S) /\ Len(q) \in Nat /\ Len(q) >= 1 /\ Len(Tail(q)) = Len(q) - 1
         /\ \A i \in 1..(Len(q) - 1) : i + 1 \in 1..Len(q) /\ Tail(q)[i] = q[i + 1]
         /\ \A i \in 1..Len(q) : i # 1 => i - 1 \in 1..(Len(q) - 1) /\ Tail(q)[i - 1] = q[i]
         /\ Head(q) = q[1] /\ 1 \in 1..Len(q) /\ q[1] \in S
  OBVIOUS

----------------------------------------------------------------------------
(* The queue *)

\* The compositor tells about windows that are open.
LEMMA Told ==
  ASSUME WinInv, NEW b \in Seq(Evs), evq' = evq \o b, proxy' = proxy,
         \A i \in 1..Len(b) : /\ b[i].ev \notin {"toplevel", "closed"}
                              /\ b[i].h \in Handles => top[b[i].h].live
                              /\ b[i].ev = "tileable" => b[i].v = top'[b[i].h].tile,
         \A x \in Handles : /\ top'[x].live <=> top[x].live
                            /\ ~top[x].live => top'[x] = NoTop
                            /\ \/ top'[x].tile = top[x].tile
                               \/ \E i \in 1..Len(b) : b[i].ev = "parent" /\ b[i].h = x
                                                       /\ \A j \in 1..Len(b) : b[j].ev # "tileable"
  PROVE  evq' \in Seq(Evs) /\ QueueInv' /\ (geom' = geom => TileableFresh')
<1> DEFINE n == Len(evq)
           k == Len(b)
<1>0. QueuesOK /\ CachesOK /\ InOrder /\ Introduced /\ Ends /\ AnswersFresh /\ TileableFresh
  BY DEF WinInv, QueueInv
<1>1. /\ evq' \in Seq(Evs) /\ Len(evq') = n + k /\ n \in Nat /\ k \in Nat
      /\ \A i \in 1..n : evq'[i] = evq[i] /\ i \in 1..(n + k)
      /\ \A i \in 1..(n + k) : i \notin 1..n => i > n /\ i - n \in 1..k /\ evq'[i] = b[i - n]
      /\ \A i \in 1..k : n + i \in 1..(n + k) /\ evq'[n + i] = b[i]
  BY <1>0, Longer DEF QueuesOK
<1> HIDE DEF n, k
<1>2. ASSUME NEW i \in 1..(n + k), NEW h \in Handles, At(i, "toplevel", h)' \/ At(i, "closed", h)'
      PROVE  i \in 1..n /\ evq'[i] = evq[i]
  BY <1>1, <1>2 DEF At, k
<1>3. \A h \in Handles : /\ Queued("toplevel", h)' <=> Queued("toplevel", h)
                         /\ Queued("closed", h)' <=> Queued("closed", h)
  <2> SUFFICES ASSUME NEW h \in Handles, NEW c \in {"toplevel", "closed"}
               PROVE  (\E i \in 1..(n + k) : evq'[i].h = h /\ evq'[i].ev = c)
                      <=> (\E i \in 1..n : evq[i].h = h /\ evq[i].ev = c)
    BY <1>1 DEF Queued, At, n
  <2>1. \A i \in 1..(n + k) : evq'[i].h = h /\ evq'[i].ev = c => i \in 1..n /\ evq'[i] = evq[i]
    BY <1>2 DEF At
  <2> QED BY <2>1, <1>1
<1>4. \A h \in Handles : Known(h)' <=> Known(h)
  BY <1>3 DEF Known
<1>5. \A i \in 1..(n + k), h \in Handles : i \notin 1..n /\ evq'[i].h = h => top[h].live
  BY <1>1 DEF k
<1>6. InOrder'
  <2> SUFFICES ASSUME NEW h \in Handles, NEW i \in 1..(n + k), NEW j \in 1..(n + k), evq'[i].h = h
               PROVE  /\ At(j, "toplevel", h)' => j <= i
                      /\ At(j, "closed", h)' => i <= j
    BY <1>1 DEF InOrder
  <2>1. CASE i \in 1..n
    BY <2>1, <1>0, <1>1, <1>2 DEF InOrder, At, n
  <2>2. CASE i \notin 1..n
    <3>1. top[h].live /\ i > n
      BY <2>2, <1>1, <1>5
    <3>2. ~At(j, "closed", h)'
      <4>1. ~Queued("closed", h)
        BY <3>1, <1>0 DEF Ends
      <4> QED BY <4>1, <1>2 DEF Queued, At, n
    <3> QED BY <3>1, <3>2, <1>1, <1>2
  <2> QED BY <2>1, <2>2
<1>7. Introduced'
  <2> SUFFICES ASSUME NEW h \in Handles
               PROVE  /\ \A i \in 1..(n + k) : evq'[i].h = h => Known(h)
                      /\ h \in proxy => ~Queued("toplevel", h)
    BY <1>1, <1>3, <1>4 DEF Introduced
  <2>1. ASSUME NEW i \in 1..(n + k), evq'[i].h = h PROVE Known(h)
    <3>1. CASE i \in 1..n
      BY <3>1, <2>1, <1>1, <1>0 DEF Introduced, n
    <3>2. CASE i \notin 1..n
      BY <3>2, <2>1, <1>5, <1>0 DEF Ends
    <3> QED BY <3>1, <3>2
  <2> QED BY <2>1, <1>0 DEF Introduced
<1>8. Ends'
  BY <1>0, <1>3, <1>4 DEF Ends
<1>9. ASSUME NEW h \in Handles, top'[h].tile # top[h].tile
      PROVE  /\ \E j \in 1..(n + k) : j > n /\ evq'[j].h = h /\ evq'[j].ev = "parent"
             /\ \A j \in 1..k : b[j].ev # "tileable"
  <2>1. PICK i \in 1..k : b[i].ev = "parent" /\ b[i].h = h /\ \A j \in 1..k : b[j].ev # "tileable"
    BY <1>9 DEF k
  <2>2. n + i \in 1..(n + k) /\ evq'[n + i] = b[i] /\ n + i > n
    BY <1>1
  <2>3. evq'[n + i].h = h /\ evq'[n + i].ev = "parent"
    BY <2>1, <2>2
  <2> HIDE DEF n
  <2>4. \E j \in 1..(n + k) : j > n /\ evq'[j].h = h /\ evq'[j].ev = "parent"
    BY <2>2, <2>3, Zenon
  <2> QED BY <2>1, <2>4, Zenon
<1>10. AnswersFresh'
  <2>1. ASSUME NEW h \in Handles, NEW i \in 1..(n + k), At(i, "tileable", h)',
               top'[h].live, evq'[i].v # top'[h].tile
        PROVE  \E j \in 1..(n + k) : i < j /\ At(j, "parent", h)'
    <3>1. i \in 1..n /\ evq'[i] = evq[i]
      <4>1. CASE i \in 1..n
        BY <4>1, <1>1
      <4>2. CASE i \notin 1..n
        <5>1. i - n \in 1..k /\ evq'[i] = b[i - n]
          BY <4>2, <1>1
        <5> QED BY <5>1, <2>1 DEF k, At
      <4> QED BY <4>1, <4>2
    <3>2. CASE top'[h].tile # top[h].tile
      <4>1. PICK j \in 1..(n + k) : j > n /\ evq'[j].h = h /\ evq'[j].ev = "parent"
        BY <3>2, <1>9
      <4>2. i < j
        BY <4>1, <3>1, <1>1
      <4> QED BY <4>1, <4>2 DEF At
    <3>3. CASE top'[h].tile = top[h].tile
      <4>1. PICK j \in 1..n : i < j /\ evq[j].h = h /\ evq[j].ev = "parent"
        BY <2>1, <3>1, <3>3, <1>0 DEF AnswersFresh, At, n
      <4>2. evq'[j] = evq[j] /\ j \in 1..(n + k)
        BY <1>1
      <4> QED BY <4>1, <4>2 DEF At
    <3> QED BY <3>2, <3>3
  <2>2. Len(evq') = n + k
    BY <1>1
  <2> QED BY <2>1, <2>2, Zenon DEF AnswersFresh
<1>11. ASSUME geom' = geom PROVE TileableFresh'
  <2> SUFFICES ASSUME NEW h \in Handles,
                      geom[h].tileable_got, top'[h].live, top'[h].tile # geom[h].tileable
               PROVE  \E j \in 1..(n + k) : evq'[j].h = h /\ evq'[j].ev \in {"parent", "closed"}
    BY <1>1, <1>11 DEF TileableFresh
  <2>1. CASE top'[h].tile # top[h].tile
    BY <2>1, <1>9
  <2>2. CASE top'[h].tile = top[h].tile
    <3>1. PICK j \in 1..n : evq[j].h = h /\ evq[j].ev \in {"parent", "closed"}
      BY <2>2, <1>0 DEF TileableFresh, n
    <3> QED BY <3>1, <1>1
  <2> QED BY <2>1, <2>2
<1> QED BY <1>1, <1>6, <1>7, <1>8, <1>10, <1>11 DEF QueueInv

\* An event other than toplevel is handled when its handle has a proxy.
LEMMA HeadKnown ==
  ASSUME WinInv, evq # <<>>, e.ev \in HandleKinds, e.ev # "toplevel"
  PROVE  e.h \in Handles /\ e.h \in proxy
<1>1. /\ e = evq[1] /\ 1 \in 1..Len(evq) /\ e \in Evs /\ Len(evq) \in Nat
  BY Shorter DEF WinInv, QueuesOK, e
<1>2. e.h \in Handles
  BY <1>1, EvFields
<1>3. ASSUME Queued("toplevel", e.h) PROVE FALSE
  <2>1. PICK j \in 1..Len(evq) : evq[j].h = e.h /\ evq[j].ev = "toplevel"
    BY <1>3 DEF Queued, At
  <2>2. j <= 1
    BY <1>1, <1>2, <2>1 DEF WinInv, QueueInv, InOrder, At
  <2>3. j = 1
    BY <2>2
  <2> QED BY <1>1, <2>1, <2>3
<1> QED BY <1>1, <1>2, <1>3 DEF WinInv, QueueInv, Introduced, Known

\* The shell handles an event.
LEMMA Handled ==
  ASSUME WinInv, evq # <<>>, evq' = Tail(evq), top' = top,
         e.ev = "toplevel" => proxy' = proxy \cup {e.h},
         e.ev = "closed" => proxy' = proxy \ {e.h},
         e.ev \notin {"toplevel", "closed"} => proxy' = proxy,
         \A x \in Handles : geom'[x].tileable_got =>
           \/ /\ geom[x].tileable_got /\ geom'[x].tileable = geom[x].tileable
              /\ ~(e.h = x /\ e.ev \in {"parent", "closed"})
           \/ e.h = x /\ e.ev = "tileable" /\ geom'[x].tileable = e.v
  PROVE  evq' \in Seq(Evs) /\ QueueInv' /\ TileableFresh'
<1> DEFINE n == Len(evq)
<1>0. QueuesOK /\ InOrder /\ Introduced /\ Ends /\ AnswersFresh /\ TileableFresh
  BY DEF WinInv, QueueInv
<1>1. /\ evq' \in Seq(Evs) /\ Len(evq') = n - 1 /\ n \in Nat /\ n >= 1
      /\ \A i \in 1..(n - 1) : i + 1 \in 1..n /\ evq'[i] = evq[i + 1] /\ 1 <= i
      /\ \A i \in 1..n : i # 1 => i - 1 \in 1..(n - 1) /\ evq'[i - 1] = evq[i]
      /\ e = evq[1] /\ 1 \in 1..n
  BY <1>0, Shorter DEF QueuesOK, e
<1> HIDE DEF n
<1>2. \A h \in Handles : \A c : Queued(c, h) <=> (e.ev = c /\ e.h = h) \/ Queued(c, h)'
  <2> SUFFICES ASSUME NEW h \in Handles, NEW c
               PROVE  (\E i \in 1..n : evq[i].h = h /\ evq[i].ev = c)
                      <=> \/ e.ev = c /\ e.h = h
                          \/ \E i \in 1..(n - 1) : evq'[i].h = h /\ evq'[i].ev = c
    BY <1>1 DEF Queued, At, n
  <2>1. ASSUME NEW i \in 1..n, evq[i].h = h, evq[i].ev = c
        PROVE  (e.ev = c /\ e.h = h) \/ \E j \in 1..(n - 1) : evq'[j].h = h /\ evq'[j].ev = c
    <3>1. CASE i = 1
      BY <3>1, <2>1, <1>1
    <3>2. CASE i # 1
      <4>1. i - 1 \in 1..(n - 1) /\ evq'[i - 1].h = h /\ evq'[i - 1].ev = c
        BY <3>2, <2>1, <1>1
      <4> QED BY <4>1
    <3> QED BY <3>1, <3>2
  <2>2. ASSUME NEW i \in 1..(n - 1), evq'[i].h = h, evq'[i].ev = c
        PROVE  \E j \in 1..n : evq[j].h = h /\ evq[j].ev = c
    <3>1. i + 1 \in 1..n /\ evq[i + 1].h = h /\ evq[i + 1].ev = c
      BY <2>2, <1>1
    <3> QED BY <3>1
  <2> QED BY <2>1, <2>2, <1>1
<1>3. ASSUME NEW h \in Handles, e.h = h, e.ev = "toplevel" PROVE ~Queued("toplevel", h)'
  <2> SUFFICES ASSUME NEW i \in 1..(n - 1), evq'[i].h = h, evq'[i].ev = "toplevel" PROVE FALSE
    BY <1>1 DEF Queued, At
  <2>1. i + 1 \in 1..n /\ At(i + 1, "toplevel", h) /\ evq[1].h = h /\ i + 1 > 1
    BY <1>1, <1>3 DEF At
  <2>2. i + 1 <= 1
    BY <2>1, <1>0, <1>1, <1>3 DEF InOrder, n
  <2> QED BY <2>1, <2>2
<1>4. ASSUME e.ev = "closed", e.h \in Handles, NEW i \in 1..(n - 1) PROVE evq'[i].h # e.h
  <2> SUFFICES ASSUME evq'[i].h = e.h PROVE FALSE
    OBVIOUS
  <2>1. i + 1 \in 1..n /\ evq[i + 1].h = e.h /\ At(1, "closed", e.h) /\ i + 1 > 1
    BY <1>1, <1>4 DEF At
  <2>2. i + 1 <= 1
    BY <2>1, <1>0, <1>1, <1>4 DEF InOrder, n
  <2> QED BY <2>1, <2>2
<1>5. e.h \in Handles /\ e.ev \notin {"toplevel", "closed"} => e.h \in proxy
  <2>1. e \in Evs
    BY <1>0, <1>1 DEF QueuesOK, n
  <2> QED BY <2>1, EvFields, HeadKnown
<1>6. \A h \in Handles : Known(h)' <=> Known(h) /\ ~(e.h = h /\ e.ev = "closed")
  <2> SUFFICES ASSUME NEW h \in Handles PROVE Known(h)' <=> Known(h) /\ ~(e.h = h /\ e.ev = "closed")
    OBVIOUS
  <2>1. CASE e.h # h
    <3>1. Queued("toplevel", h)' <=> Queued("toplevel", h)
      BY <2>1, <1>2
    <3>2. h \in proxy' <=> h \in proxy
      BY <2>1
    <3> QED BY <2>1, <3>1, <3>2 DEF Known
  <2>2. CASE e.h = h /\ e.ev = "toplevel"
    <3>1. h \in proxy' /\ Queued("toplevel", h)
      BY <2>2, <1>2
    <3> QED BY <2>2, <3>1 DEF Known
  <2>3. CASE e.h = h /\ e.ev = "closed"
    <3>1. h \notin proxy'
      BY <2>3
    <3>2. ~Queued("toplevel", h)'
      BY <2>3, <1>1, <1>4 DEF Queued, At
    <3> QED BY <2>3, <3>1, <3>2 DEF Known
  <2>4. CASE e.h = h /\ e.ev \notin {"toplevel", "closed"}
    BY <2>4, <1>5 DEF Known
  <2> QED BY <2>1, <2>2, <2>3, <2>4
<1>7. InOrder'
  <2>0. Len(evq') = n - 1
    BY <1>1
  <2> SUFFICES ASSUME NEW h \in Handles, NEW i \in 1..(n - 1), NEW j \in 1..(n - 1), evq'[i].h = h
               PROVE  /\ evq'[j].h = h /\ evq'[j].ev = "toplevel" => j <= i
                      /\ evq'[j].h = h /\ evq'[j].ev = "closed" => i <= j
    BY <2>0, Zenon DEF InOrder, At
  <2>1. i + 1 \in 1..n /\ j + 1 \in 1..n /\ evq'[i] = evq[i + 1] /\ evq'[j] = evq[j + 1]
    BY <1>1
  <2>2. /\ evq'[j].h = h /\ evq'[j].ev = "toplevel" => j + 1 <= i + 1
        /\ evq'[j].h = h /\ evq'[j].ev = "closed" => i + 1 <= j + 1
    BY <2>1, <1>0 DEF InOrder, At, n
  <2>3. (j + 1 <= i + 1 => j <= i) /\ (i + 1 <= j + 1 => i <= j)
    OBVIOUS
  <2> QED BY <2>2, <2>3
<1>8. Introduced'
  <2> SUFFICES ASSUME NEW h \in Handles
               PROVE  /\ \A i \in 1..(n - 1) : evq'[i].h = h => Known(h)'
                      /\ h \in proxy' => ~Queued("toplevel", h)'
    BY <1>1 DEF Introduced
  <2>1. ASSUME NEW i \in 1..(n - 1), evq'[i].h = h PROVE Known(h)'
    <3>1. Known(h)
      BY <2>1, <1>0, <1>1 DEF Introduced, n
    <3>2. ~(e.h = h /\ e.ev = "closed")
      BY <2>1, <1>4
    <3> QED BY <3>1, <3>2, <1>6
  <2>2. ASSUME h \in proxy' PROVE ~Queued("toplevel", h)'
    <3>1. CASE h \in proxy
      BY <3>1, <1>0, <1>2 DEF Introduced
    <3>2. CASE h \notin proxy
      <4>1. e.ev = "toplevel" /\ e.h = h
        BY <3>2, <2>2
      <4> QED BY <4>1, <1>3
    <3> QED BY <3>1, <3>2
  <2> QED BY <2>1, <2>2
<1>9. Ends'
  <2> SUFFICES ASSUME NEW h \in Handles
               PROVE  top[h].live <=> Known(h)' /\ ~Queued("closed", h)'
    BY <1>0 DEF Ends
  <2>1. Queued("closed", h) <=> (e.ev = "closed" /\ e.h = h) \/ Queued("closed", h)'
    BY <1>2
  <2> QED BY <2>1, <1>6, <1>0 DEF Ends
<1>10. ASSUME NEW h \in Handles, NEW i \in 1..n, evq[i].h = h, evq[i].ev = "tileable",
              top[h].live, evq[i].v # top[h].tile
       PROVE  \E j \in 1..(n - 1) : i - 1 < j /\ evq'[j].h = h /\ evq'[j].ev = "parent"
  <2>1. PICK j \in 1..n : i < j /\ evq[j].h = h /\ evq[j].ev = "parent"
    BY <1>0, <1>10 DEF AnswersFresh, At, n
  <2>2. j # 1 /\ i - 1 < j - 1
    BY <2>1, <1>1
  <2>3. j - 1 \in 1..(n - 1) /\ evq'[j - 1] = evq[j]
    BY <2>2, <1>1
  <2> QED BY <2>1, <2>2, <2>3
<1>11. AnswersFresh'
  <2>1. ASSUME NEW h \in Handles, NEW i \in 1..(n - 1), At(i, "tileable", h)',
               top[h].live, evq'[i].v # top[h].tile
        PROVE  \E j \in 1..(n - 1) : i < j /\ At(j, "parent", h)'
    <3>1. i + 1 \in 1..n /\ evq'[i] = evq[i + 1] /\ (i + 1) - 1 = i
      BY <1>1
    <3>2. evq[i + 1].h = h /\ evq[i + 1].ev = "tileable" /\ evq[i + 1].v # top[h].tile
      BY <2>1, <3>1 DEF At
    <3>3. \E j \in 1..(n - 1) : (i + 1) - 1 < j /\ evq'[j].h = h /\ evq'[j].ev = "parent"
      BY <2>1, <3>1, <3>2, <1>10, Zenon
    <3> QED BY <3>1, <3>3, Zenon DEF At
  <2>2. Len(evq') = n - 1 /\ top' = top
    BY <1>1
  <2> QED BY <2>1, <2>2, Zenon DEF AnswersFresh
<1>12. TileableFresh'
  <2> SUFFICES ASSUME NEW h \in Handles, geom'[h].tileable_got, top[h].live, top[h].tile # geom'[h].tileable
               PROVE  \E j \in 1..(n - 1) : evq'[j].h = h /\ evq'[j].ev \in {"parent", "closed"}
    BY <1>1 DEF TileableFresh
  <2>1. CASE /\ geom[h].tileable_got /\ geom'[h].tileable = geom[h].tileable
             /\ ~(e.h = h /\ e.ev \in {"parent", "closed"})
    <3>1. PICK i \in 1..n : evq[i].h = h /\ evq[i].ev \in {"parent", "closed"}
      BY <2>1, <1>0 DEF TileableFresh, n
    <3>2. i # 1
      BY <3>1, <2>1, <1>1
    <3>3. i - 1 \in 1..(n - 1) /\ evq'[i - 1] = evq[i]
      BY <3>2, <1>1
    <3> QED BY <3>1, <3>3
  <2>2. CASE e.h = h /\ e.ev = "tileable" /\ geom'[h].tileable = e.v
    <3>1. \E j \in 1..(n - 1) : 1 - 1 < j /\ evq'[j].h = h /\ evq'[j].ev = "parent"
      BY <2>2, <1>1, <1>10
    <3> QED BY <3>1
  <2> QED BY <2>1, <2>2
<1> QED BY <1>1, <1>7, <1>8, <1>9, <1>11, <1>12 DEF QueueInv

\* The first events of a window that opens.
LEMMA Opens ==
  ASSUME WinInv, NEW h \in Handles, NEW b \in Seq(Evs), 1 \in 1..Len(b), evq' = evq \o b,
         proxy' = proxy, geom' = geom, h \notin proxy, \A i \in 1..Len(evq) : evq[i].h # h,
         \A i \in 1..Len(b) : /\ b[i].h = h /\ b[i].ev \notin {"closed", "tileable"}
                              /\ b[i].ev = "toplevel" <=> i = 1,
         top'[h].live, \A x \in Handles : x # h => top'[x] = top[x]
  PROVE  evq' \in Seq(Evs) /\ QueueInv' /\ TileableFresh'
<1> DEFINE n == Len(evq)
           k == Len(b)
<1>0. QueuesOK /\ InOrder /\ Introduced /\ Ends /\ AnswersFresh /\ TileableFresh /\ HandlesLive
  BY DEF WinInv, QueueInv
<1>1. /\ evq' \in Seq(Evs) /\ Len(evq') = n + k /\ n \in Nat /\ k \in Nat
      /\ \A i \in 1..n : evq'[i] = evq[i] /\ i \in 1..(n + k) /\ evq[i].h # h
      /\ \A i \in 1..(n + k) : i \notin 1..n => i > n /\ i - n \in 1..k /\ evq'[i] = b[i - n]
      /\ n + 1 \in 1..(n + k) /\ evq'[n + 1] = b[1]
  BY <1>0, Longer DEF QueuesOK
<1> HIDE DEF n, k
<1>2. \A i \in 1..(n + k) : IF i \in 1..n THEN evq'[i] = evq[i] /\ evq'[i].h # h
                            ELSE /\ evq'[i].h = h /\ evq'[i].ev \notin {"closed", "tileable"}
                                 /\ evq'[i].ev = "toplevel" <=> i = n + 1
  <2> SUFFICES ASSUME NEW i \in 1..(n + k), i \notin 1..n
               PROVE  /\ evq'[i].h = h /\ evq'[i].ev \notin {"closed", "tileable"}
                      /\ evq'[i].ev = "toplevel" <=> i = n + 1
    <3>1. \A i \in 1..(n + k) : i \in 1..n => evq'[i] = evq[i] /\ evq'[i].h # h
      BY <1>1
    <3> QED BY <3>1, Zenon
  <2>1. i - n \in 1..k /\ evq'[i] = b[i - n]
    BY <1>1
  <2>2. i - n = 1 <=> i = n + 1
    BY <1>1
  <2> QED BY <2>1, <2>2 DEF k
<1>3. /\ Known(h)' /\ ~Queued("closed", h)'
      /\ Queued("toplevel", h)'
  BY <1>1, <1>2 DEF Known, Queued, At, k
<1>4. ASSUME NEW x \in Handles, x # h, NEW c PROVE Queued(c, x)' <=> Queued(c, x)
  <2>1. Len(evq') = n + k /\ Len(evq) = n
    BY <1>1 DEF n
  <2>2. ASSUME Queued(c, x)' PROVE Queued(c, x)
    <3>1. PICK i \in 1..(n + k) : evq'[i].h = x /\ evq'[i].ev = c
      BY <2>1, <2>2 DEF Queued, At
    <3>2. i \in 1..n /\ evq'[i] = evq[i]
      BY <3>1, <1>2, <1>4
    <3> QED BY <3>1, <3>2 DEF Queued, At, n
  <2>3. ASSUME Queued(c, x) PROVE Queued(c, x)'
    <3>1. PICK i \in 1..n : evq[i].h = x /\ evq[i].ev = c
      BY <2>3 DEF Queued, At, n
    <3>2. i \in 1..Len(evq') /\ evq'[i] = evq[i]
      BY <1>1, <2>1
    <3> QED BY <3>1, <3>2 DEF Queued, At
  <2>4. Queued(c, x) \in BOOLEAN /\ Queued(c, x)' \in BOOLEAN
    BY DEF Queued
  <2> QED BY <2>2, <2>3, <2>4
<1>4a. \A x \in Handles : x # h => (Known(x)' <=> Known(x))
  BY <1>4 DEF Known
<1>5. InOrder'
  <2>1. ASSUME NEW x \in Handles, NEW i \in 1..(n + k), NEW j \in 1..(n + k), evq'[i].h = x
        PROVE  /\ At(j, "toplevel", x)' => j <= i
               /\ At(j, "closed", x)' => i <= j
    <3>1. CASE x = h
      BY <2>1, <3>1, <1>1, <1>2, SMTT(20) DEF At
    <3>2. CASE x # h
      <4>1. i \in 1..n /\ evq'[i] = evq[i] /\ (evq'[j].h = x => j \in 1..n /\ evq'[j] = evq[j])
        BY <2>1, <3>2, <1>2
      <4>2. ASSUME evq'[j].h = x
            PROVE  (evq'[j].ev = "toplevel" => j <= i) /\ (evq'[j].ev = "closed" => i <= j)
        <5>1. j \in 1..n /\ evq[j].h = x /\ evq[i].h = x /\ evq'[j] = evq[j]
          BY <2>1, <4>1, <4>2
        <5> QED BY <5>1, <4>1, <1>0 DEF InOrder, At, n
      <4> QED BY <4>2 DEF At
    <3> QED BY <3>1, <3>2
  <2>2. Len(evq') = n + k
    BY <1>1
  <2> QED BY <2>1, <2>2, Zenon DEF InOrder
<1>6. Introduced'
  <2> SUFFICES ASSUME NEW x \in Handles
               PROVE  /\ \A i \in 1..(n + k) : evq'[i].h = x => Known(x)'
                      /\ x \in proxy => ~Queued("toplevel", x)'
    BY <1>1 DEF Introduced
  <2>1. CASE x = h
    BY <2>1, <1>3
  <2>2. CASE x # h
    <3>1. \A i \in 1..(n + k) : evq'[i].h = x => i \in 1..n /\ evq'[i] = evq[i]
      BY <2>2, <1>2
    <3>2. \A i \in 1..(n + k) : evq'[i].h = x => Known(x)
      BY <3>1, <1>0 DEF Introduced, n
    <3> QED BY <3>2, <2>2, <1>4, <1>4a, <1>0 DEF Introduced
  <2> QED BY <2>1, <2>2
<1>7. Ends'
  <2> SUFFICES ASSUME NEW x \in Handles
               PROVE  /\ top'[x].live <=> Known(x)' /\ ~Queued("closed", x)'
                      /\ ~top'[x].live => top'[x] = NoTop
    BY DEF Ends
  <2>1. CASE x = h
    BY <2>1, <1>3
  <2>2. CASE x # h
    BY <2>2, <1>4, <1>4a, <1>0 DEF Ends
  <2> QED BY <2>1, <2>2
<1>8. AnswersFresh'
  <2>1. ASSUME NEW x \in Handles, NEW i \in 1..(n + k), At(i, "tileable", x)',
               top'[x].live, evq'[i].v # top'[x].tile
        PROVE  \E j \in 1..(n + k) : i < j /\ At(j, "parent", x)'
    <3>1. x # h /\ i \in 1..n /\ evq'[i] = evq[i] /\ top'[x] = top[x]
      BY <2>1, <1>2 DEF At
    <3>2. PICK j \in 1..n : i < j /\ evq[j].h = x /\ evq[j].ev = "parent"
      BY <2>1, <3>1, <1>0 DEF AnswersFresh, At, n
    <3> QED BY <3>2, <1>1 DEF At
  <2>2. Len(evq') = n + k
    BY <1>1
  <2> QED BY <2>1, <2>2, Zenon DEF AnswersFresh
<1>9. TileableFresh'
  <2> SUFFICES ASSUME NEW x \in Handles, geom[x].tileable_got, top'[x].live, top'[x].tile # geom[x].tileable
               PROVE  \E j \in 1..(n + k) : evq'[j].h = x /\ evq'[j].ev \in {"parent", "closed"}
    <3>1. Len(evq') = n + k
      BY <1>1
    <3> QED BY <3>1, Zenon DEF TileableFresh
  <2>1. x # h /\ top'[x] = top[x]
    BY <1>0 DEF HandlesLive, NoEntry
  <2>2. PICK j \in 1..n : evq[j].h = x /\ evq[j].ev \in {"parent", "closed"}
    BY <2>1, <1>0 DEF TileableFresh, n
  <2> QED BY <2>2, <1>1
<1> QED BY <1>1, <1>5, <1>6, <1>7, <1>8, <1>9 DEF QueueInv

\* A window closes.
LEMMA Closes ==
  ASSUME WinInv, NEW h \in Handles, top[h].live, evq' = Append(evq, Ev("closed", h)),
         proxy' = proxy, geom' = geom,
         \A x \in Handles : top'[x] = IF x = h THEN NoTop ELSE top[x]
  PROVE  evq' \in Seq(Evs) /\ QueueInv' /\ TileableFresh'
<1> DEFINE n == Len(evq)
           c == Ev("closed", h)
<1>0. QueuesOK /\ InOrder /\ Introduced /\ Ends /\ AnswersFresh /\ TileableFresh
  BY DEF WinInv, QueueInv
<1>1. c \in Evs /\ c.h = h /\ c.ev = "closed" /\ evq' = Append(evq, c)
  BY DEF Ev, Evs, HandleEvs
<1>2. /\ evq' \in Seq(Evs) /\ Len(evq') = n + 1 /\ n \in Nat
      /\ \A i \in 1..n : evq'[i] = evq[i] /\ i \in 1..(n + 1) /\ i <= n + 1
      /\ \A i \in 1..(n + 1) : i \notin 1..n => i = n + 1
      /\ n + 1 \in 1..(n + 1) /\ evq'[n + 1] = c
  <2> HIDE DEF c
  <2> QED BY <1>0, <1>1 DEF QueuesOK
<1> HIDE DEF n, c
<1>3. ~top'[h].live /\ Queued("closed", h)' /\ ~Queued("closed", h) /\ Known(h)
  <2>1. ~top'[h].live
    BY DEF NoTop
  <2>2. Queued("closed", h)'
    BY <1>1, <1>2 DEF Queued, At
  <2> QED BY <2>1, <2>2, <1>0 DEF Ends
<1>4. ASSUME NEW x \in Handles, NEW d, x # h \/ d # "closed" PROVE Queued(d, x)' <=> Queued(d, x)
  <2>1. (\E i \in 1..(n + 1) : evq'[i].h = x /\ evq'[i].ev = d) <=> (\E i \in 1..n : evq[i].h = x /\ evq[i].ev = d)
    BY <1>1, <1>2, <1>4
  <2> QED BY <2>1, <1>2 DEF Queued, At, n
<1>5. \A x \in Handles : Known(x)' <=> Known(x)
  BY <1>4 DEF Known
<1>6. InOrder'
  <2> SUFFICES ASSUME NEW x \in Handles, NEW i \in 1..(n + 1), NEW j \in 1..(n + 1), evq'[i].h = x
               PROVE  /\ evq'[j].h = x /\ evq'[j].ev = "toplevel" => j <= i
                      /\ evq'[j].h = x /\ evq'[j].ev = "closed" => i <= j
    BY <1>2 DEF InOrder, At
  <2>1. ASSUME evq'[j].h = x, evq'[j].ev = "toplevel" PROVE j <= i
    <3>1. j \in 1..n /\ evq'[j] = evq[j]
      BY <2>1, <1>1, <1>2
    <3>2. CASE i \in 1..n
      BY <3>1, <3>2, <2>1, <1>0, <1>2 DEF InOrder, At, n
    <3>3. CASE i \notin 1..n
      BY <3>1, <3>3, <1>2
    <3> QED BY <3>2, <3>3
  <2>2. ASSUME evq'[j].h = x, evq'[j].ev = "closed" PROVE i <= j
    <3>1. CASE j \notin 1..n
      BY <3>1, <1>2
    <3>2. CASE j \in 1..n
      <4>1. x # h
        BY <3>2, <2>2, <1>2, <1>3 DEF Queued, At, n
      <4>2. i \in 1..n
        BY <4>1, <1>1, <1>2
      <4> QED BY <4>2, <3>2, <2>2, <1>0, <1>2 DEF InOrder, At, n
    <3> QED BY <3>1, <3>2
  <2> QED BY <2>1, <2>2
<1>7. Introduced'
  <2> SUFFICES ASSUME NEW x \in Handles
               PROVE  /\ \A i \in 1..(n + 1) : evq'[i].h = x => Known(x)
                      /\ x \in proxy => ~Queued("toplevel", x)
    BY <1>2, <1>4, <1>5 DEF Introduced
  <2>1. ASSUME NEW i \in 1..(n + 1), evq'[i].h = x PROVE Known(x)
    <3>1. CASE i \in 1..n
      BY <3>1, <2>1, <1>0, <1>2 DEF Introduced, n
    <3>2. CASE i \notin 1..n
      BY <3>2, <2>1, <1>1, <1>2, <1>3
    <3> QED BY <3>1, <3>2
  <2> QED BY <2>1, <1>0 DEF Introduced
<1>8. Ends'
  <2> SUFFICES ASSUME NEW x \in Handles
               PROVE  /\ top'[x].live <=> Known(x)' /\ ~Queued("closed", x)'
                      /\ ~top'[x].live => top'[x] = NoTop
    BY DEF Ends
  <2>1. CASE x = h
    BY <2>1, <1>3
  <2>2. CASE x # h
    BY <2>2, <1>4, <1>5, <1>0 DEF Ends
  <2> QED BY <2>1, <2>2
<1>9. AnswersFresh'
  <2> SUFFICES ASSUME NEW x \in Handles, NEW i \in 1..(n + 1),
                      evq'[i].h = x, evq'[i].ev = "tileable", top'[x].live, evq'[i].v # top'[x].tile
               PROVE  \E j \in 1..(n + 1) : i < j /\ evq'[j].h = x /\ evq'[j].ev = "parent"
    BY <1>2 DEF AnswersFresh, At
  <2>1. x # h /\ i \in 1..n /\ evq'[i] = evq[i]
    BY <1>1, <1>2, <1>3
  <2>2. PICK j \in 1..n : i < j /\ evq[j].h = x /\ evq[j].ev = "parent"
    BY <2>1, <1>0 DEF AnswersFresh, At, n
  <2> QED BY <2>2, <1>2
<1>10. TileableFresh'
  <2> SUFFICES ASSUME NEW x \in Handles, geom[x].tileable_got, top'[x].live, top'[x].tile # geom[x].tileable
               PROVE  \E j \in 1..(n + 1) : evq'[j].h = x /\ evq'[j].ev \in {"parent", "closed"}
    BY <1>2 DEF TileableFresh
  <2>1. x # h
    BY <1>3
  <2>2. PICK j \in 1..n : evq[j].h = x /\ evq[j].ev \in {"parent", "closed"}
    BY <2>1, <1>0 DEF TileableFresh, n
  <2> QED BY <2>2, <1>2
<1> QED BY <1>2, <1>6, <1>7, <1>8, <1>9, <1>10 DEF QueueInv

\* The compositor says something of windows that are open, or of workspaces.
Tellable == {x \in Evs : x.ev \notin {"toplevel", "closed", "tileable"}
                         /\ (x.h \in Handles => top[x.h].live)}

\* Events about windows that are open, or about no window, keep the invariant.
LEMMA ToldMany ==
  ASSUME WinInv, NEW b \in Seq(Tellable), evq' = evq \o b, UNCHANGED Shell,
         top' \in [Handles -> Tops], active' \in [Groups -> Spaces], plugged' \subseteq Outputs,
         reqq' = reqq,
         \A x \in Handles : /\ top'[x].live <=> top[x].live
                            /\ ~top[x].live => top'[x] = NoTop
                            /\ \/ top'[x].tile = top[x].tile
                               \/ \E i \in 1..Len(b) : b[i].ev = "parent" /\ b[i].h = x
  PROVE  WinInv'
<1>1. b \in Seq(Evs)
  BY DEF Tellable
<1>2. \A i \in 1..Len(b) : b[i] \in Tellable
  OBVIOUS
<1>3. \A i \in 1..Len(b) : /\ b[i].ev \notin {"toplevel", "closed", "tileable"}
                           /\ b[i].h \in Handles => top[b[i].h].live
  <2>1. \A x \in Tellable : x.ev \notin {"toplevel", "closed", "tileable"} /\ (x.h \in Handles => top[x.h].live)
    BY DEF Tellable
  <2> QED BY <1>2, <2>1
<1>4. proxy' = proxy /\ geom' = geom
  BY DEF Shell, caches
<1>5. evq' \in Seq(Evs) /\ QueueInv' /\ TileableFresh'
  <2>1. \A i \in 1..Len(b) : /\ b[i].ev \notin {"toplevel", "closed"}
                             /\ b[i].h \in Handles => top[b[i].h].live
                             /\ b[i].ev = "tileable" => b[i].v = top'[b[i].h].tile
    BY <1>3
  <2>2. \A x \in Handles : /\ top'[x].live <=> top[x].live
                           /\ ~top[x].live => top'[x] = NoTop
                           /\ \/ top'[x].tile = top[x].tile
                              \/ \E i \in 1..Len(b) : b[i].ev = "parent" /\ b[i].h = x
                                                      /\ \A j \in 1..Len(b) : b[j].ev # "tileable"
    BY <1>3
  <2> QED BY <1>1, <1>4, <2>1, <2>2, Told, Zenon
<1>6. UNCHANGED <<proxy, valid_handles, outmap, geom, title, winof, opens, stack>>
  BY DEF Shell, caches, lists
<1>7. QueuesOK' /\ CachesOK'
  BY <1>5, <1>6 DEF WinInv, QueuesOK, CachesOK
<1>8. HandlesLive'
  BY <1>6 DEF WinInv, HandlesLive
<1> QED BY <1>5, <1>7, <1>8 DEF WinInv

\* What the compositor may say of an open window.
LEMMA TellableEvs ==
  ASSUME WinInv
  PROVE  /\ OtherEvs \subseteq Tellable
         /\ \A h \in Handles, o \in Outputs : top[h].live => Enter(h, o) \in Tellable /\ Leave(h, o) \in Tellable
         /\ \A h \in Handles, a, m \in BOOLEAN : top[h].live => Activated(h, a, m) \in Tellable
         /\ \A h \in Handles : top[h].live => Ev("parent", h) \in Tellable
         /\ \A w \in Spaces, a \in BOOLEAN : SpaceState(w, a) \in OtherEvs
<1>1. OtherEvs \subseteq Tellable
  BY GroupsAssumption DEF OtherEvs, Tellable, Evs
<1>2. \A h \in Handles, o \in Outputs : top[h].live => Enter(h, o) \in Tellable /\ Leave(h, o) \in Tellable
  BY DEF Tellable, Evs, HandleEvs, Enter, Leave
<1>3. \A h \in Handles, a, m \in BOOLEAN : top[h].live => Activated(h, a, m) \in Tellable
  BY DEF Tellable, Evs, HandleEvs, Activated
<1>4. \A h \in Handles : top[h].live => Ev("parent", h) \in Tellable
  BY DEF Tellable, Evs, HandleEvs, Ev
<1>5. \A w \in Spaces, a \in BOOLEAN : SpaceState(w, a) \in OtherEvs
  BY DEF OtherEvs, SpaceState
<1> QED BY <1>1, <1>2, <1>3, <1>4, <1>5

GroupKinds == {"group", "genter", "gleave", "gremoved", "wsenter", "wsleave", "wsname", "wsremoved"}

\* The events of groups and workspaces.
LEMMA GroupEvs ==
  \A c \in GroupKinds, g \in Groups, w \in Outputs \cup Spaces : GroupEv(c, g, w) \in OtherEvs
  BY DEF GroupEv, Of, OtherEvs, GroupKinds

\* The workspaces of a group.
LEMMA SpacesOK == \A g \in Groups : /\ SpacesOf[g] \in Seq(Spaces) /\ Len(SpacesOf[g]) \in Nat
                                    /\ \A j \in 1..Len(SpacesOf[g]) : SpacesOf[g][j] \in Spaces
                                    /\ SpacesOf[g][1] \in Spaces
                                    /\ Range(SpacesOf[g]) \subseteq Spaces
<1> SUFFICES ASSUME NEW g \in Groups
             PROVE  /\ SpacesOf[g] \in Seq(Spaces) /\ Len(SpacesOf[g]) \in Nat
                    /\ \A j \in 1..Len(SpacesOf[g]) : SpacesOf[g][j] \in Spaces
                    /\ SpacesOf[g][1] \in Spaces
                    /\ Range(SpacesOf[g]) \subseteq Spaces
  OBVIOUS
<1>1. SpacesOf[g] \in Seq(Spaces) /\ SpacesOf[g] # <<>>
  BY GroupsAssumption
<1>2. Range(SpacesOf[g]) \subseteq Spaces
  BY DEF Spaces
<1> QED BY <1>1, <1>2

\* A window opens.
LEMMA MapKeeps ==
  ASSUME WinInv, NEW h \in Handles, NEW o \in Outputs, NEW named \in BOOLEAN, map(h, o, named)
  PROVE  WinInv'
<1> DEFINE first == <<Ev("toplevel", h), Ev("title", h)>>
           app == IF named THEN <<Ev("app_id", h)>> ELSE <<>>
           last == <<Enter(h, o), Activated(h, TRUE, FALSE)>>
           b == first \o (app \o last)
           More == {x \in Evs : x.h = h /\ x.ev \notin {"closed", "tileable", "toplevel"}}
<1>1. /\ Ev("toplevel", h) \in Evs /\ Ev("toplevel", h).h = h /\ Ev("toplevel", h).ev = "toplevel"
      /\ Ev("title", h) \in More /\ Ev("app_id", h) \in More
      /\ Enter(h, o) \in More /\ Activated(h, TRUE, FALSE) \in More
  BY DEF Evs, HandleEvs, Ev, Enter, Activated
<1>1a. first \in Seq(Evs) /\ Len(first) = 2 /\ first[1] = Ev("toplevel", h) /\ first[2] = Ev("title", h)
  BY <1>1
<1>1b. app \in Seq(More) /\ last \in Seq(More)
  <2> HIDE DEF More
  <2>1. last \in Seq(More)
    BY <1>1, Pair, Zenon
  <2>2. <<Ev("app_id", h)>> \in Seq(More) /\ <<>> \in Seq(More)
    BY <1>1
  <2>3. app \in {<<Ev("app_id", h)>>, <<>>}
    BY Zenon
  <2> QED BY <2>1, <2>2, <2>3, Zenon
<1>1c. evq' = evq \o first \o app \o last
  BY DEF map
<1>1d. evq \in Seq(Evs) /\ More \subseteq Evs
  BY DEF WinInv, QueuesOK
<1>1e. \A x \in More : x.h = h /\ x.ev \notin {"closed", "tileable", "toplevel"}
  OBVIOUS
<1> HIDE DEF first, app, last, More
<1>1f. app \o last \in Seq(More) /\ app \in Seq(Evs) /\ last \in Seq(Evs)
  BY <1>1b, <1>1d
<1> DEFINE rest == app \o last
<1>2. b \in Seq(Evs) /\ 1 \in 1..Len(b)
  <2>1. rest \in Seq(Evs)
    BY <1>1f
  <2> HIDE DEF rest
  <2>2. first \o rest \in Seq(Evs) /\ 1 \in 1..Len(first \o rest)
    BY <2>1, <1>1a
  <2> QED BY <2>2 DEF rest
<1>3. \A i \in 1..Len(b) : /\ b[i].h = h /\ b[i].ev \notin {"closed", "tileable"}
                           /\ b[i].ev = "toplevel" <=> i = 1
  <2>1. rest \in Seq(More) /\ rest \in Seq(Evs)
    BY <1>1f, <1>1d
  <2> HIDE DEF rest
  <2>2. ASSUME NEW i \in 1..Len(first \o rest), i # 1 PROVE (first \o rest)[i] \in More
    <3>1. CASE i = 2
      BY <3>1, <2>1, <1>1, <1>1a
    <3>2. CASE i # 2
      <4>1. i - 2 \in 1..Len(rest) /\ (first \o rest)[i] = rest[i - 2]
        <5>1. Len(first \o rest) = Len(first) + Len(rest)
          <6>1. first \in Seq(Evs) /\ rest \in Seq(Evs)
            BY <2>1, <1>1a
          <6> QED BY <6>1, SMT
        <5>2. i \notin 1..2
          BY <3>2, <2>2
        <5> QED BY <5>1, <5>2, <2>1, <1>1a, Longer
      <4> QED BY <4>1, <2>1
    <3> QED BY <3>1, <3>2
  <2>3. (first \o rest)[1] = Ev("toplevel", h)
    <3>1. 1 \in 1..Len(first)
      BY <1>1a
    <3> QED BY <3>1, <2>1, <1>1a, Longer
  <2> QED BY <2>2, <2>3, <1>1, <1>1e DEF rest
<1>4. evq' = evq \o b
  <2>1. (evq \o first) \o app \in Seq(Evs) /\ evq \o first \in Seq(Evs)
    BY <1>1a, <1>1d, <1>1f
  <2>2. ((evq \o first) \o app) \o last = (evq \o first) \o (app \o last)
    BY <2>1, <1>1f, Assoc, SMTT(20)
  <2>3. rest \in Seq(Evs)
    BY <1>1f
  <2> HIDE DEF rest
  <2>4. first \in Seq(Evs) /\ evq \in Seq(Evs)
    BY <1>1a, <1>1d
  <2>5. (evq \o first) \o rest = evq \o (first \o rest)
    BY <2>3, <2>4, Assoc, SMTT(20)
  <2> QED BY <2>2, <2>5, <1>1c, Zenon DEF rest
<1>5. /\ h \notin proxy /\ (\A i \in 1..Len(evq) : evq[i].h # h)
      /\ top' = [top EXCEPT ![h] = [live |-> TRUE, outs |-> {o}, tile |-> TRUE]]
      /\ UNCHANGED <<plugged, active, reqq>> /\ UNCHANGED Shell
  BY DEF map
<1> HIDE DEF b
<1>6. UNCHANGED <<proxy, valid_handles, outmap, geom, title, winof, opens, stack>>
  BY <1>5 DEF Shell, caches, lists
<1>7. top' \in [Handles -> Tops] /\ top'[h].live /\ \A x \in Handles : x # h => top'[x] = top[x]
  BY <1>5 DEF WinInv, CachesOK, Tops
<1>8. evq' \in Seq(Evs) /\ QueueInv' /\ TileableFresh'
  BY <1>2, <1>3, <1>4, <1>5, <1>6, <1>7, Opens
<1>9. QueuesOK' /\ CachesOK'
  BY <1>5, <1>6, <1>7, <1>8 DEF WinInv, QueuesOK, CachesOK
<1>10. HandlesLive'
  BY <1>6 DEF WinInv, HandlesLive
<1> QED BY <1>8, <1>9, <1>10 DEF WinInv

\* A window closes.
LEMMA UnmapKeeps == ASSUME WinInv, NEW h \in Handles, unmap(h) PROVE WinInv'
<1>1. /\ top[h].live /\ top' = [top EXCEPT ![h] = NoTop] /\ evq' = Append(evq, Ev("closed", h))
      /\ UNCHANGED <<plugged, active, reqq>> /\ UNCHANGED Shell
  BY DEF unmap
<1>2. UNCHANGED <<proxy, valid_handles, outmap, geom, title, winof, opens, stack>>
  BY <1>1 DEF Shell, caches, lists
<1>3. top' \in [Handles -> Tops] /\ \A x \in Handles : top'[x] = IF x = h THEN NoTop ELSE top[x]
  BY <1>1 DEF WinInv, CachesOK, Tops, NoTop
<1>4. evq' \in Seq(Evs) /\ QueueInv' /\ TileableFresh'
  BY <1>1, <1>2, <1>3, Closes
<1>5. QueuesOK' /\ CachesOK'
  BY <1>1, <1>2, <1>3, <1>4 DEF WinInv, QueuesOK, CachesOK
<1>6. HandlesLive'
  BY <1>2 DEF WinInv, HandlesLive
<1> QED BY <1>4, <1>5, <1>6 DEF WinInv

\* One event at the end of the queue.
LEMMA ToldOne ==
  ASSUME WinInv, NEW x \in Tellable, evq' = Append(evq, x), UNCHANGED Shell,
         UNCHANGED <<plugged, active, reqq>>, top' \in [Handles -> Tops],
         \A y \in Handles : /\ top'[y].live <=> top[y].live
                            /\ ~top[y].live => top'[y] = NoTop
                            /\ top'[y].tile = top[y].tile \/ (x.ev = "parent" /\ x.h = y)
  PROVE  WinInv'
<1> DEFINE b == <<x>>
<1>1. b \in Seq(Tellable) /\ Len(b) = 1 /\ b[1] = x
  OBVIOUS
<1>2. evq' = evq \o b
  <2>1. evq \in Seq(Evs) /\ x \in Evs
    BY DEF WinInv, QueuesOK, Tellable
  <2> QED BY <2>1
<1> HIDE DEF b
<1>3. active' \in [Groups -> Spaces] /\ plugged' \subseteq Outputs
  BY DEF WinInv, QueuesOK
<1>4. \A y \in Handles : /\ top'[y].live <=> top[y].live
                         /\ ~top[y].live => top'[y] = NoTop
                         /\ \/ top'[y].tile = top[y].tile
                            \/ \E i \in 1..Len(b) : b[i].ev = "parent" /\ b[i].h = y
  BY <1>1
<1> QED BY <1>1, <1>2, <1>3, <1>4, ToldMany, Zenon

\* A step that leaves the windows alone.
LEMMA TopSame ==
  ASSUME WinInv
  PROVE  \A x \in Handles : /\ top[x].live <=> top[x].live
                            /\ ~top[x].live => top[x] = NoTop
  BY DEF WinInv, QueueInv, Ends

\* A window crosses the edge of an output.
LEMMA DragKeeps == ASSUME WinInv, NEW h \in Handles, NEW o \in Outputs, drag(h, o) PROVE WinInv'
<1>1. /\ top[h].live /\ UNCHANGED <<plugged, active, reqq>> /\ UNCHANGED Shell
  BY DEF drag
<1>2. top \in [Handles -> Tops] /\ top[h] \in Tops
  BY DEF WinInv, CachesOK
<1>3. ASSUME NEW S \in SUBSET Outputs, top' = [top EXCEPT ![h].outs = S]
      PROVE  /\ top' \in [Handles -> Tops]
             /\ \A y \in Handles : /\ top'[y].live <=> top[y].live
                                   /\ ~top[y].live => top'[y] = NoTop
                                   /\ top'[y].tile = top[y].tile
  <2>1. [top[h] EXCEPT !.outs = S] \in Tops /\ [top[h] EXCEPT !.outs = S].live = top[h].live
        /\ [top[h] EXCEPT !.outs = S].tile = top[h].tile
    BY <1>2 DEF Tops
  <2>2. \A y \in Handles : top'[y] = IF y = h THEN [top[h] EXCEPT !.outs = S] ELSE top[y]
    BY <1>2, <1>3
  <2>3. top' \in [Handles -> Tops]
    BY <2>1, <1>2, <1>3
  <2> QED BY <2>1, <2>2, <2>3, <1>1, TopSame
<1>4. /\ Enter(h, o) \in Tellable /\ Leave(h, o) \in Tellable
  BY <1>1, TellableEvs
<1>5. /\ top[h].outs \cup {o} \in SUBSET Outputs /\ top[h].outs \ {o} \in SUBSET Outputs
  BY <1>2 DEF Tops
<1>6. CASE top' = [top EXCEPT ![h].outs = top[h].outs \cup {o}] /\ evq' = Append(evq, Enter(h, o))
  <2>1. /\ top' \in [Handles -> Tops]
        /\ \A y \in Handles : /\ top'[y].live <=> top[y].live
                              /\ ~top[y].live => top'[y] = NoTop
                              /\ top'[y].tile = top[y].tile
    BY <1>3, <1>5, <1>6
  <2> QED BY <1>1, <1>4, <1>6, <2>1, ToldOne
<1>7. CASE top' = [top EXCEPT ![h].outs = top[h].outs \ {o}] /\ evq' = Append(evq, Leave(h, o))
  <2>1. /\ top' \in [Handles -> Tops]
        /\ \A y \in Handles : /\ top'[y].live <=> top[y].live
                              /\ ~top[y].live => top'[y] = NoTop
                              /\ top'[y].tile = top[y].tile
    BY <1>3, <1>5, <1>7
  <2> QED BY <1>1, <1>4, <1>7, <2>1, ToldOne
<1> QED BY <1>6, <1>7 DEF drag

\* A window becomes a dialog: the parent event follows the answers under way.
LEMMA ReparentKeeps == ASSUME WinInv, NEW h \in Handles, reparent(h) PROVE WinInv'
<1>1. /\ top[h].live /\ UNCHANGED <<plugged, active, reqq>> /\ UNCHANGED Shell
      /\ top' = [top EXCEPT ![h].tile = ~top[h].tile] /\ evq' = Append(evq, Ev("parent", h))
  BY DEF reparent
<1>2. top \in [Handles -> Tops] /\ top[h] \in Tops
  BY DEF WinInv, CachesOK
<1>3. /\ [top[h] EXCEPT !.tile = ~top[h].tile] \in Tops
      /\ [top[h] EXCEPT !.tile = ~top[h].tile].live = top[h].live
  BY <1>2 DEF Tops
<1>4. \A y \in Handles : top'[y] = IF y = h THEN [top[h] EXCEPT !.tile = ~top[h].tile] ELSE top[y]
  BY <1>1, <1>2
<1>5. top' \in [Handles -> Tops]
  BY <1>1, <1>2, <1>3
<1>6. Ev("parent", h) \in Tellable /\ Ev("parent", h).ev = "parent" /\ Ev("parent", h).h = h
  BY <1>1, TellableEvs DEF Ev
<1>7. \A y \in Handles : /\ top'[y].live <=> top[y].live
                         /\ ~top[y].live => top'[y] = NoTop
                         /\ top'[y].tile = top[y].tile \/ (Ev("parent", h).ev = "parent" /\ Ev("parent", h).h = y)
  BY <1>1, <1>3, <1>4, <1>6, TopSame
<1> QED BY <1>1, <1>5, <1>6, <1>7, ToldOne

\* A window is activated or minimized.
LEMMA RestateKeeps ==
  ASSUME WinInv, NEW h \in Handles, NEW a \in BOOLEAN, NEW m \in BOOLEAN, restate(h, a, m)
  PROVE  WinInv'
<1>1. /\ top[h].live /\ UNCHANGED <<top, plugged, active, reqq>> /\ UNCHANGED Shell
      /\ evq' = Append(evq, Activated(h, a, m))
  BY DEF restate
<1>2. top' \in [Handles -> Tops]
  BY <1>1 DEF WinInv, CachesOK
<1>3. Activated(h, a, m) \in Tellable
  BY <1>1, TellableEvs
<1> QED BY <1>1, <1>2, <1>3, TopSame, ToldOne

\* The windows stay as they are, and events come that are not of windows.
LEMMA ToldOthers ==
  ASSUME WinInv, NEW b \in Seq(OtherEvs), evq' = evq \o b, UNCHANGED Shell, top' = top, reqq' = reqq,
         active' \in [Groups -> Spaces], plugged' \subseteq Outputs
  PROVE  WinInv'
<1>1. OtherEvs \subseteq Tellable
  BY TellableEvs
<1>2. b \in Seq(Tellable)
  BY <1>1
<1>3. top' \in [Handles -> Tops]
  BY DEF WinInv, CachesOK
<1> QED BY <1>2, <1>3, TopSame, ToldMany

\* A workspace is activated.
LEMMA SwitchKeeps == ASSUME WinInv, NEW g \in Groups, NEW w \in Spaces, switch(g, w) PROVE WinInv'
<1> DEFINE b == <<SpaceState(active[g], FALSE), SpaceState(w, TRUE)>>
<1>1. /\ active' = [active EXCEPT ![g] = w] /\ evq' = evq \o b
      /\ UNCHANGED <<top, plugged, reqq>> /\ UNCHANGED Shell
  BY DEF switch
<1>2. active \in [Groups -> Spaces] /\ plugged \subseteq Outputs
  BY DEF WinInv, QueuesOK
<1>3. SpaceState(active[g], FALSE) \in OtherEvs /\ SpaceState(w, TRUE) \in OtherEvs
  BY <1>2, TellableEvs
<1>4. b \in Seq(OtherEvs)
  BY <1>3, Pair, Zenon
<1> HIDE DEF b
<1>5. active' \in [Groups -> Spaces] /\ plugged' \subseteq Outputs
  BY <1>1, <1>2
<1> QED BY <1>1, <1>4, <1>5, ToldOthers

\* The compositor answers a question with what is true now.
LEMMA AnswerKeeps == ASSUME WinInv, answer PROVE WinInv'
<1> DEFINE r == Head(reqq)
           reply == IF r.k \in {"tileable", "geometry", "workarea"} /\ top[r.h].live
                    THEN <<[ev |-> r.k, h |-> r.h, v |-> top[r.h].tile]>> ELSE <<>>
           sync == IF r.n = 0 THEN <<>> ELSE <<[ev |-> "sync", h |-> "none", n |-> r.n]>>
           Right == {x \in Evs : /\ x.ev \notin {"toplevel", "closed"}
                                 /\ x.h \in Handles => top[x.h].live
                                 /\ x.ev = "tileable" => x.v = top[x.h].tile}
<1>1. /\ reqq # <<>> /\ reqq' = Tail(reqq) /\ evq' = evq \o reply \o sync
      /\ UNCHANGED <<top, plugged, active>> /\ UNCHANGED Shell
  BY DEF answer
<1>2. reqq' \in Seq(Asked) /\ r \in Asked
  <2>1. reqq \in Seq(Asked)
    BY DEF WinInv, QueuesOK
  <2>2. reqq # <<>> /\ reqq' = Tail(reqq)
    BY <1>1
  <2> HIDE <1>1
  <2> QED BY <2>1, <2>2, Shorter
<1> HIDE DEF r
<1>3. r.k \in {"tileable", "geometry", "workarea", "request"} /\ r.h \in Handles /\ r.n \in Nat
  BY <1>2 DEF Asked
<1>4. top \in [Handles -> Tops] /\ top[r.h].tile \in BOOLEAN
  BY <1>3 DEF WinInv, CachesOK, Tops
<1>5. reply \in Seq(Right)
  <2>1. CASE r.k \in {"tileable", "geometry", "workarea"} /\ top[r.h].live
    <3> DEFINE x == [ev |-> r.k, h |-> r.h, v |-> top[r.h].tile]
    <3>1. x \in Evs
      BY <2>1, <1>3, <1>4 DEF Evs, HandleEvs
    <3>2. x \in Right
      BY <2>1, <3>1
    <3> HIDE DEF x, Right
    <3>3. <<x>> \in Seq(Right)
      BY <3>2
    <3> QED BY <2>1, <3>3, Zenon DEF x
  <2>2. CASE ~(r.k \in {"tileable", "geometry", "workarea"} /\ top[r.h].live)
    <3>1. <<>> \in Seq(Right)
      OBVIOUS
    <3> HIDE DEF Right
    <3> QED BY <2>2, <3>1, Zenon
  <2> QED BY <2>1, <2>2
<1>6. sync \in Seq(Right)
  <2>1. [ev |-> "sync", h |-> "none", n |-> r.n] \in Right
    BY <1>3, GroupsAssumption DEF Evs, OtherEvs
  <2> HIDE DEF Right
  <2>2. <<[ev |-> "sync", h |-> "none", n |-> r.n]>> \in Seq(Right) /\ <<>> \in Seq(Right)
    BY <2>1
  <2> QED BY <2>2, Zenon
<1> HIDE DEF reply, sync
<1> DEFINE b == reply \o sync
<1>7. \A x \in Right : /\ x \in Evs /\ x.ev \notin {"toplevel", "closed"}
                       /\ x.h \in Handles => top[x.h].live
                       /\ x.ev = "tileable" => x.v = top[x.h].tile
  OBVIOUS
<1> HIDE DEF Right
<1>8. b \in Seq(Right) /\ b \in Seq(Evs) /\ reply \in Seq(Evs) /\ sync \in Seq(Evs)
  BY <1>5, <1>6, <1>7
<1>9. evq' = evq \o b
  <2>1. evq \in Seq(Evs)
    BY DEF WinInv, QueuesOK
  <2>2. (evq \o reply) \o sync = evq \o (reply \o sync)
    BY <2>1, <1>8, Assoc
  <2> QED BY <1>1, <2>2, Zenon
<1> HIDE DEF b
<1>10. \A i \in 1..Len(b) : b[i] \in Right
  BY <1>8
<1>11. \A i \in 1..Len(b) : /\ b[i].ev \notin {"toplevel", "closed"}
                            /\ b[i].h \in Handles => top[b[i].h].live
                            /\ b[i].ev = "tileable" => b[i].v = top'[b[i].h].tile
  BY <1>1, <1>7, <1>10
<1>12. UNCHANGED <<proxy, valid_handles, outmap, geom, title, winof, opens, stack>>
  BY <1>1 DEF Shell, caches, lists
<1>13. evq' \in Seq(Evs) /\ QueueInv' /\ TileableFresh'
  BY <1>1, <1>8, <1>9, <1>11, <1>12, TopSame, Told
<1>14. QueuesOK' /\ CachesOK'
  BY <1>1, <1>2, <1>12, <1>13 DEF WinInv, QueuesOK, CachesOK
<1>15. HandlesLive'
  BY <1>12 DEF WinInv, HandlesLive
<1> QED BY <1>13, <1>14, <1>15 DEF WinInv

\* What the events of groups are.
LEMMA GroupEvIs ==
  \A c, g, w : GroupEv(c, g, w).ev = c /\ GroupEv(c, g, w).g = g /\ GroupEv(c, g, w).w = w /\ GroupEv(c, g, w).h = "none"
  BY DEF GroupEv, Of

\* A list of events, one for each of some groups.
LEMMA OfEach ==
  ASSUME NEW c, NEW o, NEW G \in SUBSET Groups, NEW P, \A g \in G : GroupEv(c, g, o) \in P
  PROVE  LET l == SetToSeq({GroupEv(c, g, o) : g \in G})
         IN l \in Seq(P) /\ \A g \in G : \E i \in 1..Len(l) : l[i] = GroupEv(c, g, o)
<1> DEFINE T == {GroupEv(c, g, o) : g \in G}
           f == [g \in G |-> GroupEv(c, g, o)]
<1>1. IsFiniteSet(G)
  BY FiniteAssumption, FS_Subset
<1>2. f \in [G -> T] /\ \A t \in T : \E x \in G : f[x] = t
  OBVIOUS
<1>3. IsFiniteSet(T)
  <2> HIDE DEF f, T
  <2> QED BY <1>1, <1>2, FiniteImage
<1>4. T \subseteq P /\ \A g \in G : GroupEv(c, g, o) \in T
  OBVIOUS
<1> HIDE DEF T
<1>5. SetToSeq(T) \in Seq(T)
  BY <1>3, Listed
<1>6. SetToSeq(T) \in Seq(P)
  BY <1>4, <1>5
<1>7. \A g \in G : \E i \in 1..Len(SetToSeq(T)) : SetToSeq(T)[i] = GroupEv(c, g, o)
  BY <1>3, <1>4, ListedAll
<1> QED BY <1>6, <1>7 DEF T

\* The events of some groups, one group after the other.
LEMMA OfAll ==
  ASSUME NEW G \in SUBSET Groups, NEW part, NEW P, \A g \in G : part[g] \in Seq(P)
  PROVE  LET l == FlattenSeq([i \in 1..Cardinality(G) |-> part[SetToSeq(G)[i]]])
         IN /\ l \in Seq(P)
            /\ \A g \in G : \E d \in Nat : Within(part[g], l, d)
<1> DEFINE s == [i \in 1..Cardinality(G) |-> part[SetToSeq(G)[i]]]
<1>1. IsFiniteSet(G)
  BY FiniteAssumption, FS_Subset
<1>2. /\ Cardinality(G) \in Nat
      /\ \A i \in 1..Cardinality(G) : SetToSeq(G)[i] \in G
      /\ Len(SetToSeq(G)) = Cardinality(G)
  BY <1>1, Listed
<1>3. s = [i \in 1..Cardinality(G) |-> s[i]] /\ \A i \in 1..Cardinality(G) : s[i] \in Seq(P)
  <2>1. \A i \in 1..Cardinality(G) : part[SetToSeq(G)[i]] \in Seq(P)
    BY <1>2
  <2> QED BY <2>1
<1>3a. \A i \in 1..Cardinality(G) : s[i] = part[SetToSeq(G)[i]]
  OBVIOUS
<1>3b. Len(s) = Cardinality(G)
  BY <1>2
<1> HIDE DEF s
<1>4. s \in Seq(Seq(P))
  BY <1>2, <1>3, FunSeq
<1>5. FlattenSeq(s) \in Seq(P)
  BY <1>4, Flat
<1>6. ASSUME NEW g \in G
      PROVE  \E d \in Nat : Within(part[g], FlattenSeq(s), d)
  <2>1. PICK i \in 1..Cardinality(G) : SetToSeq(G)[i] = g
    BY <1>1, <1>2, ListedAll
  <2>2. i \in 1..Len(s) /\ s[i] = part[g]
    BY <1>3a, <1>3b, <2>1
  <2>3. \E d \in Nat : Within(s[i], FlattenSeq(s), d)
    BY <1>4, <2>2, FlatParts
  <2> QED BY <2>2, <2>3
<1> QED BY <1>5, <1>6 DEF s

\* The same, when one more comes before.
LEMMA AfterOne ==
  ASSUME NEW P, NEW x \in P, NEW F \in Seq(P), NEW t, NEW d \in Nat, Within(t, F, d)
  PROVE  Within(t, <<x>> \o F, 1 + d)
<1> DEFINE r == <<x>> \o F
<1>1. Len(r) = 1 + Len(F) /\ Len(F) \in Nat /\ \A i \in 1..Len(F) : r[1 + i] = F[i]
  <2>1. <<x>> \in Seq(P) /\ Len(<<x>>) = 1
    OBVIOUS
  <2> QED BY <2>1, Longer
<1> HIDE DEF r
<1>2. \A j \in 1..Len(t) : (1 + d) + j \in 1..Len(r) /\ r[(1 + d) + j] = t[j]
  <2> SUFFICES ASSUME NEW j \in 1..Len(t) PROVE (1 + d) + j \in 1..Len(r) /\ r[(1 + d) + j] = t[j]
    OBVIOUS
  <2>1. d + j \in 1..Len(F) /\ F[d + j] = t[j]
    BY DEF Within
  <2>2. 1 + (d + j) = (1 + d) + j /\ 1 + (d + j) \in 1..Len(r)
    BY <1>1, <2>1
  <2> QED BY <1>1, <2>1, <2>2
<1> QED BY <1>2 DEF Within, r

\* A new output of a group is told in b, with the workspaces of the group and the
\* active one if it is the group's first.
Brought(b, g, o) ==
  /\ \E i \in 1..Len(b) : b[i] = GroupEv("genter", g, o)
  /\ OutsOf[g] \cap plugged = {} => \A w \in Range(SpacesOf[g]) :
       \E d \in Nat : /\ d + 1 \in 1..Len(b) /\ d + 2 \in 1..Len(b) /\ d + 3 \in 1..Len(b)
                      /\ b[d + 1] = GroupEv("wsenter", g, w) /\ b[d + 2] = GroupEv("wsname", g, w)
                      /\ b[d + 3] = SpaceState(w, w = active[g])

\* An output tells what groups it brings.
LEMMA PlugEvents ==
  ASSUME WinInv, NEW o \in Outputs, plug(o), NEW P \in SUBSET Evs,
         \A g \in Groups : o \in OutsOf[g] =>
           /\ GroupEv("group", g, o) \in P /\ GroupEv("genter", g, o) \in P
           /\ \A w \in Range(SpacesOf[g]) : /\ GroupEv("wsenter", g, w) \in P /\ GroupEv("wsname", g, w) \in P
                                            /\ SpaceState(w, w = active[g]) \in P
  PROVE  \E b \in Seq(P) : evq' = evq \o b /\ \A g \in Groups : o \in OutsOf[g] => Brought(b, g, o)
<1> DEFINE new == {g \in Groups : o \in OutsOf[g] /\ OutsOf[g] \cap plugged = {}}
           one(g, j) == <<GroupEv("wsenter", g, SpacesOf[g][j]), GroupEv("wsname", g, SpacesOf[g][j]),
                          SpaceState(SpacesOf[g][j], SpacesOf[g][j] = active[g])>>
           all(g) == FlattenSeq([j \in 1..Len(SpacesOf[g]) |-> one(g, j)])
           of(g) == <<GroupEv("group", g, o)>> \o all(g)
           part == [g \in Groups |-> of(g)]
           starts == FlattenSeq([i \in 1..Cardinality(new) |-> of(SetToSeq(new)[i])])
           its == {x \in Groups : o \in OutsOf[x]}
           tail == SetToSeq({GroupEv("genter", g, o) : g \in its})
           Three(l, d, g, w) ==
             /\ d + 1 \in 1..Len(l) /\ d + 2 \in 1..Len(l) /\ d + 3 \in 1..Len(l)
             /\ l[d + 1] = GroupEv("wsenter", g, w) /\ l[d + 2] = GroupEv("wsname", g, w)
             /\ l[d + 3] = SpaceState(w, w = active[g])
<1>1. evq' = evq \o starts \o tail
  BY DEF plug
<1>2. ASSUME NEW g \in new
      PROVE  of(g) \in Seq(P) /\ \A w \in Range(SpacesOf[g]) : \E d \in Nat : Three(of(g), d, g, w)
  <2>1. \A j \in 1..Len(SpacesOf[g]) : one(g, j) \in Seq(P)
    <3> SUFFICES ASSUME NEW j \in 1..Len(SpacesOf[g]) PROVE one(g, j) \in Seq(P)
      OBVIOUS
    <3>1. SpacesOf[g][j] \in Range(SpacesOf[g])
      BY SpacesOK, InRange
    <3>2. GroupEv("wsenter", g, SpacesOf[g][j]) \in P /\ GroupEv("wsname", g, SpacesOf[g][j]) \in P
          /\ SpaceState(SpacesOf[g][j], SpacesOf[g][j] = active[g]) \in P
      BY <3>1
    <3> QED BY <3>2, Triple, Zenon
  <2> DEFINE s == [j \in 1..Len(SpacesOf[g]) |-> one(g, j)]
  <2>2. s \in Seq(Seq(P))
    BY <2>1, SpacesOK, FunSeq
  <2>2a. Len(s) = Len(SpacesOf[g]) /\ \A j \in 1..Len(SpacesOf[g]) : s[j] = one(g, j)
    BY SpacesOK
  <2> DEFINE F == FlattenSeq(s)
             x == GroupEv("group", g, o)
             r == <<x>> \o F
  <2> HIDE DEF s, one
  <2>3. F \in Seq(P)
    BY <2>2, Flat
  <2>4. x \in P
    OBVIOUS
  <2> HIDE DEF F, x
  <2>5. r \in Seq(P) /\ Len(r) = 1 + Len(F) /\ Len(F) \in Nat /\ \A j \in 1..Len(F) : 1 + j \in 1..(1 + Len(F)) /\ r[1 + j] = F[j]
    <3>1. <<x>> \in Seq(P) /\ Len(<<x>>) = 1
      BY <2>4
    <3> QED BY <2>3, <3>1, Longer
  <2> HIDE DEF r
  <2>6. ASSUME NEW w \in Range(SpacesOf[g]) PROVE \E d \in Nat : Three(r, d, g, w)
    <3>1. PICK j \in 1..Len(SpacesOf[g]) : SpacesOf[g][j] = w
      BY SpacesOK, InRange
    <3> DEFINE t == s[j]
    <3>2. t = <<GroupEv("wsenter", g, w), GroupEv("wsname", g, w), SpaceState(w, w = active[g])>>
      BY <2>2a, <3>1 DEF one
    <3>3. Len(t) = 3 /\ t[1] = GroupEv("wsenter", g, w) /\ t[2] = GroupEv("wsname", g, w)
          /\ t[3] = SpaceState(w, w = active[g])
      BY <3>2
    <3>4. j \in 1..Len(s)
      BY <2>2a
    <3>5. PICK d \in Nat : Within(t, F, d)
      BY <2>2, <3>4, FlatParts DEF F
    <3> HIDE DEF t
    <3>6. Within(t, r, 1 + d) /\ 1 + d \in Nat
      BY <2>3, <2>4, <3>5, AfterOne DEF r
    <3>7. Three(r, 1 + d, g, w)
      BY <3>3, <3>6 DEF Within
    <3> HIDE DEF Three
    <3> QED BY <3>6, <3>7
  <2>7. of(g) = r
    BY Zenon DEF r, F, x, s, one
  <2> HIDE DEF Three, of
  <2> QED BY <2>5, <2>6, <2>7, Zenon
<1> HIDE DEF of
<1>3. /\ starts \in Seq(P)
      /\ \A g \in new : \A w \in Range(SpacesOf[g]) : \E d \in Nat : Three(starts, d, g, w)
  <2> DEFINE l == FlattenSeq([i \in 1..Cardinality(new) |-> part[SetToSeq(new)[i]]])
  <2>1. \A g \in new : part[g] = of(g) /\ part[g] \in Seq(P)
    BY <1>2
  <2>2. new \in SUBSET Groups
    OBVIOUS
  <2>3. /\ l \in Seq(P)
        /\ \A g \in new : \E d \in Nat : Within(part[g], l, d)
    <3>1. \A g \in new : part[g] \in Seq(P)
      BY <2>1
    <3> HIDE DEF part, new
    <3> QED BY <3>1, <2>2, OfAll
  <2>4. \A i \in 1..Cardinality(new) : part[SetToSeq(new)[i]] = of(SetToSeq(new)[i])
    <3>1. IsFiniteSet(new)
      BY <2>2, FiniteAssumption, FS_Subset
    <3>2. \A i \in 1..Cardinality(new) : SetToSeq(new)[i] \in new
      <4> HIDE DEF new
      <4> QED BY <3>1, Listed
    <3> HIDE DEF new, part
    <3> QED BY <2>1, <3>2
  <2>5. [i \in 1..Cardinality(new) |-> part[SetToSeq(new)[i]]] = [i \in 1..Cardinality(new) |-> of(SetToSeq(new)[i])]
    <3> HIDE DEF new, part
    <3> QED BY <2>4
  <2>6. l = starts
    <3> HIDE DEF new, part
    <3> QED BY <2>5, Zenon
  <2> HIDE DEF l, starts, part
  <2>7. ASSUME NEW g \in new, NEW w \in Range(SpacesOf[g]) PROVE \E d \in Nat : Three(l, d, g, w)
    <3>1. PICK d \in Nat : Within(part[g], l, d)
      BY <2>3
    <3>2. PICK c \in Nat : Three(part[g], c, g, w)
      <4> HIDE DEF Three, new
      <4> QED BY <1>2, <2>1
    <3>3. Three(l, d + c, g, w) /\ d + c \in Nat
      <4>1. /\ d + (c + 1) = (d + c) + 1 /\ d + (c + 2) = (d + c) + 2 /\ d + (c + 3) = (d + c) + 3
            /\ d + c \in Nat
        OBVIOUS
      <4>2. /\ d + (c + 1) \in 1..Len(l) /\ l[d + (c + 1)] = part[g][c + 1]
            /\ d + (c + 2) \in 1..Len(l) /\ l[d + (c + 2)] = part[g][c + 2]
            /\ d + (c + 3) \in 1..Len(l) /\ l[d + (c + 3)] = part[g][c + 3]
        BY <3>1, <3>2 DEF Within
      <4> QED BY <3>2, <4>1, <4>2
    <3> HIDE DEF Three
    <3> QED BY <3>3
  <2> HIDE DEF Three, new
  <2> QED BY <2>3, <2>6, <2>7
<1>4. tail \in Seq(P) /\ \A g \in its : \E i \in 1..Len(tail) : tail[i] = GroupEv("genter", g, o)
  <2>1. its \in SUBSET Groups /\ \A g \in its : GroupEv("genter", g, o) \in P
    OBVIOUS
  <2> HIDE DEF its
  <2> QED BY <2>1, OfEach, Zenon
<1> HIDE DEF starts, tail
<1> DEFINE b == starts \o tail
<1>5. evq' = evq \o b
  <2>1. evq \in Seq(Evs) /\ starts \in Seq(Evs) /\ tail \in Seq(Evs)
    BY <1>3, <1>4 DEF WinInv, QueuesOK
  <2>2. (evq \o starts) \o tail = evq \o (starts \o tail)
    BY <2>1, Assoc
  <2> QED BY <1>1, <2>2
<1>6. /\ b \in Seq(P) /\ Len(b) = Len(starts) + Len(tail) /\ Len(starts) \in Nat /\ Len(tail) \in Nat
      /\ \A i \in 1..Len(starts) : b[i] = starts[i]
      /\ \A i \in 1..Len(tail) : Len(starts) + i \in 1..(Len(starts) + Len(tail)) /\ b[Len(starts) + i] = tail[i]
  BY <1>3, <1>4, Longer
<1> HIDE DEF b
<1>7. ASSUME NEW g \in its PROVE \E i \in 1..Len(b) : b[i] = GroupEv("genter", g, o)
  <2>1. PICK i \in 1..Len(tail) : tail[i] = GroupEv("genter", g, o)
    BY <1>4
  <2>2. Len(starts) + i \in 1..Len(b) /\ b[Len(starts) + i] = GroupEv("genter", g, o)
    BY <1>6, <2>1
  <2> QED BY <2>2
<1>8. ASSUME NEW g \in new, NEW w \in Range(SpacesOf[g]) PROVE \E d \in Nat : Three(b, d, g, w)
  <2>1. PICK d \in Nat : Three(starts, d, g, w)
    <3> HIDE DEF Three
    <3> QED BY <1>3
  <2>2. Three(b, d, g, w)
    BY <1>6, <2>1
  <2> HIDE DEF Three
  <2> QED BY <2>2
<1>9. \A g \in Groups : o \in OutsOf[g] => g \in its /\ (OutsOf[g] \cap plugged = {} => g \in new)
  OBVIOUS
<1> HIDE DEF its, new
<1>10. ASSUME NEW g \in Groups, o \in OutsOf[g] PROVE Brought(b, g, o)
  <2>1. /\ \E i \in 1..Len(b) : b[i] = GroupEv("genter", g, o)
        /\ OutsOf[g] \cap plugged = {} => \A w \in Range(SpacesOf[g]) : \E d \in Nat : Three(b, d, g, w)
    <3> HIDE DEF Three
    <3> QED BY <1>7, <1>8, <1>9, <1>10
  <2> QED BY <2>1 DEF Brought
<1> QED BY <1>5, <1>6, <1>10

\* An output appears with its groups.
LEMMA PlugKeeps == ASSUME WinInv, NEW o \in Outputs, plug(o) PROVE WinInv'
<1>1. plugged' = plugged \cup {o} /\ UNCHANGED <<top, active, reqq>> /\ UNCHANGED Shell
  BY DEF plug
<1>2. active \in [Groups -> Spaces] /\ plugged \subseteq Outputs /\ OtherEvs \in SUBSET Evs
  BY DEF WinInv, QueuesOK, Evs
<1>3. ASSUME NEW g \in Groups, o \in OutsOf[g]
      PROVE  /\ GroupEv("group", g, o) \in OtherEvs /\ GroupEv("genter", g, o) \in OtherEvs
             /\ \A w \in Range(SpacesOf[g]) :
                  /\ GroupEv("wsenter", g, w) \in OtherEvs /\ GroupEv("wsname", g, w) \in OtherEvs
                  /\ SpaceState(w, w = active[g]) \in OtherEvs
  <2>1. GroupEv("group", g, o) \in OtherEvs /\ GroupEv("genter", g, o) \in OtherEvs
    BY GroupEvs DEF GroupKinds
  <2>2. ASSUME NEW w \in Range(SpacesOf[g])
        PROVE  /\ GroupEv("wsenter", g, w) \in OtherEvs /\ GroupEv("wsname", g, w) \in OtherEvs
               /\ SpaceState(w, w = active[g]) \in OtherEvs
    <3>1. w \in Spaces /\ (w = active[g]) \in BOOLEAN
      BY SpacesOK
    <3>2. GroupEv("wsenter", g, w) \in OtherEvs /\ GroupEv("wsname", g, w) \in OtherEvs
      BY <3>1, GroupEvs DEF GroupKinds
    <3> QED BY <3>1, <3>2, TellableEvs
  <2> QED BY <2>1, <2>2
<1>4. \E b \in Seq(OtherEvs) : evq' = evq \o b
  BY <1>2, <1>3, PlugEvents, Zenon
<1>5. PICK b \in Seq(OtherEvs) : evq' = evq \o b
  BY <1>4
<1>6. active' \in [Groups -> Spaces] /\ plugged' \subseteq Outputs
  BY <1>1, <1>2
<1> QED BY <1>1, <1>5, <1>6, ToldOthers

\* Four lists of events are one list.
LEMMA FourTyped ==
  ASSUME NEW T, NEW s1 \in Seq(T), NEW s2 \in Seq(T), NEW s3 \in Seq(T), NEW s4 \in Seq(T)
  PROVE  ((s1 \o s2) \o s3) \o s4 \in Seq(T)
  OBVIOUS

\* A list of what is said of several windows.
LEMMA WindowList ==
  ASSUME NEW H \in SUBSET Handles, NEW T, NEW f \in [H -> T], NEW S, T \subseteq S,
         \A t \in T : \E x \in H : f[x] = t
  PROVE  SetToSeq(T) \in Seq(S)
<1>1. IsFiniteSet(H)
  BY FiniteAssumption, FS_Subset
<1>2. IsFiniteSet(T)
  BY <1>1, FiniteImage
<1>3. SetToSeq(T) \in Seq(T)
  BY <1>2, Listed
<1> QED BY <1>3

\* An output takes its groups with it, after their workspaces.
LEMMA UnplugEvents ==
  ASSUME WinInv, NEW o \in Outputs, NEW to \in Outputs, unplug(o, to), NEW P \in SUBSET Evs,
         \A h \in Handles : o \in top[h].outs => Enter(h, to) \in P /\ Leave(h, o) \in P,
         \A g \in Groups : o \in OutsOf[g] =>
           /\ GroupEv("gleave", g, o) \in P /\ GroupEv("gremoved", g, o) \in P
           /\ \A w \in Range(SpacesOf[g]) : GroupEv("wsleave", g, w) \in P /\ GroupEv("wsremoved", g, w) \in P
  PROVE  \E b \in Seq(P) : evq' = evq \o b
<1> DEFINE gone == {g \in Groups : OutsOf[g] \cap plugged = {o}}
           moved == {h \in Handles : top[h].outs = {o}}
           on == {h \in Handles : o \in top[h].outs}
           one(g, j) == <<GroupEv("wsleave", g, SpacesOf[g][j]), GroupEv("wsremoved", g, SpacesOf[g][j])>>
           of(g) == FlattenSeq([j \in 1..Len(SpacesOf[g]) |-> one(g, j)]) \o <<GroupEv("gremoved", g, o)>>
           part == [g \in Groups |-> of(g)]
           ends == FlattenSeq([i \in 1..Cardinality(gone) |-> of(SetToSeq(gone)[i])])
           enters == {Enter(h, to) : h \in moved}
           leaves == {Leave(h, o) : h \in on}
           its == {x \in Groups : o \in OutsOf[x]}
           lost == SetToSeq({GroupEv("gleave", g, o) : g \in its})
<1>1. evq' = evq \o SetToSeq(enters) \o SetToSeq(leaves) \o lost \o ends
  BY DEF unplug
<1>2. ASSUME NEW g \in gone PROVE of(g) \in Seq(P)
  <2>1. \A j \in 1..Len(SpacesOf[g]) : one(g, j) \in Seq(P)
    <3> SUFFICES ASSUME NEW j \in 1..Len(SpacesOf[g]) PROVE one(g, j) \in Seq(P)
      OBVIOUS
    <3>1. SpacesOf[g][j] \in Range(SpacesOf[g])
      BY SpacesOK, InRange
    <3>2. GroupEv("wsleave", g, SpacesOf[g][j]) \in P /\ GroupEv("wsremoved", g, SpacesOf[g][j]) \in P
      BY <3>1
    <3> QED BY <3>2, Pair, Zenon
  <2> DEFINE s == [j \in 1..Len(SpacesOf[g]) |-> one(g, j)]
  <2>2. s \in Seq(Seq(P))
    BY <2>1, SpacesOK, FunSeq
  <2> HIDE DEF s
  <2>3. FlattenSeq(s) \in Seq(P)
    BY <2>2, Flat
  <2>4. GroupEv("gremoved", g, o) \in P
    OBVIOUS
  <2> DEFINE F == FlattenSeq(s)
             x == GroupEv("gremoved", g, o)
  <2> HIDE DEF F, x
  <2>5. F \o <<x>> \in Seq(P)
    BY <2>3, <2>4 DEF F, x
  <2> QED BY <2>5 DEF F, x, s
<1> HIDE DEF one
<1>3. ends \in Seq(P)
  <2>1. \A g \in gone : part[g] = of(g) /\ part[g] \in Seq(P)
    BY <1>2
  <2>2. gone \in SUBSET Groups
    OBVIOUS
  <2>3. FlattenSeq([i \in 1..Cardinality(gone) |-> part[SetToSeq(gone)[i]]]) \in Seq(P)
    <3>1. \A g \in gone : part[g] \in Seq(P)
      BY <2>1
    <3> HIDE DEF part, gone
    <3> QED BY <3>1, <2>2, OfAll
  <2>4. \A i \in 1..Cardinality(gone) : part[SetToSeq(gone)[i]] = of(SetToSeq(gone)[i])
    <3>1. IsFiniteSet(gone)
      BY <2>2, FiniteAssumption, FS_Subset
    <3>2. \A i \in 1..Cardinality(gone) : SetToSeq(gone)[i] \in gone
      <4> HIDE DEF gone
      <4> QED BY <3>1, Listed
    <3> HIDE DEF gone, of, part
    <3> QED BY <2>1, <3>2
  <2>5. [i \in 1..Cardinality(gone) |-> part[SetToSeq(gone)[i]]] = [i \in 1..Cardinality(gone) |-> of(SetToSeq(gone)[i])]
    <3> HIDE DEF gone, of, part
    <3> QED BY <2>4
  <2> HIDE DEF gone, of, part
  <2> QED BY <2>3, <2>5, Zenon
<1>4. lost \in Seq(P)
  <2>1. its \in SUBSET Groups /\ \A g \in its : GroupEv("gleave", g, o) \in P
    OBVIOUS
  <2> HIDE DEF its
  <2> QED BY <2>1, OfEach, Zenon
<1> HIDE DEF ends, lost, of
<1>5. SetToSeq(enters) \in Seq(P) /\ SetToSeq(leaves) \in Seq(P)
  <2> DEFINE f == [h \in moved |-> Enter(h, to)]
             g == [h \in on |-> Leave(h, o)]
  <2>1. f \in [moved -> enters] /\ \A t \in enters : \E x \in moved : f[x] = t
    OBVIOUS
  <2>2. g \in [on -> leaves] /\ \A t \in leaves : \E x \in on : g[x] = t
    OBVIOUS
  <2>3. moved \in SUBSET Handles /\ on \in SUBSET Handles /\ enters \subseteq P /\ leaves \subseteq P
    OBVIOUS
  <2> HIDE DEF f, g, enters, leaves, moved, on
  <2>4. SetToSeq(enters) \in Seq(P)
    BY <2>1, <2>3, WindowList
  <2>5. SetToSeq(leaves) \in Seq(P)
    BY <2>2, <2>3, WindowList
  <2> QED BY <2>4, <2>5
<1> HIDE DEF enters, leaves
<1> DEFINE E == SetToSeq(enters)
           L == SetToSeq(leaves)
           b == ((E \o L) \o lost) \o ends
<1> HIDE DEF E, L
<1>6. E \in Seq(P) /\ L \in Seq(P)
  BY <1>5 DEF E, L
<1>7. E \in Seq(Evs) /\ L \in Seq(Evs) /\ lost \in Seq(Evs) /\ ends \in Seq(Evs) /\ evq \in Seq(Evs)
  BY <1>3, <1>4, <1>6 DEF WinInv, QueuesOK
<1>8. b \in Seq(P)
  BY <1>3, <1>4, <1>6, FourTyped
<1>9. evq \o E \o L \o lost \o ends = evq \o b
  <2> DEFINE EL == E \o L
             ELl == EL \o lost
  <2>1. (evq \o E) \o L = evq \o EL
    BY <1>7, Assoc, SMTT(20)
  <2>2. EL \in Seq(Evs)
    BY <1>7
  <2> HIDE DEF EL
  <2>3. (evq \o EL) \o lost = evq \o ELl
    BY <1>7, <2>2, Assoc, SMTT(20)
  <2>4. ELl \in Seq(Evs)
    BY <1>7, <2>2
  <2> HIDE DEF ELl
  <2>5. (evq \o ELl) \o ends = evq \o (ELl \o ends)
    BY <1>7, <2>4, Assoc, SMTT(20)
  <2>6. b = ELl \o ends
    BY Zenon DEF EL, ELl
  <2> HIDE DEF b
  <2> QED BY <2>1, <2>3, <2>5, <2>6, Zenon
<1> HIDE DEF b
<1> QED BY <1>1, <1>8, <1>9, Zenon DEF E, L

\* An output goes away, and its windows move.
LEMMA UnplugKeeps == ASSUME WinInv, NEW o \in Outputs, NEW to \in Outputs, unplug(o, to) PROVE WinInv'
<1> DEFINE moved == {h \in Handles : top[h].outs = {o}}
<1>1. /\ plugged' = plugged \ {o}
      /\ top' = [h \in Handles |-> IF h \in moved THEN [top[h] EXCEPT !.outs = {to}]
                                   ELSE [top[h] EXCEPT !.outs = @ \ {o}]]
      /\ UNCHANGED <<active, reqq>> /\ UNCHANGED Shell
  BY DEF unplug
<1>2. top \in [Handles -> Tops] /\ \A h \in Handles : ~top[h].live => top[h] = NoTop
  BY DEF WinInv, CachesOK, QueueInv, Ends
<1>3. \A h \in Handles : o \in top[h].outs => top[h].live
  BY <1>2 DEF NoTop
<1>4. /\ active \in [Groups -> Spaces] /\ plugged \subseteq Outputs
      /\ Tellable \in SUBSET Evs /\ OtherEvs \subseteq Tellable
  BY TellableEvs DEF WinInv, QueuesOK, Tellable
<1>5. \A h \in Handles : o \in top[h].outs => Enter(h, to) \in Tellable /\ Leave(h, o) \in Tellable
  BY <1>3, TellableEvs
<1>6. ASSUME NEW g \in Groups
      PROVE  /\ GroupEv("gleave", g, o) \in Tellable /\ GroupEv("gremoved", g, o) \in Tellable
             /\ \A w \in Range(SpacesOf[g]) :
                  GroupEv("wsleave", g, w) \in Tellable /\ GroupEv("wsremoved", g, w) \in Tellable
  BY <1>4, GroupEvs, SpacesOK DEF GroupKinds
<1>7. \E b \in Seq(Tellable) : evq' = evq \o b
  BY <1>4, <1>5, <1>6, UnplugEvents, Zenon
<1>8. PICK b \in Seq(Tellable) : evq' = evq \o b
  BY <1>7
<1>9. /\ top' \in [Handles -> Tops]
       /\ \A x \in Handles : /\ top'[x].live <=> top[x].live
                             /\ ~top[x].live => top'[x] = NoTop
                             /\ top'[x].tile = top[x].tile
  <2>1. ASSUME NEW x \in Handles, NEW U \in SUBSET Outputs
        PROVE  /\ [top[x] EXCEPT !.outs = U] \in Tops /\ [top[x] EXCEPT !.outs = U].live = top[x].live
               /\ [top[x] EXCEPT !.outs = U].tile = top[x].tile
    <3>1. top[x] \in Tops
      BY <1>2
    <3> QED BY <3>1 DEF Tops
  <2>2. \A x \in Handles : \E U \in SUBSET Outputs : top'[x] = [top[x] EXCEPT !.outs = U]
    <3> SUFFICES ASSUME NEW x \in Handles PROVE \E U \in SUBSET Outputs : top'[x] = [top[x] EXCEPT !.outs = U]
      OBVIOUS
    <3>1. top[x].outs \ {o} \in SUBSET Outputs /\ {to} \in SUBSET Outputs
      BY <1>2 DEF Tops
    <3>2. top'[x] = IF x \in moved THEN [top[x] EXCEPT !.outs = {to}] ELSE [top[x] EXCEPT !.outs = top[x].outs \ {o}]
      BY <1>1
    <3> QED BY <3>1, <3>2
  <2>3. top' \in [Handles -> Tops]
    <3>1. \A x \in Handles : top'[x] \in Tops
      BY <2>1, <2>2
    <3> QED BY <3>1, <1>1
  <2>4. ASSUME NEW x \in Handles, ~top[x].live PROVE top'[x] = NoTop
    <3>1. top[x] = NoTop /\ x \notin moved
      BY <2>4, <1>2, <1>3
    <3> HIDE DEF moved
    <3>2. top'[x] = [top[x] EXCEPT !.outs = top[x].outs \ {o}]
      BY <1>1, <3>1
    <3>3. top[x].outs \ {o} = {}
      BY <3>1 DEF NoTop
    <3>4. top'[x] = [NoTop EXCEPT !.outs = {}]
      BY <3>1, <3>2, <3>3, Zenon
    <3> QED BY <3>4 DEF NoTop
  <2>5. ASSUME NEW x \in Handles PROVE top'[x].live = top[x].live /\ top'[x].tile = top[x].tile
    <3>1. PICK U \in SUBSET Outputs : top'[x] = [top[x] EXCEPT !.outs = U]
      BY <2>2
    <3> QED BY <2>1, <3>1
  <2> QED BY <2>3, <2>4, <2>5
<1>10. active' \in [Groups -> Spaces] /\ plugged' \subseteq Outputs
  BY <1>1, <1>4
<1> QED BY <1>1, <1>8, <1>9, <1>10, ToldMany

----------------------------------------------------------------------------
(* The shell *)

\* A step that neither handles nor causes an event.
LEMMA Quiet ==
  ASSUME WinInv, UNCHANGED <<top, plugged, active, evq>>,
         UNCHANGED <<proxy, valid_handles, outmap, title, winof>>,
         geom' \in [Handles -> Entries],
         \A x \in Handles : /\ geom'[x].tileable_got = geom[x].tileable_got
                            /\ geom'[x].tileable = geom[x].tileable
                            /\ x \notin proxy => geom'[x] = geom[x],
         reqq' \in Seq(Asked), stack' \in Seq(Frames), opens' \in Nat
  PROVE  WinInv'
<1>1. QueuesOK' /\ CachesOK'
  BY DEF WinInv, QueuesOK, CachesOK
<1>2. QueueInv'
  BY DEF WinInv, QueueInv, InOrder, Introduced, Ends, AnswersFresh, Known, Queued, At
<1>3. HandlesLive'
  BY DEF WinInv, HandlesLive
<1>4. TileableFresh'
  BY DEF WinInv, TileableFresh
<1> QED BY <1>1, <1>2, <1>3, <1>4 DEF WinInv

\* A handler keeps the invariant if it keeps the types and forgets what it should.
LEMMA HandledWell ==
  ASSUME WinInv, evq # <<>>, evq' = Tail(evq), UNCHANGED <<top, plugged, active>>,
         e.ev = "toplevel" => proxy' = proxy \cup {e.h},
         e.ev = "closed" => proxy' = proxy \ {e.h},
         e.ev \notin {"toplevel", "closed"} => proxy' = proxy,
         \A x \in Handles : geom'[x].tileable_got =>
           \/ /\ geom[x].tileable_got /\ geom'[x].tileable = geom[x].tileable
              /\ ~(e.h = x /\ e.ev \in {"parent", "closed"})
           \/ e.h = x /\ e.ev = "tileable" /\ geom'[x].tileable = e.v,
         reqq' \in Seq(Asked), stack' \in Seq(Frames), opens' \in Nat, CachesOK', HandlesLive'
  PROVE  WinInv'
<1>1. evq' \in Seq(Evs) /\ QueueInv' /\ TileableFresh'
  BY Handled
<1>2. active' \in [Groups -> Spaces] /\ plugged' \subseteq Outputs
  BY DEF WinInv, QueuesOK
<1> QED BY <1>1, <1>2 DEF WinInv, QueuesOK

\* One that leaves the caches and the windows alone.
LEMMA HandledApart ==
  ASSUME WinInv, evq # <<>>, evq' = Tail(evq), UNCHANGED <<top, plugged, active, reqq, caches, winof, opens>>,
         e.ev \notin {"toplevel", "closed", "parent"}, stack' \in Seq(Frames)
  PROVE  WinInv'
<1>0. UNCHANGED <<proxy, valid_handles, outmap, geom, title, winof>>
  BY DEF caches
<1>1. CachesOK' /\ HandlesLive'
  BY <1>0 DEF WinInv, CachesOK, HandlesLive
<1>2. reqq' \in Seq(Asked) /\ opens' \in Nat
  BY DEF WinInv, QueuesOK
<1>3. \A x \in Handles : geom'[x].tileable_got =>
           \/ /\ geom[x].tileable_got /\ geom'[x].tileable = geom[x].tileable
              /\ ~(e.h = x /\ e.ev \in {"parent", "closed"})
           \/ e.h = x /\ e.ev = "tileable" /\ geom'[x].tileable = e.v
  BY <1>0
<1> QED BY <1>0, <1>1, <1>2, <1>3, HandledWell

\* What an event leaves to its handler.
LEMMA EventOf ==
  ASSUME WinInv, NEW k, Event(k)
  PROVE  /\ evq # <<>> /\ e.ev = k /\ evq' = Tail(evq) /\ UNCHANGED <<top, plugged, active, reqq>>
         /\ e \in Evs /\ stack \in Seq(Frames) /\ opens \in Nat /\ reqq \in Seq(Asked)
<1>1. evq # <<>> /\ e.ev = k /\ evq' = Tail(evq) /\ UNCHANGED <<top, plugged, active, reqq>>
  BY DEF Event, compositor
<1>2. evq \in Seq(Evs) /\ stack \in Seq(Frames) /\ opens \in Nat /\ reqq \in Seq(Asked)
  BY DEF WinInv, QueuesOK
<1>3. e \in Evs
  BY <1>1, <1>2, Shorter DEF e
<1> QED BY <1>1, <1>2, <1>3

\* A sequence with one element replaced.
LEMMA Replaced ==
  ASSUME NEW S, NEW s \in Seq(S), NEW n, NEW v, n \in 1..Len(s) => v \in S
  PROVE  [s EXCEPT ![n] = v] \in Seq(S)
<1>1. Len(s) \in Nat /\ DOMAIN s = 1..Len(s) /\ \A i \in 1..Len(s) : s[i] \in S
  OBVIOUS
<1>2. [s EXCEPT ![n] = v] \in [1..Len(s) -> S]
  BY <1>1
<1> QED BY <1>1, <1>2

\* A roundtrip whose answer is there.
LEMMA FrameDone == \A f \in Frames : [f EXCEPT !.done = TRUE] \in Frames
  BY DEF Frames

\* The handlers of states, workspaces, groups and roundtrips.
LEMMA OthersKeep ==
  ASSUME WinInv,
         \/ toplevel_handle_state \/ roundtrip_done
         \/ workspace_manager_workspace_group \/ workspace_group_output \/ workspace_group_workspace
         \/ workspace_group_removed
         \/ workspace_handle_name \/ workspace_handle_state \/ workspace_handle_removed
  PROVE  WinInv'
<1>1. ASSUME NEW k \in {"state", "group", "genter", "gleave", "gremoved", "wsenter", "wsleave", "wsname",
                        "wsstate", "wsremoved", "sync"},
             Event(k), UNCHANGED <<caches, winof, opens>>, stack' \in Seq(Frames)
      PROVE  WinInv'
  <2>1. /\ evq # <<>> /\ e.ev = k /\ evq' = Tail(evq) /\ UNCHANGED <<top, plugged, active, reqq>>
    BY <1>1, EventOf
  <2>2. e.ev \notin {"toplevel", "closed", "parent"}
    BY <2>1, <1>1
  <2> QED BY <1>1, <2>1, <2>2, HandledApart
<1>0. stack \in Seq(Frames)
  BY DEF WinInv, QueuesOK
<1>2. CASE toplevel_handle_state
  <2>1. Event("state") /\ UNCHANGED <<caches, winof, opens>> /\ stack' = stack
    BY <1>2 DEF toplevel_handle_state, lists
  <2> QED BY <2>1, <1>0, <1>1
<1>3. CASE roundtrip_done
  <2>1. Event("sync") /\ UNCHANGED <<caches, winof, opens>> /\ stack' = [stack EXCEPT ![e.n].done = TRUE]
    BY <1>3 DEF roundtrip_done, lists
  <2>2. \A i \in 1..Len(stack) : stack[i] \in Frames
    BY <1>0
  <2>3. stack' \in Seq(Frames)
    <3> DEFINE n == e.n
               v == [stack[n] EXCEPT !.done = TRUE]
    <3>1. stack' = [stack EXCEPT ![n] = v]
      BY <2>1
    <3>2. n \in 1..Len(stack) => v \in Frames
      BY <2>2, FrameDone
    <3> HIDE DEF n, v
    <3> QED BY <1>0, <3>1, <3>2, Replaced
  <2> QED BY <2>1, <2>3, <1>1
<1>4. CASE workspace_manager_workspace_group
  <2>1. Event("group") /\ UNCHANGED <<caches, winof, opens>> /\ stack' = stack
    BY <1>4 DEF workspace_manager_workspace_group, lists
  <2> QED BY <2>1, <1>0, <1>1
<1>5. CASE workspace_group_output
  <2>1. (Event("genter") \/ Event("gleave")) /\ UNCHANGED <<caches, winof, opens>> /\ stack' = stack
    BY <1>5 DEF workspace_group_output, lists
  <2> QED BY <2>1, <1>0, <1>1
<1>6. CASE workspace_group_workspace
  <2>1. (Event("wsenter") \/ Event("wsleave")) /\ UNCHANGED <<caches, winof, opens>> /\ stack' = stack
    BY <1>6 DEF workspace_group_workspace, lists
  <2> QED BY <2>1, <1>0, <1>1
<1>7. CASE workspace_group_removed
  <2>1. Event("gremoved") /\ UNCHANGED <<caches, winof, opens>> /\ stack' = stack
    BY <1>7 DEF workspace_group_removed, lists
  <2> QED BY <2>1, <1>0, <1>1
<1>8. CASE workspace_handle_name
  <2>1. Event("wsname") /\ UNCHANGED <<caches, winof, opens>> /\ stack' = stack
    BY <1>8 DEF workspace_handle_name
  <2> QED BY <2>1, <1>0, <1>1
<1>9. CASE workspace_handle_state
  <2>1. Event("wsstate") /\ UNCHANGED <<caches, winof, opens>> /\ stack' = stack
    BY <1>9 DEF workspace_handle_state
  <2> QED BY <2>1, <1>0, <1>1
<1>10. CASE workspace_handle_removed
  <2>1. Event("wsremoved") /\ UNCHANGED <<caches, winof, opens>> /\ stack' = stack
    BY <1>10 DEF workspace_handle_removed
  <2> QED BY <2>1, <1>0, <1>1
<1> QED BY <1>2, <1>3, <1>4, <1>5, <1>6, <1>7, <1>8, <1>9, <1>10

\* A handle gets its proxy.
LEMMA ToplevelKeeps == ASSUME WinInv, toplevel_manager_toplevel PROVE WinInv'
<1>1. /\ Event("toplevel") /\ proxy' = proxy \cup {e.h} /\ valid_handles' = valid_handles \cup {e.h}
      /\ UNCHANGED <<outmap, geom, title, winof, opens, stack>>
  BY DEF toplevel_manager_toplevel, lists
<1>2. /\ evq # <<>> /\ e.ev = "toplevel" /\ evq' = Tail(evq) /\ UNCHANGED <<top, plugged, active, reqq>>
      /\ e \in Evs /\ stack \in Seq(Frames) /\ opens \in Nat /\ reqq \in Seq(Asked)
  BY <1>1, EventOf
<1>3. e.h \in Handles
  BY <1>2, EvFields DEF HandleKinds
<1>4. CachesOK' /\ HandlesLive'
  <2>1. CachesOK'
    BY <1>1, <1>2, <1>3 DEF WinInv, CachesOK
  <2>2. HandlesLive'
    BY <1>1 DEF WinInv, HandlesLive
  <2> QED BY <2>1, <2>2
<1>5. reqq' \in Seq(Asked) /\ stack' \in Seq(Frames) /\ opens' \in Nat
  BY <1>1, <1>2
<1> QED BY <1>1, <1>2, <1>4, <1>5, HandledWell

\* A title comes.
LEMMA TitleKeeps == ASSUME WinInv, toplevel_handle_title PROVE WinInv'
<1>1. /\ Event("title") /\ title' = title \cup {e.h}
      /\ UNCHANGED <<proxy, valid_handles, outmap, geom, winof, opens, stack>>
  BY DEF toplevel_handle_title, lists
<1>2. /\ evq # <<>> /\ e.ev = "title" /\ evq' = Tail(evq) /\ UNCHANGED <<top, plugged, active, reqq>>
      /\ stack \in Seq(Frames) /\ opens \in Nat /\ reqq \in Seq(Asked)
  BY <1>1, EventOf
<1>3. e.h \in Handles /\ e.h \in proxy
  BY <1>2, HeadKnown DEF HandleKinds
<1>4. CachesOK'
  BY <1>1, <1>2, <1>3 DEF WinInv, CachesOK
<1>5. HandlesLive'
  BY <1>1, <1>3 DEF WinInv, HandlesLive
<1>6. reqq' \in Seq(Asked) /\ stack' \in Seq(Frames) /\ opens' \in Nat
  BY <1>1, <1>2
<1> QED BY <1>1, <1>2, <1>4, <1>5, <1>6, HandledWell

\* A window enters or leaves an output.
LEMMA OutputKeeps ==
  ASSUME WinInv, toplevel_handle_output_enter \/ toplevel_handle_output_leave PROVE WinInv'
<1>1. PICK k \in {"enter", "leave"} : Event(k)
  BY DEF toplevel_handle_output_enter, toplevel_handle_output_leave
<1>2. /\ evq # <<>> /\ e.ev = k /\ evq' = Tail(evq) /\ UNCHANGED <<top, plugged, active, reqq>>
      /\ e \in Evs /\ stack \in Seq(Frames) /\ opens \in Nat /\ reqq \in Seq(Asked)
  BY <1>1, EventOf
<1>3. e.h \in Handles /\ e.h \in proxy /\ e.o \in Outputs
  BY <1>1, <1>2, HeadKnown, EvFields DEF HandleKinds
<1>4. UNCHANGED <<proxy, valid_handles, geom, title, winof, opens, stack>>
  BY DEF toplevel_handle_output_enter, toplevel_handle_output_leave, lists
<1>5. PICK o \in Outputs \cup {"none"} : outmap' = [outmap EXCEPT ![e.h] = o]
  <2>1. CASE toplevel_handle_output_enter
    BY <1>3, <2>1 DEF toplevel_handle_output_enter
  <2>2. CASE toplevel_handle_output_leave
    <3>1. outmap[e.h] \in Outputs \cup {"none"}
      BY <1>3 DEF WinInv, CachesOK
    <3>2. outmap' = [outmap EXCEPT ![e.h] = IF outmap[e.h] = e.o THEN "none" ELSE outmap[e.h]]
      BY <2>2 DEF toplevel_handle_output_leave
    <3> QED BY <3>1, <3>2
  <2> QED BY <2>1, <2>2
<1>6. outmap' \in [Handles -> Outputs \cup {"none"}] /\ \A x \in Handles : x # e.h => outmap'[x] = outmap[x]
  BY <1>5 DEF WinInv, CachesOK
<1>7. CachesOK'
  BY <1>2, <1>4, <1>6 DEF WinInv, CachesOK
<1>8. HandlesLive'
  BY <1>3, <1>4, <1>6 DEF WinInv, HandlesLive
<1>9. reqq' \in Seq(Asked) /\ stack' \in Seq(Frames) /\ opens' \in Nat
  BY <1>2, <1>4
<1>10. e.ev \notin {"toplevel", "closed", "parent"}
  BY <1>1, <1>2
<1> QED BY <1>2, <1>4, <1>7, <1>8, <1>9, <1>10, HandledWell

\* Every map forgets the handle.
LEMMA ClosedKeeps == ASSUME WinInv, toplevel_handle_closed PROVE WinInv'
<1>1. /\ Event("closed")
      /\ outmap' = [outmap EXCEPT ![e.h] = "none"] /\ geom' = [geom EXCEPT ![e.h] = NoEntry]
      /\ title' = title \ {e.h}
      /\ valid_handles' = valid_handles \ {e.h} /\ proxy' = proxy \ {e.h}
      /\ remove_running_app(e.h) /\ UNCHANGED <<opens, stack>>
  BY DEF toplevel_handle_closed
<1>2. /\ evq # <<>> /\ e.ev = "closed" /\ evq' = Tail(evq) /\ UNCHANGED <<top, plugged, active, reqq>>
      /\ stack \in Seq(Frames) /\ opens \in Nat /\ reqq \in Seq(Asked)
  BY <1>1, EventOf
<1>3. e.h \in Handles /\ e.h \in proxy
  BY <1>2, HeadKnown DEF HandleKinds
<1>4. CachesOK /\ HandlesLive
  BY DEF WinInv
<1>5. winof' \in [Handles -> Nat] /\ winof'[e.h] = 0 /\ \A x \in Handles : x # e.h => winof'[x] = winof[x]
  BY <1>1, <1>3, <1>4 DEF remove_running_app, CachesOK
<1>6. /\ geom' \in [Handles -> Entries] /\ geom'[e.h] = NoEntry
      /\ \A x \in Handles : x # e.h => geom'[x] = geom[x]
  <2>1. NoEntry \in Entries
    BY DEF NoEntry, Entries
  <2> QED BY <1>1, <1>3, <1>4, <2>1 DEF CachesOK
<1>7. /\ outmap' \in [Handles -> Outputs \cup {"none"}] /\ outmap'[e.h] = "none"
      /\ \A x \in Handles : x # e.h => outmap'[x] = outmap[x]
  BY <1>1, <1>3, <1>4 DEF CachesOK
<1>8. CachesOK'
  BY <1>1, <1>2, <1>4, <1>5, <1>6, <1>7 DEF CachesOK
<1>9. HandlesLive'
  BY <1>1, <1>3, <1>4, <1>5, <1>6, <1>7 DEF HandlesLive
<1>10. ~NoEntry.tileable_got
  BY DEF NoEntry
<1>11. \A x \in Handles : geom'[x].tileable_got =>
           \/ /\ geom[x].tileable_got /\ geom'[x].tileable = geom[x].tileable
              /\ ~(e.h = x /\ e.ev \in {"parent", "closed"})
           \/ e.h = x /\ e.ev = "tileable" /\ geom'[x].tileable = e.v
  BY <1>6, <1>10
<1>12. reqq' \in Seq(Asked) /\ stack' \in Seq(Frames) /\ opens' \in Nat
  BY <1>1, <1>2
<1> QED BY <1>1, <1>2, <1>8, <1>9, <1>11, <1>12, HandledWell

\* The handlers that change the entry of a handle in geometry_map.
LEMMA EntryKeeps ==
  ASSUME WinInv, NEW k \in {"parent", "tileable", "geometry", "workarea"}, Event(k),
         NEW v \in Entries, geom' = [geom EXCEPT ![e.h] = v],
         k = "parent" => ~v.tileable_got, k = "tileable" => v.tileable = e.v,
         k \in {"geometry", "workarea"} => v.tileable_got = geom[e.h].tileable_got /\ v.tileable = geom[e.h].tileable,
         UNCHANGED <<proxy, valid_handles, outmap, title, winof, opens, stack>>
  PROVE  WinInv'
<1>2. /\ evq # <<>> /\ e.ev = k /\ evq' = Tail(evq) /\ UNCHANGED <<top, plugged, active, reqq>>
      /\ stack \in Seq(Frames) /\ opens \in Nat /\ reqq \in Seq(Asked)
  BY EventOf
<1>3. e.h \in Handles /\ e.h \in proxy
  BY <1>2, HeadKnown DEF HandleKinds
<1>4. /\ geom' \in [Handles -> Entries] /\ geom'[e.h] = v
      /\ \A x \in Handles : x # e.h => geom'[x] = geom[x]
  BY <1>3 DEF WinInv, CachesOK
<1>5. CachesOK'
  BY <1>2, <1>4 DEF WinInv, CachesOK
<1>6. HandlesLive'
  BY <1>3, <1>4 DEF WinInv, HandlesLive
<1>7. \A x \in Handles : geom'[x].tileable_got =>
           \/ /\ geom[x].tileable_got /\ geom'[x].tileable = geom[x].tileable
              /\ ~(e.h = x /\ e.ev \in {"parent", "closed"})
           \/ e.h = x /\ e.ev = "tileable" /\ geom'[x].tileable = e.v
  BY <1>2, <1>4
<1>8. reqq' \in Seq(Asked) /\ stack' \in Seq(Frames) /\ opens' \in Nat
  BY <1>2
<1>9. e.ev \notin {"toplevel", "closed"}
  BY <1>2
<1> QED BY <1>2, <1>5, <1>6, <1>7, <1>8, <1>9, HandledWell

\* What the handlers and the queries make of an entry.
LEMMA EntryChanges ==
  \A g \in Entries :
    /\ [g EXCEPT !.tileable_got = FALSE] \in Entries /\ ~[g EXCEPT !.tileable_got = FALSE].tileable_got
    /\ [g EXCEPT !.entry = TRUE, !.got = TRUE] \in Entries
    /\ [g EXCEPT !.entry = TRUE, !.got = TRUE].tileable_got = g.tileable_got
    /\ [g EXCEPT !.entry = TRUE, !.got = TRUE].tileable = g.tileable
    /\ [g EXCEPT !.entry = TRUE, !.workarea_got = TRUE] \in Entries
    /\ [g EXCEPT !.entry = TRUE, !.workarea_got = TRUE].tileable_got = g.tileable_got
    /\ [g EXCEPT !.entry = TRUE, !.workarea_got = TRUE].tileable = g.tileable
    /\ [g EXCEPT !.got = FALSE] \in Entries
    /\ [g EXCEPT !.got = FALSE].tileable_got = g.tileable_got /\ [g EXCEPT !.got = FALSE].tileable = g.tileable
    /\ [g EXCEPT !.workarea_got = FALSE] \in Entries
    /\ [g EXCEPT !.workarea_got = FALSE].tileable_got = g.tileable_got
    /\ [g EXCEPT !.workarea_got = FALSE].tileable = g.tileable
  BY DEF Entries

\* The handlers of parent and of the three answers.
LEMMA EntriesKeep ==
  ASSUME WinInv, \/ toplevel_handle_parent \/ tiling_handle_tileable
                 \/ tiling_handle_geometry \/ tiling_handle_workarea
  PROVE  WinInv'
<1>1. ASSUME NEW k \in {"parent", "tileable", "geometry", "workarea"}, Event(k)
      PROVE  e.h \in Handles /\ geom[e.h] \in Entries /\ (k = "tileable" => e.v \in BOOLEAN) /\ geom \in [Handles -> Entries]
  <2>1. e \in Evs /\ e.ev = k
    BY <1>1, EventOf
  <2>2. e.h \in Handles
    BY <1>1, <2>1, EvFields DEF HandleKinds
  <2>3. k = "tileable" => e.v \in BOOLEAN
    BY <1>1, <2>1, EvFields DEF HandleKinds
  <2>4. geom \in [Handles -> Entries]
    BY DEF WinInv, CachesOK
  <2> QED BY <2>2, <2>3, <2>4
<1>2. CASE toplevel_handle_parent
  <2> DEFINE v == [geom[e.h] EXCEPT !.tileable_got = FALSE]
  <2>1. /\ Event("parent") /\ geom' = [geom EXCEPT ![e.h] = v]
        /\ UNCHANGED <<proxy, valid_handles, outmap, title, winof, opens, stack>>
    BY <1>2 DEF toplevel_handle_parent, invalidate_toplevel_tileable, lists
  <2>2. v \in Entries /\ ~v.tileable_got
    BY <1>1, <2>1, EntryChanges
  <2> HIDE DEF v
  <2> QED BY <2>1, <2>2, EntryKeeps
<1>3. CASE tiling_handle_tileable
  <2> DEFINE v == [geom[e.h] EXCEPT !.entry = TRUE, !.tileable_got = TRUE, !.tileable = e.v]
  <2>1. /\ Event("tileable") /\ geom' = [geom EXCEPT ![e.h] = v]
        /\ UNCHANGED <<proxy, valid_handles, outmap, title, winof, opens, stack>>
    BY <1>3 DEF tiling_handle_tileable, lists
  <2>0. geom[e.h] \in Entries /\ e.v \in BOOLEAN
    BY <1>1, <2>1
  <2>2. v \in Entries /\ v.tileable = e.v
    <3> DEFINE g == geom[e.h]
               t == e.v
    <3>1. g \in Entries /\ t \in BOOLEAN
      BY <2>0
    <3> HIDE DEF g, t
    <3>2. /\ [g EXCEPT !.entry = TRUE, !.tileable_got = TRUE, !.tileable = t] \in Entries
          /\ [g EXCEPT !.entry = TRUE, !.tileable_got = TRUE, !.tileable = t].tileable = t
      BY <3>1 DEF Entries
    <3> QED BY <3>2 DEF g, t
  <2> HIDE DEF v
  <2> QED BY <2>1, <2>2, EntryKeeps
<1>4. CASE tiling_handle_geometry
  <2> DEFINE v == [geom[e.h] EXCEPT !.entry = TRUE, !.got = TRUE]
  <2>1. /\ Event("geometry") /\ geom' = [geom EXCEPT ![e.h] = v]
        /\ UNCHANGED <<proxy, valid_handles, outmap, title, winof, opens, stack>>
    BY <1>4 DEF tiling_handle_geometry, lists
  <2>2. v \in Entries /\ v.tileable_got = geom[e.h].tileable_got /\ v.tileable = geom[e.h].tileable
    BY <1>1, <2>1, EntryChanges
  <2> HIDE DEF v
  <2> QED BY <2>1, <2>2, EntryKeeps
<1>5. CASE tiling_handle_workarea
  <2> DEFINE v == [geom[e.h] EXCEPT !.entry = TRUE, !.workarea_got = TRUE]
  <2>1. /\ Event("workarea") /\ geom' = [geom EXCEPT ![e.h] = v]
        /\ UNCHANGED <<proxy, valid_handles, outmap, title, winof, opens, stack>>
    BY <1>5 DEF tiling_handle_workarea, lists
  <2>2. v \in Entries /\ v.tileable_got = geom[e.h].tileable_got /\ v.tileable = geom[e.h].tileable
    BY <1>1, <2>1, EntryChanges
  <2> HIDE DEF v
  <2> QED BY <2>1, <2>2, EntryKeeps
<1> QED BY <1>2, <1>3, <1>4, <1>5

\* A question is asked about a handle.
LEMMA Question ==
  ASSUME NEW k \in {"tileable", "geometry", "workarea", "request"}, NEW h \in Handles, NEW n \in Nat
  PROVE  /\ [k |-> k, h |-> h, n |-> n] \in Asked
         /\ \A q \in Seq(Asked) : Append(q, [k |-> k, h |-> h, n |-> n]) \in Seq(Asked)
<1> DEFINE x == [k |-> k, h |-> h, n |-> n]
<1>1. x \in Asked
  BY DEF Asked
<1> HIDE DEF x
<1>2. \A q \in Seq(Asked) : Append(q, x) \in Seq(Asked)
  BY <1>1
<1> QED BY <1>1, <1>2 DEF x

\* A window is listed, and may be asked about.
LEMMA AppIdKeeps == ASSUME WinInv, toplevel_handle_app_id PROVE WinInv'
<1>1. /\ evq # <<>> /\ e.ev = "app_id" /\ evq' = Tail(evq)
      /\ opens' = opens + 1 /\ winof' = [winof EXCEPT ![e.h] = opens + 1]
      /\ UNCHANGED <<top, plugged, active>>
      /\ UNCHANGED <<proxy, valid_handles, outmap, geom, title>>
  BY DEF toplevel_handle_app_id, caches
<1>2. /\ evq \in Seq(Evs) /\ stack \in Seq(Frames) /\ opens \in Nat /\ reqq \in Seq(Asked)
      /\ winof \in [Handles -> Nat]
  BY DEF WinInv, QueuesOK, CachesOK
<1>3. e.h \in Handles /\ e.h \in proxy
  BY <1>1, HeadKnown DEF HandleKinds
<1>4. opens' \in Nat /\ winof' \in [Handles -> Nat] /\ \A x \in Handles : x # e.h => winof'[x] = winof[x]
  <2> DEFINE id == opens + 1
  <2>1. id \in Nat /\ opens' = id /\ winof' = [winof EXCEPT ![e.h] = id]
    BY <1>1, <1>2
  <2> HIDE DEF id
  <2> QED BY <1>2, <2>1
<1>5. stack' \in Seq(Frames)
  <2> DEFINE f == [k |-> "opening", h |-> e.h, id |-> opens + 1, done |-> FALSE]
  <2>1. stack' = Append(stack, f) \/ stack' = stack
    BY DEF toplevel_handle_app_id
  <2>2. f \in Frames
    BY <1>2, <1>3 DEF Frames
  <2> HIDE DEF f
  <2> QED BY <1>2, <2>1, <2>2
<1>6. reqq' \in Seq(Asked)
  <2>1. reqq' = Append(reqq, [k |-> "tileable", h |-> e.h, n |-> Len(stack) + 1]) \/ reqq' = reqq
    BY DEF toplevel_handle_app_id
  <2>2. Len(stack) + 1 \in Nat
    BY <1>2
  <2>3. Append(reqq, [k |-> "tileable", h |-> e.h, n |-> Len(stack) + 1]) \in Seq(Asked)
    BY <1>2, <1>3, <2>2, Question
  <2> QED BY <1>2, <2>1, <2>3
<1>7. CachesOK'
  BY <1>1, <1>4 DEF WinInv, CachesOK
<1>8. HandlesLive'
  BY <1>1, <1>3, <1>4 DEF WinInv, HandlesLive
<1> QED BY <1>1, <1>4, <1>5, <1>6, <1>7, <1>8, HandledWell

\* Every handler keeps the invariant.
LEMMA DispatchKeeps == ASSUME WinInv, Dispatch PROVE WinInv'
  BY OthersKeep, ToplevelKeeps, TitleKeeps, OutputKeeps, ClosedKeeps, EntriesKeep, AppIdKeeps DEF Dispatch

\* The steps of the main loop and of the user that change only the lists.
LEMMA ListsKeep ==
  ASSUME WinInv, \/ Return \/ adopt_orphan_windows \/ follow_window_monitor
                 \/ \E h \in Handles, n \in 1..Cardinality(Spaces) : move_window_to_workspace_by_index(h, n)
  PROVE  WinInv'
<1>0. /\ reqq \in Seq(Asked) /\ stack \in Seq(Frames) /\ opens \in Nat /\ geom \in [Handles -> Entries]
  BY DEF WinInv, QueuesOK, CachesOK
<1>1. /\ UNCHANGED <<top, plugged, active, reqq, evq>> /\ UNCHANGED caches
      /\ UNCHANGED <<winof, opens>>
  BY DEF Return, adopt_orphan_windows, follow_window_monitor, move_window_to_workspace_by_index, compositor
<1>2. UNCHANGED <<proxy, valid_handles, outmap, geom, title>>
  BY <1>1 DEF caches
<1>3. stack' \in Seq(Frames)
  <2>1. stack' = stack \/ (stack # <<>> /\ stack' = Front(stack))
    BY DEF Return, adopt_orphan_windows, follow_window_monitor, move_window_to_workspace_by_index
  <2>2. stack # <<>> => Front(stack) \in Seq(Frames)
    BY <1>0 DEF Front
  <2> QED BY <1>0, <2>1, <2>2
<1> QED BY <1>0, <1>1, <1>2, <1>3, Quiet

\* The requests of the shell.
LEMMA QueryKeeps ==
  ASSUME WinInv, NEW h \in Handles,
         get_window_geometry(h) \/ get_window_workarea(h) \/ window_is_tileable(h)
  PROVE  WinInv'
<1>0. /\ reqq \in Seq(Asked) /\ geom \in [Handles -> Entries] /\ opens \in Nat /\ valid_handles = proxy
  BY DEF WinInv, QueuesOK, CachesOK, HandlesLive
<1>1. PICK k \in {"geometry", "workarea", "tileable"} : query(h, k)
  BY DEF get_window_geometry, get_window_workarea, window_is_tileable
<1> DEFINE f == [k |-> "query", h |-> h, id |-> 0, done |-> FALSE]
           r == [k |-> k, h |-> h, n |-> 1]
<1>2. /\ h \in proxy /\ reqq' = Append(reqq, r) /\ stack' = <<f>>
      /\ UNCHANGED <<top, plugged, active, evq>> /\ UNCHANGED <<proxy, valid_handles, outmap, title, winof, opens>>
  BY <1>0, <1>1 DEF query, lists
<1>3. reqq' \in Seq(Asked)
  BY <1>0, <1>2, Question
<1>4. stack' \in Seq(Frames)
  <2>1. f \in Frames
    BY DEF Frames
  <2> HIDE DEF f
  <2> QED BY <1>2, <2>1
<1>5. PICK v \in Entries : /\ geom' = [geom EXCEPT ![h] = v]
                           /\ v.tileable_got = geom[h].tileable_got /\ v.tileable = geom[h].tileable
  <2>0. geom[h] \in Entries
    BY <1>0
  <2>1. CASE get_window_geometry(h)
    <3> DEFINE v == [geom[h] EXCEPT !.got = FALSE]
    <3>1. geom' = [geom EXCEPT ![h] = v]
      BY <2>1 DEF get_window_geometry
    <3>2. v \in Entries /\ v.tileable_got = geom[h].tileable_got /\ v.tileable = geom[h].tileable
      BY <2>0, EntryChanges
    <3> QED BY <3>1, <3>2
  <2>2. CASE get_window_workarea(h)
    <3> DEFINE v == [geom[h] EXCEPT !.workarea_got = FALSE]
    <3>1. geom' = [geom EXCEPT ![h] = v]
      BY <2>2 DEF get_window_workarea
    <3>2. v \in Entries /\ v.tileable_got = geom[h].tileable_got /\ v.tileable = geom[h].tileable
      BY <2>0, EntryChanges
    <3> QED BY <3>1, <3>2
  <2>3. CASE window_is_tileable(h)
    <3>1. geom' = geom
      BY <2>3 DEF window_is_tileable
    <3>2. geom = [geom EXCEPT ![h] = geom[h]]
      BY <1>0
    <3> QED BY <2>0, <3>1, <3>2
  <2> QED BY <2>1, <2>2, <2>3
<1>6. /\ geom' \in [Handles -> Entries]
      /\ \A x \in Handles : /\ geom'[x].tileable_got = geom[x].tileable_got
                            /\ geom'[x].tileable = geom[x].tileable
                            /\ x \notin proxy => geom'[x] = geom[x]
  BY <1>0, <1>2, <1>5
<1>7. opens' \in Nat
  BY <1>0, <1>2
<1> HIDE DEF f, r
<1> QED BY <1>2, <1>3, <1>4, <1>6, <1>7, Quiet

\* A request that needs no answer.
LEMMA WinRequestKeeps == ASSUME WinInv, NEW h \in Handles, window_request(h) PROVE WinInv'
<1>0. /\ reqq \in Seq(Asked) /\ stack \in Seq(Frames) /\ opens \in Nat /\ geom \in [Handles -> Entries]
  BY DEF WinInv, QueuesOK, CachesOK
<1>1. /\ reqq' = Append(reqq, [k |-> "request", h |-> h, n |-> 0])
      /\ UNCHANGED <<top, plugged, active, evq>> /\ UNCHANGED Shell
  BY DEF window_request, Request
<1>2. UNCHANGED <<proxy, valid_handles, outmap, geom, title, winof, opens, stack>>
  BY <1>1 DEF Shell, caches, lists
<1>3. reqq' \in Seq(Asked)
  BY <1>0, <1>1, Question
<1> QED BY <1>0, <1>1, <1>2, <1>3, Quiet

----------------------------------------------------------------------------
(* Handles, answers and requests *)

\* The shell starts with no windows and empty queues.
LEMMA WinStart == ASSUME WinInit PROVE WinInv
<1>1. QueuesOK
  <2>1. active \in [Groups -> Spaces]
    <3>1. \A g \in Groups : 1 \in 1..Len(SpacesOf[g])
      <4>1. \A g \in Groups : SpacesOf[g] \in Seq(Spaces) /\ SpacesOf[g] # <<>>
        BY GroupsAssumption
      <4> QED BY <4>1
    <3>2. \A g \in Groups : SpacesOf[g][1] \in Spaces
      BY <3>1, SpacesOK
    <3> QED BY <3>2 DEF WinInit
  <2> QED BY <2>1 DEF WinInit, QueuesOK
<1>2. CachesOK /\ HandlesLive
  <2>1. NoTop \in Tops /\ NoEntry \in Entries
    BY DEF NoTop, NoEntry, Tops, Entries
  <2>2. CachesOK
    BY <2>1 DEF WinInit, CachesOK
  <2> QED BY <2>2 DEF WinInit, HandlesLive
<1>3. evq = <<>> /\ proxy = {} /\ \A h \in Handles : top[h] = NoTop /\ ~top[h].live /\ ~geom[h].tileable_got
  BY DEF WinInit, NoTop, NoEntry
<1>4. 1..Len(evq) = {}
  BY <1>3
<1>5. QueueInv /\ TileableFresh
  BY <1>3, <1>4 DEF QueueInv, InOrder, Introduced, Ends, AnswersFresh, Known, Queued, TileableFresh
<1> QED BY <1>1, <1>2, <1>5 DEF WinInv

\* Every step of the compositor, of the shell and of the user keeps the invariant.
LEMMA WinStep == ASSUME WinInv, [WinNext]_winVars PROVE WinInv'
<1>1. CASE UNCHANGED winVars
  <2>1. /\ UNCHANGED <<top, plugged, active, reqq, evq>>
        /\ UNCHANGED <<proxy, valid_handles, outmap, geom, title>> /\ UNCHANGED <<winof, opens, stack>>
    BY <1>1 DEF winVars, compositor, caches, lists
  <2>2. reqq \in Seq(Asked) /\ stack \in Seq(Frames) /\ opens \in Nat /\ geom \in [Handles -> Entries]
    BY DEF WinInv, QueuesOK, CachesOK
  <2> QED BY <2>1, <2>2, Quiet
<1>2. CASE WinNext
  BY <1>2, DragKeeps, MapKeeps, UnmapKeeps, ReparentKeeps, WinRequestKeeps, RestateKeeps, SwitchKeeps, UnplugKeeps,
     PlugKeeps, AnswerKeeps, DispatchKeeps, ListsKeep, QueryKeeps DEF WinNext
<1> QED BY <1>1, <1>2

\* The invariant holds whatever the compositor, the user and the main loop do.
THEOREM WindowsInvariant == WinSpec => []WinInv
<1>1. WinInit => WinInv
  BY WinStart
<1>2. WinInv /\ [WinNext]_winVars => WinInv'
  BY WinStep
<1> QED BY <1>1, <1>2, PTL DEF WinSpec

\* No map of wayland_integration.c keeps what it learnt of a handle that is
\* destroyed, and valid_handles has exactly the proxies that are not.
THEOREM HandlesStayLive == WinSpec => []HandlesLive
<1>1. WinInv => HandlesLive
  BY DEF WinInv
<1> QED BY <1>1, WindowsInvariant, PTL

\* The answer window_is_tileable() keeps is true, or the event that drops it is
\* on its way.
THEOREM TileableStaysFresh == WinSpec => []TileableFresh
<1>1. WinInv => TileableFresh
  BY DEF WinInv
<1> QED BY <1>1, WindowsInvariant, PTL

\* The steps that make no request, with the one that answers one.
LEMMA NoRequest ==
  ASSUME WinInv, reqq' = reqq \/ (reqq # <<>> /\ reqq' = Tail(reqq))
  PROVE  ~(Len(reqq') > Len(reqq))
<1>1. reqq \in Seq(Asked)
  BY DEF WinInv, QueuesOK
<1> QED BY <1>1

\* The steps that make one.
LEMMA OneRequest ==
  ASSUME WinInv, NEW k, NEW h \in Handles, NEW n \in Nat, h \in proxy,
         k \in {"tileable", "geometry", "workarea", "request"}, reqq' = Append(reqq, [k |-> k, h |-> h, n |-> n])
  PROVE  Last(reqq').h \in proxy
<1> DEFINE r == [k |-> k, h |-> h, n |-> n]
<1>1. reqq \in Seq(Asked) /\ r \in Asked /\ r.h = h
  BY Question DEF WinInv, QueuesOK
<1> HIDE DEF r
<1>2. Last(Append(reqq, r)) = r
  BY <1>1 DEF Last
<1> QED BY <1>1, <1>2 DEF r

\* A step that makes a request makes it for a live handle.
LEMMA RequestsLive ==
  ASSUME WinInv, [WinNext]_winVars PROVE Len(reqq') > Len(reqq) => Last(reqq').h \in proxy
<1>0. valid_handles = proxy /\ stack \in Seq(Frames)
  BY DEF WinInv, HandlesLive, QueuesOK
<1>1. CASE \/ UNCHANGED winVars \/ answer \/ Return \/ adopt_orphan_windows \/ follow_window_monitor
           \/ \E h \in Handles, n \in 1..Cardinality(Spaces) : move_window_to_workspace_by_index(h, n)
  <2>1. reqq' = reqq \/ (reqq # <<>> /\ reqq' = Tail(reqq))
    BY <1>1 DEF winVars, compositor, answer, Return, adopt_orphan_windows, follow_window_monitor,
       move_window_to_workspace_by_index
  <2> QED BY <2>1, NoRequest
<1>2. CASE \/ \E h \in Handles, o \in Outputs : drag(h, o)
           \/ \E h \in Handles, o \in Outputs, named \in BOOLEAN : map(h, o, named)
           \/ \E h \in Handles : unmap(h) \/ reparent(h)
           \/ \E h \in Handles, a, m \in BOOLEAN : restate(h, a, m)
           \/ \E g \in Groups, w \in Spaces : switch(g, w)
           \/ \E o, to \in Outputs : unplug(o, to)
           \/ \E o \in Outputs : plug(o)
  <2>1. reqq' = reqq
    BY <1>2, Zenon DEF drag, map, unmap, reparent, restate, switch, unplug, plug
  <2> QED BY <2>1, NoRequest
<1>3. CASE Dispatch
  <2>1. CASE toplevel_handle_app_id
    <3>1. e.h \in Handles /\ e.h \in proxy
      <4>1. evq # <<>> /\ e.ev = "app_id"
        BY <2>1 DEF toplevel_handle_app_id
      <4> QED BY <4>1, HeadKnown DEF HandleKinds
    <3>2. reqq' = Append(reqq, [k |-> "tileable", h |-> e.h, n |-> Len(stack) + 1]) \/ reqq' = reqq
      BY <2>1 DEF toplevel_handle_app_id
    <3>3. Len(stack) + 1 \in Nat
      BY <1>0
    <3>4. CASE reqq' = reqq
      BY <3>4, NoRequest
    <3>5. CASE reqq' = Append(reqq, [k |-> "tileable", h |-> e.h, n |-> Len(stack) + 1])
      BY <3>1, <3>3, <3>5, OneRequest
    <3> QED BY <3>2, <3>4, <3>5
  <2>2. CASE ~toplevel_handle_app_id
    <3>1. \E k : Event(k)
      BY <1>3, <2>2 DEF Dispatch, toplevel_manager_toplevel, toplevel_handle_title, toplevel_handle_output_enter,
         toplevel_handle_output_leave, toplevel_handle_state, toplevel_handle_closed, toplevel_handle_parent,
         tiling_handle_tileable, tiling_handle_geometry, tiling_handle_workarea, roundtrip_done,
         workspace_manager_workspace_group, workspace_group_output, workspace_group_workspace,
         workspace_group_removed, workspace_handle_name, workspace_handle_state, workspace_handle_removed
    <3>2. reqq' = reqq
      BY <3>1, EventOf
    <3> QED BY <3>2, NoRequest
  <2> QED BY <2>1, <2>2
<1>4. CASE \E h \in Handles : \/ get_window_geometry(h) \/ get_window_workarea(h) \/ window_is_tileable(h)
                              \/ window_request(h)
  <2>1. PICK h \in Handles : \/ get_window_geometry(h) \/ get_window_workarea(h) \/ window_is_tileable(h)
                             \/ window_request(h)
    BY <1>4
  <2>2. h \in proxy
    BY <1>0, <2>1 DEF get_window_geometry, get_window_workarea, window_is_tileable, query, window_request
  <2>3. \E k \in {"tileable", "geometry", "workarea", "request"}, n \in Nat : reqq' = Append(reqq, [k |-> k, h |-> h, n |-> n])
    BY <2>1 DEF get_window_geometry, get_window_workarea, window_is_tileable, query, window_request, Request
  <2> QED BY <2>2, <2>3, OneRequest
<1> QED BY <1>1, <1>2, <1>3, <1>4 DEF WinNext

\* "so that snap_view is never called on a dead resource": whatever the lists
\* of windows still hold, a request is of a handle that is not destroyed.
THEOREM NoRequestIsDead == WinSpec => NoDeadRequest
<1>1. WinInv /\ [WinNext]_winVars => [Len(reqq') > Len(reqq) => Last(reqq').h \in proxy]_winVars
  BY RequestsLive
<1> QED BY <1>1, WindowsInvariant, PTL DEF WinSpec, NoDeadRequest

----------------------------------------------------------------------------
(* The lists of windows *)

Wins == [h : Handles, n : Nat]
Places == [w : Spaces \cup {Phantom}, act : BOOLEAN, wl : Seq(Wins)]
Orphans == [win : Wins, idx : Nat]
Idles == [k : {"ws"}, h : {"none"}] \cup [k : {"out"}, h : Handles]

\* The types of the lists and of what is known of groups.
ListsOK ==
  /\ spaces \in Seq(Places) /\ orphans \in Seq(Orphans) /\ idle \in Seq(Idles)
  /\ wsgroup \in [Spaces -> Groups \cup {"none"}] /\ gouts \in [Groups -> SUBSET Outputs]
  /\ \A g \in Groups : gouts[g] \subseteq OutsOf[g]

SpaceKinds == {"wsenter", "wsleave", "wsname", "wsremoved"}
OutKinds == {"group", "genter", "gleave", "gremoved"}

\* The events of a group are about its outputs and its workspaces.
Right(x) == /\ x.ev \in SpaceKinds => x.w \in Range(SpacesOf[x.g])
            /\ x.ev \in OutKinds => x.w \in OutsOf[x.g]
EvsRight == \A i \in 1..Len(evq) : Right(evq[i])

\* No event of U is in q; the last one of S and U is of S.
Clean(q, U) == \A j \in 1..Len(q) : q[j] \notin U
LastIs(q, S, U) == \E i \in 1..Len(q) : q[i] \in S /\ \A j \in 1..Len(q) : i < j => q[j] \notin U
\* One of R, not followed by one of V, and then one of S, not followed by one of U.
LastAre(q, R, V, S, U) ==
  \E k, i \in 1..Len(q) : /\ k < i /\ q[k] \in R /\ q[i] \in S
                          /\ \A j \in 1..Len(q) : /\ k < j => q[j] \notin V
                                                  /\ i < j => q[j] \notin U

\* The events that tell the shell that a workspace is there, or gone; that it is
\* in a group, or out of it; that a group has its output, or not; that a
\* workspace is active, or not.
Names(w) == {x \in OtherEvs : x.ev = "wsname" /\ x.w = w}
Removals(w) == {x \in OtherEvs : x.ev = "wsremoved" /\ x.w = w}
Joins(g, w) == {x \in OtherEvs : x.ev = "wsenter" /\ x.g = g /\ x.w = w}
Parts(w) == {x \in OtherEvs : x.ev \in {"wsleave", "wsremoved"} /\ x.w = w}
Enters(g) == {x \in OtherEvs : x.ev = "genter" /\ x.g = g}
Leaves(g) == {x \in OtherEvs : x.ev \in {"gleave", "gremoved"} /\ x.g = g}
Ons(w) == {x \in OtherEvs : x.ev = "wsstate" /\ x.w = w /\ x.act}
Offs(w) == {x \in OtherEvs : \/ x.ev = "wsstate" /\ x.w = w /\ ~x.act
                             \/ x.ev = "wsremoved" /\ x.w = w}

ListedIn(sp, w) == \E i \in 1..Len(sp) : sp[i].w = w
ActiveIn(sp, w) == \E i \in 1..Len(sp) : sp[i].w = w /\ sp[i].act

\* The shell knows it, or will once it has handled the queue q.
SpaceTold(q, sp, w) == \/ ListedIn(sp, w) /\ Clean(q, Removals(w))
                       \/ LastIs(q, Names(w), Removals(w))
GroupTold(q, wg, g, w) == \/ wg[w] = g /\ Clean(q, Parts(w))
                          \/ LastIs(q, Joins(g, w), Parts(w))
OutTold(q, go, g) == \/ go[g] = OutsOf[g] /\ Clean(q, Leaves(g))
                     \/ LastIs(q, Enters(g), Leaves(g))
ActiveTold(q, sp, w) == \/ ActiveIn(sp, w) /\ Clean(q, Offs(w))
                        \/ ListedIn(sp, w) /\ Clean(q, Removals(w)) /\ LastIs(q, Ons(w), Offs(w))
                        \/ LastAre(q, Names(w), Removals(w), Ons(w), Offs(w))
AllTold(q, sp, wg, go, g, a) ==
  /\ OutTold(q, go, g) /\ ActiveTold(q, sp, a)
  /\ \A w \in Range(SpacesOf[g]) : SpaceTold(q, sp, w) /\ GroupTold(q, wg, g, w)

\* Apart from the events under way, the shell knows the groups of the outputs
\* that are plugged, their workspaces and the active one of each.
SpacesTold ==
  \A g \in Groups : OutsOf[g] \cap plugged # {} => AllTold(evq, spaces, wsgroup, gouts, g, active[g])

Compos == plugged # {} /\ \A g \in Groups : active[g] \in Range(SpacesOf[g])

\* A window is in a workspace, waits for one, or is in the midst of opening.
Holds(sp, win) == \E i \in 1..Len(sp) : win \in Range(sp[i].wl)
Waits(orph, win) == \E i \in 1..Len(orph) : orph[i].win = win
HasWs(id) == \E i \in 1..Len(id) : id[i].k = "ws"
Opening(st, win) == \E i \in 1..Len(st) : st[i].k = "opening" /\ st[i].h = win.h /\ st[i].id = win.n
Safe(sp, orph, id, st, win) ==
  \/ Holds(sp, win)
  \/ Waits(orph, win) /\ (sp = <<>> \/ HasWs(id))
  \/ Opening(st, win)
AllSafe == \A h \in Handles : winof[h] # 0 => Safe(spaces, orphans, idle, stack, Win(h))

ListInv == ListsOK /\ EvsRight /\ Compos /\ SpacesTold /\ AllSafe

----------------------------------------------------------------------------
(* What a queue tells *)

\* Events are added that undo nothing.
LEMMA CleanMore ==
  ASSUME NEW q \in Seq(Evs), NEW b \in Seq(Evs), NEW U, Clean(q, U), Clean(b, U)
  PROVE  Clean(q \o b, U)
<1> DEFINE r == q \o b
<1>1. /\ Len(r) = Len(q) + Len(b) /\ \A i \in 1..Len(q) : r[i] = q[i]
      /\ \A i \in 1..(Len(q) + Len(b)) : i \notin 1..Len(q) => i - Len(q) \in 1..Len(b) /\ r[i] = b[i - Len(q)]
  BY Longer
<1> HIDE DEF r
<1>2. ASSUME NEW i \in 1..Len(r) PROVE r[i] \notin U
  BY <1>1, <1>2 DEF Clean
<1> QED BY <1>2 DEF Clean, r

\* Nor do they change which event is the last that decides.
LEMMA LastMore ==
  ASSUME NEW q \in Seq(Evs), NEW b \in Seq(Evs), NEW S, NEW U, LastIs(q, S, U), Clean(b, U)
  PROVE  LastIs(q \o b, S, U)
<1> DEFINE r == q \o b
<1>1. /\ r \in Seq(Evs) /\ Len(r) = Len(q) + Len(b) /\ Len(q) \in Nat /\ Len(b) \in Nat
      /\ \A i \in 1..Len(q) : r[i] = q[i]
      /\ \A i \in 1..(Len(q) + Len(b)) : i \notin 1..Len(q) =>
              i > Len(q) /\ i - Len(q) \in 1..Len(b) /\ r[i] = b[i - Len(q)]
  BY Longer
<1> HIDE DEF r
<1>2. PICK i \in 1..Len(q) : q[i] \in S /\ \A j \in 1..Len(q) : i < j => q[j] \notin U
  BY DEF LastIs
<1>3. r[i] \in S /\ i \in 1..Len(r)
  BY <1>1, <1>2
<1>4. \A j \in 1..Len(r) : i < j => r[j] \notin U
  BY <1>1, <1>2 DEF Clean
<1>5. LastIs(r, S, U)
  BY <1>3, <1>4 DEF LastIs
<1> QED BY <1>5 DEF r

\* The same, for an event and a later one.
LEMMA LastsMore ==
  ASSUME NEW q \in Seq(Evs), NEW b \in Seq(Evs), NEW R, NEW V, NEW S, NEW U,
         LastAre(q, R, V, S, U), Clean(b, V), Clean(b, U)
  PROVE  LastAre(q \o b, R, V, S, U)
<1> DEFINE r == q \o b
<1>1. /\ r \in Seq(Evs) /\ Len(r) = Len(q) + Len(b) /\ Len(q) \in Nat /\ Len(b) \in Nat
      /\ \A i \in 1..Len(q) : r[i] = q[i]
      /\ \A i \in 1..(Len(q) + Len(b)) : i \notin 1..Len(q) =>
              i > Len(q) /\ i - Len(q) \in 1..Len(b) /\ r[i] = b[i - Len(q)]
  BY Longer
<1> HIDE DEF r
<1>2. PICK k, i \in 1..Len(q) : /\ k < i /\ q[k] \in R /\ q[i] \in S
                                /\ \A j \in 1..Len(q) : /\ k < j => q[j] \notin V
                                                        /\ i < j => q[j] \notin U
  BY DEF LastAre
<1>3. /\ k < i /\ r[k] \in R /\ r[i] \in S /\ k \in 1..Len(r) /\ i \in 1..Len(r)
  BY <1>1, <1>2
<1>4. \A j \in 1..Len(r) : k < j => r[j] \notin V
  BY <1>1, <1>2 DEF Clean
<1>5. \A j \in 1..Len(r) : i < j => r[j] \notin U
  BY <1>1, <1>2 DEF Clean
<1>6. LastAre(r, R, V, S, U)
  BY <1>3, <1>4, <1>5 DEF LastAre
<1> QED BY <1>6 DEF r

\* Among the events that are added is the one that counts.
LEMMA LastNew ==
  ASSUME NEW q \in Seq(Evs), NEW b \in Seq(Evs), NEW S, NEW U, LastIs(b, S, U)
  PROVE  LastIs(q \o b, S, U)
<1> DEFINE r == q \o b
<1>1. /\ Len(r) = Len(q) + Len(b) /\ Len(q) \in Nat /\ Len(b) \in Nat
      /\ \A i \in 1..Len(b) : Len(q) + i \in 1..(Len(q) + Len(b)) /\ r[Len(q) + i] = b[i]
      /\ \A i \in 1..(Len(q) + Len(b)) : i \notin 1..Len(q) =>
              i > Len(q) /\ i - Len(q) \in 1..Len(b) /\ r[i] = b[i - Len(q)]
  BY Longer
<1> HIDE DEF r
<1>2. PICK i \in 1..Len(b) : b[i] \in S /\ \A j \in 1..Len(b) : i < j => b[j] \notin U
  BY DEF LastIs
<1> DEFINE m == Len(q) + i
<1>3. r[m] \in S /\ m \in 1..Len(r)
  BY <1>1, <1>2
<1>4. \A j \in 1..Len(r) : m < j => r[j] \notin U
  <2> SUFFICES ASSUME NEW j \in 1..Len(r), m < j PROVE r[j] \notin U
    OBVIOUS
  <2>1. j \notin 1..Len(q) /\ i < j - Len(q)
    BY <1>1
  <2> QED BY <1>1, <1>2, <2>1
<1>5. LastIs(r, S, U)
  BY <1>3, <1>4 DEF LastIs
<1> QED BY <1>5 DEF r

\* The same, for an event and a later one.
LEMMA LastsNew ==
  ASSUME NEW q \in Seq(Evs), NEW b \in Seq(Evs), NEW R, NEW V, NEW S, NEW U, LastAre(b, R, V, S, U)
  PROVE  LastAre(q \o b, R, V, S, U)
<1> DEFINE r == q \o b
<1>1. /\ Len(r) = Len(q) + Len(b) /\ Len(q) \in Nat /\ Len(b) \in Nat
      /\ \A i \in 1..Len(b) : Len(q) + i \in 1..(Len(q) + Len(b)) /\ r[Len(q) + i] = b[i]
      /\ \A i \in 1..(Len(q) + Len(b)) : i \notin 1..Len(q) =>
              i > Len(q) /\ i - Len(q) \in 1..Len(b) /\ r[i] = b[i - Len(q)]
  BY Longer
<1> HIDE DEF r
<1>2. PICK k, i \in 1..Len(b) : /\ k < i /\ b[k] \in R /\ b[i] \in S
                                /\ \A j \in 1..Len(b) : /\ k < j => b[j] \notin V
                                                        /\ i < j => b[j] \notin U
  BY DEF LastAre
<1> DEFINE m == Len(q) + i
           n == Len(q) + k
<1>3. r[m] \in S /\ m \in 1..Len(r) /\ r[n] \in R /\ n \in 1..Len(r) /\ n < m
  BY <1>1, <1>2
<1>4. \A j \in 1..Len(r) : m < j => r[j] \notin U
  <2> SUFFICES ASSUME NEW j \in 1..Len(r), m < j PROVE r[j] \notin U
    OBVIOUS
  <2>1. j \notin 1..Len(q) /\ i < j - Len(q)
    BY <1>1
  <2> QED BY <1>1, <1>2, <2>1
<1>5. \A j \in 1..Len(r) : n < j => r[j] \notin V
  <2> SUFFICES ASSUME NEW j \in 1..Len(r), n < j PROVE r[j] \notin V
    OBVIOUS
  <2>1. j \notin 1..Len(q) /\ k < j - Len(q)
    BY <1>1
  <2> QED BY <1>1, <1>2, <2>1
<1> HIDE DEF m, n
<1>6. LastAre(r, R, V, S, U)
  BY <1>3, <1>4, <1>5 DEF LastAre
<1> QED BY <1>6 DEF r

\* First the one in the queue, then the one that is added.
LEMMA LastThen ==
  ASSUME NEW q \in Seq(Evs), NEW b \in Seq(Evs), NEW R, NEW V, NEW S, NEW U,
         LastIs(q, R, V), Clean(b, V), LastIs(b, S, U)
  PROVE  LastAre(q \o b, R, V, S, U)
<1> DEFINE r == q \o b
<1>1. /\ Len(r) = Len(q) + Len(b) /\ Len(q) \in Nat /\ Len(b) \in Nat
      /\ \A i \in 1..Len(q) : r[i] = q[i]
      /\ \A i \in 1..Len(b) : Len(q) + i \in 1..(Len(q) + Len(b)) /\ r[Len(q) + i] = b[i]
      /\ \A i \in 1..(Len(q) + Len(b)) : i \notin 1..Len(q) =>
              i > Len(q) /\ i - Len(q) \in 1..Len(b) /\ r[i] = b[i - Len(q)]
  BY Longer
<1> HIDE DEF r
<1>2. PICK k \in 1..Len(q) : q[k] \in R /\ \A j \in 1..Len(q) : k < j => q[j] \notin V
  BY DEF LastIs
<1>3. PICK i \in 1..Len(b) : b[i] \in S /\ \A j \in 1..Len(b) : i < j => b[j] \notin U
  BY DEF LastIs
<1> DEFINE m == Len(q) + i
<1>4. r[m] \in S /\ m \in 1..Len(r) /\ r[k] \in R /\ k \in 1..Len(r) /\ k < m
  BY <1>1, <1>2, <1>3
<1>5. \A j \in 1..Len(r) : m < j => r[j] \notin U
  <2> SUFFICES ASSUME NEW j \in 1..Len(r), m < j PROVE r[j] \notin U
    OBVIOUS
  <2>1. j \notin 1..Len(q) /\ i < j - Len(q)
    BY <1>1
  <2> QED BY <1>1, <1>3, <2>1
<1>6. \A j \in 1..Len(r) : k < j => r[j] \notin V
  BY <1>1, <1>2 DEF Clean
<1> HIDE DEF m
<1>7. LastAre(r, R, V, S, U)
  BY <1>4, <1>5, <1>6 DEF LastAre
<1> QED BY <1>7 DEF r

\* An event of S among events that undo nothing.
LEMMA LastOf ==
  ASSUME NEW b \in Seq(Evs), NEW S, NEW U, Clean(b, U), \E i \in 1..Len(b) : b[i] \in S
  PROVE  LastIs(b, S, U)
  BY DEF Clean, LastIs

\* The first event is handled.
LEMMA CleanLess ==
  ASSUME NEW q \in Seq(Evs), q # <<>>, NEW U, Clean(q, U)
  PROVE  Head(q) \notin U /\ Clean(Tail(q), U)
  BY Shorter DEF Clean

\* The event that decides is still in the rest of the queue, or is handled.
LEMMA LastLess ==
  ASSUME NEW q \in Seq(Evs), q # <<>>, NEW S, NEW U, LastIs(q, S, U)
  PROVE  LastIs(Tail(q), S, U) \/ (Head(q) \in S /\ Clean(Tail(q), U))
<1> DEFINE t == Tail(q)
<1>1. /\ Len(q) \in Nat /\ Len(q) >= 1 /\ Len(t) = Len(q) - 1
      /\ \A i \in 1..(Len(q) - 1) : i + 1 \in 1..Len(q) /\ t[i] = q[i + 1]
      /\ \A i \in 1..Len(q) : i # 1 => i - 1 \in 1..(Len(q) - 1) /\ t[i - 1] = q[i]
      /\ Head(q) = q[1]
  BY Shorter
<1> HIDE DEF t
<1>2. PICK i \in 1..Len(q) : q[i] \in S /\ \A j \in 1..Len(q) : i < j => q[j] \notin U
  BY DEF LastIs
<1>3. CASE i = 1
  BY <1>1, <1>2, <1>3 DEF Clean, t
<1>4. CASE i # 1
  <2>1. i - 1 \in 1..Len(t) /\ t[i - 1] \in S
    BY <1>1, <1>2, <1>4
  <2>2. \A j \in 1..Len(t) : i - 1 < j => t[j] \notin U
    BY <1>1, <1>2
  <2>3. LastIs(t, S, U)
    BY <2>1, <2>2 DEF LastIs
  <2> QED BY <2>3 DEF t
<1> QED BY <1>3, <1>4

\* The same, for an event and a later one.
LEMMA LastsLess ==
  ASSUME NEW q \in Seq(Evs), q # <<>>, NEW R, NEW V, NEW S, NEW U, LastAre(q, R, V, S, U)
  PROVE  \/ LastAre(Tail(q), R, V, S, U)
         \/ Head(q) \in R /\ Clean(Tail(q), V) /\ LastIs(Tail(q), S, U)
<1> DEFINE t == Tail(q)
<1>1. /\ Len(q) \in Nat /\ Len(q) >= 1 /\ Len(t) = Len(q) - 1
      /\ \A i \in 1..(Len(q) - 1) : i + 1 \in 1..Len(q) /\ t[i] = q[i + 1]
      /\ \A i \in 1..Len(q) : i # 1 => i - 1 \in 1..(Len(q) - 1) /\ t[i - 1] = q[i]
      /\ Head(q) = q[1]
  BY Shorter
<1> HIDE DEF t
<1>2. PICK k, i \in 1..Len(q) : /\ k < i /\ q[k] \in R /\ q[i] \in S
                                /\ \A j \in 1..Len(q) : /\ k < j => q[j] \notin V
                                                        /\ i < j => q[j] \notin U
  BY DEF LastAre
<1>3. i - 1 \in 1..Len(t) /\ t[i - 1] \in S /\ \A j \in 1..Len(t) : i - 1 < j => t[j] \notin U
  <2>1. i # 1 /\ i - 1 \in 1..Len(t) /\ t[i - 1] = q[i]
    BY <1>1, <1>2
  <2>2. ASSUME NEW j \in 1..Len(t), i - 1 < j PROVE t[j] \notin U
    <3>1. j + 1 \in 1..Len(q) /\ i < j + 1 /\ t[j] = q[j + 1]
      BY <1>1, <2>2
    <3> QED BY <1>2, <3>1
  <2> QED BY <1>2, <2>1, <2>2
<1>4. ASSUME NEW j \in 1..Len(t), k - 1 < j PROVE t[j] \notin V
  <2>1. j + 1 \in 1..Len(q) /\ k < j + 1 /\ t[j] = q[j + 1]
    BY <1>1, <1>4
  <2> QED BY <1>2, <2>1
<1>5. CASE k = 1
  <2>1. Clean(t, V)
    BY <1>1, <1>4, <1>5 DEF Clean
  <2>2. LastIs(t, S, U)
    BY <1>3 DEF LastIs
  <2> QED BY <1>1, <1>2, <1>5, <2>1, <2>2 DEF t
<1>6. CASE k # 1
  <2>1. k - 1 \in 1..Len(t) /\ t[k - 1] \in R /\ k - 1 < i - 1
    BY <1>1, <1>2, <1>6
  <2>2. LastAre(t, R, V, S, U)
    BY <1>3, <1>4, <2>1 DEF LastAre
  <2> QED BY <2>2 DEF t
<1> QED BY <1>5, <1>6

\* What removes a workspace also parts it from its group and ends its being active.
LEMMA CleanParts ==
  ASSUME NEW q \in Seq(Evs), NEW w
  PROVE  /\ Clean(q, Parts(w)) => Clean(q, Removals(w))
         /\ Clean(q, Offs(w)) => Clean(q, Removals(w))
  BY DEF Clean, Parts, Offs, Removals

\* Events that say nothing against it leave the output and the workspaces of a
\* group told.
LEMMA MorePlaces ==
  ASSUME NEW q \in Seq(Evs), NEW b \in Seq(Evs), NEW sp, NEW wg, NEW go, NEW g \in Groups, NEW a,
         AllTold(q, sp, wg, go, g, a), Clean(b, Leaves(g)), \A w \in Range(SpacesOf[g]) : Clean(b, Parts(w))
  PROVE  /\ OutTold(q \o b, go, g)
         /\ \A w \in Range(SpacesOf[g]) : SpaceTold(q \o b, sp, w) /\ GroupTold(q \o b, wg, g, w)
<1>1. OutTold(q \o b, go, g)
  BY CleanMore, LastMore DEF AllTold, OutTold
<1>2. ASSUME NEW w \in Range(SpacesOf[g]) PROVE SpaceTold(q \o b, sp, w) /\ GroupTold(q \o b, wg, g, w)
  <2>1. Clean(b, Parts(w)) /\ Clean(b, Removals(w))
    BY CleanParts
  <2>2. SpaceTold(q, sp, w) /\ GroupTold(q, wg, g, w)
    BY DEF AllTold
  <2>3. SpaceTold(q \o b, sp, w)
    BY <2>1, <2>2, CleanMore, LastMore DEF SpaceTold
  <2>4. GroupTold(q \o b, wg, g, w)
    BY <2>1, <2>2, CleanMore, LastMore DEF GroupTold
  <2> QED BY <2>3, <2>4
<1> QED BY <1>1, <1>2

\* And the active one, if they say nothing against that.
LEMMA MoreTold ==
  ASSUME NEW q \in Seq(Evs), NEW b \in Seq(Evs), NEW sp, NEW wg, NEW go, NEW g \in Groups, NEW a,
         AllTold(q, sp, wg, go, g, a), Clean(b, Leaves(g)), Clean(b, Offs(a)),
         \A w \in Range(SpacesOf[g]) : Clean(b, Parts(w))
  PROVE  AllTold(q \o b, sp, wg, go, g, a)
<1>1. ActiveTold(q \o b, sp, a)
  <2>1. Clean(b, Removals(a))
    BY CleanParts
  <2>2. CASE ActiveIn(sp, a) /\ Clean(q, Offs(a))
    BY <2>2, CleanMore DEF ActiveTold
  <2>3. CASE ListedIn(sp, a) /\ Clean(q, Removals(a)) /\ LastIs(q, Ons(a), Offs(a))
    BY <2>1, <2>3, CleanMore, LastMore DEF ActiveTold
  <2>4. CASE LastAre(q, Names(a), Removals(a), Ons(a), Offs(a))
    BY <2>1, <2>4, LastsMore DEF ActiveTold
  <2> QED BY <2>2, <2>3, <2>4 DEF AllTold, ActiveTold
<1>2. /\ OutTold(q \o b, go, g)
      /\ \A w \in Range(SpacesOf[g]) : SpaceTold(q \o b, sp, w) /\ GroupTold(q \o b, wg, g, w)
  BY MorePlaces
<1> QED BY <1>1, <1>2 DEF AllTold

\* What a handler of event x must do for a workspace w, and for a group g.
SpaceDone(x, sp, sq, w) ==
  /\ ListedIn(sp, w) /\ x \notin Removals(w) => ListedIn(sq, w)
  /\ x \in Names(w) => ListedIn(sq, w)
  /\ ActiveIn(sp, w) /\ x \notin Offs(w) => ActiveIn(sq, w)
  /\ ListedIn(sp, w) /\ x \in Ons(w) => ActiveIn(sq, w)
GroupDone(x, wg, wh, g, w) ==
  /\ wg[w] = g /\ x \notin Parts(w) => wh[w] = g
  /\ x \in Joins(g, w) => wh[w] = g
OutDone(x, go, gp, g) ==
  /\ go[g] = OutsOf[g] /\ x \notin Leaves(g) => gp[g] = OutsOf[g]
  /\ x \in Enters(g) => gp[g] = OutsOf[g]

\* If it does, the group stays told.
LEMMA HeadTold ==
  ASSUME NEW q \in Seq(Evs), q # <<>>, NEW sp, NEW sq, NEW wg, NEW wh, NEW go, NEW gp, NEW g \in Groups,
         NEW a \in Range(SpacesOf[g]),
         AllTold(q, sp, wg, go, g, a), OutDone(Head(q), go, gp, g),
         \A w \in Range(SpacesOf[g]) : SpaceDone(Head(q), sp, sq, w) /\ GroupDone(Head(q), wg, wh, g, w)
  PROVE  AllTold(Tail(q), sq, wh, gp, g, a)
<1> DEFINE x == Head(q)
           t == Tail(q)
<1>1. OutTold(t, gp, g)
  <2>1. CASE go[g] = OutsOf[g] /\ Clean(q, Leaves(g))
    BY <2>1, CleanLess DEF OutTold, OutDone
  <2>2. CASE LastIs(q, Enters(g), Leaves(g))
    BY <2>2, LastLess DEF OutTold, OutDone
  <2> QED BY <2>1, <2>2 DEF AllTold, OutTold
<1>2. ActiveTold(t, sq, a)
  <2>0. SpaceDone(x, sp, sq, a)
    OBVIOUS
  <2>1. CASE ActiveIn(sp, a) /\ Clean(q, Offs(a))
    BY <2>0, <2>1, CleanLess DEF ActiveTold, SpaceDone
  <2>2. CASE ListedIn(sp, a) /\ Clean(q, Removals(a)) /\ LastIs(q, Ons(a), Offs(a))
    <3>1. x \notin Removals(a) /\ Clean(t, Removals(a))
      BY <2>2, CleanLess
    <3>2. ListedIn(sq, a)
      BY <2>0, <2>2, <3>1 DEF SpaceDone
    <3>3. LastIs(t, Ons(a), Offs(a)) \/ (x \in Ons(a) /\ Clean(t, Offs(a)))
      BY <2>2, LastLess
    <3>4. x \in Ons(a) => ActiveIn(sq, a)
      BY <2>0, <2>2 DEF SpaceDone
    <3> QED BY <3>1, <3>2, <3>3, <3>4 DEF ActiveTold
  <2>3. CASE LastAre(q, Names(a), Removals(a), Ons(a), Offs(a))
    <3>1. \/ LastAre(t, Names(a), Removals(a), Ons(a), Offs(a))
          \/ x \in Names(a) /\ Clean(t, Removals(a)) /\ LastIs(t, Ons(a), Offs(a))
      BY <2>3, LastsLess
    <3>2. x \in Names(a) => ListedIn(sq, a)
      BY <2>0 DEF SpaceDone
    <3> QED BY <3>1, <3>2 DEF ActiveTold
  <2> QED BY <2>1, <2>2, <2>3 DEF AllTold, ActiveTold
<1>3. ASSUME NEW w \in Range(SpacesOf[g]) PROVE SpaceTold(t, sq, w) /\ GroupTold(t, wh, g, w)
  <2>1. SpaceDone(x, sp, sq, w) /\ GroupDone(x, wg, wh, g, w)
    OBVIOUS
  <2>2. SpaceTold(q, sp, w) /\ GroupTold(q, wg, g, w)
    BY DEF AllTold
  <2>3. SpaceTold(t, sq, w)
    BY <2>1, <2>2, CleanLess, LastLess DEF SpaceTold, SpaceDone
  <2>4. GroupTold(t, wh, g, w)
    BY <2>1, <2>2, CleanLess, LastLess DEF GroupTold, GroupDone
  <2> QED BY <2>3, <2>4
<1> QED BY <1>1, <1>2, <1>3 DEF AllTold

----------------------------------------------------------------------------
(* Lists *)

\* The first of some positions is one of them.
LEMMA FirstOK ==
  ASSUME NEW n \in Nat, NEW S \in SUBSET (1..n)
  PROVE  /\ S = {} => First(S) = 0
         /\ S # {} => First(S) \in S /\ First(S) \in 1..n /\ First(S) # 0 /\ \A y \in S : First(S) <= y
<1>1. S = {} => First(S) = 0
  BY DEF First
<1>2. ASSUME S # {} PROVE First(S) \in S /\ \A y \in S : First(S) <= y
  <2>1. S \in SUBSET Nat
    OBVIOUS
  <2>2. \E x \in S : \A y \in S : x <= y
    BY <1>2, <2>1, LeastNat
  <2>3. First(S) = CHOOSE x \in S : \A y \in S : x <= y
    BY <1>2 DEF First, Min
  <2> QED BY <2>2, <2>3
<1>3. ASSUME S # {} PROVE First(S) \in 1..n /\ First(S) # 0
  <2> DEFINE f == First(S)
  <2>1. f \in S
    BY <1>2, <1>3
  <2> HIDE DEF f
  <2>2. f \in 1..n /\ f # 0
    BY <2>1
  <2> QED BY <2>2 DEF f
<1> QED BY <1>1, <1>2, <1>3, Zenon

\* A sequence without one of its elements.
LEMMA Without ==
  ASSUME NEW S, NEW s \in Seq(S), NEW i \in 1..Len(s)
  PROVE  /\ RemoveAt(s, i) \in Seq(S)
         /\ \A j \in 1..Len(s) : j # i => \E k \in 1..Len(RemoveAt(s, i)) : RemoveAt(s, i)[k] = s[j]
         /\ Len(RemoveAt(s, i)) = Len(s) - 1
<1> DEFINE p == SubSeq(s, 1, i - 1)
           r == SubSeq(s, i + 1, Len(s))
<1>0. Len(s) \in Nat /\ i \in Nat /\ i >= 1 /\ i <= Len(s)
  OBVIOUS
<1>1. p \in Seq(S) /\ Len(p) = i - 1 /\ \A j \in 1..(i - 1) : p[j] = s[j]
  BY <1>0
<1>2. r \in Seq(S) /\ Len(r) = Len(s) - i /\ \A j \in 1..(Len(s) - i) : r[j] = s[i + j]
  BY <1>0
<1> HIDE DEF p, r
<1>3. RemoveAt(s, i) = p \o r
  BY DEF RemoveAt, p, r
<1>4. /\ p \o r \in Seq(S) /\ Len(p \o r) = Len(s) - 1
      /\ \A j \in 1..(i - 1) : (p \o r)[j] = p[j]
      /\ \A j \in 1..(Len(s) - i) : (p \o r)[(i - 1) + j] = r[j]
  <2>0. p \in Seq(S) /\ r \in Seq(S)
    BY <1>1, <1>2
  <2>1. /\ p \o r \in Seq(S) /\ Len(p \o r) = Len(p) + Len(r) /\ \A j \in 1..Len(p) : (p \o r)[j] = p[j]
        /\ \A j \in 1..Len(r) : (p \o r)[Len(p) + j] = r[j]
    BY <2>0, Longer
  <2>2. (i - 1) + (Len(s) - i) = Len(s) - 1
    BY <1>0
  <2> QED BY <1>1, <1>2, <2>1, <2>2
<1>5. ASSUME NEW j \in 1..Len(s), j # i PROVE \E k \in 1..Len(p \o r) : (p \o r)[k] = s[j]
  <2>1. CASE j < i
    <3>1. j \in 1..(i - 1) /\ j \in 1..(Len(s) - 1)
      BY <1>0, <2>1
    <3> QED BY <1>1, <1>4, <3>1
  <2>2. CASE ~(j < i)
    <3>1. j - i \in 1..(Len(s) - i) /\ (i - 1) + (j - i) = j - 1 /\ j - 1 \in 1..(Len(s) - 1) /\ i + (j - i) = j
      BY <1>0, <1>5, <2>2
    <3>2. (p \o r)[(i - 1) + (j - i)] = r[j - i] /\ r[j - i] = s[i + (j - i)]
      BY <1>2, <1>4, <3>1
    <3> QED BY <1>4, <3>1, <3>2
  <2> QED BY <2>1, <2>2
<1> QED BY <1>3, <1>4, <1>5

\* GLib.List.remove() keeps what is not removed.
LEMMA RemoveOne ==
  ASSUME NEW S, NEW s \in Seq(S), NEW x
  PROVE  /\ RemoveFirst(s, x) \in Seq(S)
         /\ \A y \in Range(s) : y # x => y \in Range(RemoveFirst(s, x))
<1>1. CASE ~\E i \in 1..Len(s) : s[i] = x
  BY <1>1 DEF RemoveFirst
<1>2. CASE \E i \in 1..Len(s) : s[i] = x
  <2> DEFINE I == {i \in 1..Len(s) : s[i] = x}
             m == Min(I)
  <2>1. I \in SUBSET Nat /\ I # {}
    BY <1>2
  <2>2. m \in I
    <3> HIDE DEF I
    <3>1. \E a \in I : \A b \in I : a <= b
      BY <2>1, LeastNat
    <3> QED BY <3>1 DEF Min
  <2>3. RemoveFirst(s, x) = RemoveAt(s, m)
    BY <1>2, <2>1 DEF RemoveFirst, SelectInSeq
  <2>4. m \in 1..Len(s) /\ s[m] = x
    BY <2>2
  <2> HIDE DEF m
  <2>5. /\ RemoveAt(s, m) \in Seq(S)
        /\ \A j \in 1..Len(s) : j # m => \E k \in 1..Len(RemoveAt(s, m)) : RemoveAt(s, m)[k] = s[j]
    BY <2>4, Without
  <2> DEFINE r == RemoveAt(s, m)
  <2> HIDE DEF r
  <2>6. ASSUME NEW y \in Range(s), y # x PROVE y \in Range(r)
    <3>1. PICK j \in 1..Len(s) : s[j] = y
      BY InRange
    <3>2. j # m
      BY <2>4, <2>6, <3>1
    <3>3. PICK k \in 1..Len(r) : r[k] = y
      BY <2>5, <3>1, <3>2 DEF r
    <3> QED BY <2>5, <3>3, InRange DEF r
  <2> QED BY <2>3, <2>5, <2>6 DEF r
<1> QED BY <1>1, <1>2

\* The same workspaces, which hold the same windows but perhaps those of X.
Alike(sp, sq) ==
  Len(sq) = Len(sp) /\ \A j \in 1..Len(sp) : sq[j].w = sp[j].w /\ sq[j].act = sp[j].act
Keeping(sp, sq, X) ==
  \A j \in 1..Len(sp) : \A x \in Range(sp[j].wl) : x \notin X => x \in Range(sq[j].wl)

\* A workspace whose list of windows changes.
LEMMA Relist ==
  ASSUME NEW sp \in Seq(Places), NEW i \in 1..Len(sp), NEW p \in Places, p.w = sp[i].w, p.act = sp[i].act
  PROVE  /\ [sp EXCEPT ![i] = p] \in Seq(Places) /\ Alike(sp, [sp EXCEPT ![i] = p])
         /\ [sp EXCEPT ![i] = p][i] = p /\ \A j \in 1..Len(sp) : j # i => [sp EXCEPT ![i] = p][j] = sp[j]
<1> DEFINE sq == [sp EXCEPT ![i] = p]
<1>1. sq \in Seq(Places)
  BY Replaced
<1>2. Len(sp) \in Nat /\ DOMAIN sp = 1..Len(sp)
  OBVIOUS
<1>3. Len(sq) = Len(sp) /\ sq[i] = p /\ \A j \in 1..Len(sp) : j # i => sq[j] = sp[j]
  BY <1>1, <1>2
<1> HIDE DEF sq
<1>4. Alike(sp, sq)
  BY <1>3 DEF Alike
<1> QED BY <1>1, <1>3, <1>4 DEF sq

\* A window joins a workspace.
LEMMA PutOK ==
  ASSUME NEW sp \in Seq(Places), NEW i \in 1..Len(sp), NEW win \in Wins
  PROVE  /\ Put(sp, win, i) \in Seq(Places) /\ Alike(sp, Put(sp, win, i)) /\ Keeping(sp, Put(sp, win, i), {})
         /\ Holds(Put(sp, win, i), win)
<1> DEFINE l == Append(sp[i].wl, win)
           sq == Put(sp, win, i)
<1>1. sp[i] \in Places
  OBVIOUS
<1>2. sp[i].wl \in Seq(Wins)
  BY <1>1 DEF Places
<1>3. l \in Seq(Wins) /\ win \in Range(l) /\ \A x \in Range(sp[i].wl) : x \in Range(l)
  <2>1. l \in Seq(Wins) /\ Len(l) = Len(sp[i].wl) + 1 /\ l[Len(l)] = win /\ Len(l) \in 1..Len(l)
        /\ \A j \in 1..Len(sp[i].wl) : l[j] = sp[i].wl[j] /\ j \in 1..Len(l)
    BY <1>2
  <2> HIDE DEF l
  <2>2. win \in Range(l)
    BY <2>1, InRange
  <2>3. ASSUME NEW x \in Range(sp[i].wl) PROVE x \in Range(l)
    BY <1>2, <2>1, InRange
  <2> QED BY <2>1, <2>2, <2>3
<1> DEFINE p == [sp[i] EXCEPT !.wl = l]
<1>4. sq = [sp EXCEPT ![i] = p]
  BY DEF Put
<1>4a. p \in Places /\ p.w = sp[i].w /\ p.act = sp[i].act /\ p.wl = l
  BY <1>1, <1>3 DEF Places
<1> HIDE DEF sq, l, p
<1>5. sq \in Seq(Places) /\ Alike(sp, sq) /\ sq[i].wl = l /\ \A j \in 1..Len(sp) : j # i => sq[j] = sp[j]
  <2>1. [sp EXCEPT ![i] = p] \in Seq(Places)
    BY <1>4a, Relist
  <2>2. Alike(sp, [sp EXCEPT ![i] = p])
    BY <1>4a, Relist
  <2>3. [sp EXCEPT ![i] = p][i] = p 
    BY <1>4a, Relist
  <2>4. \A j \in 1..Len(sp) : j # i => [sp EXCEPT ![i] = p][j] = sp[j]
    BY <1>4a, Relist
  <2> QED BY <2>1, <2>2, <2>3, <2>4, <1>4, <1>4a, Zenon
<1>6. Keeping(sp, sq, {})
  BY <1>3, <1>5 DEF Keeping
<1>7. Holds(sq, win)
  BY <1>3, <1>5 DEF Holds, Alike
<1> QED BY <1>5, <1>6, <1>7 DEF sq

\* A window leaves a workspace, or none.
LEMMA DropOK ==
  ASSUME NEW sp \in Seq(Places), NEW i \in 0..Len(sp), NEW win \in Wins
  PROVE  Drop(sp, win, i) \in Seq(Places) /\ Alike(sp, Drop(sp, win, i)) /\ Keeping(sp, Drop(sp, win, i), {win})
<1>1. CASE i = 0
  BY <1>1 DEF Drop, Alike, Keeping
<1>2. CASE i # 0
  <2> DEFINE l == RemoveFirst(sp[i].wl, win)
             sq == Drop(sp, win, i)
  <2>1. i \in 1..Len(sp) /\ sp[i] \in Places
    BY <1>2
  <2>2. sp[i].wl \in Seq(Wins)
    BY <2>1 DEF Places
  <2>3. l \in Seq(Wins) /\ \A x \in Range(sp[i].wl) : x # win => x \in Range(l)
    BY <2>2, RemoveOne
  <2> DEFINE p == [sp[i] EXCEPT !.wl = l]
  <2>4. sq = [sp EXCEPT ![i] = p]
    BY <1>2 DEF Drop
  <2>4a. p \in Places /\ p.w = sp[i].w /\ p.act = sp[i].act /\ p.wl = l
    BY <2>1, <2>3 DEF Places
  <2> HIDE DEF sq, l, p
  <2>5. sq \in Seq(Places) /\ Alike(sp, sq) /\ sq[i].wl = l /\ \A j \in 1..Len(sp) : j # i => sq[j] = sp[j]
    <3>1. [sp EXCEPT ![i] = p] \in Seq(Places)
      BY <2>1, <2>4a, Relist
    <3>2. Alike(sp, [sp EXCEPT ![i] = p])
      BY <2>1, <2>4a, Relist
    <3>3. [sp EXCEPT ![i] = p][i] = p
      BY <2>1, <2>4a, Relist
    <3>4. \A j \in 1..Len(sp) : j # i => [sp EXCEPT ![i] = p][j] = sp[j]
      BY <2>1, <2>4a, Relist
    <3> QED BY <3>1, <3>2, <3>3, <3>4, <2>4, <2>4a, Zenon
  <2>6. Keeping(sp, sq, {win})
    BY <2>3, <2>5 DEF Keeping
  <2> QED BY <2>5, <2>6 DEF sq
<1> QED BY <1>1, <1>2

----------------------------------------------------------------------------
(* What the compositor tells *)

\* Every group has an output and workspaces of its own.
LEMMA OwnOutput ==
  ASSUME PerMonitor, NEW g \in Groups, NEW k \in Groups, g # k
  PROVE  /\ \A o \in OutsOf[g] : o \notin OutsOf[k]
         /\ \A w \in Range(SpacesOf[g]) : w \notin Range(SpacesOf[k])
  BY DEF PerMonitor

\* A group has one output.
LEMMA OneOutput ==
  ASSUME PerMonitor, NEW g \in Groups
  PROVE  \E o \in Outputs : OutsOf[g] = {o}
<1>1. PICK o \in OutsOf[g] : TRUE
  BY GroupsAssumption
<1>2. o \in Outputs
  BY <1>1, GroupsAssumption
<1>3. PICK k \in Groups : OutsOf[k] = {o}
  BY <1>2 DEF PerMonitor
<1>4. k = g
  BY <1>1, <1>3, OwnOutput
<1> QED BY <1>2, <1>3, <1>4

\* What the shell keeps does not depend on what the compositor does.
LEMMA ShellSame ==
  ASSUME ListsOK, AllSafe, UNCHANGED Shell
  PROVE  ListsOK' /\ AllSafe'
<1>1. UNCHANGED <<wsgroup, gouts, winof, spaces, orphans, idle, stack>>
  BY DEF Shell, groups, lists
<1>2. ListsOK'
  BY <1>1 DEF ListsOK
<1>3. AllSafe'
  BY <1>1 DEF AllSafe, Win
<1> QED BY <1>2, <1>3

\* A group that the events say nothing against.
LEMMA StillTold ==
  ASSUME WinInv, SpacesTold, UNCHANGED Shell, NEW b \in Seq(Evs), evq' = evq \o b,
         NEW g \in Groups, OutsOf[g] \cap plugged # {}, active'[g] = active[g],
         Clean(b, Leaves(g)), Clean(b, Offs(active[g])), \A w \in Range(SpacesOf[g]) : Clean(b, Parts(w))
  PROVE  AllTold(evq', spaces', wsgroup', gouts', g, active'[g])
<1>1. evq \in Seq(Evs)
  BY DEF WinInv, QueuesOK
<1>2. AllTold(evq, spaces, wsgroup, gouts, g, active[g])
  BY DEF SpacesTold
<1>3. AllTold(evq \o b, spaces, wsgroup, gouts, g, active[g])
  BY <1>1, <1>2, MoreTold
<1>4. UNCHANGED <<wsgroup, gouts, spaces>>
  BY DEF Shell, groups, lists
<1> QED BY <1>3, <1>4

\* The events of the queue stay right.
LEMMA RightMore ==
  ASSUME WinInv, EvsRight, NEW b \in Seq(Evs), evq' = evq \o b, \A i \in 1..Len(b) : Right(b[i])
  PROVE  EvsRight'
<1>1. evq \in Seq(Evs)
  BY DEF WinInv, QueuesOK
<1> DEFINE r == evq \o b
<1>2. /\ Len(r) = Len(evq) + Len(b)
      /\ \A i \in 1..Len(evq) : r[i] = evq[i]
      /\ \A i \in 1..(Len(evq) + Len(b)) : i \notin 1..Len(evq) => i - Len(evq) \in 1..Len(b) /\ r[i] = b[i - Len(evq)]
  BY <1>1, Longer
<1> HIDE DEF r
<1>3. \A i \in 1..Len(r) : Right(r[i])
  BY <1>2 DEF EvsRight
<1>4. evq' = r
  BY DEF r
<1> QED BY <1>3, <1>4 DEF EvsRight

\* Events of windows say nothing of groups.
LEMMA WindowsTold ==
  ASSUME WinInv, ListInv, UNCHANGED <<plugged, active>>, UNCHANGED Shell, NEW b \in Seq(Evs), evq' = evq \o b,
         \A i \in 1..Len(b) : b[i].ev \notin GroupKinds \cup {"wsstate"}
  PROVE  ListInv'
<1>1. ListsOK' /\ AllSafe'
  BY ShellSame DEF ListInv
<1>2. EvsRight'
  <2>1. \A i \in 1..Len(b) : Right(b[i])
    BY DEF Right, GroupKinds, SpaceKinds, OutKinds
  <2> QED BY <2>1, RightMore DEF ListInv
<1>3. Compos'
  BY DEF ListInv, Compos
<1>4. SpacesTold'
  <2>1. ASSUME NEW U, \A x \in U : x.ev \in GroupKinds \cup {"wsstate"} PROVE Clean(b, U)
    BY <2>1 DEF Clean
  <2>2. \A g \in Groups : Clean(b, Leaves(g))
    BY <2>1 DEF Leaves, GroupKinds
  <2>3. \A w : Clean(b, Offs(w)) /\ Clean(b, Parts(w))
    BY <2>1 DEF Offs, Parts, GroupKinds
  <2>4. ASSUME NEW g \in Groups, OutsOf[g] \cap plugged # {}
        PROVE  AllTold(evq', spaces', wsgroup', gouts', g, active'[g])
    BY <2>2, <2>3, <2>4, StillTold DEF ListInv
  <2> QED BY <2>4 DEF SpacesTold
<1> QED BY <1>1, <1>2, <1>3, <1>4 DEF ListInv

\* A window opens, closes, moves, changes, or is asked about.
LEMMA WindowLists ==
  ASSUME WinInv, ListInv,
         \/ \E h \in Handles, o \in Outputs : drag(h, o)
         \/ \E h \in Handles, o \in Outputs, named \in BOOLEAN : map(h, o, named)
         \/ \E h \in Handles : unmap(h) \/ reparent(h)
         \/ \E h \in Handles, a, m \in BOOLEAN : restate(h, a, m)
         \/ answer
  PROVE  ListInv'
<1> DEFINE Plain == {x \in Evs : x.ev \notin GroupKinds \cup {"wsstate"}}
<1>0. ASSUME UNCHANGED <<plugged, active>>, UNCHANGED Shell, NEW b \in Seq(Plain), evq' = evq \o b
      PROVE  ListInv'
  <2>1. b \in Seq(Evs) /\ \A i \in 1..Len(b) : b[i].ev \notin GroupKinds \cup {"wsstate"}
    <3>1. \A i \in 1..Len(b) : b[i] \in Plain
      OBVIOUS
    <3> QED BY <3>1
  <2> QED BY <1>0, <2>1, WindowsTold
<1>0a. evq \in Seq(Evs) /\ reqq \in Seq(Asked) /\ top \in [Handles -> Tops]
  BY DEF WinInv, QueuesOK, CachesOK
<1>0b. ASSUME UNCHANGED <<plugged, active>>, UNCHANGED Shell, NEW x \in Plain, evq' = Append(evq, x)
       PROVE  ListInv'
  <2>1. <<x>> \in Seq(Plain) /\ evq' = evq \o <<x>>
    BY <1>0a, <1>0b
  <2> QED BY <1>0, <1>0b, <2>1
<1>0c. /\ \A h \in Handles, o \in Outputs : Enter(h, o) \in Plain /\ Leave(h, o) \in Plain
       /\ \A h \in Handles, a, m \in BOOLEAN : Activated(h, a, m) \in Plain
       /\ \A h \in Handles, k \in {"toplevel", "title", "app_id", "closed", "parent"} : Ev(k, h) \in Plain
  BY DEF Enter, Leave, Activated, Ev, Evs, HandleEvs, GroupKinds
<1> HIDE DEF Plain
<1>1. ASSUME NEW h \in Handles, NEW o \in Outputs, drag(h, o) PROVE ListInv'
  <2>1. evq' = Append(evq, Enter(h, o)) \/ evq' = Append(evq, Leave(h, o))
    BY <1>1 DEF drag
  <2>2. UNCHANGED <<plugged, active>> /\ UNCHANGED Shell
    BY <1>1 DEF drag
  <2> QED BY <1>0b, <1>0c, <2>1, <2>2
<1>2. ASSUME NEW h \in Handles, NEW o \in Outputs, NEW named \in BOOLEAN, map(h, o, named) PROVE ListInv'
  <2> DEFINE p == <<Ev("toplevel", h), Ev("title", h)>>
             m == IF named THEN <<Ev("app_id", h)>> ELSE <<>>
             r == <<Enter(h, o), Activated(h, TRUE, FALSE)>>
  <2>1. evq' = evq \o p \o m \o r /\ UNCHANGED <<plugged, active>> /\ UNCHANGED Shell
    BY <1>2 DEF map
  <2>2. p \in Seq(Plain) /\ m \in Seq(Plain) /\ r \in Seq(Plain)
    <3>1. Ev("toplevel", h) \in Plain /\ Ev("title", h) \in Plain /\ Ev("app_id", h) \in Plain
      BY <1>0c
    <3>2. Enter(h, o) \in Plain /\ Activated(h, TRUE, FALSE) \in Plain
      BY <1>0c
    <3> HIDE DEF Plain
    <3>3. p \in Seq(Plain) /\ r \in Seq(Plain)
      BY <3>1, <3>2, Pair
    <3>4. m \in Seq(Plain)
      BY <3>1
    <3> QED BY <3>3, <3>4
  <2> HIDE DEF p, m, r
  <2>3. evq' = evq \o (p \o m \o r) /\ p \o m \o r \in Seq(Plain)
    <3>1. p \in Seq(Evs) /\ m \in Seq(Evs) /\ r \in Seq(Evs) /\ p \o m \in Seq(Evs) /\ p \o m \in Seq(Plain)
      BY <2>2 DEF Plain
    <3>2. (evq \o p) \o m = evq \o (p \o m)
      <4>1. evq \in Seq(Evs) /\ p \in Seq(Evs) /\ m \in Seq(Evs)
        BY <1>0a, <3>1
      <4> QED BY <4>1, Assoc, SMTT(20)
    <3> DEFINE pm == p \o m
    <3> HIDE DEF pm
    <3>3. (evq \o pm) \o r = evq \o (pm \o r) /\ pm \in Seq(Plain) /\ pm \o r \in Seq(Plain)
      <4>1. pm \in Seq(Evs) /\ pm \in Seq(Plain)
        BY <3>1 DEF pm
      <4>0. evq \in Seq(Evs) /\ pm \in Seq(Evs) /\ r \in Seq(Evs)
        BY <1>0a, <3>1, <4>1
      <4>2. (evq \o pm) \o r = evq \o (pm \o r)
        BY <4>0, Assoc, SMTT(20)
      <4>3. pm \o r \in Seq(Plain)
        BY <2>2, <4>1
      <4> QED BY <4>1, <4>2, <4>3
    <3> QED BY <2>1, <3>2, <3>3 DEF pm
  <2> QED BY <1>0, <2>1, <2>3
<1>3. ASSUME NEW h \in Handles, unmap(h) \/ reparent(h) PROVE ListInv'
  <2>1. evq' = Append(evq, Ev("closed", h)) \/ evq' = Append(evq, Ev("parent", h))
    BY <1>3 DEF unmap, reparent
  <2>2. UNCHANGED <<plugged, active>> /\ UNCHANGED Shell
    BY <1>3 DEF unmap, reparent
  <2> QED BY <1>0b, <1>0c, <2>1, <2>2
<1>4. ASSUME NEW h \in Handles, NEW a \in BOOLEAN, NEW m \in BOOLEAN, restate(h, a, m) PROVE ListInv'
  <2>1. evq' = Append(evq, Activated(h, a, m)) /\ UNCHANGED <<plugged, active>> /\ UNCHANGED Shell
    BY <1>4 DEF restate
  <2> QED BY <1>0b, <1>0c, <2>1
<1>5. CASE answer
  <2> DEFINE a == Head(reqq)
             r == IF a.k \in {"tileable", "geometry", "workarea"} /\ top[a.h].live
                  THEN <<[ev |-> a.k, h |-> a.h, v |-> top[a.h].tile]>> ELSE <<>>
             s == IF a.n = 0 THEN <<>> ELSE <<[ev |-> "sync", h |-> "none", n |-> a.n]>>
  <2>1. evq' = evq \o r \o s /\ reqq # <<>> /\ UNCHANGED <<plugged, active>> /\ UNCHANGED Shell
    BY <1>5 DEF answer
  <2>2. a \in Asked
    BY <1>0a, <2>1, Shorter
  <2>3. r \in Seq(Plain)
    <3>1. a.h \in Handles
      BY <2>2 DEF Asked
    <3>2. top[a.h] \in Tops
      BY <1>0a, <3>1
    <3>3. top[a.h].tile \in BOOLEAN
      BY <3>2 DEF Tops
    <3>4. a.k \in {"tileable", "geometry", "workarea"} => [ev |-> a.k, h |-> a.h, v |-> top[a.h].tile] \in Plain
      BY <3>1, <3>3 DEF Plain, Evs, HandleEvs, GroupKinds
    <3> QED BY <3>4
  <2>4. s \in Seq(Plain)
    <3>1. [ev |-> "sync", h |-> "none", n |-> a.n] \in Plain
      BY <2>2 DEF Asked, Plain, Evs, OtherEvs, GroupKinds
    <3> QED BY <3>1
  <2> HIDE DEF r, s
  <2>5. evq' = evq \o (r \o s) /\ r \o s \in Seq(Plain)
    <3>1. r \in Seq(Evs) /\ s \in Seq(Evs)
      BY <2>3, <2>4 DEF Plain
    <3> QED BY <1>0a, <2>1, <2>3, <2>4, <3>1, Assoc
  <2> QED BY <1>0, <2>1, <2>5
<1> QED BY <1>1, <1>2, <1>3, <1>4, <1>5

\* Another workspace becomes active.
LEMMA SwitchLists ==
  ASSUME PerMonitor, WinInv, ListInv, NEW g \in Groups, NEW w \in Spaces, switch(g, w)
  PROVE  ListInv'
<1> DEFINE x == SpaceState(active[g], FALSE)
           y == SpaceState(w, TRUE)
           b == <<x, y>>
<1>1. /\ w \in Range(SpacesOf[g]) /\ OutsOf[g] \cap plugged # {} /\ active' = [active EXCEPT ![g] = w]
      /\ evq' = evq \o b /\ plugged' = plugged /\ UNCHANGED Shell
  BY DEF switch
<1>2. /\ evq \in Seq(Evs) /\ active \in [Groups -> Spaces]
      /\ \A k \in Groups : active[k] \in Range(SpacesOf[k]) /\ plugged # {}
  BY DEF WinInv, QueuesOK, ListInv, Compos
<1>3. /\ x \in OtherEvs /\ x.ev = "wsstate" /\ x.w = active[g] /\ x.act = FALSE
      /\ y \in OtherEvs /\ y.ev = "wsstate" /\ y.w = w /\ y.act = TRUE
  BY <1>2 DEF SpaceState, OtherEvs
<1> HIDE DEF x, y
<1>4. b \in Seq(Evs) /\ Len(b) = 2 /\ b[1] = x /\ b[2] = y
  BY <1>3 DEF Evs
<1>4a. \A i \in 1..Len(b) : b[i] = x \/ b[i] = y
  BY <1>4
<1> HIDE DEF b
<1>5. EvsRight'
  <2>1. \A i \in 1..Len(b) : Right(b[i])
    BY <1>3, <1>4a DEF Right, SpaceKinds, OutKinds
  <2> QED BY <1>1, <1>4, <2>1, RightMore DEF ListInv
<1>6. ListsOK' /\ AllSafe'
  BY <1>1, ShellSame DEF ListInv
<1>7. active'[g] = w /\ \A k \in Groups : k # g => active'[k] = active[k]
  BY <1>1, <1>2
<1>8. Compos'
  BY <1>1, <1>2, <1>7 DEF Compos
<1>9. \A k \in Groups, v \in Spaces : Clean(b, Leaves(k)) /\ Clean(b, Parts(v)) /\ Clean(b, Removals(v))
  BY <1>3, <1>4a DEF Clean, Leaves, Parts, Removals
<1>10. ASSUME NEW k \in Groups, OutsOf[k] \cap plugged # {}, k # g
       PROVE  AllTold(evq', spaces', wsgroup', gouts', k, active'[k])
  <2>1. active[k] # active[g] /\ active[k] # w
    BY <1>1, <1>2, <1>10, OwnOutput
  <2>2. Clean(b, Offs(active[k]))
    BY <1>3, <1>4a, <2>1 DEF Clean, Offs
  <2>3. \A v \in Range(SpacesOf[k]) : Clean(b, Parts(v))
    BY <1>9, SpacesOK
  <2> QED BY <1>1, <1>4, <1>7, <1>9, <1>10, <2>2, <2>3, StillTold DEF ListInv
<1>11. AllTold(evq', spaces', wsgroup', gouts', g, active'[g])
  <2>1. AllTold(evq, spaces, wsgroup, gouts, g, active[g])
    BY <1>1 DEF ListInv, SpacesTold
  <2>2. \A v \in Range(SpacesOf[g]) : Clean(b, Parts(v))
    BY <1>9, SpacesOK
  <2>3. /\ OutTold(evq \o b, gouts, g)
        /\ \A v \in Range(SpacesOf[g]) : SpaceTold(evq \o b, spaces, v) /\ GroupTold(evq \o b, wsgroup, g, v)
    BY <1>2, <1>4, <1>9, <2>1, <2>2, MorePlaces
  <2>4. ActiveTold(evq \o b, spaces, w)
    <3>1. LastIs(b, Ons(w), Offs(w))
      <4>1. 2 \in 1..Len(b) /\ b[2] \in Ons(w) /\ \A j \in 1..Len(b) : ~(2 < j)
        BY <1>3, <1>4 DEF Ons
      <4> QED BY <4>1 DEF LastIs
    <3>2. SpaceTold(evq, spaces, w)
      BY <1>1, <2>1 DEF AllTold
    <3>3. CASE ListedIn(spaces, w) /\ Clean(evq, Removals(w))
      <4>1. Clean(evq \o b, Removals(w))
        BY <1>2, <1>4, <1>9, <3>3, CleanMore
      <4>2. LastIs(evq \o b, Ons(w), Offs(w))
        BY <1>2, <1>4, <3>1, LastNew
      <4> QED BY <3>3, <4>1, <4>2 DEF ActiveTold
    <3>4. CASE LastIs(evq, Names(w), Removals(w))
      <4>1. LastAre(evq \o b, Names(w), Removals(w), Ons(w), Offs(w))
        BY <1>2, <1>4, <1>9, <3>1, <3>4, LastThen
      <4> QED BY <4>1 DEF ActiveTold
    <3> QED BY <3>2, <3>3, <3>4 DEF SpaceTold
  <2>5. UNCHANGED <<wsgroup, gouts, spaces>>
    BY <1>1 DEF Shell, groups, lists
  <2>6. AllTold(evq \o b, spaces, wsgroup, gouts, g, w)
    BY <2>3, <2>4 DEF AllTold
  <2> QED BY <1>1, <1>7, <2>5, <2>6
<1>12. SpacesTold'
  BY <1>1, <1>10, <1>11 DEF SpacesTold
<1> QED BY <1>5, <1>6, <1>8, <1>12 DEF ListInv

\* The groups of a new output become known.
LEMMA PlugLists ==
  ASSUME PerMonitor, WinInv, ListInv, NEW o \in Outputs, plug(o)
  PROVE  ListInv'
<1> DEFINE Is(g, x) == x.w \in Range(SpacesOf[g]) /\ (x.act <=> x.w = active[g])
           P == {x \in OtherEvs : /\ Right(x)
                                  /\ \/ x.ev \in {"group", "genter", "wsenter", "wsname"}
                                     \/ x.ev = "wsstate" /\ \E g \in Groups : Is(g, x)}
<1>0. /\ evq \in Seq(Evs) /\ OtherEvs \subseteq Evs /\ active \in [Groups -> Spaces]
      /\ \A k \in Groups : active[k] \in Range(SpacesOf[k])
      /\ plugged' = plugged \cup {o} /\ active' = active /\ UNCHANGED Shell
  BY DEF WinInv, QueuesOK, ListInv, Compos, Evs, plug
<1>1. ASSUME NEW g \in Groups, o \in OutsOf[g]
      PROVE  /\ GroupEv("group", g, o) \in P /\ GroupEv("genter", g, o) \in P
             /\ \A w \in Range(SpacesOf[g]) : /\ GroupEv("wsenter", g, w) \in P /\ GroupEv("wsname", g, w) \in P
                                              /\ SpaceState(w, w = active[g]) \in P
  <2>1. GroupEv("group", g, o) \in P /\ GroupEv("genter", g, o) \in P
    BY <1>1, GroupEvs, GroupEvIs DEF GroupKinds, Right, SpaceKinds, OutKinds
  <2>2. ASSUME NEW w \in Range(SpacesOf[g])
        PROVE  /\ GroupEv("wsenter", g, w) \in P /\ GroupEv("wsname", g, w) \in P
               /\ SpaceState(w, w = active[g]) \in P
    <3>1. w \in Spaces
      BY SpacesOK
    <3>2. GroupEv("wsenter", g, w) \in P /\ GroupEv("wsname", g, w) \in P
      BY <3>1, GroupEvs, GroupEvIs DEF GroupKinds, Right, SpaceKinds, OutKinds
    <3> DEFINE x == SpaceState(w, w = active[g])
    <3>3. x \in OtherEvs /\ x.ev = "wsstate" /\ x.w = w /\ (x.act <=> w = active[g])
      BY <3>1 DEF SpaceState, OtherEvs
    <3> HIDE DEF x
    <3>4. x \in P
      BY <3>3 DEF Right, SpaceKinds, OutKinds
    <3> QED BY <3>2, <3>4 DEF x
  <2> QED BY <2>1, <2>2
<1>2. P \in SUBSET Evs
  BY <1>0
<1> HIDE DEF P
<1>3. PICK b \in Seq(P) : evq' = evq \o b /\ \A g \in Groups : o \in OutsOf[g] => Brought(b, g, o)
  BY <1>1, <1>2, PlugEvents, Zenon
<1>4. b \in Seq(Evs) /\ \A i \in 1..Len(b) : b[i] \in P
  BY <1>2
<1>5. ListsOK' /\ AllSafe'
  BY <1>0, ShellSame DEF ListInv
<1>6. EvsRight'
  <2>1. \A x \in P : Right(x)
    BY DEF P
  <2> QED BY <1>3, <1>4, <2>1, RightMore DEF ListInv
<1>7. Compos'
  BY <1>0 DEF ListInv, Compos
<1>8. ASSUME NEW k \in Groups
      PROVE  /\ Clean(b, Leaves(k)) /\ Clean(b, Offs(active[k]))
             /\ \A w : Clean(b, Parts(w)) /\ Clean(b, Removals(w))
  <2>1. \A x \in P : x \notin Leaves(k)
    BY DEF P, Leaves
  <2>2. \A x \in P : \A w : x \notin Parts(w) /\ x \notin Removals(w)
    BY DEF P, Parts, Removals
  <2>3. ASSUME NEW x \in P, x \in Offs(active[k]) PROVE FALSE
    <3>1. x.ev = "wsstate" /\ x.w = active[k] /\ ~x.act
      BY <2>3 DEF P, Offs
    <3>2. PICK g \in Groups : Is(g, x)
      BY <3>1 DEF P
    <3>3. active[k] \in Range(SpacesOf[k]) /\ x.w \in Range(SpacesOf[g])
      BY <1>0, <3>2
    <3>4. g = k
      BY <3>1, <3>3, OwnOutput
    <3> QED BY <3>1, <3>2, <3>4
  <2> QED BY <1>4, <2>1, <2>2, <2>3 DEF Clean
<1>9. ASSUME NEW k \in Groups, OutsOf[k] \cap plugged # {}
      PROVE  AllTold(evq', spaces', wsgroup', gouts', k, active'[k])
  BY <1>0, <1>3, <1>4, <1>8, <1>9, StillTold DEF ListInv
<1>10. ASSUME NEW k \in Groups, o \in OutsOf[k], OutsOf[k] \cap plugged = {}
       PROVE  AllTold(evq', spaces', wsgroup', gouts', k, active'[k])
  <2>1. OutTold(evq \o b, gouts', k)
    <3>1. PICK i \in 1..Len(b) : b[i] = GroupEv("genter", k, o)
      BY <1>3, <1>10 DEF Brought
    <3>2. b[i] \in Enters(k)
      BY <3>1, GroupEvs, GroupEvIs DEF GroupKinds, Enters
    <3>3. LastIs(b, Enters(k), Leaves(k))
      BY <1>4, <1>8, <3>2, LastOf
    <3>4. LastIs(evq \o b, Enters(k), Leaves(k))
      BY <1>0, <1>4, <3>3, LastNew
    <3> QED BY <3>4 DEF OutTold
  <2>2. ASSUME NEW w \in Range(SpacesOf[k])
        PROVE  /\ SpaceTold(evq \o b, spaces', w) /\ GroupTold(evq \o b, wsgroup', k, w)
               /\ w = active[k] => ActiveTold(evq \o b, spaces', w)
    <3>0. w \in Spaces
      BY SpacesOK
    <3>1. PICK d \in Nat : /\ d + 1 \in 1..Len(b) /\ d + 2 \in 1..Len(b) /\ d + 3 \in 1..Len(b)
                           /\ b[d + 1] = GroupEv("wsenter", k, w) /\ b[d + 2] = GroupEv("wsname", k, w)
                           /\ b[d + 3] = SpaceState(w, w = active[k])
      BY <1>3, <1>10 DEF Brought
    <3>2. b[d + 1] \in Joins(k, w) /\ b[d + 2] \in Names(w)
      BY <3>0, <3>1, GroupEvs, GroupEvIs DEF GroupKinds, Joins, Names
    <3>3. LastIs(evq \o b, Joins(k, w), Parts(w))
      <4>1. LastIs(b, Joins(k, w), Parts(w))
        BY <1>4, <1>8, <3>1, <3>2, LastOf
      <4> QED BY <1>0, <1>4, <4>1, LastNew
    <3>4. LastIs(evq \o b, Names(w), Removals(w))
      <4>1. LastIs(b, Names(w), Removals(w))
        BY <1>4, <1>8, <3>1, <3>2, LastOf
      <4> QED BY <1>0, <1>4, <4>1, LastNew
    <3>5. ASSUME w = active[k] PROVE LastAre(evq \o b, Names(w), Removals(w), Ons(w), Offs(w))
      <4>1. b[d + 3] \in Ons(w)
        <5> DEFINE x == SpaceState(w, TRUE)
        <5>1. x \in OtherEvs /\ x.ev = "wsstate" /\ x.w = w /\ x.act
          BY <3>0 DEF SpaceState, OtherEvs
        <5>2. b[d + 3] = x
          <6>1. (w = active[k]) = TRUE
            BY <3>5
          <6> QED BY <3>1, <6>1
        <5> HIDE DEF x
        <5> QED BY <5>1, <5>2 DEF Ons
      <4>2. Clean(b, Offs(w)) /\ Clean(b, Removals(w))
        BY <1>8, <3>5
      <4>3. d + 2 < d + 3
        OBVIOUS
      <4> DEFINE m == d + 2
                 n == d + 3
      <4>4. m \in 1..Len(b) /\ n \in 1..Len(b) /\ m < n /\ b[m] \in Names(w) /\ b[n] \in Ons(w)
        BY <3>1, <3>2, <4>1, <4>3
      <4> HIDE DEF m, n
      <4>5. LastAre(b, Names(w), Removals(w), Ons(w), Offs(w))
        BY <4>2, <4>4 DEF LastAre, Clean
      <4> QED BY <1>0, <1>4, <4>5, LastsNew
    <3> QED BY <3>3, <3>4, <3>5 DEF SpaceTold, GroupTold, ActiveTold
  <2>3. AllTold(evq \o b, spaces', wsgroup', gouts', k, active[k])
    BY <1>0, <2>1, <2>2 DEF AllTold
  <2> QED BY <1>0, <1>3, <2>3
<1>11. SpacesTold'
  <2>1. ASSUME NEW k \in Groups, OutsOf[k] \cap (plugged \cup {o}) # {}
        PROVE  AllTold(evq', spaces', wsgroup', gouts', k, active'[k])
    BY <1>9, <1>10, <2>1
  <2> QED BY <1>0, <2>1 DEF SpacesTold
<1> QED BY <1>5, <1>6, <1>7, <1>11 DEF ListInv

\* The groups of a lost output are forgotten, and no other.
LEMMA UnplugLists ==
  ASSUME PerMonitor, WinInv, ListInv, NEW o \in Outputs, NEW to \in Outputs, unplug(o, to)
  PROVE  ListInv'
<1> DEFINE P == {x \in Evs : /\ Right(x) /\ x.ev # "wsstate"
                             /\ x.ev \in GroupKinds => x.g \in Groups /\ o \in OutsOf[x.g]}
<1>0. /\ evq \in Seq(Evs) /\ \A k \in Groups : active[k] \in Range(SpacesOf[k])
      /\ plugged' = plugged \ {o} /\ active' = active /\ UNCHANGED Shell
      /\ to \in plugged /\ to # o
  BY DEF WinInv, QueuesOK, ListInv, Compos, unplug
<1>1. ASSUME NEW g \in Groups, o \in OutsOf[g]
      PROVE  /\ GroupEv("gleave", g, o) \in P /\ GroupEv("gremoved", g, o) \in P
             /\ \A w \in Range(SpacesOf[g]) : GroupEv("wsleave", g, w) \in P /\ GroupEv("wsremoved", g, w) \in P
  <2>1. GroupEv("gleave", g, o) \in P /\ GroupEv("gremoved", g, o) \in P
    BY <1>1, GroupEvs, GroupEvIs DEF GroupKinds, Right, SpaceKinds, OutKinds, Evs
  <2>2. ASSUME NEW w \in Range(SpacesOf[g])
        PROVE  GroupEv("wsleave", g, w) \in P /\ GroupEv("wsremoved", g, w) \in P
    <3>1. w \in Spaces
      BY SpacesOK
    <3> QED BY <1>1, <3>1, GroupEvs, GroupEvIs DEF GroupKinds, Right, SpaceKinds, OutKinds, Evs
  <2> QED BY <2>1, <2>2
<1>2. \A h \in Handles : Enter(h, to) \in P /\ Leave(h, o) \in P
  BY DEF Enter, Leave, Evs, HandleEvs, Right, GroupKinds, SpaceKinds, OutKinds
<1>3. P \in SUBSET Evs
  OBVIOUS
<1> HIDE DEF P
<1>4. PICK b \in Seq(P) : evq' = evq \o b
  BY <1>1, <1>2, <1>3, UnplugEvents, Zenon
<1>5. b \in Seq(Evs) /\ \A i \in 1..Len(b) : b[i] \in P
  BY <1>3
<1>6. ListsOK' /\ AllSafe'
  BY <1>0, ShellSame DEF ListInv
<1>7. EvsRight'
  <2>1. \A x \in P : Right(x)
    BY DEF P
  <2> QED BY <1>4, <1>5, <2>1, RightMore DEF ListInv
<1>8. Compos'
  BY <1>0 DEF ListInv, Compos
<1>9. ASSUME NEW k \in Groups, OutsOf[k] \cap (plugged \ {o}) # {}
      PROVE  AllTold(evq', spaces', wsgroup', gouts', k, active'[k])
  <2>1. o \notin OutsOf[k]
    BY <1>9, OneOutput
  <2>2. \A x \in P : x.ev \in GroupKinds => x.g \in Groups /\ x.g # k
    BY <2>1 DEF P
  <2>3. \A x \in P : x \notin Leaves(k)
    BY <2>2 DEF Leaves, GroupKinds
  <2>4. ASSUME NEW w \in Range(SpacesOf[k]), NEW x \in P, x.ev \in {"wsleave", "wsremoved"}, x.w = w PROVE FALSE
    <3>1. x.g \in Groups /\ x.g # k /\ x.w \in Range(SpacesOf[x.g])
      BY <2>2, <2>4 DEF P, Right, SpaceKinds, GroupKinds
    <3> QED BY <2>4, <3>1, OwnOutput
  <2>5. \A w \in Range(SpacesOf[k]) : Clean(b, Parts(w))
    BY <1>5, <2>4 DEF Clean, Parts
  <2>6. Clean(b, Offs(active[k]))
    <3>1. \A x \in P : x \notin Offs(active[k])
      BY <1>0, <2>4 DEF Offs, P
    <3> QED BY <1>5, <3>1 DEF Clean
  <2>7. Clean(b, Leaves(k))
    BY <1>5, <2>3 DEF Clean
  <2>8. OutsOf[k] \cap plugged # {}
    BY <1>9
  <2> QED BY <1>0, <1>4, <1>5, <2>5, <2>6, <2>7, <2>8, StillTold DEF ListInv
<1>10. SpacesTold'
  BY <1>0, <1>9 DEF SpacesTold
<1> QED BY <1>6, <1>7, <1>8, <1>10 DEF ListInv

----------------------------------------------------------------------------
(* What the shell does with it *)

\* No workspace and no active one is missed.
Kept(sp, sq) == \A w \in Spaces : (ListedIn(sp, w) => ListedIn(sq, w)) /\ (ActiveIn(sp, w) => ActiveIn(sq, w))

\* Workspaces that only change their windows are kept.
LEMMA AlikeKept ==
  ASSUME NEW sp, NEW sq, Alike(sp, sq)
  PROVE  Kept(sp, sq)
  BY DEF Alike, Kept, ListedIn, ActiveIn

\* Nothing is lost if no window is.
LEMMA SafeStep ==
  ASSUME AllSafe,
         \A x \in Handles : winof'[x] # 0 =>
           \/ Safe(spaces', orphans', idle', stack', [h |-> x, n |-> winof'[x]])
           \/ /\ winof'[x] = winof[x] /\ (Holds(spaces, Win(x)) => Holds(spaces', Win(x)))
              /\ Waits(orphans, Win(x)) => Waits(orphans', Win(x))
              /\ Opening(stack, Win(x)) => Opening(stack', Win(x)),
         spaces = <<>> \/ HasWs(idle) => spaces' = <<>> \/ HasWs(idle')
  PROVE  AllSafe'
<1> SUFFICES ASSUME NEW x \in Handles, winof'[x] # 0
             PROVE  Safe(spaces', orphans', idle', stack', [h |-> x, n |-> winof'[x]])
  BY DEF AllSafe, Win
<1>1. CASE winof'[x] = winof[x] /\ (Holds(spaces, Win(x)) => Holds(spaces', Win(x)))
           /\ (Waits(orphans, Win(x)) => Waits(orphans', Win(x)))
           /\ (Opening(stack, Win(x)) => Opening(stack', Win(x)))
  <2>1. Safe(spaces, orphans, idle, stack, Win(x))
    BY <1>1 DEF AllSafe
  <2>2. Safe(spaces', orphans', idle', stack', Win(x))
    BY <1>1, <2>1 DEF Safe
  <2>3. Win(x) = [h |-> x, n |-> winof'[x]]
    BY <1>1 DEF Win
  <2> QED BY <2>2, <2>3
<1> QED BY <1>1

\* An event is handled as it should.
LEMMA HandledTold ==
  ASSUME WinInv, ListInv, evq # <<>>, evq' = Tail(evq), UNCHANGED <<plugged, active>>,
         \A g \in Groups : OutDone(e, gouts, gouts', g),
         \A w \in Spaces : SpaceDone(e, spaces, spaces', w),
         \A g \in Groups : \A w \in Range(SpacesOf[g]) : GroupDone(e, wsgroup, wsgroup', g, w)
  PROVE  EvsRight' /\ Compos' /\ SpacesTold'
<1>1. evq \in Seq(Evs) /\ EvsRight /\ Compos /\ SpacesTold
  BY DEF WinInv, QueuesOK, ListInv
<1>2. EvsRight'
  <2>1. \A i \in 1..Len(Tail(evq)) : Right(Tail(evq)[i])
    <3> DEFINE t == Tail(evq)
    <3>1. Len(t) = Len(evq) - 1 /\ \A i \in 1..(Len(evq) - 1) : i + 1 \in 1..Len(evq) /\ t[i] = evq[i + 1]
      BY <1>1, Shorter
    <3> HIDE DEF t
    <3> QED BY <1>1, <3>1 DEF EvsRight, t
  <2> QED BY <2>1 DEF EvsRight
<1>3. Compos'
  BY <1>1 DEF Compos
<1>4. ASSUME NEW g \in Groups, OutsOf[g] \cap plugged # {}
      PROVE  AllTold(evq', spaces', wsgroup', gouts', g, active'[g])
  <2>1. AllTold(evq, spaces, wsgroup, gouts, g, active[g]) /\ active[g] \in Range(SpacesOf[g])
    BY <1>1, <1>4 DEF SpacesTold, Compos
  <2>2. \A w \in Range(SpacesOf[g]) : SpaceDone(Head(evq), spaces, spaces', w) /\ GroupDone(Head(evq), wsgroup, wsgroup', g, w)
    BY SpacesOK DEF e
  <2>3. OutDone(Head(evq), gouts, gouts', g)
    BY DEF e
  <2>4. AllTold(Tail(evq), spaces', wsgroup', gouts', g, active[g])
    BY <1>1, <2>1, <2>2, <2>3, HeadTold
  <2> QED BY <2>4
<1>5. SpacesTold'
  BY <1>4 DEF SpacesTold
<1> QED BY <1>2, <1>3, <1>5

\* The next event, if it is one of a group or a workspace.
LEMMA HeadOther ==
  ASSUME WinInv, ListInv, evq # <<>>
  PROVE  /\ e \in Evs
         /\ e.ev \in GroupKinds => e \in OtherEvs /\ e.g \in Groups
         /\ e.ev = "wsstate" => e \in OtherEvs /\ e.w \in Spaces /\ e.act \in BOOLEAN
         /\ e.ev \in SpaceKinds => e.w \in Spaces /\ e.w \in Range(SpacesOf[e.g])
         /\ e.ev \in OutKinds => e.w \in OutsOf[e.g]
<1>1. evq \in Seq(Evs) /\ EvsRight
  BY DEF WinInv, QueuesOK, ListInv
<1>2. e \in Evs /\ Right(e)
  BY <1>1, Shorter DEF e, EvsRight
<1> HIDE DEF e
<1>3. e.ev \in GroupKinds => e \in OtherEvs /\ e.g \in Groups
  BY <1>2 DEF Evs, OtherEvs, HandleEvs, GroupKinds
<1>4. e.ev = "wsstate" => e \in OtherEvs /\ e.w \in Spaces /\ e.act \in BOOLEAN
  BY <1>2 DEF Evs, OtherEvs, HandleEvs
<1>5. e.ev \in SpaceKinds => e.w \in Spaces /\ e.w \in Range(SpacesOf[e.g])
  BY <1>2, <1>3, SpacesOK DEF Right, SpaceKinds, GroupKinds
<1>6. e.ev \in OutKinds => e.w \in OutsOf[e.g]
  BY <1>2 DEF Right
<1> QED BY <1>2, <1>3, <1>4, <1>5, <1>6

\* An event that says nothing of groups.
LEMMA NothingDone ==
  ASSUME e.ev \notin GroupKinds \cup {"wsstate"}, UNCHANGED <<wsgroup, gouts>>, Kept(spaces, spaces')
  PROVE  /\ \A g \in Groups : OutDone(e, gouts, gouts', g)
         /\ \A w \in Spaces : SpaceDone(e, spaces, spaces', w)
         /\ \A g \in Groups : \A w \in Range(SpacesOf[g]) : GroupDone(e, wsgroup, wsgroup', g, w)
<1> HIDE DEF e
<1>1. \A g \in Groups : OutDone(e, gouts, gouts', g)
  BY DEF OutDone, Enters, GroupKinds
<1>2. \A w \in Spaces : SpaceDone(e, spaces, spaces', w)
  BY DEF SpaceDone, Kept, Names, Ons, GroupKinds
<1>3. \A g \in Groups : \A w \in Range(SpacesOf[g]) : GroupDone(e, wsgroup, wsgroup', g, w)
  BY DEF GroupDone, Joins, GroupKinds
<1> QED BY <1>1, <1>2, <1>3

\* A handler that leaves the lists alone.
LEMMA PlainLists ==
  ASSUME WinInv, ListInv, NEW k, k \notin GroupKinds \cup {"wsstate"}, Event(k),
         UNCHANGED <<wsgroup, gouts, winof, spaces, orphans>>,
         idle' \in Seq(Idles), HasWs(idle) => HasWs(idle'),
         \A win : Opening(stack, win) => Opening(stack', win)
  PROVE  ListInv'
<1>1. /\ evq # <<>> /\ evq' = Tail(evq) /\ UNCHANGED <<plugged, active>> /\ e.ev = k
  BY EventOf
<1>2. Kept(spaces, spaces')
  BY DEF Kept
<1>3. EvsRight' /\ Compos' /\ SpacesTold'
  BY <1>1, <1>2, NothingDone, HandledTold
<1>4. ListsOK'
  BY DEF ListInv, ListsOK
<1>5. AllSafe'
  BY SafeStep DEF ListInv
<1> QED BY <1>3, <1>4, <1>5 DEF ListInv

\* One that changes only what is known of groups.
LEMMA GroupLists ==
  ASSUME WinInv, ListInv, NEW k, Event(k),
         UNCHANGED <<winof, spaces, orphans, idle, stack>>,
         wsgroup' \in [Spaces -> Groups \cup {"none"}], gouts' \in [Groups -> SUBSET Outputs],
         \A g \in Groups : gouts'[g] \subseteq OutsOf[g],
         \A g \in Groups : OutDone(e, gouts, gouts', g),
         \A w \in Spaces : SpaceDone(e, spaces, spaces', w),
         \A g \in Groups : \A w \in Range(SpacesOf[g]) : GroupDone(e, wsgroup, wsgroup', g, w)
  PROVE  ListInv'
<1>1. /\ evq # <<>> /\ evq' = Tail(evq) /\ UNCHANGED <<plugged, active>> /\ e.ev = k
  BY EventOf
<1>2. EvsRight' /\ Compos' /\ SpacesTold'
  BY <1>1, HandledTold
<1>3. ListsOK'
  BY DEF ListInv, ListsOK
<1>4. AllSafe'
  BY SafeStep DEF ListInv
<1> QED BY <1>2, <1>3, <1>4 DEF ListInv

----------------------------------------------------------------------------
(* The handlers of events *)

\* The idle callback that adopts orphans is there, once it is scheduled.
LEMMA Scheduled ==
  ASSUME NEW q \in Seq(Idles)
  PROVE  schedule_workspaces_changed(q) \in Seq(Idles) /\ HasWs(schedule_workspaces_changed(q))
<1>1. WsIdle \in Idles /\ WsIdle.k = "ws"
  BY DEF WsIdle, Idles
<1>2. CASE WsIdle \in Range(q)
  <2>1. PICK i \in 1..Len(q) : q[i] = WsIdle
    BY <1>2, InRange
  <2> QED BY <1>1, <1>2, <2>1 DEF schedule_workspaces_changed, HasWs
<1>3. CASE WsIdle \notin Range(q)
  <2> DEFINE r == Append(q, WsIdle)
  <2>1. schedule_workspaces_changed(q) = r
    BY <1>3 DEF schedule_workspaces_changed
  <2>2. r \in Seq(Idles) /\ Len(r) \in 1..Len(r) /\ r[Len(r)] = WsIdle
    BY <1>1
  <2> HIDE DEF r
  <2>3. HasWs(r)
    BY <1>1, <2>2 DEF HasWs
  <2> QED BY <2>1, <2>2, <2>3
<1> QED BY <1>2, <1>3

\* A window that changed its output is looked at.
LEMMA MoreIdle ==
  ASSUME NEW q \in Seq(Idles), NEW h \in Handles
  PROVE  /\ Append(q, [k |-> "out", h |-> h]) \in Seq(Idles)
         /\ HasWs(q) => HasWs(Append(q, [k |-> "out", h |-> h]))
<1> DEFINE x == [k |-> "out", h |-> h]
           r == Append(q, x)
<1>1. x \in Idles
  BY DEF Idles
<1> HIDE DEF x
<1>2. r \in Seq(Idles) /\ Len(r) = Len(q) + 1 /\ Len(q) \in Nat /\ \A i \in 1..Len(q) : r[i] = q[i]
  BY <1>1
<1> HIDE DEF r
<1>3. HasWs(q) => HasWs(r)
  BY <1>2 DEF HasWs
<1> QED BY <1>2, <1>3 DEF r, x

\* A callback that is not the one of adoption runs and is gone.
LEMMA LessIdle ==
  ASSUME NEW q \in Seq(Idles), q # <<>>, Head(q).k = "out"
  PROVE  /\ Tail(q) \in Seq(Idles) /\ Head(q).h \in Handles
         /\ HasWs(q) => HasWs(Tail(q))
<1> DEFINE r == Tail(q)
<1>1. /\ r \in Seq(Idles) /\ Len(r) = Len(q) - 1 /\ Len(q) \in Nat /\ Head(q) = q[1] /\ q[1] \in Idles
      /\ \A i \in 1..Len(q) : i # 1 => i - 1 \in 1..(Len(q) - 1) /\ r[i - 1] = q[i]
  BY Shorter
<1> HIDE DEF r
<1>2. HasWs(q) => HasWs(r)
  BY <1>1 DEF HasWs
<1>3. Head(q).h \in Handles
  BY <1>1 DEF Idles
<1> QED BY <1>1, <1>2, <1>3 DEF r

\* The events of one handle, and the end of a roundtrip.
LEMMA HandleLists ==
  ASSUME WinInv, ListInv,
         \/ toplevel_manager_toplevel \/ toplevel_handle_title \/ toplevel_handle_output_enter
         \/ toplevel_handle_output_leave \/ toplevel_handle_state \/ toplevel_handle_parent
         \/ tiling_handle_tileable \/ tiling_handle_geometry \/ tiling_handle_workarea
         \/ roundtrip_done
  PROVE  ListInv'
<1>0. idle \in Seq(Idles) /\ stack \in Seq(Frames)
  BY DEF ListInv, ListsOK, WinInv, QueuesOK
<1>1. ASSUME NEW k \in {"toplevel", "title", "state", "parent", "tileable", "geometry", "workarea"}, Event(k),
             UNCHANGED groups, UNCHANGED lists, UNCHANGED <<idle, stack>>
      PROVE  ListInv'
  <2>1. k \notin GroupKinds \cup {"wsstate"}
    BY DEF GroupKinds
  <2>2. UNCHANGED <<wsgroup, gouts, winof, spaces, orphans>>
    BY <1>1 DEF groups, lists
  <2>3. idle' \in Seq(Idles) /\ (HasWs(idle) => HasWs(idle')) /\ \A win : Opening(stack, win) => Opening(stack', win)
    BY <1>0, <1>1
  <2> QED BY <1>1, <2>1, <2>2, <2>3, PlainLists
<1>2. CASE \/ toplevel_manager_toplevel \/ toplevel_handle_title \/ toplevel_handle_state
           \/ toplevel_handle_parent \/ tiling_handle_tileable \/ tiling_handle_geometry \/ tiling_handle_workarea
  <2>1. \E k \in {"toplevel", "title", "state", "parent", "tileable", "geometry", "workarea"} : Event(k)
    BY <1>2 DEF toplevel_manager_toplevel, toplevel_handle_title, toplevel_handle_state, toplevel_handle_parent,
                tiling_handle_tileable, tiling_handle_geometry, tiling_handle_workarea
  <2>2. UNCHANGED groups /\ UNCHANGED lists /\ UNCHANGED <<idle, stack>>
    BY <1>2 DEF toplevel_manager_toplevel, toplevel_handle_title, toplevel_handle_state, toplevel_handle_parent,
                tiling_handle_tileable, tiling_handle_geometry, tiling_handle_workarea
  <2> QED BY <1>1, <2>1, <2>2
<1>3. CASE toplevel_handle_output_enter \/ toplevel_handle_output_leave
  <2>1. PICK k \in {"enter", "leave"} : Event(k)
    BY <1>3 DEF toplevel_handle_output_enter, toplevel_handle_output_leave
  <2>2. e.h \in Handles
    BY <2>1, EventOf, EvFields DEF HandleKinds
  <2>3. /\ UNCHANGED <<wsgroup, gouts, winof, spaces, orphans, stack>>
        /\ idle' = Append(idle, [k |-> "out", h |-> e.h])
    BY <1>3 DEF toplevel_handle_output_enter, toplevel_handle_output_leave, groups, lists
  <2>4. idle' \in Seq(Idles) /\ (HasWs(idle) => HasWs(idle')) /\ \A win : Opening(stack, win) => Opening(stack', win)
    <3> HIDE DEF e
    <3> QED BY <1>0, <2>2, <2>3, MoreIdle
  <2>5. k \notin GroupKinds \cup {"wsstate"}
    BY DEF GroupKinds
  <2> QED BY <2>1, <2>3, <2>4, <2>5, PlainLists
<1>4. CASE roundtrip_done
  <2>1. Event("sync") /\ stack' = [stack EXCEPT ![e.n].done = TRUE] /\ UNCHANGED groups /\ UNCHANGED lists /\ idle' = idle
    BY <1>4 DEF roundtrip_done
  <2>2. \A win : Opening(stack, win) => Opening(stack', win)
    <3> DEFINE n == e.n
               v == [stack[n] EXCEPT !.done = TRUE]
    <3>1. stack' = [stack EXCEPT ![n] = v] /\ v.k = stack[n].k /\ v.h = stack[n].h /\ v.id = stack[n].id
      <4>1. n \in 1..Len(stack) => stack[n] \in Frames
        BY <1>0
      <4>2. stack' = [stack EXCEPT ![n] = v]
        BY <2>1
      <4>3. v.k = stack[n].k /\ v.h = stack[n].h /\ v.id = stack[n].id
        OBVIOUS
      <4> QED BY <4>2, <4>3
    <3> HIDE DEF n, v
    <3>2. Len(stack') = Len(stack) /\ \A i \in 1..Len(stack) : stack'[i] = IF i = n THEN v ELSE stack[i]
      BY <1>0, <3>1
    <3> QED BY <3>1, <3>2 DEF Opening
  <2>3. UNCHANGED <<wsgroup, gouts, winof, spaces, orphans>>
    BY <2>1 DEF groups, lists
  <2>4. "sync" \notin GroupKinds \cup {"wsstate"}
    BY DEF GroupKinds
  <2>5. idle' \in Seq(Idles) /\ (HasWs(idle) => HasWs(idle'))
    BY <1>0, <2>1
  <2> QED BY <2>1, <2>2, <2>3, <2>4, <2>5, PlainLists
<1> QED BY <1>2, <1>3, <1>4

\* What is known of the outputs of a group.
LEMMA OutputsLists ==
  ASSUME PerMonitor, WinInv, ListInv,
         workspace_manager_workspace_group \/ workspace_group_output \/ workspace_group_removed
  PROVE  ListInv'
<1>0. /\ wsgroup \in [Spaces -> Groups \cup {"none"}] /\ gouts \in [Groups -> SUBSET Outputs]
      /\ \A g \in Groups : gouts[g] \subseteq OutsOf[g]
  BY DEF ListInv, ListsOK
<1>1. ASSUME NEW k \in OutKinds, Event(k), UNCHANGED wsgroup, UNCHANGED lists, UNCHANGED <<idle, stack>>,
             gouts' \in [Groups -> SUBSET Outputs], \A g \in Groups : gouts'[g] \subseteq OutsOf[g],
             \A g \in Groups : OutDone(e, gouts, gouts', g)
      PROVE  ListInv'
  <2>1. UNCHANGED <<winof, spaces, orphans, idle, stack>>
    BY <1>1 DEF lists
  <2>2. e.ev = k
    BY <1>1, EventOf
  <2>3. \A w \in Spaces : SpaceDone(e, spaces, spaces', w)
    <3> HIDE DEF e
    <3> QED BY <2>1, <2>2 DEF SpaceDone, OutKinds, Names, Ons
  <2>4. \A g \in Groups : \A w \in Range(SpacesOf[g]) : GroupDone(e, wsgroup, wsgroup', g, w)
    <3> HIDE DEF e
    <3> QED BY <1>1, <2>2 DEF GroupDone, OutKinds, Joins
  <2>5. wsgroup' \in [Spaces -> Groups \cup {"none"}]
    BY <1>0, <1>1
  <2> QED BY <1>1, <2>1, <2>3, <2>4, <2>5, GroupLists
<1>2. CASE workspace_manager_workspace_group
  <2>1. Event("group") /\ UNCHANGED <<wsgroup, gouts>> /\ UNCHANGED lists /\ UNCHANGED <<idle, stack>>
    BY <1>2 DEF workspace_manager_workspace_group
  <2>2. e.ev = "group"
    BY <2>1, EventOf
  <2>3. \A g \in Groups : OutDone(e, gouts, gouts', g)
    <3> HIDE DEF e
    <3> QED BY <2>1, <2>2 DEF OutDone, Enters
  <2>4. "group" \in OutKinds
    BY DEF OutKinds
  <2> QED BY <1>0, <1>1, <2>1, <2>3, <2>4
<1>3. ASSUME NEW k \in {"genter", "gleave", "gremoved"}, Event(k)
      PROVE  /\ k \in OutKinds /\ e \in OtherEvs /\ e.ev = k /\ e.g \in Groups /\ e.w \in OutsOf[e.g]
             /\ e.w \in Outputs /\ OutsOf[e.g] = {e.w} /\ gouts[e.g] \subseteq {e.w}
  <2>1. evq # <<>> /\ e.ev = k
    BY <1>3, EventOf
  <2>2. k \in OutKinds /\ k \in GroupKinds
    BY DEF OutKinds, GroupKinds
  <2>3. e \in OtherEvs /\ e.g \in Groups /\ e.w \in OutsOf[e.g]
    BY <2>1, <2>2, HeadOther
  <2> HIDE DEF e
  <2>4. PICK o \in Outputs : OutsOf[e.g] = {o}
    BY <2>3, OneOutput
  <2>5. e.w = o
    BY <2>3, <2>4
  <2> QED BY <1>0, <2>1, <2>2, <2>3, <2>4, <2>5
<1>4. CASE Event("genter") /\ gouts' = [gouts EXCEPT ![e.g] = @ \cup {e.w}] /\ workspace_group_output
  <2>1. UNCHANGED wsgroup /\ UNCHANGED lists /\ UNCHANGED <<idle, stack>>
    BY <1>4 DEF workspace_group_output
  <2>2. /\ e.ev = "genter" /\ e.g \in Groups /\ e.w \in Outputs /\ OutsOf[e.g] = {e.w} /\ gouts[e.g] \subseteq {e.w}
        /\ "genter" \in OutKinds
    BY <1>3, <1>4
  <2>3. /\ gouts' \in [Groups -> SUBSET Outputs] /\ gouts'[e.g] = OutsOf[e.g]
        /\ \A g \in Groups : g # e.g => gouts'[g] = gouts[g]
    <3> HIDE DEF e
    <3> QED BY <1>0, <1>4, <2>2
  <2>4. \A g \in Groups : gouts'[g] \subseteq OutsOf[g]
    BY <1>0, <2>3
  <2>5. \A g \in Groups : OutDone(e, gouts, gouts', g)
    <3> HIDE DEF e
    <3> QED BY <2>3 DEF OutDone, Enters
  <2> QED BY <1>1, <1>4, <2>1, <2>2, <2>3, <2>4, <2>5
<1>5. ASSUME NEW k \in {"gleave", "gremoved"}, Event(k), NEW v, v \subseteq gouts[e.g],
             gouts' = [gouts EXCEPT ![e.g] = v],
             UNCHANGED wsgroup, UNCHANGED lists, UNCHANGED <<idle, stack>>
      PROVE  ListInv'
  <2>1. /\ e.ev = k /\ e.g \in Groups /\ e \in OtherEvs /\ k \in OutKinds
    BY <1>3, <1>5
  <2>2. /\ gouts' \in [Groups -> SUBSET Outputs] /\ gouts'[e.g] = v
        /\ \A g \in Groups : g # e.g => gouts'[g] = gouts[g]
    <3> HIDE DEF e
    <3> QED BY <1>0, <1>5, <2>1
  <2>3. \A g \in Groups : gouts'[g] \subseteq OutsOf[g]
    BY <1>0, <1>5, <2>2
  <2>4. \A g \in Groups : OutDone(e, gouts, gouts', g)
    <3> HIDE DEF e
    <3> QED BY <2>1, <2>2 DEF OutDone, Enters, Leaves
  <2> QED BY <1>1, <1>5, <2>1, <2>2, <2>3, <2>4
<1>6. CASE Event("gleave") /\ gouts' = [gouts EXCEPT ![e.g] = @ \ {e.w}] /\ workspace_group_output
  <2>1. UNCHANGED wsgroup /\ UNCHANGED lists /\ UNCHANGED <<idle, stack>>
    BY <1>6 DEF workspace_group_output
  <2> DEFINE v == gouts[e.g] \ {e.w}
  <2>2. gouts' = [gouts EXCEPT ![e.g] = v] /\ v \subseteq gouts[e.g]
    BY <1>6
  <2> HIDE DEF v
  <2> QED BY <1>5, <1>6, <2>1, <2>2
<1>7. CASE workspace_group_removed
  <2>1. /\ Event("gremoved") /\ gouts' = [gouts EXCEPT ![e.g] = {}]
        /\ UNCHANGED wsgroup /\ UNCHANGED lists /\ UNCHANGED <<idle, stack>>
    BY <1>7 DEF workspace_group_removed
  <2> DEFINE v == {}
  <2>2. gouts' = [gouts EXCEPT ![e.g] = v] /\ v \subseteq gouts[e.g]
    BY <2>1
  <2> HIDE DEF v
  <2> QED BY <1>5, <2>1, <2>2
<1>8. CASE workspace_group_output
  BY <1>4, <1>6, <1>8 DEF workspace_group_output
<1> QED BY <1>2, <1>7, <1>8

\* What is known of the group of a workspace.
LEMMA JoinsLists ==
  ASSUME PerMonitor, WinInv, ListInv, workspace_group_workspace
  PROVE  ListInv'
<1>0. /\ wsgroup \in [Spaces -> Groups \cup {"none"}] /\ gouts \in [Groups -> SUBSET Outputs]
      /\ \A g \in Groups : gouts[g] \subseteq OutsOf[g]
  BY DEF ListInv, ListsOK
<1>1. PICK k \in {"wsenter", "wsleave"} :
        /\ Event(k)
        /\ k = "wsenter" => wsgroup' = [wsgroup EXCEPT ![e.w] = e.g]
        /\ k = "wsleave" => wsgroup' = [wsgroup EXCEPT ![e.w] = IF @ = e.g THEN "none" ELSE @]
  BY DEF workspace_group_workspace
<1>2. UNCHANGED gouts /\ UNCHANGED <<winof, spaces, orphans, idle, stack>>
  BY DEF workspace_group_workspace, lists
<1>3. evq # <<>> /\ e.ev = k
  BY <1>1, EventOf
<1>4. e \in OtherEvs /\ e.g \in Groups /\ e.w \in Spaces /\ e.w \in Range(SpacesOf[e.g])
  <2>1. k \in GroupKinds /\ k \in SpaceKinds
    BY DEF GroupKinds, SpaceKinds
  <2> QED BY <1>3, <2>1, HeadOther
<1> HIDE DEF e
<1>5. /\ wsgroup' \in [Spaces -> Groups \cup {"none"}]
      /\ \A w \in Spaces : w # e.w => wsgroup'[w] = wsgroup[w]
      /\ k = "wsenter" => wsgroup'[e.w] = e.g
  BY <1>0, <1>1, <1>4
<1>6. \A g \in Groups : OutDone(e, gouts, gouts', g)
  BY <1>2, <1>3 DEF OutDone, Enters
<1>7. \A w \in Spaces : SpaceDone(e, spaces, spaces', w)
  BY <1>2, <1>3 DEF SpaceDone, Names, Ons
<1>8. ASSUME NEW g \in Groups, NEW w \in Range(SpacesOf[g]) PROVE GroupDone(e, wsgroup, wsgroup', g, w)
  <2>1. w \in Spaces
    BY SpacesOK
  <2>2. CASE w # e.w
    BY <1>5, <2>1, <2>2 DEF GroupDone, Joins
  <2>3. CASE w = e.w
    <3>1. e.g = g
      BY <1>4, <2>3, OwnOutput
    <3>2. CASE k = "wsenter"
      BY <1>5, <2>3, <3>1, <3>2 DEF GroupDone
    <3>3. CASE k = "wsleave"
      <4>1. e \in Parts(w) /\ e \notin Joins(g, w)
        BY <1>3, <1>4, <2>3, <3>3 DEF Parts, Joins
      <4> QED BY <4>1 DEF GroupDone
    <3> QED BY <3>2, <3>3
  <2> QED BY <2>2, <2>3
<1>9. /\ gouts' \in [Groups -> SUBSET Outputs] /\ \A g \in Groups : gouts'[g] \subseteq OutsOf[g]
  BY <1>0, <1>2
<1> QED BY <1>1, <1>2, <1>5, <1>6, <1>7, <1>8, <1>9, GroupLists

\* A list given by its elements.
LEMMA Tabled ==
  ASSUME NEW S, NEW n \in Nat, NEW f, f = [j \in 1..n |-> f[j]], \A j \in 1..n : f[j] \in S
  PROVE  f \in Seq(S) /\ Len(f) = n
<1>1. f \in [1..n -> S]
  OBVIOUS
<1> QED BY <1>1

\* What is known of a workspace, none of which is removed.
LEMMA SpacesLists ==
  ASSUME WinInv, ListInv, NEW k \in {"wsname", "wsstate"}, Event(k),
         UNCHANGED <<wsgroup, gouts, winof, orphans, stack>>,
         spaces' \in Seq(Places), idle' \in Seq(Idles), HasWs(idle') \/ UNCHANGED <<spaces, idle>>,
         \A win : Holds(spaces, win) => Holds(spaces', win),
         \A w \in Spaces : SpaceDone(e, spaces, spaces', w)
  PROVE  ListInv'
<1>1. evq # <<>> /\ evq' = Tail(evq) /\ UNCHANGED <<plugged, active>> /\ e.ev = k
  BY EventOf
<1>2. \A g \in Groups : OutDone(e, gouts, gouts', g)
  <2> HIDE DEF e
  <2> QED BY <1>1 DEF OutDone, Enters
<1>3. \A g \in Groups : \A w \in Range(SpacesOf[g]) : GroupDone(e, wsgroup, wsgroup', g, w)
  <2> HIDE DEF e
  <2> QED BY <1>1 DEF GroupDone, Joins
<1>4. EvsRight' /\ Compos' /\ SpacesTold'
  BY <1>1, <1>2, <1>3, HandledTold
<1>5. ListsOK'
  BY DEF ListInv, ListsOK
<1>6. AllSafe'
  <2>1. AllSafe
    BY DEF ListInv
  <2>2. spaces = <<>> \/ HasWs(idle) => spaces' = <<>> \/ HasWs(idle')
    OBVIOUS
  <2>3. ASSUME NEW x \in Handles, winof'[x] # 0
        PROVE  /\ winof'[x] = winof[x] /\ (Holds(spaces, Win(x)) => Holds(spaces', Win(x)))
               /\ Waits(orphans, Win(x)) => Waits(orphans', Win(x))
               /\ Opening(stack, Win(x)) => Opening(stack', Win(x))
    OBVIOUS
  <2> QED BY <2>1, <2>2, <2>3, SafeStep
<1> QED BY <1>4, <1>5, <1>6 DEF ListInv

\* A workspace gets its name.
LEMMA NameLists ==
  ASSUME WinInv, ListInv, workspace_handle_name
  PROVE  ListInv'
<1>1. Event("wsname") /\ UNCHANGED <<wsgroup, gouts, winof, orphans, stack>>
  BY DEF workspace_handle_name, groups
<1>2. e.ev = "wsname" /\ e.w \in Spaces
  <2>1. "wsname" \in SpaceKinds
    BY DEF SpaceKinds
  <2> QED BY <1>1, <2>1, EventOf, HeadOther
<1>3. spaces \in Seq(Places) /\ idle \in Seq(Idles)
  BY DEF ListInv, ListsOK
<1>4. CASE (\E i \in 1..Len(spaces) : spaces[i].w = e.w) /\ UNCHANGED <<spaces, idle>>
  <2>1. ListedIn(spaces, e.w)
    BY <1>4 DEF ListedIn
  <2>2. \A w \in Spaces : SpaceDone(e, spaces, spaces', w)
    <3> HIDE DEF e
    <3> QED BY <1>2, <1>4, <2>1 DEF SpaceDone, Names, Ons
  <2> QED BY <1>1, <1>3, <1>4, <2>2, SpacesLists
<1>5. CASE /\ spaces' = Append(spaces, [w |-> e.w, act |-> FALSE, wl |-> <<>>])
           /\ idle' = schedule_workspaces_changed(idle)
  <2> HIDE DEF e
  <2> DEFINE p == [w |-> e.w, act |-> FALSE, wl |-> <<>>]
  <2>1. p \in Places /\ p.w = e.w
    BY <1>2 DEF Places
  <2> HIDE DEF p
  <2>2. spaces' = Append(spaces, p)
    BY <1>5 DEF p
  <2>3. /\ spaces' \in Seq(Places) /\ Len(spaces') = Len(spaces) + 1 /\ Len(spaces) \in Nat
        /\ spaces'[Len(spaces')] = p /\ Len(spaces') \in 1..Len(spaces')
        /\ \A i \in 1..Len(spaces) : spaces'[i] = spaces[i] /\ i \in 1..Len(spaces')
    BY <1>3, <2>1, <2>2
  <2>4. idle' \in Seq(Idles) /\ HasWs(idle')
    BY <1>3, <1>5, Scheduled
  <2>5. \A win : Holds(spaces, win) => Holds(spaces', win)
    BY <2>3 DEF Holds
  <2>6. ListedIn(spaces', e.w)
    BY <2>1, <2>3 DEF ListedIn
  <2>7. \A w \in Spaces : (ListedIn(spaces, w) => ListedIn(spaces', w)) /\ (ActiveIn(spaces, w) => ActiveIn(spaces', w))
    BY <2>3 DEF ListedIn, ActiveIn
  <2>8. \A w \in Spaces : SpaceDone(e, spaces, spaces', w)
    BY <1>2, <2>6, <2>7 DEF SpaceDone, Names, Ons
  <2> QED BY <1>1, <2>3, <2>4, <2>5, <2>8, SpacesLists
<1> QED BY <1>4, <1>5 DEF workspace_handle_name

\* A workspace becomes the active one, or is no longer.
LEMMA StateLists ==
  ASSUME WinInv, ListInv, workspace_handle_state
  PROVE  ListInv'
<1>1. Event("wsstate") /\ UNCHANGED <<wsgroup, gouts, winof, orphans, stack>>
  BY DEF workspace_handle_state, groups
<1>2. e.ev = "wsstate" /\ e.w \in Spaces /\ e.act \in BOOLEAN /\ e \in OtherEvs
  BY <1>1, EventOf, HeadOther
<1>3. spaces \in Seq(Places) /\ idle \in Seq(Idles) /\ Len(spaces) \in Nat
  BY DEF ListInv, ListsOK
<1>4. idle' \in Seq(Idles) /\ HasWs(idle')
  BY <1>3, Scheduled DEF workspace_handle_state
<1>5. spaces' = [i \in 1..Len(spaces) |-> IF spaces[i].w = e.w THEN [spaces[i] EXCEPT !.act = e.act] ELSE spaces[i]]
  BY DEF workspace_handle_state
<1> HIDE DEF e
<1>6. ASSUME NEW i \in 1..Len(spaces)
      PROVE  /\ spaces'[i] \in Places /\ spaces'[i].w = spaces[i].w /\ spaces'[i].wl = spaces[i].wl
             /\ spaces'[i].act = IF spaces[i].w = e.w THEN e.act ELSE spaces[i].act
  <2>1. spaces[i] \in Places
    BY <1>3
  <2>2. spaces'[i] = IF spaces[i].w = e.w THEN [spaces[i] EXCEPT !.act = e.act] ELSE spaces[i]
    BY <1>5
  <2> QED BY <1>2, <2>1, <2>2 DEF Places
<1>7. spaces' \in Seq(Places) /\ Len(spaces') = Len(spaces)
  <2>1. spaces' = [i \in 1..Len(spaces) |-> spaces'[i]]
    BY <1>5
  <2> QED BY <1>3, <1>6, <2>1, Tabled
<1>8. \A win : Holds(spaces, win) => Holds(spaces', win)
  BY <1>6, <1>7 DEF Holds
<1>9. ASSUME NEW w \in Spaces PROVE SpaceDone(e, spaces, spaces', w)
  <2>1. ListedIn(spaces, w) => ListedIn(spaces', w)
    BY <1>6, <1>7 DEF ListedIn
  <2>2. e \notin Names(w)
    BY <1>2 DEF Names
  <2>3. ActiveIn(spaces, w) /\ e \notin Offs(w) => ActiveIn(spaces', w)
    BY <1>2, <1>6, <1>7 DEF ActiveIn, Offs
  <2>4. ListedIn(spaces, w) /\ e \in Ons(w) => ActiveIn(spaces', w)
    BY <1>2, <1>6, <1>7 DEF ListedIn, ActiveIn, Ons
  <2> QED BY <2>1, <2>2, <2>3, <2>4 DEF SpaceDone
<1> QED BY <1>1, <1>4, <1>7, <1>8, <1>9, SpacesLists

\* The windows of a workspace that is removed wait for another.
Orphaned(orph, l, n) ==
  [j \in 1..Len(orph) |-> IF orph[j].win \in Range(l) THEN [orph[j] EXCEPT !.idx = n] ELSE orph[j]]
  \o [j \in 1..Len(l) |-> [win |-> l[j], idx |-> n]]

\* They and the earlier orphans wait.
LEMMA OrphanedOK ==
  ASSUME NEW orph \in Seq(Orphans), NEW l \in Seq(Wins), NEW n \in Nat
  PROVE  /\ Orphaned(orph, l, n) \in Seq(Orphans) /\ \A win \in Range(l) : Waits(Orphaned(orph, l, n), win)
         /\ \A win : Waits(orph, win) => Waits(Orphaned(orph, l, n), win)
<1> DEFINE p == [j \in 1..Len(orph) |-> IF orph[j].win \in Range(l) THEN [orph[j] EXCEPT !.idx = n] ELSE orph[j]]
           s == [j \in 1..Len(l) |-> [win |-> l[j], idx |-> n]]
           r == Orphaned(orph, l, n)
<1>1. p \in Seq(Orphans) /\ Len(p) = Len(orph) /\ \A j \in 1..Len(orph) : p[j].win = orph[j].win
  <2>1. p = [j \in 1..Len(orph) |-> p[j]] /\ Len(orph) \in Nat
    OBVIOUS
  <2>2. ASSUME NEW j \in 1..Len(orph) PROVE p[j] \in Orphans /\ p[j].win = orph[j].win
    <3>1. orph[j] \in Orphans
      OBVIOUS
    <3>2. p[j] = IF orph[j].win \in Range(l) THEN [orph[j] EXCEPT !.idx = n] ELSE orph[j]
      OBVIOUS
    <3> HIDE DEF p
    <3> QED BY <3>1, <3>2 DEF Orphans
  <2> HIDE DEF p
  <2> QED BY <2>1, <2>2, Tabled
<1>2. s \in Seq(Orphans) /\ Len(s) = Len(l) /\ \A j \in 1..Len(l) : s[j].win = l[j]
  <2>1. s = [j \in 1..Len(l) |-> s[j]] /\ Len(l) \in Nat
    OBVIOUS
  <2>2. ASSUME NEW j \in 1..Len(l) PROVE s[j] \in Orphans /\ s[j].win = l[j]
    <3>1. l[j] \in Wins /\ s[j] = [win |-> l[j], idx |-> n]
      OBVIOUS
    <3> HIDE DEF s
    <3> QED BY <3>1 DEF Orphans
  <2> HIDE DEF s
  <2> QED BY <2>1, <2>2, Tabled
<1> HIDE DEF p, s
<1>3. r = p \o s
  BY DEF p, s, Orphaned
<1> HIDE DEF r
<1>4. /\ r \in Seq(Orphans) /\ Len(r) = Len(p) + Len(s) /\ Len(p) \in Nat /\ Len(s) \in Nat
      /\ \A j \in 1..Len(p) : r[j] = p[j]
      /\ \A j \in 1..Len(s) : Len(p) + j \in 1..(Len(p) + Len(s)) /\ r[Len(p) + j] = s[j]
  <2>1. p \in Seq(Orphans) /\ s \in Seq(Orphans)
    BY <1>1, <1>2
  <2> QED BY <1>3, <2>1, Longer
<1>5. ASSUME NEW win \in Range(l) PROVE Waits(r, win)
  <2>1. PICK j \in 1..Len(l) : l[j] = win
    BY InRange
  <2> DEFINE m == Len(p) + j
  <2>2. m \in 1..Len(r) /\ r[m].win = win
    BY <1>2, <1>4, <2>1
  <2> HIDE DEF m
  <2> QED BY <2>2 DEF Waits
<1>6. ASSUME NEW win, Waits(orph, win) PROVE Waits(r, win)
  <2>1. PICK j \in 1..Len(orph) : orph[j].win = win
    BY <1>6 DEF Waits
  <2>2. j \in 1..Len(r) /\ r[j].win = win
    BY <1>1, <1>4, <2>1
  <2> QED BY <2>2 DEF Waits
<1> QED BY <1>4, <1>5, <1>6 DEF r

\* A workspace is removed.
LEMMA RemovedLists ==
  ASSUME PerMonitor, WinInv, ListInv, workspace_handle_removed
  PROVE  ListInv'
<1>1. /\ Event("wsremoved") /\ UNCHANGED <<gouts, winof, stack>> /\ wsgroup' = [wsgroup EXCEPT ![e.w] = "none"]
      /\ idle' = schedule_workspaces_changed(idle)
  BY DEF workspace_handle_removed
<1>2. evq # <<>> /\ evq' = Tail(evq) /\ UNCHANGED <<plugged, active>> /\ e.ev = "wsremoved"
  BY <1>1, EventOf
<1>2a. e \in OtherEvs /\ e.w \in Spaces
  <2>1. "wsremoved" \in SpaceKinds /\ "wsremoved" \in GroupKinds
    BY DEF SpaceKinds, GroupKinds
  <2> QED BY <1>2, <2>1, HeadOther
<1>3. /\ spaces \in Seq(Places) /\ orphans \in Seq(Orphans) /\ idle \in Seq(Idles)
      /\ wsgroup \in [Spaces -> Groups \cup {"none"}] /\ gouts \in [Groups -> SUBSET Outputs]
      /\ (\A g \in Groups : gouts[g] \subseteq OutsOf[g]) /\ AllSafe
  BY DEF ListInv, ListsOK
<1>4. PICK i \in 1..Len(spaces) :
        /\ spaces[i].w = e.w
        /\ orphans' = Orphaned(orphans, spaces[i].wl, index_in_group(i))
        /\ spaces' = RemoveAt(spaces, i)
  BY Zenon DEF workspace_handle_removed, Orphaned
<1>5. index_in_group(i) \in Nat
  <2> DEFINE S == {j \in 1..(i - 1) : get_workspace_group(spaces[j].w) = get_workspace_group(spaces[i].w)}
  <2>1. IsFiniteSet(1..(i - 1))
    BY FS_Interval
  <2>2. IsFiniteSet(S)
    BY <2>1, FS_Subset
  <2> HIDE DEF S
  <2>3. Cardinality(S) \in Nat
    BY <2>2, FS_CardinalityType
  <2> QED BY <2>3 DEF index_in_group, S
<1> HIDE DEF e
<1>6. spaces[i].wl \in Seq(Wins)
  <2>1. spaces[i] \in Places
    BY <1>3
  <2> QED BY <2>1 DEF Places
<1>7. /\ orphans' \in Seq(Orphans) /\ (\A win \in Range(spaces[i].wl) : Waits(orphans', win))
      /\ \A win : Waits(orphans, win) => Waits(orphans', win)
  BY <1>3, <1>4, <1>5, <1>6, OrphanedOK
<1>8. /\ spaces' \in Seq(Places)
      /\ \A j \in 1..Len(spaces) : j # i => \E k \in 1..Len(spaces') : spaces'[k] = spaces[j]
  BY <1>3, <1>4, Without
<1>9. idle' \in Seq(Idles) /\ HasWs(idle')
  BY <1>1, <1>3, Scheduled
<1>10. wsgroup' \in [Spaces -> Groups \cup {"none"}] /\ \A w \in Spaces : w # e.w => wsgroup'[w] = wsgroup[w]
  BY <1>1, <1>3
<1>11. ListsOK'
  BY <1>1, <1>3, <1>7, <1>8, <1>9, <1>10 DEF ListsOK
<1>12. ASSUME NEW w \in Spaces PROVE SpaceDone(e, spaces, spaces', w)
  <2>1. e \notin Names(w) /\ e \notin Ons(w)
    BY <1>2 DEF Names, Ons
  <2>2. w = e.w => e \in Removals(w) /\ e \in Offs(w)
    BY <1>2, <1>2a DEF Removals, Offs
  <2>3. w # e.w => (ListedIn(spaces, w) => ListedIn(spaces', w)) /\ (ActiveIn(spaces, w) => ActiveIn(spaces', w))
    BY <1>4, <1>8 DEF ListedIn, ActiveIn
  <2> QED BY <2>1, <2>2, <2>3 DEF SpaceDone
<1>13. ASSUME NEW g \in Groups, NEW w \in Range(SpacesOf[g]) PROVE GroupDone(e, wsgroup, wsgroup', g, w)
  <2>1. w \in Spaces
    BY SpacesOK
  <2>2. e \notin Joins(g, w)
    BY <1>2 DEF Joins
  <2>3. w = e.w => e \in Parts(w)
    BY <1>2, <1>2a DEF Parts
  <2> QED BY <1>10, <2>1, <2>2, <2>3 DEF GroupDone
<1>14. \A g \in Groups : OutDone(e, gouts, gouts', g)
  BY <1>1, <1>2 DEF OutDone, Enters
<1>15. EvsRight' /\ Compos' /\ SpacesTold'
  BY <1>2, <1>12, <1>13, <1>14, HandledTold
<1>16. AllSafe'
  <2>1. ASSUME NEW x \in Handles, winof'[x] # 0
        PROVE  \/ Safe(spaces', orphans', idle', stack', [h |-> x, n |-> winof'[x]])
               \/ /\ winof'[x] = winof[x] /\ (Holds(spaces, Win(x)) => Holds(spaces', Win(x)))
                  /\ Waits(orphans, Win(x)) => Waits(orphans', Win(x))
                  /\ Opening(stack, Win(x)) => Opening(stack', Win(x))
    <3>1. winof'[x] = winof[x] /\ stack' = stack /\ Win(x) = [h |-> x, n |-> winof'[x]]
      BY <1>1 DEF Win
    <3>2. CASE Win(x) \in Range(spaces[i].wl)
      BY <1>7, <1>9, <3>1, <3>2 DEF Safe
    <3>3. CASE Win(x) \notin Range(spaces[i].wl)
      <4>1. Holds(spaces, Win(x)) => Holds(spaces', Win(x))
        BY <1>8, <3>3 DEF Holds
      <4> QED BY <1>7, <3>1, <4>1
    <3> QED BY <3>2, <3>3
  <2> QED BY <1>3, <1>9, <2>1, SafeStep
<1> QED BY <1>11, <1>15, <1>16 DEF ListInv

----------------------------------------------------------------------------
(* Windows that open and close *)

\* Positions in the list of workspaces.
LEMMA Positions ==
  ASSUME spaces \in Seq(Places)
  PROVE  /\ \A m : get_active_workspace_on(m) \in 0..Len(spaces)
         /\ \A m, n : Nth(get_workspaces_for_monitor(m), n) \in 0..Len(spaces)
         /\ \A win : /\ workspace_of(win) \in 0..Len(spaces)
                     /\ workspace_of(win) # 0 <=> Holds(spaces, win)
<1>1. Len(spaces) \in Nat
  OBVIOUS
<1>2. ASSUME NEW S \in SUBSET (1..Len(spaces)) PROVE First(S) \in 0..Len(spaces) /\ (First(S) # 0 <=> S # {})
  BY <1>1, FirstOK
<1>3. \A m : get_workspaces_for_monitor(m) \in SUBSET (1..Len(spaces))
  BY DEF get_workspaces_for_monitor
<1>4. ASSUME NEW m PROVE get_active_workspace_on(m) \in 0..Len(spaces)
  BY <1>2, <1>3 DEF get_active_workspace_on
<1>5. ASSUME NEW m, NEW n PROVE Nth(get_workspaces_for_monitor(m), n) \in 0..Len(spaces)
  BY <1>2, <1>3 DEF Nth
<1>6. ASSUME NEW win PROVE workspace_of(win) \in 0..Len(spaces) /\ (workspace_of(win) # 0 <=> Holds(spaces, win))
  BY <1>2 DEF workspace_of, Holds
<1> QED BY <1>4, <1>5, <1>6

\* A window that does not leave its workspace is still there.
LEMMA HoldsKept ==
  ASSUME NEW sp, NEW sq, NEW X, Alike(sp, sq), Keeping(sp, sq, X)
  PROVE  \A win : win \notin X /\ Holds(sp, win) => Holds(sq, win)
  BY DEF Alike, Keeping, Holds

\* A window that opens gets a workspace, and no other window loses its own.
LEMMA OpenedOK ==
  ASSUME spaces \in Seq(Places), NEW win \in Wins
  PROVE  /\ Opened(win) \in Seq(Places) /\ Holds(Opened(win), win)
         /\ Kept(spaces, Opened(win)) /\ \A x : Holds(spaces, x) => Holds(Opened(win), x)
<1>1. CASE spaces = <<>>
  <2> DEFINE p == [w |-> Phantom, act |-> TRUE, wl |-> <<win>>]
             sq == <<p>>
  <2>1. Opened(win) = sq
    BY <1>1 DEF Opened
  <2>2. p \in Places /\ p.wl = <<win>>
    BY DEF Places
  <2>3. win \in Range(<<win>>)
    BY DEF Range
  <2> HIDE DEF p
  <2>4. sq \in Seq(Places) /\ Len(sq) = 1 /\ sq[1] = p
    BY <2>2
  <2> HIDE DEF sq
  <2>5. Holds(sq, win)
    BY <2>2, <2>3, <2>4 DEF Holds
  <2>6. Kept(spaces, sq) /\ \A x : ~Holds(spaces, x)
    <3>1. 1..Len(spaces) = {}
      BY <1>1
    <3> QED BY <3>1 DEF Kept, ListedIn, ActiveIn, Holds
  <2> QED BY <2>1, <2>4, <2>5, <2>6
<1>2. CASE spaces # <<>>
  <2> DEFINE i == get_active_workspace_on(get_window_monitor(win.h))
             k == IF i = 0 THEN 1 ELSE i
  <2>1. i \in 0..Len(spaces) /\ Len(spaces) \in Nat /\ Len(spaces) >= 1
    BY <1>2, Positions
  <2>2. Opened(win) = Put(spaces, win, k)
    BY <1>2 DEF Opened
  <2> HIDE DEF i
  <2>3. k \in 1..Len(spaces)
    BY <2>1
  <2> HIDE DEF k
  <2> DEFINE sq == Put(spaces, win, k)
  <2>4. sq \in Seq(Places) /\ Alike(spaces, sq) /\ Keeping(spaces, sq, {}) /\ Holds(sq, win)
    BY <2>3, PutOK
  <2> HIDE DEF sq
  <2>5. Kept(spaces, sq)
    BY <2>4, AlikeKept
  <2>6. \A x : Holds(spaces, x) => Holds(sq, x)
    BY <2>4, HoldsKept
  <2> QED BY <2>2, <2>4, <2>5, <2>6 DEF sq
<1> QED BY <1>1, <1>2

\* A window opens, or the window groups ask about it first.
LEMMA AppIdLists ==
  ASSUME WinInv, ListInv, toplevel_handle_app_id
  PROVE  ListInv'
<1> DEFINE id == opens + 1
           win == [h |-> e.h, n |-> id]
           f == [k |-> "opening", h |-> e.h, id |-> id, done |-> FALSE]
<1>1. /\ evq # <<>> /\ e.ev = "app_id" /\ evq' = Tail(evq) /\ UNCHANGED <<plugged, active>>
      /\ winof' = [winof EXCEPT ![e.h] = id] /\ UNCHANGED <<wsgroup, gouts, orphans>>
      /\ \/ stack' = Append(stack, f) /\ UNCHANGED <<spaces, idle>>
         \/ spaces' = Opened(win) /\ idle' = schedule_workspaces_changed(idle) /\ stack' = stack
  BY DEF toplevel_handle_app_id, groups
<1>2. /\ spaces \in Seq(Places) /\ orphans \in Seq(Orphans) /\ idle \in Seq(Idles) /\ AllSafe
      /\ stack \in Seq(Frames) /\ opens \in Nat /\ winof \in [Handles -> Nat] /\ evq \in Seq(Evs)
  BY DEF ListInv, ListsOK, WinInv, QueuesOK, CachesOK
<1>3. e.h \in Handles
  <2>1. e \in Evs
    BY <1>1, <1>2, Shorter DEF e
  <2> QED BY <1>1, <2>1, EvFields DEF HandleKinds
<1>4. e.ev \notin GroupKinds \cup {"wsstate"}
  BY <1>1 DEF GroupKinds
<1> HIDE DEF e
<1>5. id \in Nat /\ win \in Wins /\ f \in Frames /\ win.h = e.h /\ win.n = id /\ f.k = "opening" /\ f.h = e.h /\ f.id = id
  BY <1>2, <1>3 DEF Wins, Frames
<1>6. winof'[e.h] = id /\ \A x \in Handles : x # e.h => winof'[x] = winof[x]
  BY <1>1, <1>2, <1>3
<1>6a. win = [h |-> e.h, n |-> winof'[e.h]]
  BY <1>6
<1> HIDE DEF id, win, f
<1>7. /\ spaces' \in Seq(Places) /\ idle' \in Seq(Idles) /\ Kept(spaces, spaces')
      /\ \A x : Holds(spaces, x) => Holds(spaces', x)
      /\ HasWs(idle') \/ UNCHANGED <<spaces, idle>>
  <2>1. CASE UNCHANGED <<spaces, idle>>
    BY <1>2, <2>1 DEF Kept
  <2>2. CASE spaces' = Opened(win) /\ idle' = schedule_workspaces_changed(idle)
    BY <1>2, <1>5, <2>2, OpenedOK, Scheduled
  <2> QED BY <1>1, <2>1, <2>2
<1>8. /\ \A x : Opening(stack, x) => Opening(stack', x)
      /\ Holds(spaces', win) \/ Opening(stack', win)
  <2>1. CASE stack' = Append(stack, f)
    <3>1. /\ Len(stack') = Len(stack) + 1 /\ Len(stack) \in Nat /\ stack'[Len(stack')] = f /\ Len(stack') \in 1..Len(stack')
          /\ \A i \in 1..Len(stack) : stack'[i] = stack[i] /\ i \in 1..Len(stack')
      BY <1>2, <1>5, <2>1
    <3>2. \A x : Opening(stack, x) => Opening(stack', x)
      BY <3>1 DEF Opening
    <3>3. Opening(stack', win)
      BY <1>5, <3>1 DEF Opening
    <3> QED BY <3>2, <3>3
  <2>2. CASE spaces' = Opened(win) /\ stack' = stack
    BY <1>2, <1>5, <2>2, OpenedOK
  <2> QED BY <1>1, <2>1, <2>2
<1>9. EvsRight' /\ Compos' /\ SpacesTold'
  <2>1. /\ \A g \in Groups : OutDone(e, gouts, gouts', g)
        /\ \A w \in Spaces : SpaceDone(e, spaces, spaces', w)
        /\ \A g \in Groups : \A w \in Range(SpacesOf[g]) : GroupDone(e, wsgroup, wsgroup', g, w)
    BY <1>1, <1>4, <1>7, NothingDone
  <2> QED BY <1>1, <2>1, HandledTold
<1>10. ListsOK'
  BY <1>1, <1>7 DEF ListInv, ListsOK
<1>11. AllSafe'
  <2>1. ASSUME NEW x \in Handles, winof'[x] # 0
        PROVE  \/ Safe(spaces', orphans', idle', stack', [h |-> x, n |-> winof'[x]])
               \/ /\ winof'[x] = winof[x] /\ (Holds(spaces, Win(x)) => Holds(spaces', Win(x)))
                  /\ Waits(orphans, Win(x)) => Waits(orphans', Win(x))
                  /\ Opening(stack, Win(x)) => Opening(stack', Win(x))
    <3>1. CASE x = e.h
      <4>1. Safe(spaces', orphans', idle', stack', win)
        BY <1>8 DEF Safe
      <4> QED BY <1>6a, <3>1, <4>1
    <3>2. CASE x # e.h
      BY <1>1, <1>6, <1>7, <1>8, <3>2
    <3> QED BY <3>1, <3>2
  <2>2. spaces = <<>> \/ HasWs(idle) => spaces' = <<>> \/ HasWs(idle')
    BY <1>7
  <2> QED BY <1>2, <2>1, <2>2, SafeStep
<1> QED BY <1>9, <1>10, <1>11 DEF ListInv

\* A window closes.
LEMMA ClosedLists ==
  ASSUME WinInv, ListInv, toplevel_handle_closed
  PROVE  ListInv'
<1>1. /\ Event("closed") /\ remove_running_app(e.h) /\ UNCHANGED <<wsgroup, gouts, orphans, stack>>
  BY DEF toplevel_handle_closed, groups
<1>2. /\ spaces \in Seq(Places) /\ orphans \in Seq(Orphans) /\ idle \in Seq(Idles) /\ AllSafe
      /\ winof \in [Handles -> Nat]
  BY DEF ListInv, ListsOK, WinInv, CachesOK
<1>3. evq # <<>> /\ e.ev = "closed" /\ evq' = Tail(evq) /\ UNCHANGED <<plugged, active>> /\ e \in Evs
  BY <1>1, EventOf
<1>4. e.h \in Handles
  BY <1>3, EvFields DEF HandleKinds
<1>5. e.ev \notin GroupKinds \cup {"wsstate"}
  BY <1>3 DEF GroupKinds
<1> HIDE DEF e
<1> DEFINE i == workspace_of(Win(e.h))
<1>6. \/ UNCHANGED <<winof, spaces, idle>>
      \/ /\ winof' = [winof EXCEPT ![e.h] = 0] /\ spaces' = Drop(spaces, Win(e.h), i)
         /\ idle' = idle \/ idle' = schedule_workspaces_changed(idle)
  BY <1>1 DEF remove_running_app
<1>7. Win(e.h) \in Wins /\ i \in 0..Len(spaces)
  <2>1. winof[e.h] \in Nat
    BY <1>2, <1>4
  <2>2. Win(e.h) \in Wins
    BY <1>4, <2>1 DEF Win, Wins
  <2> QED BY <1>2, <2>2, Positions
<1> HIDE DEF i
<1>8. /\ spaces' \in Seq(Places) /\ idle' \in Seq(Idles) /\ Kept(spaces, spaces') /\ Len(spaces') = Len(spaces)
      /\ HasWs(idle) => HasWs(idle')
      /\ \A x \in Handles : winof'[x] # 0 => winof'[x] = winof[x] /\ (Holds(spaces, Win(x)) => Holds(spaces', Win(x)))
  <2>1. CASE UNCHANGED <<winof, spaces, idle>>
    BY <1>2, <2>1 DEF Kept
  <2>2. CASE /\ winof' = [winof EXCEPT ![e.h] = 0] /\ spaces' = Drop(spaces, Win(e.h), i)
             /\ idle' = idle \/ idle' = schedule_workspaces_changed(idle)
    <3> DEFINE sq == Drop(spaces, Win(e.h), i)
    <3>1. sq \in Seq(Places) /\ Alike(spaces, sq) /\ Keeping(spaces, sq, {Win(e.h)})
      BY <1>2, <1>7, DropOK
    <3> HIDE DEF sq
    <3>2. spaces' = sq
      BY <2>2 DEF sq
    <3>3. idle' \in Seq(Idles) /\ (HasWs(idle) => HasWs(idle'))
      BY <1>2, <2>2, Scheduled
    <3>4. \A x \in Handles : winof'[x] # 0 => winof'[x] = winof[x] /\ x # e.h
      BY <1>2, <1>4, <2>2
    <3>5. \A x : x # e.h => Win(x) # Win(e.h)
      BY DEF Win
    <3>6. \A x : x # e.h /\ Holds(spaces, Win(x)) => Holds(sq, Win(x))
      BY <3>1, <3>5, HoldsKept
    <3>7. Kept(spaces, sq) /\ Len(sq) = Len(spaces)
      BY <3>1, AlikeKept DEF Alike
    <3> QED BY <3>1, <3>2, <3>3, <3>4, <3>6, <3>7
  <2> QED BY <1>6, <2>1, <2>2
<1>9. EvsRight' /\ Compos' /\ SpacesTold'
  <2>1. /\ \A g \in Groups : OutDone(e, gouts, gouts', g)
        /\ \A w \in Spaces : SpaceDone(e, spaces, spaces', w)
        /\ \A g \in Groups : \A w \in Range(SpacesOf[g]) : GroupDone(e, wsgroup, wsgroup', g, w)
    BY <1>1, <1>5, <1>8, NothingDone
  <2> QED BY <1>3, <2>1, HandledTold
<1>10. ListsOK'
  BY <1>1, <1>8 DEF ListInv, ListsOK
<1>11. AllSafe'
  <2>1. spaces = <<>> \/ HasWs(idle) => spaces' = <<>> \/ HasWs(idle')
    <3>1. spaces = <<>> => spaces' = <<>>
      BY <1>2, <1>8
    <3> QED BY <1>8, <3>1
  <2> QED BY <1>1, <1>2, <1>8, <2>1, SafeStep
<1> QED BY <1>9, <1>10, <1>11 DEF ListInv

----------------------------------------------------------------------------
(* The main loop *)

\* A step of the main loop that misses no workspace and loses no window.
LEMMA LoopLists ==
  ASSUME ListInv, UNCHANGED <<evq, plugged, active, wsgroup, gouts>>,
         spaces' \in Seq(Places), orphans' \in Seq(Orphans), idle' \in Seq(Idles), Kept(spaces, spaces'), AllSafe'
  PROVE  ListInv'
<1>1. ListsOK'
  BY DEF ListInv, ListsOK
<1>2. EvsRight'
  BY DEF ListInv, EvsRight
<1>3. Compos'
  BY DEF ListInv, Compos
<1>4. ASSUME NEW w \in Spaces
      PROVE  /\ SpaceTold(evq, spaces, w) => SpaceTold(evq, spaces', w)
             /\ ActiveTold(evq, spaces, w) => ActiveTold(evq, spaces', w)
  BY DEF Kept, SpaceTold, ActiveTold
<1>5. ASSUME NEW g \in Groups, OutsOf[g] \cap plugged # {}
      PROVE  AllTold(evq, spaces', wsgroup, gouts, g, active[g])
  <2>1. AllTold(evq, spaces, wsgroup, gouts, g, active[g]) /\ active[g] \in Spaces
    BY <1>5, SpacesOK DEF ListInv, SpacesTold, Compos
  <2>2. \A w \in Range(SpacesOf[g]) : w \in Spaces
    BY SpacesOK
  <2> QED BY <1>4, <2>1, <2>2 DEF AllTold
<1>6. SpacesTold'
  BY <1>5 DEF SpacesTold
<1> QED BY <1>1, <1>2, <1>3, <1>6 DEF ListInv

\* place_window() moves the one window.
LEMMA PlaceOK ==
  ASSUME spaces \in Seq(Places), NEW win \in Wins, NEW i \in 1..Len(spaces)
  PROVE  /\ place_window(win, i) \in Seq(Places) /\ Alike(spaces, place_window(win, i))
         /\ \A x : Holds(spaces, x) => Holds(place_window(win, i), x)
<1>1. CASE workspace_of(win) = i
  BY <1>1 DEF place_window, Alike
<1>2. CASE workspace_of(win) # i
  <2> DEFINE d == Drop(spaces, win, workspace_of(win))
             sq == Put(d, win, i)
  <2>1. place_window(win, i) = sq
    BY <1>2 DEF place_window
  <2>2. d \in Seq(Places) /\ Alike(spaces, d) /\ Keeping(spaces, d, {win})
    <3>1. workspace_of(win) \in 0..Len(spaces)
      BY Positions
    <3> QED BY <3>1, DropOK
  <2> HIDE DEF d
  <2>3. i \in 1..Len(d)
    BY <2>2 DEF Alike
  <2>4. sq \in Seq(Places) /\ Alike(d, sq) /\ Keeping(d, sq, {}) /\ Holds(sq, win)
    BY <2>2, <2>3, PutOK
  <2> HIDE DEF sq
  <2>5. Alike(spaces, sq)
    BY <2>2, <2>4 DEF Alike
  <2>6. \A x : x # win /\ Holds(spaces, x) => Holds(d, x)
    BY <2>2, HoldsKept
  <2>7. \A x : Holds(d, x) => Holds(sq, x)
    BY <2>4, HoldsKept
  <2> QED BY <2>1, <2>4, <2>5, <2>6, <2>7
<1> QED BY <1>1, <1>2

\* A window that is placed, by the user or after it changed its monitor.
LEMMA PlacedLists ==
  ASSUME WinInv, ListInv, UNCHANGED <<evq, plugged, active, wsgroup, gouts, winof, orphans, stack>>,
         idle' \in Seq(Idles), HasWs(idle) => HasWs(idle'),
         \/ spaces' = spaces
         \/ \E h \in Handles : \E i \in 1..Len(spaces) : spaces' = place_window(Win(h), i)
  PROVE  ListInv'
<1>1. spaces \in Seq(Places) /\ orphans \in Seq(Orphans) /\ winof \in [Handles -> Nat] /\ AllSafe
  BY DEF ListInv, ListsOK, WinInv, CachesOK
<1>2. spaces' \in Seq(Places) /\ Alike(spaces, spaces') /\ \A x : Holds(spaces, x) => Holds(spaces', x)
  <2>1. CASE spaces' = spaces
    BY <1>1, <2>1 DEF Alike
  <2>2. ASSUME NEW h \in Handles, NEW i \in 1..Len(spaces), spaces' = place_window(Win(h), i)
        PROVE  spaces' \in Seq(Places) /\ Alike(spaces, spaces') /\ \A x : Holds(spaces, x) => Holds(spaces', x)
    <3>1. Win(h) \in Wins
      BY <1>1 DEF Win, Wins
    <3> QED BY <1>1, <2>2, <3>1, PlaceOK
  <2> QED BY <2>1, <2>2
<1>3. AllSafe'
  <2>1. spaces = <<>> => spaces' = <<>>
    BY <1>1, <1>2 DEF Alike
  <2> QED BY <1>1, <1>2, <2>1, SafeStep
<1>4. Kept(spaces, spaces')
  BY <1>2, AlikeKept
<1> QED BY <1>1, <1>2, <1>3, <1>4, LoopLists

\* A window follows its monitor.
LEMMA FollowLists ==
  ASSUME WinInv, ListInv, follow_window_monitor
  PROVE  ListInv'
<1> DEFINE h == Head(idle).h
           m == get_window_monitor(h)
           i == get_active_workspace_on(m)
<1>1. /\ idle # <<>> /\ Head(idle).k = "out" /\ UNCHANGED <<evq, plugged, active, wsgroup, gouts, winof, orphans, stack>>
      /\ \/ idle' = Tail(idle) /\ spaces' = spaces
         \/ /\ i # 0 /\ spaces' = place_window(Win(h), i)
            /\ idle' = Tail(idle) \/ idle' = schedule_workspaces_changed(Tail(idle))
  <2>1. /\ idle # <<>> /\ Head(idle).k = "out" /\ UNCHANGED <<evq, plugged, active, wsgroup, gouts, winof, orphans, stack>>
    BY DEF follow_window_monitor, NextIdle, compositor, groups
  <2>2. \/ idle' = Tail(idle) /\ spaces' = spaces
        \/ /\ i # 0 /\ spaces' = place_window(Win(h), i)
           /\ idle' = Tail(idle) \/ idle' = schedule_workspaces_changed(Tail(idle))
    BY DEF follow_window_monitor
  <2> QED BY <2>1, <2>2
<1>2. spaces \in Seq(Places) /\ idle \in Seq(Idles)
  BY DEF ListInv, ListsOK
<1>3. Tail(idle) \in Seq(Idles) /\ h \in Handles /\ (HasWs(idle) => HasWs(Tail(idle)))
  BY <1>1, <1>2, LessIdle
<1>4. i \in 0..Len(spaces) /\ Len(spaces) \in Nat
  BY <1>2, Positions
<1> HIDE DEF h, i
<1>5. idle' \in Seq(Idles) /\ (HasWs(idle) => HasWs(idle'))
  BY <1>1, <1>3, Scheduled
<1>6. \/ spaces' = spaces
      \/ \E x \in Handles : \E j \in 1..Len(spaces) : spaces' = place_window(Win(x), j)
  BY <1>1, <1>3, <1>4
<1> QED BY <1>1, <1>5, <1>6, PlacedLists

\* The user moves a window.
LEMMA MoveLists ==
  ASSUME WinInv, ListInv, NEW h \in Handles, NEW n, move_window_to_workspace_by_index(h, n)
  PROVE  ListInv'
<1> DEFINE i == Nth(get_workspaces_for_monitor(get_window_monitor(h)), n - 1)
<1>1. UNCHANGED <<evq, plugged, active, wsgroup, gouts, winof, orphans, stack>>
  BY DEF move_window_to_workspace_by_index, groups
<1>2. /\ i # 0 /\ spaces' = place_window(Win(h), i)
      /\ idle' = idle \/ idle' = schedule_workspaces_changed(idle)
  BY DEF move_window_to_workspace_by_index
<1>3. spaces \in Seq(Places) /\ idle \in Seq(Idles)
  BY DEF ListInv, ListsOK
<1>4. i \in 0..Len(spaces) /\ Len(spaces) \in Nat
  BY <1>3, Positions
<1> HIDE DEF i
<1>5. idle' \in Seq(Idles) /\ (HasWs(idle) => HasWs(idle'))
  BY <1>2, <1>3, Scheduled
<1>6. \E x \in Handles : \E j \in 1..Len(spaces) : spaces' = place_window(Win(x), j)
  BY <1>2, <1>4
<1> QED BY <1>1, <1>5, <1>6, PlacedLists

\* A queue without its last element.
LEMMA AllButLast ==
  ASSUME NEW S, NEW q \in Seq(S), q # <<>>
  PROVE  Len(Front(q)) = Len(q) - 1 /\ \A i \in 1..(Len(q) - 1) : Front(q)[i] = q[i]
<1> DEFINE n == Len(q) - 1
           r == SubSeq(q, 1, n)
<1>1. n \in Nat /\ n <= Len(q) /\ Len(q) \in Nat
  OBVIOUS
<1>2. Front(q) = r
  BY DEF Front
<1> HIDE DEF n
<1>3. Len(r) = n /\ \A i \in 1..n : r[i] = q[i]
  BY <1>1
<1> QED BY <1>2, <1>3 DEF n

\* The window groups have their answer, and the window its workspace.
LEMMA ReturnLists ==
  ASSUME WinInv, ListInv, Return
  PROVE  ListInv'
<1> DEFINE f == stack[Len(stack)]
           win == [h |-> f.h, n |-> f.id]
<1>1. /\ stack # <<>> /\ stack' = Front(stack) /\ UNCHANGED <<evq, plugged, active, wsgroup, gouts, winof, orphans>>
      /\ \/ f.k = "query" /\ UNCHANGED <<spaces, idle>>
         \/ f.k = "opening" /\ spaces' = Opened(win) /\ idle' = schedule_workspaces_changed(idle)
  BY DEF Return, compositor, groups, Last
<1>2. /\ spaces \in Seq(Places) /\ orphans \in Seq(Orphans) /\ idle \in Seq(Idles) /\ AllSafe
      /\ stack \in Seq(Frames) /\ winof \in [Handles -> Nat]
  BY DEF ListInv, ListsOK, WinInv, QueuesOK, CachesOK
<1>3. Len(stack) \in Nat /\ Len(stack) >= 1 /\ Len(stack) \in 1..Len(stack) /\ f \in Frames
  BY <1>1, <1>2
<1>4. Len(stack') = Len(stack) - 1 /\ \A i \in 1..(Len(stack) - 1) : stack'[i] = stack[i]
  BY <1>1, <1>2, AllButLast
<1> HIDE DEF f
<1>5. win \in Wins /\ win.h = f.h /\ win.n = f.id
  BY <1>3 DEF Wins, Frames
<1> HIDE DEF win
<1>6. /\ spaces' \in Seq(Places) /\ idle' \in Seq(Idles) /\ Kept(spaces, spaces')
      /\ \A x : Holds(spaces, x) => Holds(spaces', x)
      /\ HasWs(idle') \/ UNCHANGED <<spaces, idle>>
      /\ f.k = "opening" => Holds(spaces', win)
  <2>1. CASE f.k = "query" /\ UNCHANGED <<spaces, idle>>
    BY <1>2, <2>1 DEF Kept
  <2>2. CASE spaces' = Opened(win) /\ idle' = schedule_workspaces_changed(idle)
    BY <1>2, <1>5, <2>2, OpenedOK, Scheduled
  <2> QED BY <1>1, <2>1, <2>2
<1>7. ASSUME NEW x \in Handles, Opening(stack, Win(x))
      PROVE  Opening(stack', Win(x)) \/ Holds(spaces', Win(x))
  <2>1. PICK i \in 1..Len(stack) : stack[i].k = "opening" /\ stack[i].h = Win(x).h /\ stack[i].id = Win(x).n
    BY <1>7 DEF Opening
  <2>2. CASE i = Len(stack)
    <3>1. f.k = "opening" /\ f.h = Win(x).h /\ f.id = Win(x).n
      BY <2>1, <2>2 DEF f
    <3>2. win = Win(x)
      BY <1>5, <3>1 DEF Win, Wins
    <3> QED BY <1>6, <3>1, <3>2
  <2>3. CASE i # Len(stack)
    <3>1. i \in 1..(Len(stack) - 1)
      BY <1>3, <2>3
    <3>2. stack'[i] = stack[i] /\ i \in 1..Len(stack')
      BY <1>4, <3>1
    <3> QED BY <2>1, <3>2 DEF Opening
  <2> QED BY <2>2, <2>3
<1>8. AllSafe'
  <2>1. ASSUME NEW x \in Handles, winof'[x] # 0
        PROVE  \/ Safe(spaces', orphans', idle', stack', [h |-> x, n |-> winof'[x]])
               \/ /\ winof'[x] = winof[x] /\ (Holds(spaces, Win(x)) => Holds(spaces', Win(x)))
                  /\ Waits(orphans, Win(x)) => Waits(orphans', Win(x))
                  /\ Opening(stack, Win(x)) => Opening(stack', Win(x))
    <3>1. winof'[x] = winof[x] /\ orphans' = orphans /\ Win(x) = [h |-> x, n |-> winof'[x]]
      BY <1>1 DEF Win
    <3>2. Holds(spaces', Win(x)) => Safe(spaces', orphans', idle', stack', Win(x))
      BY DEF Safe
    <3> QED BY <1>6, <1>7, <3>1, <3>2
  <2>2. spaces = <<>> \/ HasWs(idle) => spaces' = <<>> \/ HasWs(idle')
    BY <1>6
  <2> QED BY <1>2, <2>1, <2>2, SafeStep
<1>9. orphans' \in Seq(Orphans)
  BY <1>1, <1>2
<1> QED BY <1>1, <1>6, <1>8, <1>9, LoopLists

\* A question or a request changes nothing here.
LEMMA AskedLists ==
  ASSUME WinInv, ListInv,
         \/ \E h \in Handles : \/ get_window_geometry(h) \/ get_window_workarea(h) \/ window_is_tileable(h)
                               \/ window_request(h)
         \/ UNCHANGED winVars
  PROVE  ListInv'
<1>1. /\ UNCHANGED <<evq, plugged, active, wsgroup, gouts, winof, orphans, spaces, idle>>
      /\ stack = <<>> \/ stack' = stack
  BY DEF get_window_geometry, get_window_workarea, window_is_tileable, query, window_request, Request, Idling,
         winVars, Shell, compositor, groups, lists
<1>2. /\ spaces \in Seq(Places) /\ orphans \in Seq(Orphans) /\ idle \in Seq(Idles) /\ AllSafe
  BY DEF ListInv, ListsOK
<1>3. \A x : Opening(stack, x) => Opening(stack', x)
  <2>1. stack = <<>> => 1..Len(stack) = {}
    OBVIOUS
  <2> QED BY <1>1, <2>1 DEF Opening
<1>4. AllSafe'
  BY <1>1, <1>2, <1>3, SafeStep
<1>5. Kept(spaces, spaces') /\ spaces' \in Seq(Places) /\ orphans' \in Seq(Orphans) /\ idle' \in Seq(Idles)
  BY <1>1, <1>2 DEF Kept
<1> QED BY <1>1, <1>4, <1>5, LoopLists

----------------------------------------------------------------------------
(* The adoption of orphans *)

\* The workspaces of a group whose output is plugged, once no event is under way.
LEMMA ToldNow ==
  ASSUME ListInv, evq = <<>>, NEW g \in Groups, OutsOf[g] \cap plugged # {}
  PROVE  /\ gouts[g] = OutsOf[g] /\ active[g] \in Range(SpacesOf[g]) /\ ActiveIn(spaces, active[g])
         /\ \A w \in Range(SpacesOf[g]) : wsgroup[w] = g
<1>1. AllTold(evq, spaces, wsgroup, gouts, g, active[g]) /\ active[g] \in Range(SpacesOf[g])
  BY DEF ListInv, SpacesTold, Compos
<1>2. 1..Len(evq) = {}
  OBVIOUS
<1>3. \A S, U : ~LastIs(evq, S, U)
  BY <1>2 DEF LastIs
<1>4. \A R, V, S, U : ~LastAre(evq, R, V, S, U)
  BY <1>2 DEF LastAre
<1>5. gouts[g] = OutsOf[g]
  BY <1>1, <1>3 DEF AllTold, OutTold
<1>6. ActiveIn(spaces, active[g])
  BY <1>1, <1>3, <1>4 DEF AllTold, ActiveTold
<1>7. \A w \in Range(SpacesOf[g]) : wsgroup[w] = g
  BY <1>1, <1>3 DEF AllTold, GroupTold
<1> QED BY <1>1, <1>5, <1>6, <1>7

\* Every monitor has an active workspace, and so has the shell as a whole.
LEMMA ActiveThere ==
  ASSUME PerMonitor, WinInv, ListInv, evq = <<>>, NEW m \in plugged \cup {"none"}
  PROVE  get_active_workspace_on(m) # 0
<1> DEFINE per == workspaces_per_monitor
           conn == IF per /\ m = "none" THEN get_active_monitor ELSE m
           S == {i \in get_workspaces_for_monitor(m) : spaces[i].act}
<1>1. /\ plugged \subseteq Outputs /\ plugged # {} /\ spaces \in Seq(Places)
      /\ wsgroup \in [Spaces -> Groups \cup {"none"}]
  BY DEF WinInv, QueuesOK, ListInv, Compos, ListsOK
<1>2. \A h : get_window_monitor(h) # "none" => get_window_monitor(h) \in plugged
  BY DEF get_window_monitor
<1>3. get_active_monitor \in plugged
  <2>1. (CHOOSE o \in plugged : TRUE) \in plugged
    BY <1>1
  <2> QED BY <1>2, <2>1 DEF get_active_monitor
<1>4. conn \in plugged \/ (conn = "none" /\ ~per)
  BY <1>3
<1>5. get_workspaces_for_monitor(m) =
        {i \in 1..Len(spaces) : ~per \/ conn = "none" \/ get_workspace_connector(spaces[i].w) = conn}
  BY DEF get_workspaces_for_monitor
<1> DEFINE c == IF conn \in plugged THEN conn ELSE CHOOSE o \in plugged : TRUE
<1>6. c \in plugged
  BY <1>1
<1>7. conn \in plugged => c = conn
  OBVIOUS
<1> HIDE DEF per, conn, c
<1>8. PICK g \in Groups : OutsOf[g] = {c}
  BY <1>1, <1>6 DEF PerMonitor
<1>9. OutsOf[g] \cap plugged # {}
  BY <1>6, <1>8
<1>10. /\ gouts[g] = {c} /\ active[g] \in Range(SpacesOf[g]) /\ ActiveIn(spaces, active[g])
       /\ wsgroup[active[g]] = g
  BY <1>8, <1>9, ToldNow
<1>11. PICK i \in 1..Len(spaces) : spaces[i].w = active[g] /\ spaces[i].act
  BY <1>10 DEF ActiveIn
<1>12. get_workspace_connector(spaces[i].w) = c
  <2>1. active[g] # Phantom
    BY <1>10, SpacesOK, GroupsAssumption
  <2>2. get_workspace_group(spaces[i].w) = g
    BY <1>10, <1>11, <2>1 DEF get_workspace_group
  <2>3. Cardinality({c}) = 1
    BY FS_Singleton
  <2>4. g # "none"
    BY GroupsAssumption
  <2>5. (CHOOSE o \in {c} : TRUE) = c
    OBVIOUS
  <2> QED BY <1>10, <2>2, <2>3, <2>4, <2>5 DEF get_workspace_connector
<1>13. i \in S
  BY <1>4, <1>5, <1>7, <1>11, <1>12
<1>14. S \in SUBSET (1..Len(spaces)) /\ Len(spaces) \in Nat
  BY <1>1, <1>5
<1>15. get_active_workspace_on(m) = First(S)
  BY DEF get_active_workspace_on
<1> HIDE DEF S
<1> QED BY <1>13, <1>14, <1>15, FirstOK

\* An orphan has a place.
LEMMA TargetThere ==
  ASSUME PerMonitor, WinInv, ListInv, evq = <<>>, NEW o
  PROVE  Target(o) # 0 /\ Target(o) \in 0..Len(spaces)
<1>1. get_window_monitor(o.win.h) \in plugged \cup {"none"}
  BY DEF get_window_monitor
<1>2. get_active_workspace_on(get_window_monitor(o.win.h)) # 0
  BY <1>1, ActiveThere
<1>3. spaces \in Seq(Places)
  BY DEF ListInv, ListsOK
<1> QED BY <1>2, <1>3, Positions DEF Target

\* One round of the loop of adopt_orphan_windows().
AdoptionRound(F, i) == IF i = 0 THEN spaces ELSE Adopted(F[i - 1], orphans[i])

\* The recursion of Adoption has a solution: its value follows round by round.
LEMMA AdoptionRounds ==
  ASSUME Len(orphans) \in Nat
  PROVE  \A i \in 0..Len(orphans) : Adoption[i] = AdoptionRound(Adoption, i)
<1> DEFINE Sol(F, n) == F = [i \in 0..n |-> AdoptionRound(F, i)]
           T == {n \in Nat : n <= Len(orphans) => \E F : Sol(F, n)}
<1>1. 0 \in T
  <2> DEFINE F == [i \in 0..0 |-> spaces]
  <2>1. Sol(F, 0)
    BY DEF AdoptionRound
  <2> QED BY <2>1
<1>2. ASSUME NEW n \in Nat, NEW G, Sol(G, n)
      PROVE  \A i \in 0..n : G[i] = AdoptionRound(G, i)
  <2> DEFINE H == [i \in 0..n |-> AdoptionRound(G, i)]
  <2>1. G = H
    BY <1>2
  <2>2. \A i \in 0..n : H[i] = AdoptionRound(G, i)
    OBVIOUS
  <2> HIDE DEF H
  <2> QED BY <2>1, <2>2
<1>3. ASSUME NEW n \in Nat, n \in T PROVE n + 1 \in T
  <2> SUFFICES ASSUME n + 1 <= Len(orphans) PROVE \E F : Sol(F, n + 1)
    OBVIOUS
  <2>1. PICK G : Sol(G, n)
    BY <1>3
  <2>2. \A i \in 0..n : G[i] = AdoptionRound(G, i)
    BY <1>2, <2>1
  <2> DEFINE F == [i \in 0..(n+1) |-> IF i <= n THEN G[i] ELSE AdoptionRound(G, n+1)]
  <2>3. \A i \in 0..n : F[i] = G[i]
    OBVIOUS
  <2>4. F[n+1] = AdoptionRound(G, n+1)
    OBVIOUS
  <2>5. \A i \in 0..(n+1) : AdoptionRound(F, i) = AdoptionRound(G, i)
    <3> HIDE DEF F
    <3>1. \A i \in 0..(n+1) : i # 0 => F[i-1] = G[i-1]
      BY <2>3
    <3> QED BY <3>1 DEF AdoptionRound
  <2>6. \A i \in 0..(n+1) : F[i] = AdoptionRound(F, i)
    <3> HIDE DEF F
    <3> QED BY <2>2, <2>3, <2>4, <2>5
  <2>7. F = [i \in 0..(n+1) |-> F[i]]
    OBVIOUS
  <2>8. Sol(F, n + 1)
    <3> HIDE DEF F
    <3> QED BY <2>6, <2>7
  <2> QED BY <2>8
<1>4. Len(orphans) \in T
  <2> HIDE DEF T
  <2> QED BY <1>1, <1>3, SetInduction
<1>5. \E F : Sol(F, Len(orphans))
  BY <1>4
<1> DEFINE C == CHOOSE G : Sol(G, Len(orphans))
<1>6. Sol(C, Len(orphans))
  <2> HIDE DEF Sol
  <2> QED BY <1>5, Zenon
<1>7. Adoption = C
  BY DEF Adoption, AdoptionRound
<1> HIDE DEF C, Sol
<1> QED BY <1>2, <1>6, <1>7

\* One orphan is placed, and nothing else changes.
LEMMA AdoptedOK ==
  ASSUME NEW sp \in Seq(Places), NEW o \in Orphans, Target(o) # 0, Target(o) \in 0..Len(sp)
  PROVE  /\ Adopted(sp, o) \in Seq(Places) /\ Alike(sp, Adopted(sp, o))
         /\ o.win = Win(o.win.h) => Holds(Adopted(sp, o), o.win)
         /\ \A x : Holds(sp, x) => Holds(Adopted(sp, o), x)
<1>1. CASE o.win # Win(o.win.h)
  BY <1>1 DEF Adopted, Alike
<1>2. CASE o.win = Win(o.win.h)
  <2> DEFINE i == Target(o)
             win == o.win
             sq == Put(sp, win, i)
  <2>1. Adopted(sp, o) = sq
    BY <1>2 DEF Adopted
  <2>2. win \in Wins
    BY DEF Orphans
  <2> HIDE DEF i
  <2>3. i \in 1..Len(sp)
    BY DEF i
  <2> HIDE DEF win
  <2>4. sq \in Seq(Places) /\ Alike(sp, sq) /\ Keeping(sp, sq, {}) /\ Holds(sq, win)
    BY <2>2, <2>3, PutOK
  <2> HIDE DEF sq
  <2>5. \A x : Holds(sp, x) => Holds(sq, x)
    BY <2>4, HoldsKept
  <2> QED BY <2>1, <2>4, <2>5 DEF win
<1> QED BY <1>1, <1>2

\* After n rounds.
AdoptedSo(n) ==
  /\ Adoption[n] \in Seq(Places) /\ Alike(spaces, Adoption[n])
  /\ \A x : Holds(spaces, x) => Holds(Adoption[n], x)
  /\ \A i \in 1..n : orphans[i].win = Win(orphans[i].win.h) => Holds(Adoption[n], orphans[i].win)

\* No orphan is left behind, round by round.
LEMMA AllAdopted ==
  ASSUME PerMonitor, WinInv, ListInv, evq = <<>>
  PROVE  AdoptedSo(Len(orphans))
<1>1. spaces \in Seq(Places) /\ orphans \in Seq(Orphans) /\ Len(orphans) \in Nat
  BY DEF ListInv, ListsOK
<1>2. \A i \in 0..Len(orphans) : Adoption[i] = AdoptionRound(Adoption, i)
  BY <1>1, AdoptionRounds
<1> DEFINE T == {n \in Nat : n <= Len(orphans) => AdoptedSo(n)}
<1>3. 0 \in T
  <2>1. Adoption[0] = spaces
    BY <1>1, <1>2 DEF AdoptionRound
  <2>2. AdoptedSo(0)
    BY <1>1, <2>1 DEF AdoptedSo, Alike
  <2> QED BY <2>2
<1>4. ASSUME NEW n \in Nat, n \in T PROVE n + 1 \in T
  <2> SUFFICES ASSUME n + 1 <= Len(orphans) PROVE AdoptedSo(n + 1)
    OBVIOUS
  <2> DEFINE sp == Adoption[n]
             k == n + 1
             sq == Adoption[k]
             o == orphans[k]
  <2>1. AdoptedSo(n)
    BY <1>1, <1>4
  <2>2. k \in 1..Len(orphans) /\ k \in 0..Len(orphans) /\ k # 0 /\ k - 1 = n /\ \A i \in 1..k : i # k => i \in 1..n
    BY <1>1
  <2>3. o \in Orphans
    <3> HIDE DEF k
    <3> QED BY <1>1, <2>2
  <2>4. sq = Adopted(sp, o)
    <3> HIDE DEF k
    <3>1. sq = AdoptionRound(Adoption, k)
      BY <1>2, <2>2
    <3> QED BY <2>2, <3>1 DEF AdoptionRound
  <2> HIDE DEF k, sq, o, sp
  <2>5. /\ sp \in Seq(Places) /\ Alike(spaces, sp) /\ (\A x : Holds(spaces, x) => Holds(sp, x))
        /\ \A i \in 1..n : orphans[i].win = Win(orphans[i].win.h) => Holds(sp, orphans[i].win)
    BY <2>1 DEF AdoptedSo, sp
  <2>6. Target(o) # 0 /\ Target(o) \in 0..Len(sp)
    <3>1. Len(sp) = Len(spaces)
      BY <2>5 DEF Alike
    <3> QED BY <3>1, TargetThere
  <2>7. /\ sq \in Seq(Places) /\ Alike(sp, sq) /\ (\A x : Holds(sp, x) => Holds(sq, x))
        /\ o.win = Win(o.win.h) => Holds(sq, o.win)
    BY <2>3, <2>4, <2>5, <2>6, AdoptedOK
  <2>8. Alike(spaces, sq)
    BY <2>5, <2>7 DEF Alike
  <2>9. \A i \in 1..k : orphans[i].win = Win(orphans[i].win.h) => Holds(sq, orphans[i].win)
    <3>1. ASSUME NEW i \in 1..k, i # k, orphans[i].win = Win(orphans[i].win.h) PROVE Holds(sq, orphans[i].win)
      BY <2>2, <2>5, <2>7, <3>1
    <3>2. orphans[k].win = Win(orphans[k].win.h) => Holds(sq, orphans[k].win)
      BY <2>7 DEF o
    <3> QED BY <3>1, <3>2
  <2>10. AdoptedSo(k)
    BY <2>5, <2>7, <2>8, <2>9 DEF AdoptedSo, sq
  <2> QED BY <2>10 DEF k
<1>5. Len(orphans) \in T
  <2> HIDE DEF T
  <2> QED BY <1>1, <1>3, <1>4, SetInduction
<1> QED BY <1>1, <1>5

\* Every orphan that is open gets a workspace.
LEMMA AdoptLists ==
  ASSUME PerMonitor, WinInv, ListInv, adopt_orphan_windows
  PROVE  ListInv'
<1>1. /\ evq = <<>> /\ idle # <<>> /\ idle' = Tail(idle) /\ UNCHANGED <<evq, plugged, active, wsgroup, gouts, winof, stack>>
      /\ IF orphans = <<>> \/ spaces = <<>> THEN UNCHANGED <<spaces, orphans>>
         ELSE spaces' = Adoption[Len(orphans)] /\ orphans' = <<>>
  BY DEF adopt_orphan_windows, NextIdle, compositor, groups
<1>2. /\ spaces \in Seq(Places) /\ orphans \in Seq(Orphans) /\ idle \in Seq(Idles) /\ AllSafe /\ winof \in [Handles -> Nat]
  BY DEF ListInv, ListsOK, WinInv, CachesOK
<1>3. idle' \in Seq(Idles)
  BY <1>1, <1>2
<1>4. CASE orphans = <<>> \/ spaces = <<>>
  <2>1. UNCHANGED <<spaces, orphans, winof, stack>>
    BY <1>1, <1>4
  <2>2. ASSUME NEW x \in Handles, winof'[x] # 0
        PROVE  Safe(spaces', orphans', idle', stack', [h |-> x, n |-> winof'[x]])
    <3>1. Safe(spaces, orphans, idle, stack, Win(x)) /\ Win(x) = [h |-> x, n |-> winof'[x]]
      BY <1>2, <2>1, <2>2 DEF AllSafe, Win
    <3>2. Waits(orphans, Win(x)) => spaces = <<>>
      <4>1. orphans = <<>> => 1..Len(orphans) = {}
        OBVIOUS
      <4> QED BY <1>4, <4>1 DEF Waits
    <3> QED BY <2>1, <3>1, <3>2 DEF Safe
  <2>3. AllSafe'
    BY <2>2 DEF AllSafe, Win
  <2> QED BY <1>1, <1>2, <1>3, <2>1, <2>3, LoopLists DEF Kept
<1>5. CASE ~(orphans = <<>> \/ spaces = <<>>)
  <2> DEFINE sq == Adoption[Len(orphans)]
  <2>1. spaces' = sq /\ orphans' = <<>>
    BY <1>1, <1>5
  <2>2. /\ sq \in Seq(Places) /\ Alike(spaces, sq) /\ (\A x : Holds(spaces, x) => Holds(sq, x))
        /\ \A i \in 1..Len(orphans) : orphans[i].win = Win(orphans[i].win.h) => Holds(sq, orphans[i].win)
    BY <1>1, AllAdopted DEF AdoptedSo
  <2> HIDE DEF sq
  <2>3. ASSUME NEW x \in Handles, winof'[x] # 0
        PROVE  Safe(spaces', orphans', idle', stack', [h |-> x, n |-> winof'[x]])
    <3>1. Safe(spaces, orphans, idle, stack, Win(x)) /\ Win(x) = [h |-> x, n |-> winof'[x]]
      BY <1>1, <1>2, <2>3 DEF AllSafe, Win
    <3>2. Waits(orphans, Win(x)) => Holds(sq, Win(x))
      <4>1. \A i \in 1..Len(orphans) : orphans[i].win = Win(x) => orphans[i].win = Win(orphans[i].win.h)
        BY DEF Win
      <4> QED BY <2>2, <4>1 DEF Waits
    <3>3. Holds(sq, Win(x)) \/ Opening(stack', Win(x))
      BY <1>1, <2>2, <3>1, <3>2 DEF Safe
    <3> QED BY <2>1, <3>1, <3>3 DEF Safe
  <2>4. AllSafe'
    BY <2>3 DEF AllSafe, Win
  <2>5. Kept(spaces, spaces')
    BY <2>1, <2>2, AlikeKept
  <2>6. spaces' \in Seq(Places) /\ orphans' \in Seq(Orphans)
    BY <2>1, <2>2
  <2> QED BY <1>1, <1>3, <2>4, <2>5, <2>6, LoopLists
<1> QED BY <1>4, <1>5

----------------------------------------------------------------------------
(* No window is lost *)

\* The shell has every workspace at the start, wherever the order of groups.
LEMMA SpacesAtStart ==
  ASSUME NEW order \in SetToSeqs(Groups), NEW s,
         s = FlattenSeq([i \in 1..Len(order) |-> SpacesOf[order[i]]])
  PROVE  s \in Seq(Spaces) /\ \A g \in Groups : \A w \in Range(SpacesOf[g]) : \E i \in 1..Len(s) : s[i] = w
<1> DEFINE c == Cardinality(Groups)
           q == [i \in 1..Len(order) |-> SpacesOf[order[i]]]
<1>1. /\ order \in [1..c -> Groups] /\ \A i, j \in 1..c : i # j => order[i] # order[j]
  BY DEF SetToSeqs
<1>2. c \in Nat
  BY FiniteAssumption, FS_CardinalityType
<1>3. \A g \in Groups : \E i \in 1..c : order[i] = g
  BY <1>1, FiniteAssumption, AllOfThem
<1> HIDE DEF c
<1>4. Len(order) = c
  BY <1>1, <1>2
<1>5. q = [i \in 1..c |-> q[i]] /\ \A i \in 1..c : q[i] = SpacesOf[order[i]] /\ q[i] \in Seq(Spaces)
  <2>1. \A i \in 1..c : SpacesOf[order[i]] \in Seq(Spaces)
    BY <1>1, SpacesOK
  <2> QED BY <1>4, <2>1
<1> HIDE DEF q
<1>6. q \in Seq(Seq(Spaces)) /\ Len(q) = c
  BY <1>2, <1>5, FunSeq
<1>7. s = FlattenSeq(q)
  BY DEF q
<1>8. s \in Seq(Spaces)
  BY <1>6, <1>7, Flat
<1>9. ASSUME NEW g \in Groups, NEW w \in Range(SpacesOf[g]) PROVE \E i \in 1..Len(s) : s[i] = w
  <2>1. PICK i \in 1..c : order[i] = g
    BY <1>3
  <2>2. q[i] = SpacesOf[g] /\ i \in 1..Len(q)
    BY <1>5, <1>6, <2>1
  <2>3. PICK d \in Nat : Within(q[i], FlattenSeq(q), d)
    BY <1>6, <2>2, FlatParts
  <2>4. PICK j \in 1..Len(SpacesOf[g]) : SpacesOf[g][j] = w
    BY SpacesOK, InRange
  <2>5. d + j \in 1..Len(s) /\ s[d + j] = w
    BY <1>7, <2>2, <2>3, <2>4 DEF Within
  <2> QED BY <2>5
<1> QED BY <1>8, <1>9

\* The shell starts with the workspaces of all groups, and no windows.
LEMMA ListStart == ASSUME PerMonitor, WinInit PROVE ListInv
<1>1. /\ plugged = Outputs /\ active = [g \in Groups |-> SpacesOf[g][1]] /\ evq = <<>>
      /\ wsgroup = [w \in Spaces |-> CHOOSE g \in Groups : w \in Range(SpacesOf[g])] /\ gouts = OutsOf
      /\ winof = [h \in Handles |-> 0] /\ orphans = <<>> /\ idle = <<>> /\ stack = <<>>
  BY DEF WinInit
<1>2. PICK order \in SetToSeqs(Groups) :
        LET s == FlattenSeq([i \in 1..Len(order) |-> SpacesOf[order[i]]])
        IN spaces = [i \in 1..Len(s) |-> [w |-> s[i], act |-> \E g \in Groups : s[i] = SpacesOf[g][1], wl |-> <<>>]]
  BY DEF WinInit
<1> DEFINE s == FlattenSeq([i \in 1..Len(order) |-> SpacesOf[order[i]]])
<1>3. /\ s \in Seq(Spaces) /\ \A g \in Groups : \A w \in Range(SpacesOf[g]) : \E i \in 1..Len(s) : s[i] = w
  BY SpacesAtStart
<1>4. spaces = [i \in 1..Len(s) |-> [w |-> s[i], act |-> \E g \in Groups : s[i] = SpacesOf[g][1], wl |-> <<>>]]
  BY <1>2
<1> HIDE DEF s
<1>5. Len(s) \in Nat /\ \A i \in 1..Len(s) : s[i] \in Spaces
  BY <1>3
<1>6. ASSUME NEW i \in 1..Len(s)
      PROVE  /\ spaces[i] \in Places /\ spaces[i].w = s[i]
             /\ (\E g \in Groups : s[i] = SpacesOf[g][1]) => spaces[i].act
  <2>1. spaces[i] = [w |-> s[i], act |-> \E g \in Groups : s[i] = SpacesOf[g][1], wl |-> <<>>]
    BY <1>4
  <2>2. (\E g \in Groups : s[i] = SpacesOf[g][1]) \in BOOLEAN
    OBVIOUS
  <2>3. <<>> \in Seq(Wins)
    OBVIOUS
  <2> DEFINE a == \E g \in Groups : s[i] = SpacesOf[g][1]
  <2>4. spaces[i] = [w |-> s[i], act |-> a, wl |-> <<>>] /\ a \in BOOLEAN
    BY <2>1
  <2>5. spaces[i] \in Places /\ spaces[i].w = s[i] /\ spaces[i].act = a
    <3> HIDE DEF a
    <3> QED BY <1>5, <2>3, <2>4 DEF Places
  <2> QED BY <2>5
<1>7. spaces \in Seq(Places) /\ Len(spaces) = Len(s)
  <2>1. spaces = [i \in 1..Len(s) |-> spaces[i]]
    BY <1>4
  <2> QED BY <1>5, <1>6, <2>1, Tabled
<1>8. \A g \in Groups : SpacesOf[g][1] \in Range(SpacesOf[g])
  <2>1. \A g \in Groups : SpacesOf[g] \in Seq(Spaces) /\ SpacesOf[g] # <<>>
    BY GroupsAssumption
  <2>2. \A g \in Groups : 1 \in 1..Len(SpacesOf[g])
    BY <2>1
  <2> QED BY <2>1, <2>2, InRange
<1>9. ASSUME NEW g \in Groups, NEW w \in Range(SpacesOf[g])
      PROVE  w \in Spaces /\ ListedIn(spaces, w) /\ wsgroup[w] = g
  <2>1. w \in Spaces
    BY SpacesOK
  <2>2. ListedIn(spaces, w)
    BY <1>3, <1>6, <1>7 DEF ListedIn
  <2>3. \A k \in Groups : w \in Range(SpacesOf[k]) => k = g
    BY OwnOutput
  <2>4. (CHOOSE k \in Groups : w \in Range(SpacesOf[k])) = g
    BY <2>3
  <2> QED BY <1>1, <2>1, <2>2, <2>4
<1>10. ASSUME NEW g \in Groups PROVE ActiveIn(spaces, active[g])
  <2>1. active[g] = SpacesOf[g][1]
    BY <1>1
  <2>2. PICK i \in 1..Len(s) : s[i] = SpacesOf[g][1]
    BY <1>3, <1>8
  <2> QED BY <1>6, <1>7, <2>1, <2>2 DEF ActiveIn
<1>11. 1..Len(evq) = {}
  BY <1>1
<1>12. SpacesTold
  <2>1. \A U : Clean(evq, U)
    BY <1>11 DEF Clean
  <2>2. \A g \in Groups : gouts[g] = OutsOf[g]
    BY <1>1
  <2> QED BY <1>9, <1>10, <2>1, <2>2 DEF SpacesTold, AllTold, OutTold, ActiveTold, SpaceTold, GroupTold
<1>13. ListsOK
  <2>1. wsgroup \in [Spaces -> Groups \cup {"none"}]
    <3>1. ASSUME NEW w \in Spaces PROVE (CHOOSE g \in Groups : w \in Range(SpacesOf[g])) \in Groups
      <4>1. \E g \in Groups : w \in Range(SpacesOf[g])
        BY DEF Spaces
      <4> QED BY <4>1
    <3> QED BY <1>1, <3>1
  <2> QED BY <1>1, <1>7, <2>1, GroupsAssumption DEF ListsOK
<1>14. EvsRight
  BY <1>11 DEF EvsRight
<1>15. Compos
  BY <1>1, <1>8 DEF Compos, PerMonitor
<1>16. AllSafe
  BY <1>1 DEF AllSafe
<1> QED BY <1>12, <1>13, <1>14, <1>15, <1>16 DEF ListInv

\* Every step of the compositor, of the shell and of the user keeps it.
LEMMA ListStep == ASSUME PerMonitor, WinInv, ListInv, [WinNext]_winVars PROVE ListInv'
<1>1. CASE UNCHANGED winVars
  BY <1>1, AskedLists
<1>2. ASSUME Dispatch PROVE ListInv'
  BY <1>2, HandleLists, OutputsLists, JoinsLists, NameLists, StateLists, RemovedLists, AppIdLists, ClosedLists DEF Dispatch
<1>3. CASE WinNext
  BY <1>2, <1>3, WindowLists, SwitchLists, PlugLists, UnplugLists, ReturnLists, AdoptLists, FollowLists, MoveLists,
     AskedLists DEF WinNext
<1> QED BY <1>1, <1>3

\* A window that is safe is not lost.
LEMMA ListsShow == ASSUME ListInv PROVE NoWindowLost
<1> SUFFICES ASSUME NEW h \in Handles, winof[h] # 0
             PROVE  \/ workspace_of(Win(h)) # 0
                    \/ /\ \E i \in 1..Len(orphans) : orphans[i].win = Win(h)
                       /\ spaces = <<>> \/ \E i \in 1..Len(idle) : idle[i].k = "ws"
                    \/ \E i \in 1..Len(stack) : stack[i].k = "opening" /\ stack[i].h = h /\ stack[i].id = winof[h]
  BY DEF NoWindowLost
<1>1. Safe(spaces, orphans, idle, stack, Win(h))
  BY DEF ListInv, AllSafe
<1>2. Holds(spaces, Win(h)) => workspace_of(Win(h)) # 0
  BY Positions DEF ListInv, ListsOK
<1>3. Win(h).h = h /\ Win(h).n = winof[h]
  BY DEF Win
<1> QED BY <1>1, <1>2, <1>3 DEF Safe, Waits, HasWs, Opening

\* Where every output has a group of workspaces of its own, a window that is
\* open is in a workspace, waits for one that it will get, or is in the midst of
\* add_running_app(): on_workspace_destroyed, adopt_orphan_windows,
\* follow_window_monitor and place_window lose none, whatever comes and goes.
THEOREM NoWindowIsLost == ASSUME PerMonitor PROVE WinSpec => []NoWindowLost
<1>1. WinInit => ListInv
  BY ListStart
<1>2. WinInv /\ ListInv /\ [WinNext]_winVars => ListInv'
  BY ListStep
<1>3. ListInv => NoWindowLost
  BY ListsShow
<1> QED BY <1>1, <1>2, <1>3, WindowsInvariant, PTL DEF WinSpec

----------------------------------------------------------------------------
(* Types *)

\* What the other invariants leave out.
OthersOK == /\ ctxgroup \in Groups \cup {"none"} /\ changes \in 0..MaxChanges
            /\ focused \in Handles \cup {"none"} /\ minimized \subseteq Handles

\* An event is of a group, or of a window.
LEMMA EvTypes ==
  ASSUME WinInv, evq # <<>>
  PROVE  /\ e.ev \in {"group", "gremoved"} => e.g \in Groups
         /\ e.ev \in {"state", "app_id", "closed"} => e.h \in Handles
<1>1. e \in Evs
  BY Shorter DEF WinInv, QueuesOK, e
<1> QED BY <1>1 DEF Evs, HandleEvs, OtherEvs

\* Changes from outside are counted up to the bound.
LEMMA Counted == ASSUME WinInv, OthersOK, [WinNext]_winVars PROVE changes' \in 0..MaxChanges
<1>0. changes \in 0..MaxChanges /\ MaxChanges \in Nat
  BY WinBoundsAssumption DEF OthersOK
<1>1. ASSUME NEW k, Change(k) PROVE changes' \in 0..MaxChanges
  BY <1>0, <1>1 DEF Change
<1>2. ASSUME NEW k, Event(k) PROVE changes' = changes
  BY <1>2 DEF Event, compositor
<1>3. CASE Dispatch
  BY <1>0, <1>2, <1>3 DEF Dispatch, toplevel_manager_toplevel, toplevel_handle_title, toplevel_handle_app_id,
     toplevel_handle_output_enter, toplevel_handle_output_leave, toplevel_handle_state, toplevel_handle_closed,
     toplevel_handle_parent, tiling_handle_tileable, tiling_handle_geometry, tiling_handle_workarea, roundtrip_done,
     workspace_manager_workspace_group, workspace_group_output, workspace_group_workspace, workspace_group_removed,
     workspace_handle_name, workspace_handle_state, workspace_handle_removed
<1>4. CASE \/ UNCHANGED winVars \/ answer \/ Return \/ adopt_orphan_windows \/ follow_window_monitor
           \/ \E h \in Handles : unmap(h)
  <2>1. changes' = changes
    BY <1>4 DEF winVars, compositor, answer, Return, adopt_orphan_windows, follow_window_monitor, unmap
  <2> QED BY <1>0, <2>1
<1>5. CASE \E h \in Handles, o \in Outputs, named \in BOOLEAN : map(h, o, named)
  <2>1. changes' = changes \/ Change("unnamed")
    BY <1>5 DEF map
  <2> QED BY <1>0, <1>1, <2>1
<1>6. CASE \/ \E h \in Handles, o \in Outputs : drag(h, o)
           \/ \E h \in Handles : reparent(h) \/ window_request(h)
           \/ \E h \in Handles, a, m \in BOOLEAN : restate(h, a, m)
           \/ \E g \in Groups, w \in Spaces : switch(g, w)
           \/ \E o, to \in Outputs : unplug(o, to)
           \/ \E o \in Outputs : plug(o)
           \/ \E h \in Handles, n \in 1..Cardinality(Spaces) : move_window_to_workspace_by_index(h, n)
           \/ \E h \in Handles : get_window_geometry(h) \/ get_window_workarea(h) \/ window_is_tileable(h)
  <2>1. \E k : Change(k)
    BY <1>6, Zenon DEF drag, reparent, window_request, restate, switch, unplug, plug, move_window_to_workspace_by_index,
       get_window_geometry, get_window_workarea, window_is_tileable, query
  <2> QED BY <1>1, <2>1
<1> QED BY <1>3, <1>4, <1>5, <1>6 DEF WinNext

\* The group, the focus and the minimized windows change with events only.
LEMMA OthersStep == ASSUME WinInv, OthersOK, [WinNext]_winVars PROVE OthersOK'
<1>0. changes' \in 0..MaxChanges
  BY Counted
<1>1. ASSUME UNCHANGED <<ctxgroup, focused, minimized>> PROVE OthersOK'
  BY <1>0, <1>1 DEF OthersOK
<1>2. CASE Dispatch
  <2>1. evq # <<>>
    BY <1>2 DEF Dispatch, Event, toplevel_manager_toplevel, toplevel_handle_title, toplevel_handle_app_id,
     toplevel_handle_output_enter, toplevel_handle_output_leave, toplevel_handle_state, toplevel_handle_closed,
     toplevel_handle_parent, tiling_handle_tileable, tiling_handle_geometry, tiling_handle_workarea, roundtrip_done,
     workspace_manager_workspace_group, workspace_group_output, workspace_group_workspace, workspace_group_removed,
     workspace_handle_name, workspace_handle_state, workspace_handle_removed
  <2>2. CASE toplevel_handle_state
    <3>1. e.h \in Handles
      BY <2>1, <2>2, EvTypes DEF toplevel_handle_state, Event
    <3> QED BY <1>0, <2>2, <3>1 DEF toplevel_handle_state, OthersOK, groups
  <2>3. CASE toplevel_handle_app_id
    BY <1>0, <2>3 DEF toplevel_handle_app_id, OthersOK, groups
  <2>4. CASE toplevel_handle_closed
    <3>1. focused' = focused \/ focused' = "none"
      BY <2>4 DEF toplevel_handle_closed, remove_running_app
    <3> QED BY <1>0, <2>4, <3>1 DEF toplevel_handle_closed, OthersOK, groups
  <2>5. CASE workspace_manager_workspace_group \/ workspace_group_removed
    <3>1. e.g \in Groups
      BY <2>1, <2>5, EvTypes DEF workspace_manager_workspace_group, workspace_group_removed, Event
    <3>2. ctxgroup' \in {ctxgroup, e.g, "none"} /\ UNCHANGED focus
      BY <2>5 DEF workspace_manager_workspace_group, workspace_group_removed
    <3> QED BY <1>0, <3>1, <3>2 DEF OthersOK, focus
  <2>6. CASE \/ toplevel_manager_toplevel \/ toplevel_handle_title \/ toplevel_handle_output_enter
             \/ toplevel_handle_output_leave \/ toplevel_handle_parent \/ tiling_handle_tileable
             \/ tiling_handle_geometry \/ tiling_handle_workarea \/ roundtrip_done
    <3>1. UNCHANGED <<groups, focus>>
      BY <2>6, Zenon DEF toplevel_manager_toplevel, toplevel_handle_title, toplevel_handle_output_enter,
         toplevel_handle_output_leave, toplevel_handle_parent, tiling_handle_tileable,
         tiling_handle_geometry, tiling_handle_workarea, roundtrip_done, Shell
    <3> QED BY <1>1, <3>1 DEF groups, focus
  <2>7. CASE \/ workspace_group_output \/ workspace_group_workspace
             \/ workspace_handle_name \/ workspace_handle_state \/ workspace_handle_removed
    <3>1. UNCHANGED <<ctxgroup, focus>>
      BY <2>7, Zenon DEF workspace_group_output, workspace_group_workspace, workspace_handle_name,
         workspace_handle_state, workspace_handle_removed, groups
    <3> QED BY <1>1, <3>1 DEF focus
  <2> QED BY <1>2, <2>2, <2>3, <2>4, <2>5, <2>6, <2>7 DEF Dispatch
<1>3. CASE \/ \E h \in Handles, o \in Outputs : drag(h, o)
           \/ \E h \in Handles, o \in Outputs, named \in BOOLEAN : map(h, o, named)
           \/ \E h \in Handles : unmap(h) \/ reparent(h) \/ window_request(h)
           \/ \E h \in Handles, a, m \in BOOLEAN : restate(h, a, m)
           \/ \E g \in Groups, w \in Spaces : switch(g, w)
           \/ \E o, to \in Outputs : unplug(o, to)
           \/ \E o \in Outputs : plug(o)
           \/ answer \/ UNCHANGED winVars
  <2>1. UNCHANGED <<groups, focus>>
    BY <1>3, Zenon DEF drag, map, unmap, reparent, window_request, Request, restate, switch, unplug, plug, answer,
       Shell, winVars
  <2> QED BY <1>1, <2>1 DEF groups, focus
<1>4. CASE \/ Return \/ adopt_orphan_windows \/ follow_window_monitor
           \/ \E h \in Handles, n \in 1..Cardinality(Spaces) : move_window_to_workspace_by_index(h, n)
           \/ \E h \in Handles : get_window_geometry(h) \/ get_window_workarea(h) \/ window_is_tileable(h)
  <2>1. UNCHANGED <<groups, focus>>
    BY <1>4, Zenon DEF Return, adopt_orphan_windows, follow_window_monitor, move_window_to_workspace_by_index,
       get_window_geometry, get_window_workarea, window_is_tileable, query
  <2> QED BY <1>1, <2>1 DEF groups, focus
<1> QED BY <1>2, <1>3, <1>4 DEF WinNext

\* The variables keep their types.
THEOREM WinTypeCorrect == ASSUME PerMonitor PROVE WinSpec => []WinTypeOK
<1>1. WinInit => OthersOK
  BY WinBoundsAssumption DEF WinInit, OthersOK
<1>2. WinInv /\ OthersOK /\ [WinNext]_winVars => OthersOK'
  BY OthersStep
<1>3. WinInit => ListInv
  BY ListStart
<1>4. WinInv /\ ListInv /\ [WinNext]_winVars => ListInv'
  BY ListStep
<1>5. WinInv /\ ListInv /\ OthersOK => WinTypeOK
  <2> SUFFICES ASSUME WinInv, ListInv, OthersOK PROVE WinTypeOK
    OBVIOUS
  <2>1. \A h \in Handles : DOMAIN geom[h] = DOMAIN NoEntry
    BY DEF WinInv, CachesOK, Entries, NoEntry
  <2>2. ASSUME NEW i \in 1..Len(spaces)
        PROVE  spaces[i].w \in Spaces \cup {Phantom} /\ Range(spaces[i].wl) \subseteq Wins
    <3>1. spaces[i] \in Places
      BY DEF ListInv, ListsOK
    <3>2. spaces[i].w \in Spaces \cup {Phantom} /\ spaces[i].wl \in Seq(Wins)
      BY <3>1 DEF Places
    <3> QED BY <3>2, InRange
  <2> QED BY <2>1, <2>2 DEF WinTypeOK, WinInv, QueuesOK, CachesOK, ListInv, ListsOK, OthersOK, Tops, Wins
<1> QED BY <1>1, <1>2, <1>3, <1>4, <1>5, WindowsInvariant, PTL DEF WinSpec
=============================================================================
