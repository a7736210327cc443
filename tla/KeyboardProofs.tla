--------------------------- MODULE KeyboardProofs ----------------------------
(***************************************************************************)
(* Theorems about the two virtual keyboards of the shell.                  *)
(*                                                                         *)
(* InputMethod, for every set of keys and any number of key events: what   *)
(* the keyboard holds is recorded, the grab is as wanted, keys stay in     *)
(* order.                                                                  *)
(*                                                                         *)
(* TypeText, for every set of texts and layouts: the queue never stalls,   *)
(* and as long as the layout is not changed between an upload and its key  *)
(* presses, and the user's own layout can be uploaded, it implements       *)
(* Typing.                                                                 *)
(***************************************************************************)
EXTENDS InputMethod, TypeText, SequenceTheorems, FiniteSetTheorems, TLAPS

------------------------------------------------------------------------------
(* InputMethod.                                                             *)

Keyboard == [grab : BOOLEAN, forwarded : SUBSET Tracked, down : SUBSET Keys, mods : BOOLEAN]

\* What holds of the keyboard state whatever the helpers did to it before: the
\* held keys are recorded, without a grab no modifier is held, and without a
\* keymap nothing was ever sent.
KbOK(b) ==
  /\ b \in Keyboard
  /\ b.down \cap Tracked \subseteq b.forwarded
  /\ ~b.grab => ~b.mods
  /\ ~kmset => b.down = {} /\ ~b.mods

\* The order of the keys that wait: each one is younger than the one before,
\* all are younger than what was dealt with, and nothing waits unless the
\* engine has been asked.
OrderOK ==
  /\ asked = NoKey => queue = <<>>
  /\ asked # NoKey => asked.n > last
  /\ \A i \in DOMAIN queue : queue[i].n > asked.n /\ queue[i].n <= events
  /\ \A i, j \in DOMAIN queue : i < j => queue[i].n < queue[j].n
  /\ asked.n <= events /\ last <= events

\* Before the start there is nothing to grab.
StartOK == im = "none" => ~kb.grab /\ ~current.active

GrabInv == ImTypeOK /\ KbOK(kb) /\ OrderOK /\ GrabAsWanted /\ StartOK

------------------------------------------------------------------------------
(* The helpers of ime.c keep KbOK.                                          *)

\* Forwarding a key keeps the record of held keys complete.
LEMMA ForwardOK ==
  ASSUME KbOK(kb), NEW b, KbOK(b), NEW k \in Keys, NEW p \in BOOLEAN
  PROVE  KbOK(forward_key(b, k, p)) /\ forward_key(b, k, p).grab = b.grab
BY KeysAssumption DEF KbOK, Keyboard, forward_key, send_forward, SetKey

\* A key beyond KEY_COUNT is sent without a record and does no harm to it.
LEMMA SendOK ==
  ASSUME NEW b, KbOK(b), NEW k \in Keys \ Tracked, NEW p \in BOOLEAN
  PROVE  KbOK(send_forward(b, k, p)) /\ send_forward(b, k, p).grab = b.grab
BY DEF KbOK, Keyboard, send_forward, SetKey

\* Typing a key at once is two forwards.
LEMMA TapOK ==
  ASSUME KbOK(kb), NEW b, KbOK(b), NEW k \in Keys
  PROVE  KbOK(Tap(b, k)) /\ Tap(b, k).grab = b.grab
<1>1. KbOK(forward_key(b, k, TRUE)) /\ forward_key(b, k, TRUE).grab = b.grab
  BY ForwardOK
<1>. QED
  BY <1>1, ForwardOK DEF Tap

\* update_grab() at depth 0 establishes the grab that is wanted, and giving
\* the grab up leaves no key held.
LEMMA UpdateGrabOK ==
  ASSUME NEW b, KbOK(b), NEW w \in BOOLEAN, NEW active \in BOOLEAN
  PROVE  LET c == update_grab(b, 0, w, active)
         IN  /\ KbOK(c)
             /\ im = "live" => (c.grab <=> w /\ active)
             /\ b.grab /\ ~c.grab => c.down \cap Tracked = {}
             /\ ~c.grab /\ b.down \cap Tracked = {} => c.down \cap Tracked = {}
<1> DEFINE grab == w /\ active /\ im = "live"
<1>1. CASE ~grab /\ b.grab
  <2>1. update_grab(b, 0, w, active) = [release_forwarded_keys(b) EXCEPT !.grab = FALSE]
    BY <1>1 DEF update_grab
  <2>. QED
    BY <1>1, <2>1, ZenonT(30) DEF KbOK, Keyboard, release_forwarded_keys
<1>2. CASE ~(~grab /\ b.grab)
  <2>1. update_grab(b, 0, w, active) = [b EXCEPT !.grab = grab]
    BY <1>2 DEF update_grab
  <2>. QED
    BY <1>2, <2>1 DEF KbOK, Keyboard
<1>. QED
  BY <1>1, <1>2

\* The forwarding at the end of grab_key().
LEMMA ForwardedOK ==
  ASSUME KbOK(kb), NEW b, KbOK(b), NEW k \in Keys, NEW p \in BOOLEAN, NEW c \in BOOLEAN
  PROVE  KbOK(Forwarded(b, k, p, c)) /\ Forwarded(b, k, p, c).grab = b.grab
BY ForwardOK, SendOK DEF Forwarded

\* Delivering one key of the queue.
LEMMA DeliverOK ==
  ASSUME KbOK(kb), NEW b, KbOK(b), NEW item \in Item, NEW h \in BOOLEAN
  PROVE  KbOK(Deliver(b, item, h)) /\ Deliver(b, item, h).grab = b.grab
BY ForwardOK DEF Deliver, Item

\* Delivering the whole queue.
LEMMA DeliverAllOK ==
  ASSUME NEW b, KbOK(b), NEW items \in Seq(Item)
  PROVE  KbOK(DeliverAll(b, items)) /\ DeliverAll(b, items).grab = b.grab
<1> DEFINE Latest(k) == CHOOSE i \in DOMAIN items :
                          /\ items[i].key = k
                          /\ \A j \in DOMAIN items : items[j].key = k => j <= i
           hit == {items[i].key : i \in DOMAIN items}
           on  == {k \in hit \cap Tracked : items[Latest(k)].pressed}
           off == (hit \cap Tracked) \ on
           stuck == {items[i].key : i \in {j \in DOMAIN items : items[j].pressed}} \ Tracked
<1>0. \A i \in DOMAIN items : items[i].key \in Keys
  <2>1. \A i \in DOMAIN items : items[i] \in Item
    OBVIOUS
  <2>. QED
    BY <2>1 DEF Item
<1>1. /\ on \subseteq Tracked /\ off \subseteq Tracked /\ on \cap off = {}
      /\ stuck \subseteq Keys \ Tracked
  <2>1. stuck \subseteq Keys \ Tracked
    BY <1>0
  <2>2. on \subseteq Tracked
    OBVIOUS
  <2> HIDE DEF on
  <2>. QED
    BY <2>1, <2>2
<1>2. DeliverAll(b, items) = [b EXCEPT !.forwarded = (@ \cup on) \ off,
                                       !.down = IF kmset THEN (@ \cup on \cup stuck) \ off ELSE @]
  BY DEF DeliverAll
<1> HIDE DEF on, off, stuck
<1>. QED
  BY <1>1, <1>2, KeysAssumption, ZenonT(30) DEF KbOK, Keyboard

------------------------------------------------------------------------------
\* The invariant holds at the start.
LEMMA InitGrabInv == ImInit => GrabInv
<1> SUFFICES ASSUME ImInit PROVE GrabInv
  OBVIOUS
<1>1. ImTypeOK
  <2>1. kb \in [grab : BOOLEAN, forwarded : SUBSET Tracked, down : SUBSET Keys, mods : BOOLEAN]
    BY DEF ImInit
  <2>2. pending \in Field /\ current \in Field
    BY DEF ImInit, Field
  <2>3. queue \in Seq(Item) /\ asked \in Item \cup {NoKey}
    BY DEF ImInit
  <2>4. events \in 0..MaxEvents /\ last \in 0..MaxEvents
    BY BoundAssumption DEF ImInit
  <2>. QED
    BY <2>1, <2>2, <2>3, <2>4 DEF ImInit, ImTypeOK
<1>2. KbOK(kb) /\ GrabAsWanted /\ StartOK
  BY DEF ImInit, KbOK, Keyboard, GrabAsWanted, StartOK
<1>3. OrderOK
  BY DEF ImInit, OrderOK, NoKey
<1>. QED
  BY <1>1, <1>2, <1>3 DEF GrabInv

\* A key event of the grab.
LEMMA GrabKeyStep ==
  ASSUME GrabInv, NEW k \in Keys, NEW p \in BOOLEAN,
         NEW a \in {"escape", "queued", "used", "tapped", "unused"}, NEW w \in BOOLEAN,
         grab_key(k, p, a, w)
  PROVE  /\ GrabInv'
         /\ last' >= last
         /\ kb.grab /\ ~kb'.grab => kb'.down \cap Tracked = {}
<1> DEFINE item  == [key |-> k, pressed |-> p, n |-> events + 1]
           start == a = "queued" /\ ~draining
           tapped == IF a = "tapped" THEN Tap(kb, k) ELSE kb
           asks  == update_grab(tapped, 1, w, current.active)
           sent  == Forwarded(asks, k, p, a # "unused")
<1>1. KbOK(tapped) /\ tapped.grab = kb.grab
  BY TapOK DEF GrabInv
<1>2. asks = tapped
  BY DEF update_grab
<1>3. KbOK(sent) /\ sent.grab = kb.grab
  <2> DEFINE consumed == a # "unused"
  <2>1. KbOK(kb) /\ KbOK(asks) /\ asks.grab = kb.grab
    BY <1>1, <1>2 DEF GrabInv
  <2>2. consumed \in BOOLEAN
    OBVIOUS
  <2>3. sent = Forwarded(asks, k, p, consumed)
    OBVIOUS
  <2> HIDE DEF asks, consumed, sent
  <2>4. KbOK(Forwarded(asks, k, p, consumed)) /\ Forwarded(asks, k, p, consumed).grab = asks.grab
    BY <2>1, <2>2, ForwardedOK
  <2>. QED
    BY <2>1, <2>3, <2>4
<1>4. kb' = update_grab(sent, 0, w, current.active)
  BY DEF grab_key
<1>5. current.active \in BOOLEAN /\ sent.grab /\ im = "live" /\ UNCHANGED <<im, kmset, current>>
  BY <1>3 DEF grab_key, GrabInv, ImTypeOK, Field
<1> HIDE DEF sent
<1>6. KbOK(kb') /\ (kb'.grab <=> w /\ current.active)
      /\ (~kb'.grab => kb'.down \cap Tracked = {})
  BY <1>3, <1>4, <1>5, UpdateGrabOK
<1>7. KbOK(kb)'
  BY <1>5, <1>6 DEF KbOK
<1>8. GrabAsWanted' /\ StartOK'
  BY <1>5, <1>6 DEF GrabAsWanted, StartOK, grab_key
<1>9. item \in Item /\ item.n = events + 1 /\ events \in Nat /\ events' = events + 1
      /\ events' \in 0..MaxEvents /\ item.n \in 0..MaxEvents
  BY BoundAssumption DEF grab_key, GrabInv, ImTypeOK, Item
<1>10. ImTypeOK'
  <2>1. asked' \in Item \cup {NoKey} /\ queue' \in Seq(Item) /\ last' \in 0..MaxEvents
    BY <1>9 DEF grab_key, GrabInv, ImTypeOK, draining
  <2>. QED
    BY <1>7, <1>9, <2>1 DEF grab_key, GrabInv, ImTypeOK, KbOK, Keyboard
<1>11. OrderOK' /\ last' >= last
  <2>1. CASE start
    <3>1. asked' = item /\ queue' = queue /\ queue = <<>> /\ last' = last
      BY <2>1, <1>9 DEF grab_key, GrabInv, OrderOK, draining
    <3>2. item.n > last /\ item.n <= events' /\ item.n # 0 /\ last \in 0..MaxEvents
      BY <1>9, BoundAssumption DEF GrabInv, OrderOK, ImTypeOK
    <3>. QED
      BY <3>1, <3>2, <1>9 DEF OrderOK, NoKey
  <2>2. CASE a = "queued" /\ draining
    <3>1. asked' = asked /\ queue' = Append(queue, item) /\ last' = last
      BY <2>2 DEF grab_key
    <3>2. queue \in Seq(Item) /\ asked \in Item /\ last \in Nat /\ asked.n \in Nat
      BY <2>2, BoundAssumption DEF GrabInv, ImTypeOK, draining, Item
    <3>3. /\ DOMAIN queue' = 1..(Len(queue) + 1) /\ DOMAIN queue = 1..Len(queue)
          /\ Len(queue) \in Nat
          /\ \A i \in DOMAIN queue : queue'[i] = queue[i] /\ queue[i].n \in Nat
          /\ queue'[Len(queue) + 1] = item
      <4>1. \A i \in DOMAIN queue : queue[i] \in Item
        BY <3>2
      <4>2. \A i \in DOMAIN queue : queue[i].n \in Nat
        BY <4>1, BoundAssumption DEF Item
      <4> HIDE DEF item
      <4>. QED
        BY <3>1, <3>2, <4>2, <1>9
    <3>4. /\ asked # NoKey /\ asked.n > last
          /\ \A i \in DOMAIN queue : queue[i].n > asked.n /\ queue[i].n <= events
          /\ \A i, j \in DOMAIN queue : i < j => queue[i].n < queue[j].n
          /\ asked.n <= events /\ last <= events
      BY <2>2 DEF GrabInv, OrderOK, draining
    <3>5. \A i \in DOMAIN queue' : queue'[i].n > asked.n /\ queue'[i].n <= events'
      BY <3>2, <3>3, <3>4, <1>9
    <3>6. \A i, j \in DOMAIN queue' : i < j => queue'[i].n < queue'[j].n
      <4> SUFFICES ASSUME NEW i \in DOMAIN queue', NEW j \in DOMAIN queue', i < j
                   PROVE  queue'[i].n < queue'[j].n
        OBVIOUS
      <4>1. i \in DOMAIN queue
        BY <3>3
      <4>2. CASE j \in DOMAIN queue
        BY <4>1, <4>2, <3>3, <3>4
      <4>3. CASE j = Len(queue) + 1
        BY <4>1, <4>3, <3>3, <3>4, <1>9
      <4>. QED
        BY <4>2, <4>3, <3>3
    <3>. QED
      BY <3>1, <3>2, <3>4, <3>5, <3>6, <1>9 DEF OrderOK
  <2>3. CASE a = "escape"
    <3>1. asked' = asked /\ queue' = queue /\ last' = last
      BY <2>3 DEF grab_key
    <3>2. asked.n \in Nat /\ last \in Nat /\ \A i \in DOMAIN queue : queue[i].n \in Nat
      <4>1. \A i \in DOMAIN queue : queue[i] \in Item
        BY DEF GrabInv, ImTypeOK
      <4>. QED
        BY <4>1, BoundAssumption DEF GrabInv, ImTypeOK, Item, NoKey
    <3>. QED
      BY <3>1, <3>2, <1>9 DEF GrabInv, OrderOK
  <2>4. CASE a \notin {"escape", "queued"}
    <3>1. ~draining /\ asked' = asked /\ queue' = queue /\ last' = item.n
      BY <2>4 DEF grab_key, Answers, Queued
    <3>. QED
      BY <3>1, <1>9, BoundAssumption DEF GrabInv, OrderOK, ImTypeOK, draining, NoKey
  <2>. QED
    BY <2>1, <2>2, <2>3, <2>4
<1>. QED
  BY <1>6, <1>7, <1>8, <1>10, <1>11 DEF GrabInv

\* An answer of the engine, and what the loop does after it.
LEMMA DrainStep ==
  ASSUME GrabInv, NEW h \in BOOLEAN, drain_keys(h)
  PROVE  GrabInv' /\ last' >= last /\ kb'.grab = kb.grab
<1> DEFINE b == Deliver(kb, asked, h)
<1>1. asked \in Item /\ queue \in Seq(Item) /\ asked.n \in 1..MaxEvents /\ last \in 0..MaxEvents
      /\ events \in 0..MaxEvents /\ MaxEvents \in Nat
  BY BoundAssumption DEF drain_keys, draining, GrabInv, ImTypeOK, Item
<1>2. KbOK(b) /\ b.grab = kb.grab
  BY <1>1, DeliverOK DEF GrabInv
<1>3. \A i \in DOMAIN queue : queue[i] \in Item /\ queue[i].n \in 1..MaxEvents
  <2>1. \A i \in DOMAIN queue : queue[i] \in Item
    BY <1>1
  <2>. QED
    BY <2>1 DEF Item
<1>4. /\ asked.n > last
      /\ \A i \in DOMAIN queue : queue[i].n > asked.n /\ queue[i].n <= events
      /\ \A i, j \in DOMAIN queue : i < j => queue[i].n < queue[j].n
      /\ asked.n <= events /\ last <= events
  BY DEF GrabInv, OrderOK, drain_keys, draining
<1>5. UNCHANGED <<im, kmset, want, pending, current, engine, events>>
  BY DEF drain_keys
<1> HIDE DEF b
<1>6. CASE engine_context /\ queue # <<>>
  <2>1. asked' = Head(queue) /\ queue' = Tail(queue) /\ kb' = b /\ last' = asked.n
    BY <1>6 DEF drain_keys, b
  <2>2. /\ Len(queue) \in Nat \ {0} /\ DOMAIN queue = 1..Len(queue)
        /\ asked' = queue[1] /\ asked' \in Item
        /\ queue' \in Seq(Item) /\ DOMAIN queue' = 1..(Len(queue) - 1)
        /\ \A i \in DOMAIN queue' : i + 1 \in DOMAIN queue /\ queue'[i] = queue[i + 1]
    BY <1>1, <1>3, <1>6, <2>1
  <2>3. asked' # NoKey
    BY <1>3, <2>2 DEF NoKey
  <2>4. OrderOK' /\ last' >= last
    <3>1. \A i \in DOMAIN queue' : queue'[i].n > asked'.n /\ queue'[i].n <= events'
      BY <1>3, <1>4, <1>5, <2>2
    <3>2. \A i, j \in DOMAIN queue' : i < j => queue'[i].n < queue'[j].n
      BY <1>3, <1>4, <2>2
    <3>3. asked'.n > last' /\ asked'.n <= events' /\ last' <= events' /\ last' >= last
      BY <1>1, <1>3, <1>4, <1>5, <2>1, <2>2
    <3>. QED
      BY <2>3, <3>1, <3>2, <3>3 DEF OrderOK
  <2>5. KbOK(kb)' /\ kb'.grab = kb.grab
    BY <1>2, <1>5, <2>1 DEF KbOK
  <2>6. ImTypeOK' /\ GrabAsWanted' /\ StartOK'
    BY <1>1, <1>5, <2>1, <2>2, <2>5 DEF GrabInv, ImTypeOK, KbOK, Keyboard, GrabAsWanted, StartOK
  <2>. QED
    BY <2>4, <2>5, <2>6 DEF GrabInv
<1>7. CASE ~(engine_context /\ queue # <<>>)
  <2>1. /\ asked' = NoKey /\ queue' = <<>> /\ kb' = DeliverAll(b, queue)
        /\ last' = IF queue = <<>> THEN asked.n ELSE queue[Len(queue)].n
    BY <1>7 DEF drain_keys, b
  <2>2. KbOK(kb)' /\ kb'.grab = kb.grab
    <3>1. KbOK(DeliverAll(b, queue)) /\ DeliverAll(b, queue).grab = b.grab
      BY <1>1, <1>2, DeliverAllOK
    <3>. QED
      BY <1>2, <1>5, <2>1, <3>1 DEF KbOK
  <2>3. last' \in 0..MaxEvents /\ last' >= last /\ last' <= events
    <3>1. CASE queue = <<>>
      BY <3>1, <1>1, <1>4, <2>1
    <3>2. CASE queue # <<>>
      <4>1. Len(queue) \in DOMAIN queue
        BY <3>2, <1>1
      <4>. QED
        BY <3>2, <4>1, <1>1, <1>3, <1>4, <2>1
    <3>. QED
      BY <3>1, <3>2
  <2>4. OrderOK'
    BY <1>1, <1>5, <2>1, <2>3 DEF OrderOK, NoKey
  <2>5. ImTypeOK' /\ GrabAsWanted' /\ StartOK'
    BY <1>1, <1>5, <2>1, <2>2, <2>3 DEF GrabInv, ImTypeOK, KbOK, Keyboard, GrabAsWanted, StartOK
  <2>. QED
    BY <2>2, <2>3, <2>4, <2>5 DEF GrabInv
<1>. QED
  BY <1>6, <1>7

\* The other steps leave the queue alone and reach the keyboard state only
\* through the helpers.
LEMMA OtherStep ==
  ASSUME GrabInv,
         \/ singularity_ime_start
         \/ im_activate
         \/ im_deactivate
         \/ \E p \in BOOLEAN : im_content_type(p)
         \/ \E w \in BOOLEAN : im_done(w)
         \/ im_unavailable
         \/ \E w \in BOOLEAN : singularity_ime_set_grab(w)
         \/ \E w \in BOOLEAN : bind_engine(w)
         \/ \E k \in Keys : on_engine_forward(k)
         \/ grab_keymap
         \/ \E mine \in {FALSE, kb.grab}, m \in BOOLEAN : grab_modifiers(mine, m)
         \/ UNCHANGED imVars
  PROVE  /\ GrabInv'
         /\ last' >= last
         /\ kb.grab /\ ~kb'.grab => kb'.down \cap Tracked = {}
<1>0. ImTypeOK /\ KbOK(kb) /\ OrderOK /\ GrabAsWanted /\ StartOK /\ last \in Nat
  BY BoundAssumption DEF GrabInv, ImTypeOK
<1> DEFINE Same == UNCHANGED <<queue, asked, events, last>>
<1>1. ASSUME Same, ImTypeOK', KbOK(kb)', GrabAsWanted', StartOK',
             kb.grab /\ ~kb'.grab => kb'.down \cap Tracked = {}
      PROVE  /\ GrabInv'
             /\ last' >= last
             /\ kb.grab /\ ~kb'.grab => kb'.down \cap Tracked = {}
  BY <1>0, <1>1 DEF GrabInv, OrderOK
<1>2. CASE singularity_ime_start \/ im_unavailable
  BY <1>0, <1>1, <1>2
     DEF singularity_ime_start, im_unavailable, ImTypeOK, KbOK, GrabAsWanted, StartOK
<1>3. CASE im_activate \/ im_deactivate \/ \E p \in BOOLEAN : im_content_type(p)
  <2>1. pending' \in Field
    <3>1. pending \in [active : BOOLEAN, private : BOOLEAN]
      BY <1>0 DEF ImTypeOK, Field
    <3>2. CASE im_activate
      BY <3>2 DEF im_activate, Field
    <3>3. CASE im_deactivate
      BY <3>1, <3>3 DEF im_deactivate, Field
    <3>4. CASE \E p \in BOOLEAN : im_content_type(p)
      BY <3>1, <3>4 DEF im_content_type, Field
    <3>. QED
      BY <1>3, <3>2, <3>3, <3>4
  <2>2. UNCHANGED <<im, kb, kmset, want, current, engine, queue, asked, events, last>>
    BY <1>3 DEF im_activate, im_deactivate, im_content_type, ImChanged
  <2>. QED
    BY <1>0, <1>1, <2>1, <2>2 DEF ImTypeOK, KbOK, GrabAsWanted, StartOK
<1>4. CASE \E w \in BOOLEAN : im_done(w)
  <2>1. PICK w \in BOOLEAN : im_done(w)
    BY <1>4
  <2> DEFINE b == update_grab(kb, 0, want, pending.active)
  <2>2. pending.active \in BOOLEAN /\ want \in BOOLEAN
    BY <1>0 DEF ImTypeOK, Field
  <2>3. KbOK(b) /\ (kb.grab /\ ~b.grab => b.down \cap Tracked = {})
    BY <1>0, <2>2, UpdateGrabOK
  <2>4. kb' = update_grab(b, 0, w, pending.active)
    BY <2>1 DEF im_done
  <2> HIDE DEF b
  <2>5. /\ KbOK(kb')
        /\ im = "live" => (kb'.grab <=> w /\ pending.active)
        /\ b.grab /\ ~kb'.grab => kb'.down \cap Tracked = {}
        /\ ~kb'.grab /\ b.down \cap Tracked = {} => kb'.down \cap Tracked = {}
    BY <2>2, <2>3, <2>4, UpdateGrabOK
  <2>6. im = "live" /\ current' = pending /\ want' = w
        /\ UNCHANGED <<im, kmset, pending, engine, queue, asked, events, last>>
    BY <2>1 DEF im_done
  <2>7. KbOK(kb)'
    BY <2>5, <2>6 DEF KbOK
  <2>. QED
    BY <1>0, <1>1, <2>3, <2>5, <2>6, <2>7 DEF ImTypeOK, KbOK, Keyboard, GrabAsWanted, StartOK
<1>5. CASE \E w \in BOOLEAN : singularity_ime_set_grab(w) \/ bind_engine(w)
  <2>1. PICK w \in BOOLEAN : singularity_ime_set_grab(w) \/ bind_engine(w)
    BY <1>5
  <2>2. /\ want' = w /\ engine' \in BOOLEAN
        /\ kb' = IF im = "none" THEN kb ELSE update_grab(kb, 0, w, current.active)
        /\ UNCHANGED <<im, kmset, pending, current, queue, asked, events, last>>
    BY <1>0, <2>1 DEF singularity_ime_set_grab, bind_engine, ImTypeOK
  <2>3. CASE im = "none"
    BY <1>0, <1>1, <2>2, <2>3 DEF ImTypeOK, KbOK, GrabAsWanted, StartOK
  <2>4. CASE im # "none"
    <3>1. current.active \in BOOLEAN /\ kb' = update_grab(kb, 0, w, current.active)
      BY <1>0, <2>2, <2>4 DEF ImTypeOK, Field
    <3>2. /\ KbOK(kb')
          /\ im = "live" => (kb'.grab <=> w /\ current.active)
          /\ kb.grab /\ ~kb'.grab => kb'.down \cap Tracked = {}
      BY <1>0, <3>1, UpdateGrabOK
    <3>3. KbOK(kb)'
      BY <2>2, <3>2 DEF KbOK
    <3>. QED
      BY <1>0, <1>1, <2>2, <2>4, <3>2, <3>3 DEF ImTypeOK, KbOK, Keyboard, GrabAsWanted, StartOK
  <2>. QED
    BY <2>3, <2>4
<1>6. CASE \E k \in Keys : on_engine_forward(k)
  <2>1. PICK k \in Keys : on_engine_forward(k)
    BY <1>6
  <2>2. kb' = Tap(kb, k) /\ UNCHANGED <<im, kmset, want, pending, current, engine, queue, asked, events, last>>
    BY <2>1 DEF on_engine_forward
  <2>3. KbOK(kb') /\ kb'.grab = kb.grab
    BY <1>0, <2>2, TapOK
  <2>4. KbOK(kb)'
    BY <2>2, <2>3 DEF KbOK
  <2>. QED
    BY <1>0, <1>1, <2>2, <2>3, <2>4 DEF ImTypeOK, KbOK, Keyboard, GrabAsWanted, StartOK
<1>7. CASE grab_keymap
  BY <1>0, <1>1, <1>7 DEF grab_keymap, ImTypeOK, KbOK, GrabAsWanted, StartOK
<1>8. CASE \E mine \in {FALSE, kb.grab}, m \in BOOLEAN : grab_modifiers(mine, m)
  <2>1. PICK mine \in {FALSE, kb.grab}, m \in BOOLEAN : grab_modifiers(mine, m)
    BY <1>8
  <2>2. UNCHANGED <<im, kmset, want, pending, current, engine, queue, asked, events, last>>
    BY <2>1 DEF grab_modifiers
  <2>3. kb' = IF mine /\ kmset THEN [kb EXCEPT !.mods = m] ELSE kb
    BY <2>1 DEF grab_modifiers
  <2>4. KbOK(kb') /\ kb'.grab = kb.grab
    BY <1>0, <2>3 DEF KbOK, Keyboard
  <2>5. KbOK(kb)'
    BY <2>2, <2>4 DEF KbOK
  <2>. QED
    BY <1>0, <1>1, <2>2, <2>4, <2>5 DEF ImTypeOK, KbOK, Keyboard, GrabAsWanted, StartOK
<1>9. CASE UNCHANGED imVars
  BY <1>0, <1>1, <1>9 DEF imVars, ImTypeOK, KbOK, GrabAsWanted, StartOK
<1>. QED
  BY <1>2, <1>3, <1>4, <1>5, <1>6, <1>7, <1>8, <1>9

\* Every step keeps the invariant, the order of the keys, and the promise that
\* giving up the grab leaves no key down.
LEMMA GrabStep ==
  ASSUME GrabInv, [ImNext]_imVars
  PROVE  /\ GrabInv'
         /\ last' >= last
         /\ kb.grab /\ ~kb'.grab => kb'.down \cap Tracked = {}
<1>1. CASE \E k \in Keys, p \in BOOLEAN, a \in {"escape", "queued", "used", "tapped", "unused"},
              w \in BOOLEAN : grab_key(k, p, a, w)
  BY <1>1, GrabKeyStep
<1>2. CASE \E h \in BOOLEAN : drain_keys(h)
  <2>1. GrabInv' /\ last' >= last /\ kb'.grab = kb.grab
    BY <1>2, DrainStep
  <2>. QED
    BY <2>1
<1>. QED
  BY <1>1, <1>2, OtherStep DEF ImNext

\* The invariant of the whole module.
THEOREM KeysInvariance == ImSpec => []GrabInv
<1>1. GrabInv /\ [ImNext]_imVars => GrabInv'
  BY GrabStep
<1>. QED
  BY InitGrabInv, <1>1, PTL DEF ImSpec

\* ime.c and the key queue stay within their types; in particular nothing is
\* written to forwarded[] beyond KEY_COUNT.
THEOREM KeysTypeCorrect == ImSpec => []ImTypeOK
<1>1. GrabInv => ImTypeOK
  BY DEF GrabInv
<1>. QED
  BY KeysInvariance, <1>1, PTL

\* Every key that the virtual keyboard holds is one that
\* release_forwarded_keys() will let go.
THEOREM HeldKeysAreRecorded == ImSpec => []HeldKeysRecorded
<1>1. GrabInv => HeldKeysRecorded
  BY DEF GrabInv, KbOK, HeldKeysRecorded
<1>. QED
  BY KeysInvariance, <1>1, PTL

\* update_grab() is called wherever one of the conditions of the grab changes.
THEOREM GrabIsAsWanted == ImSpec => []GrabAsWanted
<1>1. GrabInv => GrabAsWanted
  BY DEF GrabInv
<1>. QED
  BY KeysInvariance, <1>1, PTL

\* No modifier outlives the grab.
THEOREM ModifiersEndWithGrab == ImSpec => []NoGrabNoModifiers
<1>1. GrabInv => NoGrabNoModifiers
  BY DEF GrabInv, KbOK, NoGrabNoModifiers
<1>. QED
  BY KeysInvariance, <1>1, PTL

\* Whatever makes the shell give up the grab, no key stays down.
THEOREM UngrabReleasesKeys == ImSpec => UngrabReleases
<1>1. GrabInv /\ [ImNext]_imVars => [kb.grab /\ ~kb'.grab => kb'.down \cap Tracked = {}]_imVars
  BY GrabStep
<1>. QED
  BY KeysInvariance, <1>1, PTL DEF ImSpec, UngrabReleases

\* Keys leave in the order they came.
THEOREM KeysStayInOrder == ImSpec => KeysInOrder
<1>1. GrabInv /\ [ImNext]_imVars => [last' >= last]_imVars
  BY GrabStep
<1>. QED
  BY KeysInvariance, <1>1, PTL DEF ImSpec, KeysInOrder

------------------------------------------------------------------------------
(* TypeText.                                                                *)

Text == Seq(Chars) \ {<<>>}
Output == Chars \cup {Wrong, Nothing}

\* What is known of the queue, without the bound on the batch.
QueueOK == jobs \in Seq(Text) /\ typed \in Seq(Output)

RunOK == pend => jobs # <<>> /\ run \in 1..Len(Head(jobs))

QueueInv == TypeOK /\ QueueOK /\ RunOK /\ TimerArmed

\* With a layout that holds still: the keymap is the one the shell thinks of.
KInv == UploadedIsTrue /\ KeymapMatches

------------------------------------------------------------------------------
\* What is left of the texts is a sequence of non-empty texts again.
LEMMA LeftType ==
  ASSUME NEW ts \in Seq(Text), ts # <<>>, NEW n \in 1..Len(Head(ts))
  PROVE  Left(ts, n) \in Seq(Text)
<1>1. Head(ts) \in Text /\ Tail(ts) \in Seq(Text)
  OBVIOUS
<1>2. CASE n = Len(Head(ts))
  BY <1>1, <1>2 DEF Left
<1>3. CASE n # Len(Head(ts))
  <2> DEFINE t == Head(ts)
             r == SubSeq(t, n + 1, Len(t))
  <2>1. t \in Seq(Chars) /\ n + 1 \in 1..Len(t) /\ Len(t) \in Nat
    BY <1>1, <1>3 DEF Text
  <2>2. r \in Seq(Chars) /\ Len(r) = Len(t) - n
    BY <2>1, SubSeqProperties
  <2>3. r \in Text
    <3>1. Len(r) # 0
      BY <2>1, <2>2
    <3>. QED
      BY <2>2, <3>1, EmptySeq DEF Text
  <2>4. <<r>> \in Seq(Text)
    BY <2>3
  <2>. QED
    BY <1>1, <1>3, <2>4, ConcatProperties DEF Left
<1>. QED
  BY <1>2, <1>3

\* Pressing n keys gives n characters or failures.
LEMMA PressType ==
  ASSUME NEW ts \in Seq(Text), ts # <<>>, NEW n \in 1..Len(Head(ts)), NEW lay \in BOOLEAN,
         typed \in Seq(Output), press_run(ts, n, lay)
  PROVE  /\ jobs' \in Seq(Text)
         /\ typed' \in Seq(Output)
         /\ timer' <=> jobs' # <<>>
         /\ timer' \in BOOLEAN
<1> DEFINE p == [i \in 1..n |-> IF lay THEN press_layout(Head(ts)[i]) ELSE press_custom(Head(ts)[i])]
<1>1. Head(ts) \in Seq(Chars) /\ n \in Nat
  BY DEF Text
<1>2. \A i \in 1..n : Head(ts)[i] \in Chars
  BY <1>1
<1>3. p \in [1..n -> Output]
  BY <1>2 DEF Output, press_layout, press_custom
<1>4. p \in Seq(Output)
  BY <1>1, <1>3
<1> HIDE DEF p
<1>5. typed' = typed \o p
  BY DEF press_run, p
<1>. QED
  BY <1>4, <1>5, LeftType, ConcatProperties DEF press_run

\* Everything run_job() may do to the queue and to its own variables.
LEMMA RunJobType ==
  ASSUME TypeOK, QueueOK, NEW ts \in Seq(Text), ts # <<>>,
         pend => run \in 1..Len(Head(ts)), run_job(ts)
  PROVE  /\ jobs' \in Seq(Text) /\ typed' \in Seq(Output)
         /\ timer' \in BOOLEAN /\ (timer' <=> jobs' # <<>>)
         /\ pend' \in BOOLEAN /\ inlayout' \in BOOLEAN /\ run' \in Nat
         /\ batch' \in SUBSET Chars /\ Cardinality(batch') <= BatchKeys
         /\ uploaded' \in {"none", "layout", "custom"}
         /\ km' \in [layout : Layouts \cup {"none"}, custom : SUBSET Chars]
         /\ pend' => jobs' # <<>> /\ run' \in 1..Len(Head(jobs'))
<1>0. Head(ts) \in Text /\ Tail(ts) \in Seq(Text)
      /\ \A n \in 1..Len(Head(ts)) : CharsOf(Head(ts), n) \subseteq Chars
  BY DEF Text, CharsOf
<1>1. CASE PressPending(ts)
  <2>1. pend /\ run \in 1..Len(Head(ts)) /\ inlayout \in BOOLEAN
    BY <1>1 DEF PressPending, TypeOK
  <2>2. press_run(ts, run, inlayout) /\ ~pend' /\ UNCHANGED <<run, inlayout, batch, uploaded, km>>
    BY <1>1 DEF PressPending
  <2>3. jobs' \in Seq(Text) /\ typed' \in Seq(Output) /\ (timer' <=> jobs' # <<>>) /\ timer' \in BOOLEAN
    BY <2>1, <2>2, PressType DEF QueueOK
  <2>4. /\ inlayout' \in BOOLEAN /\ run' \in Nat
        /\ batch' \in SUBSET Chars /\ Cardinality(batch') <= BatchKeys
        /\ uploaded' \in {"none", "layout", "custom"}
        /\ km' \in [layout : Layouts \cup {"none"}, custom : SUBSET Chars]
    BY <2>2 DEF TypeOK
  <2>5. pend' = FALSE
    BY <1>1 DEF PressPending
  <2>. QED
    BY <2>3, <2>4, <2>5
<1>2. ASSUME NEW n \in 1..Len(Head(ts)), NEW lay \in BOOLEAN, Upload(ts, n, lay),
             lay \/ Cardinality(CharsOf(Head(ts), n)) <= BatchKeys
      PROVE  /\ jobs' \in Seq(Text) /\ typed' \in Seq(Output)
             /\ timer' \in BOOLEAN /\ (timer' <=> jobs' # <<>>)
             /\ pend' \in BOOLEAN /\ inlayout' \in BOOLEAN /\ run' \in Nat
             /\ batch' \in SUBSET Chars /\ Cardinality(batch') <= BatchKeys
             /\ uploaded' \in {"none", "layout", "custom"}
             /\ km' \in [layout : Layouts \cup {"none"}, custom : SUBSET Chars]
             /\ pend' => jobs' # <<>> /\ run' \in 1..Len(Head(jobs'))
  BY <1>0, <1>2 DEF Upload, make_keymap_fd, TypeOK, QueueOK
<1>3. ASSUME NEW n \in 1..Len(Head(ts)), LayoutRun(ts, n)
      PROVE  /\ jobs' \in Seq(Text) /\ typed' \in Seq(Output)
             /\ timer' \in BOOLEAN /\ (timer' <=> jobs' # <<>>)
             /\ pend' \in BOOLEAN /\ inlayout' \in BOOLEAN /\ run' \in Nat
             /\ batch' \in SUBSET Chars /\ Cardinality(batch') <= BatchKeys
             /\ uploaded' \in {"none", "layout", "custom"}
             /\ km' \in [layout : Layouts \cup {"none"}, custom : SUBSET Chars]
             /\ pend' => jobs' # <<>> /\ run' \in 1..Len(Head(jobs'))
  <2>1. CASE Upload(ts, n, TRUE)
    BY <1>2, <2>1
  <2>2. CASE /\ run' = n /\ inlayout' = TRUE
             /\ press_run(ts, n, TRUE)
             /\ UNCHANGED <<pend, batch, uploaded, km>>
    <3>1. jobs' \in Seq(Text) /\ typed' \in Seq(Output) /\ (timer' <=> jobs' # <<>>) /\ timer' \in BOOLEAN
      BY <2>2, PressType DEF QueueOK
    <3>2. ~pend'
      BY <1>3, <2>2 DEF LayoutRun
    <3>. QED
      BY <2>2, <3>1, <3>2 DEF TypeOK
  <2>. QED
    BY <1>3, <2>1, <2>2 DEF LayoutRun
<1>4. ASSUME NEW n \in 1..Len(Head(ts)), CustomRun(ts, n)
      PROVE  /\ jobs' \in Seq(Text) /\ typed' \in Seq(Output)
             /\ timer' \in BOOLEAN /\ (timer' <=> jobs' # <<>>)
             /\ pend' \in BOOLEAN /\ inlayout' \in BOOLEAN /\ run' \in Nat
             /\ batch' \in SUBSET Chars /\ Cardinality(batch') <= BatchKeys
             /\ uploaded' \in {"none", "layout", "custom"}
             /\ km' \in [layout : Layouts \cup {"none"}, custom : SUBSET Chars]
             /\ pend' => jobs' # <<>> /\ run' \in 1..Len(Head(jobs'))
  <2>0. ~pend /\ Cardinality(CharsOf(Head(ts), n)) <= BatchKeys
    BY <1>4 DEF CustomRun, IsCustomRun
  <2>1. CASE Upload(ts, n, FALSE)
    BY <1>2, <2>0, <2>1
  <2>2. CASE /\ run' = n /\ inlayout' = FALSE /\ batch' = CharsOf(Head(ts), n)
             /\ jobs' = Tail(ts) /\ timer' = (jobs' # <<>>)
             /\ UNCHANGED <<pend, uploaded, km, typed>>
    <3>1. /\ pend' = FALSE
          /\ uploaded' \in {"none", "layout", "custom"}
          /\ km' \in [layout : Layouts \cup {"none"}, custom : SUBSET Chars]
          /\ typed' \in Seq(Output)
      BY <2>0, <2>2 DEF TypeOK, QueueOK
    <3>2. jobs' \in Seq(Text) /\ timer' \in BOOLEAN /\ (timer' <=> jobs' # <<>>)
      BY <1>0, <2>2
    <3>3. batch' \in SUBSET Chars /\ Cardinality(batch') <= BatchKeys
          /\ run' \in Nat /\ inlayout' \in BOOLEAN
      <4>1. n \in Nat /\ CharsOf(Head(ts), n) \subseteq Chars
        BY <1>0
      <4>. QED
        BY <4>1, <2>0, <2>2
    <3>. QED
      BY <3>1, <3>2, <3>3
  <2>. QED
    BY <1>4, <2>1, <2>2 DEF CustomRun
<1>. QED
  BY <1>1, <1>3, <1>4 DEF run_job

\* The invariant of the queue at the start.
LEMMA InitQueueInv == Init => QueueInv
<1> SUFFICES ASSUME Init PROVE QueueInv
  OBVIOUS
<1>1. Cardinality({}) <= BatchKeys
  BY FS_EmptySet, BoundsAssumption
<1>2. TypeOK
  <2>1. jobs \in Seq(Seq(Chars)) /\ typed \in Seq(Chars \cup {Wrong, Nothing})
    BY DEF Init
  <2>2. km \in [layout : Layouts \cup {"none"}, custom : SUBSET Chars]
    BY DEF Init
  <2>. QED
    <3>1. batch \in SUBSET Chars /\ Cardinality(batch) <= BatchKeys
      BY <1>1 DEF Init
    <3>2. texts \in 0..MaxTexts /\ run \in Nat
      BY BoundsAssumption DEF Init
    <3>3. timer \in BOOLEAN /\ pend \in BOOLEAN /\ inlayout \in BOOLEAN
          /\ layout \in Layouts \cup {"none"} /\ uploaded \in {"none", "layout", "custom"}
      BY DEF Init
    <3>. QED
      BY <2>1, <2>2, <3>1, <3>2, <3>3 DEF TypeOK
<1>3. QueueOK /\ RunOK /\ TimerArmed
  BY DEF Init, QueueOK, RunOK, TimerArmed
<1>. QED
  BY <1>2, <1>3 DEF QueueInv

\* Texts in a queue are texts.
LEMMA TextSeq == Seq(Text) \subseteq Seq(Seq(Chars))
BY DEF Text

\* Every step keeps the invariant of the queue.
LEMMA StepQueueInv == QueueInv /\ [Next]_vars => QueueInv'
<1> SUFFICES ASSUME QueueInv, [Next]_vars PROVE QueueInv'
  OBVIOUS
<1>1. ASSUME NEW ts \in Seq(Text), ts # <<>>, pend => ts = jobs, run_job(ts),
             layout' \in Layouts \cup {"none"}, texts' \in 0..MaxTexts
      PROVE  QueueInv'
  <2>1. pend => run \in 1..Len(Head(ts))
    BY <1>1 DEF QueueInv, RunOK
  <2>2. /\ jobs' \in Seq(Text) /\ typed' \in Seq(Output)
        /\ timer' \in BOOLEAN /\ (timer' <=> jobs' # <<>>)
        /\ pend' \in BOOLEAN /\ inlayout' \in BOOLEAN /\ run' \in Nat
        /\ batch' \in SUBSET Chars /\ Cardinality(batch') <= BatchKeys
        /\ uploaded' \in {"none", "layout", "custom"}
        /\ km' \in [layout : Layouts \cup {"none"}, custom : SUBSET Chars]
        /\ pend' => jobs' # <<>> /\ run' \in 1..Len(Head(jobs'))
    BY <1>1, <2>1, RunJobType DEF QueueInv
  <2>3. jobs' \in Seq(Seq(Chars))
    BY <2>2, TextSeq
  <2>. QED
    BY <1>1, <2>2, <2>3 DEF QueueInv, TypeOK, QueueOK, RunOK, TimerArmed, Output
<1>2. CASE Timer
  BY <1>1, <1>2 DEF Timer, QueueInv, TypeOK, QueueOK
<1>3. ASSUME NEW t \in Texts, singularity_type_text(t)
      PROVE  QueueInv'
  <2>0. t \in Text /\ layout' = layout /\ texts' \in 0..MaxTexts
    BY <1>3, TextsAssumption, BoundsAssumption DEF singularity_type_text, Text, QueueInv, TypeOK
  <2>1. CASE ~timer /\ jobs = <<>>
    <3>1. run_job(<<t>>) /\ ~pend /\ <<t>> \in Seq(Text) /\ <<t>> # <<>>
      BY <1>3, <2>0, <2>1 DEF singularity_type_text, QueueInv, RunOK
    <3>. QED
      BY <1>1, <2>0, <3>1 DEF QueueInv, TypeOK
  <2>2. CASE ~(~timer /\ jobs = <<>>)
    <3>1. jobs # <<>>
      BY <2>2 DEF QueueInv, TimerArmed
    <3>2. jobs' = Append(jobs, t)
          /\ UNCHANGED <<timer, run, pend, inlayout, batch, uploaded, km, typed, layout>>
      BY <1>3, <2>2 DEF singularity_type_text
    <3>3. jobs' \in Seq(Text) /\ jobs' # <<>> /\ Head(jobs') = Head(jobs)
      BY <2>0, <3>1, <3>2 DEF QueueInv, QueueOK
    <3>4. jobs' \in Seq(Seq(Chars))
      BY <3>3, TextSeq
    <3>. QED
      BY <2>0, <3>1, <3>2, <3>3, <3>4 DEF QueueInv, TypeOK, QueueOK, RunOK, TimerArmed
  <2>. QED
    BY <2>1, <2>2
<1>4. CASE \E l \in Layouts : singularity_type_text_set_layout(l)
  BY <1>4 DEF singularity_type_text_set_layout, QueueInv, TypeOK, QueueOK, RunOK, TimerArmed
<1>5. CASE UNCHANGED vars
  BY <1>5 DEF vars, QueueInv, TypeOK, QueueOK, RunOK, TimerArmed
<1>. QED
  BY <1>2, <1>3, <1>4, <1>5 DEF Next

\* The queue of vkbd.c always has the invariant above.
THEOREM QueueInvariance == Spec => []QueueInv
BY InitQueueInv, StepQueueInv, PTL DEF Spec

\* vkbd.c stays within its types; in particular a batch never overflows
\* batch_keys[BATCH_KEYS].
THEOREM TextTypeCorrect == Spec => []TypeOK
<1>1. QueueInv => TypeOK
  BY DEF QueueInv
<1>. QED
  BY QueueInvariance, <1>1, PTL

\* A queue that is not empty always has its timer, even if keymaps fail or the
\* layout moves.
THEOREM QueueHasTimer == Spec => []TimerArmed
<1>1. QueueInv => TimerArmed
  BY DEF QueueInv
<1>. QED
  BY QueueInvariance, <1>1, PTL

------------------------------------------------------------------------------
(* With a layout that holds still and can be uploaded.                      *)

Steady == ~LayoutMoves /\ "layout" \notin MayFail

\* Pressing a run under its own keymap types exactly its characters, and the
\* queue moves on as Typing says.
LEMMA PressExact ==
  ASSUME NEW ts \in Seq(Text), ts # <<>>, NEW n \in 1..Len(Head(ts)), NEW lay \in BOOLEAN,
         press_run(ts, n, lay),
         lay => km.layout = layout /\ \A i \in 1..n : layout_key(Head(ts)[i]),
         ~lay => km.layout = "none" /\ km.custom = batch /\ CharsOf(Head(ts), n) \subseteq batch
  PROVE  Abstract!Advance(ts, n)
<1> DEFINE t == Head(ts)
           p == [i \in 1..n |-> IF lay THEN press_layout(t[i]) ELSE press_custom(t[i])]
<1>1. t \in Seq(Chars) /\ n \in Nat /\ Len(t) \in Nat
  BY DEF Text
<1>2. \A i \in 1..n : p[i] = t[i]
  BY DEF press_layout, press_custom, CharsOf
<1>3. SubSeq(t, 1, n) = [i \in 1..n |-> t[i]]
  BY <1>1
<1>4. p = SubSeq(t, 1, n)
  BY <1>2, <1>3
<1>5. typed' = typed \o p /\ jobs' = Left(ts, n)
  BY DEF press_run
<1>. QED
  BY <1>4, <1>5 DEF Abstract!Advance, Abstract!Rest, Left

\* The part of KeymapMatches that a fresh upload establishes.
LEMMA UploadKInv ==
  ASSUME NEW ts \in Seq(Text), ts # <<>>, NEW n \in 1..Len(Head(ts)), NEW lay \in BOOLEAN,
         Upload(ts, n, lay), layout' = layout, layout \in Layouts \cup {"none"},
         lay => \A i \in 1..n : layout_key(Head(ts)[i])
  PROVE  KInv'
<1>1. /\ jobs' = ts /\ run' = n /\ inlayout' = lay /\ pend' = TRUE
      /\ uploaded' = IF lay THEN "layout" ELSE "custom"
      /\ lay => km'.layout = layout
      /\ ~lay => km'.layout = "none" /\ km'.custom = batch' /\ batch' = CharsOf(Head(ts), n)
  BY DEF Upload, make_keymap_fd
<1>2. UploadedIsTrue'
  BY <1>1 DEF UploadedIsTrue
<1>3. KeymapMatches'
  BY <1>1 DEF KeymapMatches, layout_key
<1>. QED
  BY <1>2, <1>3 DEF KInv

\* What run_job() does, in the terms of Typing: nothing, a run, or giving up.
LEMMA RunJobRefines ==
  ASSUME Steady, QueueInv, KInv, NEW ts \in Seq(Text), ts # <<>>, pend => ts = jobs,
         run_job(ts), layout' = layout
  PROVE  /\ KInv'
         /\ \/ jobs' = ts /\ typed' = typed
            \/ \E n \in 1..Len(Head(ts)) : Abstract!Advance(ts, n)
            \/ jobs' = Tail(ts) /\ typed' = typed
<1>0. layout \in Layouts \cup {"none"} /\ inlayout \in BOOLEAN
  BY DEF QueueInv, TypeOK
<1>1. CASE PressPending(ts)
  <2>1. pend /\ ts = jobs /\ run \in 1..Len(Head(ts))
    BY <1>1 DEF PressPending, QueueInv, RunOK
  <2>2. press_run(ts, run, inlayout) /\ pend' = FALSE /\ UNCHANGED <<uploaded, km>>
    BY <1>1 DEF PressPending
  <2>3. /\ inlayout => km.layout = layout /\ \A i \in 1..run : layout_key(Head(ts)[i])
        /\ ~inlayout => km.layout = "none" /\ km.custom = batch /\ CharsOf(Head(ts), run) \subseteq batch
    BY <2>1 DEF KInv, KeymapMatches
  <2>4. Abstract!Advance(ts, run)
    BY <1>0, <2>1, <2>2, <2>3, PressExact
  <2>5. KInv'
    BY <2>2 DEF KInv, UploadedIsTrue, KeymapMatches
  <2>. QED
    BY <2>1, <2>4, <2>5
<1>2. ASSUME NEW n \in 1..Len(Head(ts)), LayoutRun(ts, n)
      PROVE  /\ KInv'
             /\ \/ jobs' = ts /\ typed' = typed
                \/ Abstract!Advance(ts, n)
  <2>0. ~pend /\ \A i \in 1..n : layout_key(Head(ts)[i])
    BY <1>2 DEF LayoutRun, IsLayoutRun
  <2>1. CASE Upload(ts, n, TRUE)
    <3>1. jobs' = ts /\ typed' = typed
      BY <2>1 DEF Upload, make_keymap_fd
    <3>. QED
      BY <1>0, <2>0, <2>1, <3>1, UploadKInv
  <2>2. CASE ~Upload(ts, n, TRUE)
    <3>1. /\ uploaded = "layout" /\ press_run(ts, n, TRUE)
          /\ UNCHANGED <<pend, batch, uploaded, km>>
      BY <1>2, <2>2 DEF LayoutRun, Steady
    <3>2. km.layout = layout
      BY <3>1 DEF KInv, UploadedIsTrue
    <3>3. Abstract!Advance(ts, n)
      BY <2>0, <3>1, <3>2, PressExact
    <3>4. KInv'
      BY <2>0, <3>1 DEF KInv, UploadedIsTrue, KeymapMatches
    <3>. QED
      BY <3>3, <3>4
  <2>. QED
    BY <2>1, <2>2
<1>3. ASSUME NEW n \in 1..Len(Head(ts)), CustomRun(ts, n)
      PROVE  /\ KInv'
             /\ \/ jobs' = ts /\ typed' = typed
                \/ jobs' = Tail(ts) /\ typed' = typed
  <2>1. CASE Upload(ts, n, FALSE)
    <3>1. jobs' = ts /\ typed' = typed
      BY <2>1 DEF Upload, make_keymap_fd
    <3>. QED
      BY <1>0, <2>1, <3>1, UploadKInv
  <2>2. CASE ~Upload(ts, n, FALSE)
    <3>1. jobs' = Tail(ts) /\ UNCHANGED <<pend, uploaded, km, typed>> /\ ~pend
      BY <1>3, <2>2 DEF CustomRun
    <3>. QED
      BY <3>1 DEF KInv, UploadedIsTrue, KeymapMatches
  <2>. QED
    BY <2>1, <2>2
<1>. QED
  BY <1>1, <1>2, <1>3 DEF run_job

\* Every step keeps the keymap in order and is a step of Typing.
LEMMA StepRefines ==
  ASSUME Steady, QueueInv, KInv, [Next]_vars
  PROVE  KInv' /\ [Abstract!TNext]_(Abstract!tvars)
<1>1. CASE Timer
  <2>1. jobs # <<>> /\ run_job(jobs) /\ layout' = layout /\ jobs \in Seq(Text)
    BY <1>1 DEF Timer, QueueInv, QueueOK
  <2>2. /\ KInv'
        /\ \/ jobs' = jobs /\ typed' = typed
           \/ \E n \in 1..Len(Head(jobs)) : Abstract!Advance(jobs, n)
           \/ jobs' = Tail(jobs) /\ typed' = typed
    BY <2>1, RunJobRefines
  <2>. QED
    BY <2>1, <2>2 DEF Abstract!TNext, Abstract!tvars, Abstract!Type, Abstract!GiveUp
<1>2. ASSUME NEW t \in Texts, singularity_type_text(t)
      PROVE  KInv' /\ [Abstract!TNext]_(Abstract!tvars)
  <2>0. t \in Text /\ layout' = layout
    BY <1>2, TextsAssumption DEF singularity_type_text, Text
  <2>1. CASE ~timer /\ jobs = <<>>
    <3>1. run_job(<<t>>) /\ ~pend /\ <<t>> \in Seq(Text) /\ <<t>> # <<>>
          /\ Head(<<t>>) = t /\ Tail(<<t>>) = <<>> /\ Append(jobs, t) = <<t>>
      BY <1>2, <2>0, <2>1 DEF singularity_type_text, QueueInv, RunOK
    <3>2. /\ KInv'
          /\ \/ jobs' = <<t>> /\ typed' = typed
             \/ \E n \in 1..Len(t) : Abstract!Advance(<<t>>, n)
             \/ jobs' = <<>> /\ typed' = typed
      BY <2>0, <3>1, RunJobRefines
    <3>. QED
      BY <2>1, <3>1, <3>2 DEF Abstract!TNext, Abstract!tvars, Abstract!Submit, Abstract!TypeAtOnce
  <2>2. CASE ~(~timer /\ jobs = <<>>)
    <3>1. jobs # <<>>
      BY <2>2 DEF QueueInv, TimerArmed
    <3>2. jobs' = Append(jobs, t)
          /\ UNCHANGED <<timer, run, pend, inlayout, batch, uploaded, km, typed, layout>>
      BY <1>2, <2>2 DEF singularity_type_text
    <3>3. jobs' # <<>> /\ Head(jobs') = Head(jobs)
      BY <2>0, <3>1, <3>2 DEF QueueInv, QueueOK
    <3>4. KInv'
      BY <3>2, <3>3 DEF KInv, UploadedIsTrue, KeymapMatches, layout_key
    <3>. QED
      BY <3>2, <3>4 DEF Abstract!TNext, Abstract!Submit
  <2>. QED
    BY <2>1, <2>2
<1>3. CASE \E l \in Layouts : singularity_type_text_set_layout(l)
  <2>1. ~pend /\ UNCHANGED <<jobs, pend, km, typed>>
        /\ uploaded' = IF uploaded = "layout" THEN "none" ELSE uploaded
    BY <1>3 DEF singularity_type_text_set_layout, Steady
  <2>. QED
    BY <2>1 DEF KInv, UploadedIsTrue, KeymapMatches, Abstract!tvars
<1>4. CASE UNCHANGED vars
  BY <1>4 DEF vars, KInv, UploadedIsTrue, KeymapMatches, layout_key, Abstract!tvars
<1>. QED
  BY <1>1, <1>2, <1>3, <1>4 DEF Next

\* What run_job() believes about the keymap is true: a run is pressed under the
\* keymap that was uploaded for it.
THEOREM KeymapIsRight ==
  ASSUME Steady
  PROVE  Spec => [](UploadedIsTrue /\ KeymapMatches)
<1>1. Init => KInv
  BY DEF Init, KInv, UploadedIsTrue, KeymapMatches
<1>2. QueueInv /\ KInv /\ [Next]_vars => KInv'
  BY StepRefines
<1>3. KInv => UploadedIsTrue /\ KeymapMatches
  BY DEF KInv
<1>. QED
  BY QueueInvariance, <1>1, <1>2, <1>3, PTL DEF Spec

\* vkbd.c implements Typing: every text arrives in order, character by
\* character, as long as the layout holds still during a run.
THEOREM TypeTextImplementsTyping ==
  ASSUME Steady
  PROVE  Spec => TypesExactly
<1>1. Init => KInv /\ Abstract!TInit
  BY DEF Init, KInv, UploadedIsTrue, KeymapMatches, Abstract!TInit
<1>2. QueueInv /\ KInv /\ [Next]_vars => KInv' /\ [Abstract!TNext]_(Abstract!tvars)
  BY StepRefines
<1>. QED
  BY QueueInvariance, <1>1, <1>2, PTL DEF Spec, TypesExactly, Abstract!TSpec
==============================================================================
