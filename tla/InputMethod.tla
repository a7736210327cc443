----------------------------- MODULE InputMethod -----------------------------
(***************************************************************************)
(* The keyboard side of the input method: src/src/wayland/ime.c with the   *)
(* key queue of src/src/core/input_method_service.vala on top of it.       *)
(*                                                                         *)
(* While a text field is active and somebody wants the keys, the shell     *)
(* holds a keyboard grab: the compositor sends it every key, and what the  *)
(* shell does not use itself it forwards through a virtual keyboard.  An   *)
(* engine of another process is asked about a key asynchronously.          *)
(*                                                                         *)
(* The virtual keyboard and the modifiers it holds (kb.down, kb.mods) are  *)
(* compositor state; everything else is state of the shell.                *)
(***************************************************************************)
EXTENDS Naturals, Sequences

CONSTANTS
  Keys,       \* key codes of the keyboard
  Tracked,    \* the ones below KEY_COUNT, which forwarded[] remembers
  MaxEvents   \* bound: key events the compositor sends to the grab

ASSUME KeysAssumption == Tracked \subseteq Keys
ASSUME BoundAssumption == MaxEvents \in Nat

VARIABLES
  im,         \* input_method: "none" (not started), "live" or "gone" (destroyed)
  kb,         \* [grab, forwarded, down, mods]: keyboard_grab # NULL, forwarded[],
              \* and the keys and modifiers held on the virtual keyboard
  kmset,      \* forward_keymap_set
  want,       \* want_grab
  pending,    \* the double-buffered state of the text field ...
  current,    \* ... and the part of it that a done event has applied
  engine,     \* an engine is bound and selected
  queue,      \* key_queue: keys that wait for the engine
  asked,      \* the key whose answer drain_keys() awaits; draining = asked # NoKey
  events,     \* key events received so far; numbers them
  last        \* number of the last event that was forwarded or swallowed

imVars == <<im, kb, kmset, want, pending, current, engine, queue, asked, events, last>>

Field == [active : BOOLEAN, private : BOOLEAN]
Item == [key : Keys, pressed : BOOLEAN, n : 1..MaxEvents]
NoKey == [n |-> 0]
draining == asked # NoKey

ImTypeOK ==
  /\ im \in {"none", "live", "gone"}
  /\ kb \in [grab : BOOLEAN, forwarded : SUBSET Tracked, down : SUBSET Keys, mods : BOOLEAN]
  /\ kmset \in BOOLEAN /\ want \in BOOLEAN /\ engine \in BOOLEAN
  /\ pending \in Field /\ current \in Field
  /\ queue \in Seq(Item)
  /\ asked \in Item \cup {NoKey}
  /\ events \in 0..MaxEvents /\ last \in 0..MaxEvents

ImInit ==
  /\ im = "none"
  /\ kb = [grab |-> FALSE, forwarded |-> {}, down |-> {}, mods |-> FALSE]
  /\ kmset = FALSE /\ want = FALSE /\ engine = FALSE
  /\ pending = [active |-> FALSE, private |-> FALSE]
  /\ current = pending
  /\ queue = <<>> /\ asked = NoKey
  /\ events = 0 /\ last = 0

------------------------------------------------------------------------------
(* What the helpers of ime.c do to the keyboard state b.                    *)

SetKey(S, k, pressed) == IF pressed THEN S \cup {k} ELSE S \ {k}

\* Without a keymap the virtual keyboard is sent nothing.
send_forward(b, k, pressed) ==
  IF kmset THEN [b EXCEPT !.down = SetKey(@, k, pressed)] ELSE b

forward_key_unrecorded(b, k, pressed) ==
  [send_forward(b, k, pressed) EXCEPT !.forwarded = IF pressed THEN @ ELSE @ \ {k}]

forward_key(b, k, pressed) ==
  [send_forward(b, k, pressed) EXCEPT
     !.forwarded = IF k \in Tracked THEN SetKey(@, k, pressed) ELSE @]

release_forwarded_keys(b) ==
  [b EXCEPT !.forwarded = {},
            !.down = IF kmset THEN @ \ b.forwarded ELSE @,
            !.mods = @ /\ ~kmset]

\* Inside a key handler (depth) nothing happens: grab_key() calls it again at
\* its end.  A grab that is given up lets its keys go first.
update_grab(b, depth, w, active) ==
  LET grab == w /\ active /\ im = "live"
  IN  IF depth # 0 THEN b
      ELSE IF ~grab /\ b.grab THEN [release_forwarded_keys(b) EXCEPT !.grab = FALSE]
      ELSE [b EXCEPT !.grab = grab]

------------------------------------------------------------------------------
(* Start and the events of the input method object.                         *)

singularity_ime_start ==
  /\ im = "none"
  /\ im' = "live"
  /\ UNCHANGED <<kb, kmset, want, pending, current, engine, queue, asked, events, last>>

ImChanged == UNCHANGED <<im, kb, kmset, want, current, engine, queue, asked, events, last>>

im_activate ==
  /\ im = "live"
  /\ pending' = [active |-> TRUE, private |-> FALSE]
  /\ ImChanged

im_deactivate ==
  /\ im = "live"
  /\ pending' = [pending EXCEPT !.active = FALSE]
  /\ ImChanged

im_content_type(private) ==
  /\ im = "live"
  /\ pending' = [pending EXCEPT !.private = private]
  /\ ImChanged

\* The pending state becomes current and the service, told of it, asks for the
\* keys or not (w): the grab is updated for both.
im_done(w) ==
  /\ im = "live"
  /\ current' = pending
  /\ want' = w
  /\ kb' = update_grab(update_grab(kb, 0, want, pending.active), 0, w, pending.active)
  /\ UNCHANGED <<im, kmset, pending, engine, queue, asked, events, last>>

\* The object is destroyed and forgotten; the grab is not touched.
im_unavailable ==
  /\ im = "live"
  /\ im' = "gone"
  /\ UNCHANGED <<kb, kmset, want, pending, current, engine, queue, asked, events, last>>

------------------------------------------------------------------------------
(* What the service does to the grab.                                       *)

\* A setting, a popup or capture-escape changes who wants the keys.
singularity_ime_set_grab(w) ==
  /\ want' = w
  /\ kb' = IF im = "none" THEN kb ELSE update_grab(kb, 0, w, current.active)
  /\ UNCHANGED <<im, kmset, pending, current, engine, queue, asked, events, last>>

\* Another input source: bind_engine() and sources.changed end in update_grab().
bind_engine(w) ==
  /\ engine' = ~engine
  /\ want' = w
  /\ kb' = IF im = "none" THEN kb ELSE update_grab(kb, 0, w, current.active)
  /\ UNCHANGED <<im, kmset, pending, current, queue, asked, events, last>>

engine_context == current.active /\ engine /\ ~current.private

Tap(b, k) == forward_key(forward_key(b, k, TRUE), k, FALSE)

\* The engine asks for a key of its own, or a suggestion is applied with
\* backspaces.
on_engine_forward(k) ==
  /\ engine \/ current.active
  /\ kb' = Tap(kb, k)
  /\ UNCHANGED <<im, kmset, want, pending, current, engine, queue, asked, events, last>>

------------------------------------------------------------------------------
(* Events of the keyboard grab.                                             *)

grab_keymap ==
  /\ kb.grab /\ im = "live"
  /\ kmset' = TRUE
  /\ UNCHANGED <<im, kb, want, pending, current, engine, queue, asked, events, last>>

\* Late events of a grab that is released (not mine) are ignored.
grab_modifiers(mine, m) ==
  /\ kb' = IF mine /\ kmset THEN [kb EXCEPT !.mods = m] ELSE kb
  /\ UNCHANGED <<im, kmset, want, pending, current, engine, queue, asked, events, last>>

\* What on_key() answers: the key goes to the queue of the engine, is used up,
\* is typed at once (press and hold for accents), or is left to the application.
Queued_context == engine_context
Queued == engine_context \/ draining
Answers(pressed) ==
  {"escape"} \cup (IF Queued THEN {"queued"}
                  ELSE IF pressed THEN {"used", "tapped", "unused"} ELSE {"unused"})

\* forwarding of a key on_key() has left alone; a release only follows a press
Forwarded(b, k, pressed, consumed) ==
  IF k \notin Tracked
  THEN IF consumed THEN b ELSE send_forward(b, k, pressed)
  ELSE IF pressed
       THEN IF consumed THEN b ELSE forward_key(b, k, TRUE)
       ELSE IF k \in b.forwarded THEN forward_key(b, k, FALSE) ELSE b

\* One key event: on_key() may change who wants the keys (w) on its way.
grab_key(k, pressed, answer, w) ==
  /\ kb.grab /\ im = "live" /\ events < MaxEvents
  /\ answer \in Answers(pressed)
  /\ LET item  == [key |-> k, pressed |-> pressed, n |-> events + 1]
         start == answer = "queued" /\ ~draining
         typed == IF answer = "tapped" THEN Tap(kb, k) ELSE kb
         asks  == update_grab(typed, 1, w, current.active)
         sent  == Forwarded(asks, k, pressed, answer # "unused")
     IN  /\ kb' = update_grab(sent, 0, w, current.active)
         /\ asked' = IF start THEN item ELSE asked
         /\ queue' = IF answer = "queued" /\ ~start THEN Append(queue, item) ELSE queue
         /\ last' = IF answer \in {"queued", "escape"} THEN last ELSE item.n
  /\ want' = w
  /\ events' = events + 1
  /\ UNCHANGED <<im, kmset, pending, current, engine>>

------------------------------------------------------------------------------
(* The engine answers.                                                      *)

Deliver(b, item, handled) ==
  IF item.pressed
  THEN IF handled THEN b ELSE forward_key(b, item.key, TRUE)
  ELSE IF item.key \in b.forwarded THEN forward_key(b, item.key, FALSE) ELSE b

\* Delivering a whole sequence of keys that nobody handles: the last event of
\* a key decides, and the release of an untracked key is never sent.
DeliverAll(b, items) ==
  LET Last(k) == CHOOSE i \in DOMAIN items :
                   /\ items[i].key = k
                   /\ \A j \in DOMAIN items : items[j].key = k => j <= i
      hit     == {items[i].key : i \in DOMAIN items}
      on      == {k \in hit \cap Tracked : items[Last(k)].pressed}
      off     == (hit \cap Tracked) \ on
      stuck   == {items[i].key : i \in {j \in DOMAIN items : items[j].pressed}} \ Tracked
  IN  [b EXCEPT !.forwarded = (@ \cup on) \ off,
                !.down = IF kmset THEN (@ \cup on \cup stuck) \ off ELSE @]

\* drain_keys() after its await: deliver the key, then go on with the queue
\* until a key has to be asked about again.
drain_keys_once(handled) ==
  /\ draining
  /\ kb' = Deliver(kb, asked, handled)
  /\ last' = asked.n
  /\ asked' = NoKey
  /\ UNCHANGED <<im, kmset, want, pending, current, engine, queue, events>>

drain_keys(handled) ==
  /\ draining
  /\ LET b == Deliver(kb, asked, handled)
     IN  IF engine_context /\ queue # <<>>
         THEN /\ asked' = Head(queue)
              /\ queue' = Tail(queue)
              /\ kb' = b
              /\ last' = asked.n
         ELSE /\ asked' = NoKey
              /\ queue' = <<>>
              /\ kb' = DeliverAll(b, queue)
              /\ last' = IF queue = <<>> THEN asked.n ELSE queue[Len(queue)].n
  /\ UNCHANGED <<im, kmset, want, pending, current, engine, events>>

------------------------------------------------------------------------------
ImNext ==
  \/ singularity_ime_start
  \/ im_activate
  \/ im_deactivate
  \/ \E p \in BOOLEAN : im_content_type(p)
  \/ \E w \in BOOLEAN : im_done(w)
  \/ im_unavailable
  \/ \E w \in BOOLEAN : singularity_ime_set_grab(w)
  \/ \E w \in BOOLEAN : bind_engine(w)
  \/ \E k \in Keys : on_engine_forward(k)
  \/ grab_keymap
  \/ \E mine \in {FALSE, kb.grab}, m \in BOOLEAN : grab_modifiers(mine, m)
  \/ \E k \in Keys, p \in BOOLEAN, a \in {"escape", "queued", "used", "tapped", "unused"}, w \in BOOLEAN : grab_key(k, p, a, w)
  \/ \E h \in BOOLEAN : drain_keys(h)

\* The call to the engine returns: with an answer, an error or D-Bus's timeout.
ImSpec == ImInit /\ [][ImNext]_imVars /\ WF_imVars(\E h \in BOOLEAN : drain_keys(h))

------------------------------------------------------------------------------
(* Properties                                                               *)

\* Every key the virtual keyboard holds down is known to forwarded[], so that
\* release_forwarded_keys() can let it go; forward_key() and the queue set both.
HeldKeysRecorded == kb.down \cap Tracked \subseteq kb.forwarded

\* The shell holds the grab exactly while a text field is active and the keys
\* are wanted, whatever order activation, settings and keys come in.
GrabAsWanted == im = "live" => (kb.grab <=> want /\ current.active)

\* Modifiers forwarded to the application never outlive the grab, late events
\* of a released grab included.
NoGrabNoModifiers == ~kb.grab => ~kb.mods

\* The step that gives up the grab leaves no key down on the virtual keyboard,
\* even when on_key() asks for it in the middle of a key.
UngrabReleases == [][kb.grab /\ ~kb'.grab => kb'.down \cap Tracked = {}]_imVars

\* Keys reach the application in the order they were pressed, although some
\* wait for an answer of the engine and others do not.
KeysInOrder == [][last' >= last]_imVars

\* Keys that wait for the engine are dealt with, also when the text field that
\* had the engine is gone before the answer comes.
QueueDrains == (queue # <<>>) ~> (queue = <<>>)
==============================================================================
