------------------------------ MODULE TypeText -------------------------------
(***************************************************************************)
(* src/src/wayland/vkbd.c: typing text into the focused window through a   *)
(* virtual keyboard.  A text is cut into runs; the characters of a run are *)
(* either all in the user's layout or all in a keymap generated for them.  *)
(* The keymap is uploaded, and a timer later the keys are pressed.         *)
(*                                                                         *)
(* A job is the part of its text that is not typed yet.  A key code is     *)
(* abstracted to the layout (or batch) and the character it stands for in  *)
(* it: pressed under another keymap it gives Wrong.                        *)
(***************************************************************************)
EXTENDS Naturals, Sequences, FiniteSets

CONSTANTS
  Chars,        \* characters
  Texts,        \* texts that are asked for
  Layouts,      \* keyboard layouts the user may choose
  LayoutChars,  \* the characters each layout has keys for
  BatchKeys,    \* BATCH_KEYS: keys of a generated keymap
  MaxTexts,     \* bound: texts that are asked for in a behaviour
  MayFail,      \* the keymaps whose memfd may fail: subset of {"layout", "custom"}
  LayoutMoves   \* the layout may change between an upload and its key presses

ASSUME TextsAssumption == \A t \in Texts : t \in Seq(Chars) /\ t # <<>>
ASSUME CharsAssumption == {"wrong", "nothing"} \cap Chars = {}
ASSUME LayoutsAssumption == DOMAIN LayoutChars = Layouts /\ "none" \notin Layouts
ASSUME BoundsAssumption == BatchKeys \in Nat \ {0} /\ MaxTexts \in Nat
ASSUME SwitchAssumption == MayFail \subseteq {"layout", "custom"} /\ LayoutMoves \in BOOLEAN

VARIABLES
  jobs,       \* jobs: what is left of every text, first in first out
  timer,      \* job_timer # 0
  run,        \* run_end - pos of the run in progress
  pend,       \* run_pending: a keymap is uploaded, its keys are not pressed
  inlayout,   \* run_in_layout
  batch,      \* batch_keys
  layout,     \* the layout of layout_keys and layout_text, or "none"
  uploaded,   \* UPLOADED_NONE, UPLOADED_LAYOUT or UPLOADED_CUSTOM
  km,         \* the keymap the compositor has for the virtual keyboard
  typed,      \* the characters the window has received
  texts       \* texts asked for so far

vars == <<jobs, timer, run, pend, inlayout, batch, layout, uploaded, km, typed, texts>>

Wrong == "wrong"      \* a key pressed under a keymap it was not meant for
Nothing == "nothing"  \* a character whose key was not found, and was skipped

TypeOK ==
  /\ jobs \in Seq(Seq(Chars))
  /\ timer \in BOOLEAN /\ pend \in BOOLEAN /\ inlayout \in BOOLEAN
  /\ run \in Nat
  /\ batch \in SUBSET Chars /\ Cardinality(batch) <= BatchKeys
  /\ layout \in Layouts \cup {"none"}
  /\ uploaded \in {"none", "layout", "custom"}
  /\ km \in [layout : Layouts \cup {"none"}, custom : SUBSET Chars]
  /\ typed \in Seq(Chars \cup {Wrong, Nothing})
  /\ texts \in 0..MaxTexts

Init ==
  /\ jobs = <<>> /\ timer = FALSE
  /\ run = 0 /\ pend = FALSE /\ inlayout = FALSE /\ batch = {}
  /\ layout = "none" /\ uploaded = "none"
  /\ km = [layout |-> "none", custom |-> {}]
  /\ typed = <<>> /\ texts = 0

------------------------------------------------------------------------------
layout_key(c) == layout # "none" /\ c \in LayoutChars[layout]

CharsOf(t, n) == {t[i] : i \in 1..n}

\* The first n characters of t are a run in the layout, and no longer one is.
IsLayoutRun(t, n) ==
  /\ \A i \in 1..n : layout_key(t[i])
  /\ n < Len(t) => ~layout_key(t[n + 1])

IsCustomRun(t, n) ==
  /\ \A i \in 1..n : ~layout_key(t[i])
  /\ Cardinality(CharsOf(t, n)) <= BatchKeys
  /\ n < Len(t) => layout_key(t[n + 1]) \/ Cardinality(CharsOf(t, n + 1)) > BatchKeys

\* What the window gets for c.
press_layout(c) ==
  IF ~layout_key(c) THEN Nothing ELSE IF km.layout = layout THEN c ELSE Wrong

press_custom(c) ==
  IF c \notin batch THEN Nothing ELSE IF km.layout = "none" /\ km.custom = batch THEN c ELSE Wrong

\* What is left of the texts ts when n characters of the first are dealt with.
Left(ts, n) ==
  IF n = Len(Head(ts)) THEN Tail(ts)
  ELSE <<SubSeq(Head(ts), n + 1, Len(Head(ts)))>> \o Tail(ts)

press_run_stop(ts, n, lay) ==
  /\ typed' = typed \o [i \in 1..n |-> IF lay THEN press_layout(Head(ts)[i])
                                              ELSE press_custom(Head(ts)[i])]
  /\ jobs' = Left(ts, n)
  /\ timer' = (n # Len(Head(ts)))

\* Presses the next n characters and moves on: a finished job is dropped, and
\* the timer is set for the next run if there is one.
press_run(ts, n, lay) ==
  /\ typed' = typed \o [i \in 1..n |-> IF lay THEN press_layout(Head(ts)[i])
                                              ELSE press_custom(Head(ts)[i])]
  /\ jobs' = Left(ts, n)
  /\ timer' = (jobs' # <<>>)

\* A keymap with one key for each of the characters.
make_keymap_fd(chars) == [layout |-> "none", custom |-> chars]

\* Uploads a keymap and waits 40 ms before its keys are pressed.
Upload(ts, n, lay) ==
  /\ jobs' = ts /\ run' = n /\ inlayout' = lay
  /\ pend' = TRUE /\ timer' = TRUE
  /\ uploaded' = IF lay THEN "layout" ELSE "custom"
  /\ batch' = IF lay THEN batch ELSE CharsOf(Head(ts), n)
  /\ km' = IF lay THEN [layout |-> layout, custom |-> {}]
                  ELSE make_keymap_fd(batch')
  /\ UNCHANGED typed

\* run_job() over the jobs ts, whose first one is not empty.
PressPending(ts) ==
  /\ pend /\ pend' = FALSE
  /\ press_run(ts, run, inlayout)
  /\ UNCHANGED <<run, inlayout, batch, uploaded, km>>

LayoutRun_at_once(ts, n) ==
  /\ ~pend /\ IsLayoutRun(Head(ts), n)
  /\ run' = n /\ inlayout' = TRUE
  /\ press_run(ts, n, TRUE)
  /\ UNCHANGED <<pend, batch, uploaded, km>>

LayoutRun(ts, n) ==
  /\ ~pend /\ IsLayoutRun(Head(ts), n)
  /\ \/ uploaded # "layout" /\ Upload(ts, n, TRUE)
     \/ /\ uploaded = "layout" \/ "layout" \in MayFail
        /\ run' = n /\ inlayout' = TRUE
        /\ press_run(ts, n, TRUE)
        /\ UNCHANGED <<pend, batch, uploaded, km>>

CustomRun(ts, n) ==
  /\ ~pend /\ IsCustomRun(Head(ts), n)
  /\ \/ Upload(ts, n, FALSE)
     \/ /\ "custom" \in MayFail
        /\ run' = n /\ inlayout' = FALSE /\ batch' = CharsOf(Head(ts), n)
        /\ jobs' = Tail(ts) /\ timer' = (jobs' # <<>>)
        /\ UNCHANGED <<pend, uploaded, km, typed>>

run_job(ts) ==
  \/ PressPending(ts)
  \/ \E n \in 1..Len(Head(ts)) : LayoutRun(ts, n) \/ CustomRun(ts, n)

------------------------------------------------------------------------------
\* The timer runs run_job() over the queue.
Timer ==
  /\ timer /\ jobs # <<>>
  /\ run_job(jobs)
  /\ UNCHANGED <<layout, texts>>

\* A text that finds the queue empty is started in the same call.
singularity_type_text(t) ==
  /\ texts < MaxTexts /\ texts' = texts + 1
  /\ IF ~timer /\ jobs = <<>>
     THEN run_job(<<t>>)
     ELSE /\ jobs' = Append(jobs, t)
          /\ UNCHANGED <<timer, run, pend, inlayout, batch, uploaded, km, typed>>
  /\ UNCHANGED layout

\* A new layout makes the layout keymap that is uploaded a wrong one.
singularity_type_text_set_layout(l) ==
  /\ LayoutMoves \/ ~pend
  /\ l # layout /\ layout' = l
  /\ uploaded' = IF uploaded = "layout" THEN "none" ELSE uploaded
  /\ UNCHANGED <<jobs, timer, run, pend, inlayout, batch, km, typed, texts>>

Next ==
  \/ Timer
  \/ \E t \in Texts : singularity_type_text(t)
  \/ \E l \in Layouts : singularity_type_text_set_layout(l)

\* GLib runs a timeout that is due.
Spec == Init /\ [][Next]_vars /\ WF_vars(Timer)

------------------------------------------------------------------------------
(* Properties                                                               *)

\* The queue never stands still: a text that is not finished has a timer, and
\* singularity_type_text() never adds a second one to it.
TimerArmed == timer <=> jobs # <<>>

\* What run_job() believes to be uploaded is the keymap the compositor has, so
\* a run that skips the upload is pressed under the right keymap.
UploadedIsTrue ==
  /\ uploaded = "layout" => km.layout = layout
  /\ uploaded = "custom" => km.layout = "none"

\* A run that waits for its keymap will be pressed under the keymap that was
\* uploaded for exactly these characters.
KeymapMatches ==
  pend => /\ jobs # <<>> /\ run \in 1..Len(Head(jobs))
          /\ inlayout => /\ km.layout = layout
                         /\ \A i \in 1..run : layout_key(Head(jobs)[i])
          /\ ~inlayout => /\ km.layout = "none" /\ km.custom = batch
                          /\ CharsOf(Head(jobs), run) \subseteq batch

\* The queue, its runs and its timers implement Typing: what arrives is the
\* texts in order, character by character.
Abstract == INSTANCE Typing WITH todo <- jobs, out <- typed
TypesExactly == Abstract!TSpec

\* Every text is typed or given up in the end.
EveryTextTyped == (jobs # <<>>) ~> (jobs = <<>>)
==============================================================================
