----------------------------- MODULE LockScreen -----------------------------
(***************************************************************************)
(* lockscreen/lock_main.c, lock_fprint.c and pam_auth.c: the session       *)
(* locker.  It holds an ext-session-lock-v1 lock object, draws a lock      *)
(* surface on every output, checks a password or a fingerprint, plays a    *)
(* leave animation paced by the frame callbacks of the outputs, and then   *)
(* unlocks.                                                                *)
(*                                                                         *)
(* The process has one thread that dispatches Wayland handlers and GLib    *)
(* callbacks in turn.  A handler is one action, except unlock_session():   *)
(* it waits in wl_display_roundtrip(), which dispatches further Wayland    *)
(* handlers (and no GLib callback) before it returns.  depth counts the    *)
(* roundtrips that are on the stack.  The compositor, the fingerprint      *)
(* service, the password broker and PAM are external.                      *)
(***************************************************************************)
EXTENDS Integers, FiniteSets

CONSTANTS
    Outputs,       \* the outputs that can be plugged in
    PasswordSize,  \* sizeof password (1024)
    MaxUtf8,       \* the longest key text, in bytes
    MaxDepth       \* bound: nested roundtrips

ASSUME PasswordAssumption ==
    /\ PasswordSize \in Nat /\ PasswordSize >= 2
    /\ MaxUtf8 \in Nat \ {0}
ASSUME DepthAssumption == MaxDepth \in Nat \ {0}

VARIABLES
    sent,          \* lock events the compositor has sent: locked, finished
    locked,        \* the locked event has been handled
    outputs,       \* outputs in the list
    surfaced,      \* those with a lock surface
    configured,    \* those whose lock surface has been configured
    frames,        \* those with a pending frame callback (frame_cb)
    phase,         \* anim_phase
    anim,          \* anim_start: unset, running, or anim_ms have passed
    shaking,       \* shake_start >= 0
    password_len,
    running,
    depth,         \* roundtrips inside unlock_session on the stack
    pc,            \* loop, final (the last roundtrip of main), exited
    device, claimed, verifying,  \* the statics of lock_fprint.c
    call,          \* its asynchronous D-Bus call in flight
    cancelled,     \* lock_fprint_stop() has run
    authenticated, \* a right password or a matching finger was presented
    unlocks,       \* unlock_and_destroy requests sent, capped at 2
    misused        \* the lock object was used after its destruction

sceneVars  == <<outputs, surfaced, configured, frames>>
motionVars == <<phase, anim, shaking>>
fprintVars == <<device, claimed, verifying, call, cancelled>>
lockVars   == <<unlocks, misused, depth>>
loopVars   == <<running, pc>>
vars == <<sent, locked, sceneVars, motionVars, password_len, loopVars,
          fprintVars, authenticated, lockVars>>

Calls == {"none", "manager", "default_device", "device", "fingers", "claim",
          "verify"}

TypeOK ==
    /\ sent \subseteq {"locked", "finished"}
    /\ locked \in BOOLEAN
    /\ outputs \subseteq Outputs
    /\ surfaced \subseteq outputs
    /\ configured \subseteq surfaced
    /\ frames \subseteq configured
    /\ phase \in {"enter", "idle", "leave"}
    /\ anim \in {"unset", "running", "elapsed"}
    /\ shaking \in BOOLEAN
    /\ password_len \in 0..(PasswordSize - 2)
    /\ running \in BOOLEAN
    /\ depth \in 0..MaxDepth
    /\ pc \in {"loop", "final", "exited"}
    /\ device \in BOOLEAN /\ claimed \in BOOLEAN /\ verifying \in BOOLEAN
    /\ call \in Calls
    /\ cancelled \in BOOLEAN
    /\ authenticated \in BOOLEAN
    /\ unlocks \in 0..2
    /\ misused \in BOOLEAN

\* main() up to the loop: the lock is requested, the enter animation set up,
\* the fingerprint chain started.
Init ==
    /\ sent = {}
    /\ locked = FALSE
    /\ outputs \in SUBSET Outputs
    /\ surfaced = {} /\ configured = {} /\ frames = {}
    /\ phase = "enter" /\ anim = "unset" /\ shaking = FALSE
    /\ password_len = 0
    /\ running = TRUE /\ depth = 0 /\ pc = "loop"
    /\ device = FALSE /\ claimed = FALSE /\ verifying = FALSE
    /\ call = "manager" /\ cancelled = FALSE
    /\ authenticated = FALSE
    /\ unlocks = 0 /\ misused = FALSE

\* Where handlers can run: Wayland events also inside a roundtrip.
Wayland == pc # "exited"
Glib    == pc = "loop" /\ depth = 0

-----------------------------------------------------------------------------
(* Rendering.                                                              *)

motion == [phase |-> phase, anim |-> anim, shaking |-> shaking,
           frames |-> frames]

SetMotion(m) ==
    /\ phase' = m.phase
    /\ anim' = m.anim
    /\ shaking' = m.shaking
    /\ frames' = m.frames

\* apply_motion() on a frame that is drawn: the clock of the animation is
\* started, a shake may have come to rest, the enter phase may be over.
apply_motion(m, rest) ==
    LET clock == IF m.phase # "idle" /\ m.anim = "unset" THEN "running"
                                                         ELSE m.anim
    IN  [m EXCEPT !.anim = clock,
                  !.shaking = m.shaking /\ ~rest,
                  !.phase = IF m.phase = "enter" /\ clock = "elapsed"
                            THEN "idle" ELSE m.phase]

Animating(m) ==
    m.phase = "leave" \/ (m.phase = "enter" /\ m.anim = "running") \/ m.shaking

\* render_output() on every output of S: one with a pending callback is
\* skipped, and so is one whose buffer cannot be created; a drawn output
\* that is still moving, or leaving, asks for a frame callback.
rendered(S, m) ==
    {m} \cup
    {LET n == apply_motion(m, rest)
     IN  [n EXCEPT !.frames = IF Animating(n) THEN m.frames \cup drawn
                                              ELSE m.frames] :
        drawn \in SUBSET (S \ m.frames) \ {{}}, rest \in BOOLEAN}

render_all(m) == rendered(configured, m)

-----------------------------------------------------------------------------
(* Unlocking.                                                              *)

\* Outstanding calls are cancelled, the sensor is released, the statics are
\* cleared.
lock_fprint_stop ==
    /\ cancelled' = TRUE
    /\ device' = FALSE
    /\ claimed' = FALSE
    /\ verifying' = FALSE
    /\ UNCHANGED call

\* The compositor releases the session only when it had sent locked before
\* the request; earlier the request is the protocol error invalid_unlock.
\* (It sends no lock event after the request, see CompositorSends.)
released == unlocks > 0 /\ "locked" \in sent
refused  == unlocks > 0 /\ "locked" \notin sent

\* unlock_session() up to its roundtrip; RoundtripDone is the rest.  The
\* request is sent whether or not the session has been locked yet.
unlock_session ==
    /\ depth < MaxDepth
    /\ lock_fprint_stop
    /\ unlocks' = IF unlocks < 2 THEN unlocks + 1 ELSE 2
    /\ misused' = (misused \/ unlocks > 0)
    /\ depth' = depth + 1

RoundtripDone ==
    /\ Wayland
    /\ depth > 0
    /\ depth' = depth - 1
    /\ running' = FALSE
    /\ UNCHANGED <<sent, locked, sceneVars, motionVars, password_len, pc,
                   fprintVars, authenticated, unlocks, misused>>

\* begin_leave() with the motion m and the value v of verifying that its
\* caller has reached.
begin_leave(m, v) ==
    \/ /\ m.phase = "leave"
       /\ SetMotion(m)
       /\ verifying' = v
       /\ UNCHANGED <<device, claimed, call, cancelled, lockVars>>
    \/ /\ m.phase # "leave" /\ configured = {}
       /\ SetMotion(m)
       /\ unlock_session
    \/ /\ m.phase # "leave" /\ configured # {}
       /\ \E r \in render_all([m EXCEPT !.phase = "leave", !.anim = "unset",
                                        !.shaking = FALSE]) : SetMotion(r)
       /\ verifying' = v
       /\ UNCHANGED <<device, claimed, call, cancelled, lockVars>>

frame_done_any_phase(o) ==
    /\ Wayland
    /\ o \in frames
    /\ LET m == [motion EXCEPT !.frames = @ \ {o}]
       IN  \/ /\ anim = "elapsed"
              /\ SetMotion([m EXCEPT !.phase = "idle"])
              /\ unlock_session
           \/ /\ anim # "elapsed"
              /\ \E r \in rendered({o}, m) : SetMotion(r)
              /\ UNCHANGED <<fprintVars, lockVars>>
    /\ UNCHANGED <<sent, locked, outputs, surfaced, configured,
                   password_len, loopVars, authenticated>>

\* frame_done() of output o: the callback that comes after the end of the
\* leave animation unlocks, any other one draws the next frame.
frame_done(o) ==
    /\ Wayland
    /\ o \in frames
    /\ LET m == [motion EXCEPT !.frames = @ \ {o}]
       IN  \/ /\ phase = "leave" /\ anim = "elapsed"
              /\ SetMotion([m EXCEPT !.phase = "idle"])
              /\ unlock_session
           \/ /\ ~(phase = "leave" /\ anim = "elapsed")
              /\ \E r \in rendered({o}, m) : SetMotion(r)
              /\ UNCHANGED <<fprintVars, lockVars>>
    /\ UNCHANGED <<sent, locked, outputs, surfaced, configured,
                   password_len, loopVars, authenticated>>

-----------------------------------------------------------------------------
(* Password.                                                               *)

Brokers == {"absent", "answers", "times_out", "unreachable"}

\* daemon_verify(): 0, 1, or -1 when PAM has to decide.
daemon_verify(broker, right) ==
    CASE broker = "answers"     -> IF right THEN 0 ELSE 1
      [] broker = "times_out"   -> 1
      [] broker = "unreachable" -> -1

\* The possible results: the broker's verdict, else PAM's, which may refuse
\* a right password (expired account) but never accepts a wrong one.
singularity_pam_authenticate(broker, right) ==
    LET pam == IF right THEN BOOLEAN ELSE {FALSE}
    IN  IF broker = "absent" THEN pam
        ELSE LET r == daemon_verify(broker, right)
             IN  IF r = -1 THEN pam ELSE {r = 0}

\* An animation may run out while PAM blocks the loop.
after_pam(m) ==
    {m} \cup {[m EXCEPT !.anim = "elapsed"] : i \in {j \in {1} :
                                                 m.anim = "running"}}

submit_password ==
    \/ /\ password_len = 0
       /\ UNCHANGED <<password_len, motionVars, frames, fprintVars, lockVars,
                      authenticated>>
    \/ /\ password_len > 0
       /\ password_len' = 0
       /\ \E m \in UNION {after_pam(r) : r \in render_all(motion)},
             right \in BOOLEAN, broker \in Brokers :
             \E ok \in singularity_pam_authenticate(broker, right) :
                /\ authenticated' = (authenticated \/ (ok /\ right))
                /\ \/ ok /\ begin_leave(m, verifying)
                   \/ /\ ~ok
                      /\ \E shake \in {TRUE, m.shaking} :
                         \E r \in render_all([m EXCEPT !.shaking = shake]) :
                            SetMotion(r)
                      /\ UNCHANGED <<fprintVars, lockVars>>

typed_lengths_unchecked ==
    {0} \cup {n \in {password_len - 1} : password_len > 0}
        \cup {n \in password_len + 1..password_len + MaxUtf8 :
                  password_len < PasswordSize - 1}

\* Escape empties the password, backspace shortens it, a key text of a few
\* bytes lengthens it if it fits.
typed_lengths ==
    {0} \cup {n \in {password_len - 1} : password_len > 0}
        \cup {n \in password_len + 1..password_len + MaxUtf8 :
                  n < PasswordSize - 1}

\* kb_key(): the compositor gives the keyboard to a mapped lock surface.
kb_key ==
    /\ Wayland /\ configured # {}
    /\ phase # "leave"
    /\ \/ submit_password
       \/ /\ password_len' \in typed_lengths
          /\ \E r \in render_all(motion) : SetMotion(r)
          /\ UNCHANGED <<fprintVars, lockVars, authenticated>>
    /\ UNCHANGED <<sent, locked, outputs, surfaced, configured, loopVars>>

-----------------------------------------------------------------------------
(* Fingerprint: a chain of asynchronous D-Bus calls, each answered, failed *)
(* or (after lock_fprint_stop) cancelled.                                  *)

\* The pending call c is answered and the next one is made; or it fails, is
\* cancelled, or finds nothing (no device, no enrolled finger).
Chain(c, next, dev, clm) ==
    /\ Glib
    /\ call = c
    /\ \/ /\ ~cancelled
          /\ call' = next /\ device' = dev /\ claimed' = clm
       \/ call' = "none" /\ UNCHANGED <<device, claimed>>
    /\ UNCHANGED <<verifying, cancelled>>
    /\ UNCHANGED <<sent, locked, sceneVars, motionVars, password_len,
                   loopVars, authenticated, lockVars>>

ChainIgnoringCancel(c, next, dev, clm) ==
    /\ Glib
    /\ call = c
    /\ \/ call' = next /\ device' = dev /\ claimed' = clm
       \/ call' = "none" /\ UNCHANGED <<device, claimed>>
    /\ UNCHANGED <<verifying, cancelled>>
    /\ UNCHANGED <<sent, locked, sceneVars, motionVars, password_len,
                   loopVars, authenticated, lockVars>>

on_manager        == Chain("manager", "default_device", FALSE, FALSE)
on_default_device == Chain("default_device", "device", FALSE, FALSE)
on_device         == Chain("device", "fingers", TRUE, FALSE)
on_fingers        == Chain("fingers", "claim", TRUE, FALSE)

on_claimed_uncancelled == ChainIgnoringCancel("claim", "verify", TRUE, TRUE)
on_claimed        == Chain("claim", "verify", TRUE, TRUE)

\* report(): a status line is shown unless a password is being typed.
report ==
    IF password_len > 0 THEN SetMotion(motion)
                        ELSE \E r \in render_all(motion) : SetMotion(r)

on_verify_started ==
    /\ Glib
    /\ call = "verify"
    /\ call' = "none"
    /\ \/ /\ ~cancelled
          /\ verifying' = TRUE
          /\ report
       \/ /\ verifying' = FALSE
          /\ SetMotion(motion)
    /\ UNCHANGED <<device, claimed, cancelled>>
    /\ UNCHANGED <<sent, locked, outputs, surfaced, configured, password_len,
                   loopVars, authenticated, lockVars>>

\* When a VerifyStatus signal can arrive.  on_signal() has no guard of its
\* own: it is connected with the device, and the service only reports from
\* the VerifyStart call on, answered or not yet.
Reporting == device /\ (verifying \/ call = "verify")

\* on_signal(): a match.
on_signal_match ==
    /\ Glib
    /\ Reporting
    /\ authenticated' = TRUE
    /\ \E m \in render_all(motion) : begin_leave(m, FALSE)
    /\ UNCHANGED <<sent, locked, outputs, surfaced, configured, password_len,
                   loopVars>>

\* No match: the status is shown, and a finished scan is started again
\* (restart_verify) unless the sensor was unplugged.  A second VerifyStart in
\* flight with the first counts as one call.
on_signal_retry ==
    /\ Glib
    /\ Reporting
    /\ report
    /\ \/ UNCHANGED <<verifying, call>>
       \/ device /\ claimed /\ call' = "verify" /\ UNCHANGED verifying
       \/ verifying' = FALSE /\ UNCHANGED call
    /\ UNCHANGED <<device, claimed, cancelled>>
    /\ UNCHANGED <<sent, locked, outputs, surfaced, configured, password_len,
                   loopVars, authenticated, lockVars>>

-----------------------------------------------------------------------------
(* Lock object and outputs.                                                *)

\* create_lock_surface() on the outputs of S: through the lock object.
create_lock_surface(S) ==
    /\ surfaced' = surfaced \cup S
    /\ misused' = (misused \/ (unlocks > 0 /\ ~(S \subseteq surfaced)))

lock_locked ==
    /\ Wayland
    /\ "locked" \in sent /\ ~locked
    /\ locked' = TRUE
    /\ create_lock_surface(outputs)
    /\ UNCHANGED <<sent, outputs, configured, frames, motionVars,
                   password_len, loopVars, fprintVars, authenticated,
                   unlocks, depth>>

lock_finished ==
    /\ Wayland
    /\ "finished" \in sent
    /\ running' = FALSE
    /\ UNCHANGED <<sent, locked, sceneVars, motionVars, password_len, pc,
                   fprintVars, authenticated, lockVars>>

lock_surface_configure(o) ==
    /\ Wayland
    /\ o \in surfaced
    /\ configured' = configured \cup {o}
    /\ \E r \in rendered({o}, motion) : SetMotion(r)
    /\ UNCHANGED <<sent, locked, outputs, surfaced, password_len, loopVars,
                   fprintVars, authenticated, lockVars>>

reg_global_without_surface(o) ==
    /\ Wayland
    /\ o \in Outputs \ outputs
    /\ outputs' = outputs \cup {o}
    /\ UNCHANGED <<sent, locked, surfaced, configured, frames, motionVars,
                   password_len, loopVars, fprintVars, authenticated,
                   lockVars>>

reg_global_before_locked(o) ==
    /\ Wayland
    /\ o \in Outputs \ outputs
    /\ outputs' = outputs \cup {o}
    /\ create_lock_surface({o})
    /\ UNCHANGED <<sent, locked, configured, frames, motionVars,
                   password_len, loopVars, fprintVars, authenticated,
                   unlocks, depth>>

\* reg_global() for an output.
reg_global(o) ==
    /\ Wayland
    /\ o \in Outputs \ outputs
    /\ outputs' = outputs \cup {o}
    /\ IF locked THEN create_lock_surface({o})
                 ELSE UNCHANGED <<surfaced, misused>>
    /\ UNCHANGED <<sent, locked, configured, frames, motionVars,
                   password_len, loopVars, fprintVars, authenticated,
                   unlocks, depth>>

Unplug(o) ==
    /\ Wayland
    /\ o \in outputs
    /\ outputs' = outputs \ {o}
    /\ surfaced' = surfaced \ {o}
    /\ configured' = configured \ {o}
    /\ frames' = frames \ {o}

reg_remove_without_unlock(o) ==
    /\ Unplug(o)
    /\ UNCHANGED <<fprintVars, lockVars>>
    /\ UNCHANGED <<sent, locked, motionVars, password_len, loopVars,
                   authenticated>>

\* reg_remove(): without an output left to pace the leave animation the
\* session is unlocked at once.
reg_remove(o) ==
    /\ Unplug(o)
    /\ IF phase = "leave" /\ configured' = {}
       THEN unlock_session
       ELSE UNCHANGED <<fprintVars, lockVars>>
    /\ UNCHANGED <<sent, locked, motionVars, password_len, loopVars,
                   authenticated>>

-----------------------------------------------------------------------------
(* The main loop, the compositor, and time.                                *)

\* The minute tick of the loop, and on_media_change().
Repaint ==
    /\ Glib
    /\ \E r \in render_all(motion) : SetMotion(r)
    /\ UNCHANGED <<sent, locked, outputs, surfaced, configured, password_len,
                   loopVars, fprintVars, authenticated, lockVars>>

\* running is false: the loop ends, the last roundtrip dispatches what is
\* left, the process exits.
LoopEnds ==
    /\ depth = 0
    /\ \/ pc = "loop" /\ ~running /\ pc' = "final"
       \/ pc = "final" /\ pc' = "exited"
    /\ UNCHANGED <<sent, locked, sceneVars, motionVars, password_len,
                   running, fprintVars, authenticated, lockVars>>

\* A use of the destroyed lock object, or an unlock request that is refused
\* as a protocol error, can end the process on the spot.
CrashOfMisuse ==
    /\ misused \/ refused
    /\ pc # "exited"
    /\ pc' = "exited"
    /\ UNCHANGED <<sent, locked, sceneVars, motionVars, password_len,
                   running, fprintVars, authenticated, lockVars>>

\* The compositor sends locked once every output is covered, however long
\* that takes, and may refuse or end the lock.
CompositorSends(e) ==
    /\ e \notin sent /\ unlocks = 0
    /\ e = "locked" => "finished" \notin sent
    /\ sent' = sent \cup {e}
    /\ UNCHANGED <<locked, sceneVars, motionVars, password_len, loopVars,
                   fprintVars, authenticated, lockVars>>

AnimationElapses ==
    /\ Wayland
    /\ anim = "running"
    /\ anim' = "elapsed"
    /\ UNCHANGED <<sent, locked, sceneVars, phase, shaking, password_len,
                   loopVars, fprintVars, authenticated, lockVars>>

Next ==
    \/ kb_key
    \/ on_manager \/ on_default_device \/ on_device \/ on_fingers
    \/ on_claimed \/ on_verify_started
    \/ on_signal_match \/ on_signal_retry
    \/ lock_locked \/ lock_finished
    \/ \E o \in Outputs : \/ frame_done(o) \/ lock_surface_configure(o)
                          \/ reg_global(o) \/ reg_remove(o)
    \/ RoundtripDone
    \/ Repaint \/ LoopEnds \/ CrashOfMisuse
    \/ \E e \in {"locked", "finished"} : CompositorSends(e)
    \/ AnimationElapses

Spec == Init /\ [][Next]_vars

\* The compositor presents some lock surface that asked for it, time passes,
\* a roundtrip is answered, and a repaint that can draw does so sooner or
\* later.  Nothing is assumed of the user, the sensor or the outputs.
Fairness ==
    /\ WF_vars(\E o \in Outputs : frame_done(o))
    /\ WF_vars(AnimationElapses)
    /\ WF_vars(RoundtripDone)
    /\ WF_vars(Repaint /\ frames' # frames)

FairSpec == Spec /\ Fairness

-----------------------------------------------------------------------------
(* Properties.                                                             *)

\* The session is only unlocked after a right password or a matching finger,
\* whatever the order of key presses, animation frames, broker timeouts and
\* output changes.
UnlockOnlyAfterAuth == unlocks > 0 => authenticated

\* While the leave animation runs an output is left to pace it; otherwise
\* the session would never be unlocked.
LeaveHasOutput == phase = "leave" /\ unlocks = 0 => configured # {}

\* From the locked event on every output has its lock surface, those that
\* are plugged in later too.
EveryOutputCovered == locked => surfaced = outputs

\* Every unlock request but one kind is of a session the compositor has
\* locked, however outputs are plugged in around the locked event: a password
\* can only be typed, and the leave animation only run, on surfaces that
\* lock_locked() or a later reg_global() made.  The exception is the request
\* begin_leave() sends at once for a finger that matches while no surface is
\* configured: before the locked event that one is refused as invalid_unlock.
UnlocksLocked ==
    [][unlocks' # unlocks /\ ~on_signal_match => "locked" \in sent]_vars

\* After lock_fprint_stop() no late answer of the fingerprint service starts
\* another call or claims the sensor again.
FprintStaysStopped ==
    [][cancelled => call' \in {call, "none"} /\ ~claimed' /\ ~verifying']_vars

\* Once leaving starts the session is released (or the lock has ended),
\* unless outputs come and go forever.
LeaveUnlocks ==
    <>[][outputs' = outputs]_vars
        => (phase = "leave" ~> released \/ ~running)

\* ext-session-lock-v1: the lock object is destroyed by unlock_and_destroy
\* and not used afterwards.
LockNotUsedAfterDestroy == ~misused

=============================================================================
