-------------------------- MODULE LockScreenProofs --------------------------
(***************************************************************************)
(* Theorems about LockScreen, for every set of outputs, every password     *)
(* size and every depth of nested roundtrips.                              *)
(***************************************************************************)
EXTENDS LockScreen, TLAPS

Phases == {"enter", "idle", "leave"}
Clocks == {"unset", "running", "elapsed"}

Motions == [phase : Phases, anim : Clocks, shaking : BOOLEAN,
            frames : SUBSET Outputs]

\* What drawing can do: it never starts the leave phase, never leaves it,
\* and only adds callbacks of the outputs it was asked to draw.
LEMMA RenderedMotion ==
    ASSUME NEW m \in Motions, NEW S \in SUBSET Outputs,
           NEW r \in rendered(S, m)
    PROVE  /\ r \in Motions
           /\ r.phase = "leave" <=> m.phase = "leave"
           /\ r.frames \subseteq m.frames \cup S
<1>1. CASE r = m
  BY <1>1
<1>2. CASE r # m
  <2>1. PICK drawn \in SUBSET (S \ m.frames) \ {{}}, rest \in BOOLEAN :
             r = [apply_motion(m, rest) EXCEPT
                    !.frames = IF Animating(apply_motion(m, rest))
                               THEN m.frames \cup drawn ELSE m.frames]
    BY <1>2 DEF rendered
  <2>2. /\ apply_motion(m, rest) \in Motions
        /\ apply_motion(m, rest).phase = "leave" <=> m.phase = "leave"
    BY DEF apply_motion, Motions, Phases, Clocks
  <2>3. m.frames \cup drawn \in SUBSET Outputs
    BY DEF Motions
  <2>. QED
    BY <2>1, <2>2, <2>3 DEF Motions
<1>. QED
  BY <1>1, <1>2

\* The motion the variables describe is a motion of the locker.
LEMMA MotionType ==
    ASSUME TypeOK
    PROVE  motion \in Motions
BY DEF TypeOK, motion, Motions, Phases, Clocks

\* A password is only accepted when it is right: a broker that times out or
\* cannot be reached never accepts one by itself.
LEMMA AcceptedIsRight ==
    ASSUME NEW broker \in Brokers, NEW right \in BOOLEAN,
           NEW ok \in singularity_pam_authenticate(broker, right)
    PROVE  ok \in BOOLEAN /\ (ok => right)
<1>1. CASE broker = "absent"
  BY <1>1, Zenon DEF singularity_pam_authenticate
<1>2. CASE broker = "unreachable"
  <2>1. daemon_verify(broker, right) = -1
    BY <1>2 DEF daemon_verify
  <2>2. broker # "absent"
    BY <1>2
  <2>. QED
    BY <2>1, <2>2, Zenon DEF singularity_pam_authenticate
<1>3. CASE broker \in {"answers", "times_out"}
  <2>1. /\ daemon_verify(broker, right) # -1
        /\ daemon_verify(broker, right) = 0 => right
    BY <1>3 DEF daemon_verify
  <2>2. broker # "absent"
    BY <1>3
  <2>3. ok = (daemon_verify(broker, right) = 0)
    BY <2>1, <2>2, Zenon DEF singularity_pam_authenticate
  <2>. QED
    BY <2>1, <2>3
<1>. QED
  BY <1>1, <1>2, <1>3 DEF Brokers

\* Drawing outputs of S, whatever caused it.
LEMMA RenderSome ==
    ASSUME TypeOK, NEW m \in Motions, NEW S \in SUBSET Outputs,
           \E r \in rendered(S, m) : SetMotion(r)
    PROVE  /\ phase' \in Phases /\ anim' \in Clocks /\ shaking' \in BOOLEAN
           /\ frames' \subseteq m.frames \cup S
           /\ phase' = "leave" <=> m.phase = "leave"
<1>1. PICK r \in rendered(S, m) : SetMotion(r)
  OBVIOUS
<1>2. /\ r \in Motions /\ r.frames \subseteq m.frames \cup S
      /\ r.phase = "leave" <=> m.phase = "leave"
  BY RenderedMotion
<1>. QED
  BY <1>1, <1>2 DEF SetMotion, Motions

\* A repaint of every configured output from the current state.
LEMMA RenderCurrent ==
    ASSUME TypeOK, \E r \in render_all(motion) : SetMotion(r)
    PROVE  /\ phase' \in Phases /\ anim' \in Clocks /\ shaking' \in BOOLEAN
           /\ frames' \subseteq configured
           /\ phase' = "leave" <=> phase = "leave"
<1>1. motion \in Motions /\ motion.frames = frames /\ motion.phase = phase
  BY MotionType DEF motion
<1>2. configured \in SUBSET Outputs /\ frames \subseteq configured
  BY DEF TypeOK
<1>. HIDE DEF motion
<1>. QED
  BY <1>1, <1>2, RenderSome DEF render_all

\* What unlock_session() changes.
LEMMA UnlockEffect ==
    ASSUME TypeOK, unlock_session
    PROVE  /\ device' = FALSE /\ claimed' = FALSE /\ verifying' = FALSE
           /\ cancelled' = TRUE /\ call' = call
           /\ unlocks' \in 1..2 /\ misused' \in BOOLEAN
           /\ depth' \in 0..MaxDepth
<1>1. unlocks' \in 1..2 /\ depth' \in 0..MaxDepth
  BY DepthAssumption DEF unlock_session, TypeOK
<1>2. misused' \in BOOLEAN
  BY DEF unlock_session
<1>. QED
  BY <1>1, <1>2 DEF unlock_session, lock_fprint_stop

\* unlock_session() keeps the types.
LEMMA UnlockType ==
    ASSUME TypeOK, unlock_session
    PROVE  /\ device' \in BOOLEAN /\ claimed' \in BOOLEAN
           /\ verifying' \in BOOLEAN /\ cancelled' \in BOOLEAN
           /\ call' \in Calls /\ unlocks' \in 0..2 /\ misused' \in BOOLEAN
           /\ depth' \in 0..MaxDepth
<1>1. unlocks' \in 0..2
  <2>1. unlocks' \in 1..2
    BY UnlockEffect
  <2>. QED
    BY <2>1
<1>2. /\ device' \in BOOLEAN /\ claimed' \in BOOLEAN
      /\ verifying' \in BOOLEAN /\ cancelled' \in BOOLEAN
  BY DEF unlock_session, lock_fprint_stop
<1>3. misused' \in BOOLEAN /\ depth' \in 0..MaxDepth
  BY UnlockEffect
<1>4. call' \in Calls
  BY DEF unlock_session, lock_fprint_stop, TypeOK
<1>. QED
  BY <1>1, <1>2, <1>3, <1>4

\* What begin_leave() does for its callers.
LEMMA BeginLeave ==
    ASSUME TypeOK, NEW m \in Motions, m.frames \subseteq configured,
           NEW v \in BOOLEAN, begin_leave(m, v)
    PROVE  /\ phase' \in Phases /\ anim' \in Clocks /\ shaking' \in BOOLEAN
           /\ frames' \subseteq configured
           /\ device' \in BOOLEAN /\ claimed' \in BOOLEAN
           /\ verifying' \in BOOLEAN /\ cancelled' \in BOOLEAN
           /\ call' = call
           /\ unlocks' \in 0..2 /\ misused' \in BOOLEAN
           /\ depth' \in 0..MaxDepth
           /\ unlocks' >= unlocks
           /\ phase' = "leave" /\ m.phase # "leave" => configured # {}
<1>1. CASE m.phase = "leave"
  BY <1>1 DEF begin_leave, SetMotion, TypeOK, Motions, lockVars
<1>2. CASE m.phase # "leave" /\ configured = {}
  <2>1. unlock_session /\ SetMotion(m)
    BY <1>2 DEF begin_leave
  <2>2. /\ unlocks' \in 0..2 /\ unlocks' >= unlocks
        /\ depth' \in 0..MaxDepth
    BY <2>1, DepthAssumption DEF unlock_session, TypeOK
  <2>3. misused' \in BOOLEAN
    BY <2>1 DEF unlock_session
  <2>. QED
    BY <1>2, <2>1, <2>2, <2>3
       DEF SetMotion, unlock_session, lock_fprint_stop, Motions
<1>3. CASE m.phase # "leave" /\ configured # {}
  <2>. DEFINE l == [m EXCEPT !.phase = "leave", !.anim = "unset",
                             !.shaking = FALSE]
  <2>1. l \in Motions /\ l.frames = m.frames
    BY DEF Motions, Phases, Clocks
  <2>2. PICK r \in rendered(configured, l) : SetMotion(r)
    BY <1>3 DEF begin_leave, render_all
  <2>3. r \in Motions /\ r.frames \subseteq m.frames \cup configured
    <3>1. configured \in SUBSET Outputs
      BY DEF TypeOK
    <3>. HIDE DEF l
    <3>. QED
      BY <2>1, <2>2, <3>1, RenderedMotion
  <2>4. verifying' = v /\ UNCHANGED <<device, claimed, call, cancelled, lockVars>>
    BY <1>3 DEF begin_leave
  <2>. QED
    BY <1>3, <2>2, <2>3, <2>4 DEF SetMotion, TypeOK, Motions, lockVars
<1>. QED
  BY <1>1, <1>2, <1>3

\* frame_done(o) either ends a leave animation or draws o again.
LEMMA FrameDone ==
    ASSUME TypeOK, NEW o \in Outputs, frame_done(o)
    PROVE  /\ phase' \in Phases /\ anim' \in Clocks /\ shaking' \in BOOLEAN
           /\ frames' \subseteq configured
           /\ \/ phase = "leave" /\ phase' = "idle" /\ unlock_session
              \/ /\ phase' = "leave" <=> phase = "leave"
                 /\ UNCHANGED <<fprintVars, lockVars>>
<1>. DEFINE m == [motion EXCEPT !.frames = @ \ {o}]
<1>1. /\ m \in Motions /\ m.frames = frames \ {o} /\ m.phase = phase
      /\ m.anim = anim /\ m.shaking = shaking
  BY DEF TypeOK, motion, Motions, Phases, Clocks
<1>2. o \in frames /\ frames \subseteq configured /\ {o} \in SUBSET Outputs
  BY DEF frame_done, TypeOK
<1>3. CASE /\ phase = "leave" /\ anim = "elapsed"
           /\ SetMotion([m EXCEPT !.phase = "idle"]) /\ unlock_session
  BY <1>1, <1>2, <1>3 DEF SetMotion, Motions, Phases, Clocks
<1>4. CASE /\ \E r \in rendered({o}, m) : SetMotion(r)
           /\ UNCHANGED <<fprintVars, lockVars>>
  <2>. HIDE DEF m
  <2>. QED
    BY <1>1, <1>2, <1>4, RenderSome
<1>. QED
  BY <1>3, <1>4 DEF frame_done

\* submit_password(): a leave animation or an unlock only follows a right
\* password.
LEMMA SubmitPassword ==
    ASSUME TypeOK, phase # "leave", configured # {}, submit_password
    PROVE  /\ phase' \in Phases /\ anim' \in Clocks /\ shaking' \in BOOLEAN
           /\ frames' \subseteq configured
           /\ password_len' = 0
           /\ device' \in BOOLEAN /\ claimed' \in BOOLEAN
           /\ verifying' \in BOOLEAN /\ cancelled' \in BOOLEAN
           /\ call' = call
           /\ unlocks' \in 0..2 /\ misused' \in BOOLEAN
           /\ depth' \in 0..MaxDepth
           /\ authenticated' \in BOOLEAN
           /\ authenticated => authenticated'
           /\ unlocks' >= unlocks
           /\ phase' = "leave" \/ unlocks' # unlocks => authenticated'
<1>1. CASE password_len = 0
  <2>1. UNCHANGED <<password_len, motionVars, frames, fprintVars, lockVars,
                      authenticated>>
    BY <1>1 DEF submit_password
  <2>. QED
    BY <1>1, <2>1 DEF TypeOK, motionVars, fprintVars, lockVars, Phases, Clocks
<1>2. CASE password_len # 0
  <2>1. PICK m \in UNION {after_pam(r) : r \in render_all(motion)},
             right \in BOOLEAN, broker \in Brokers :
             \E ok \in singularity_pam_authenticate(broker, right) :
                /\ authenticated' = (authenticated \/ (ok /\ right))
                /\ \/ ok /\ begin_leave(m, verifying)
                   \/ /\ ~ok
                      /\ \E shake \in {TRUE, m.shaking} :
                         \E r \in render_all([m EXCEPT !.shaking = shake]) :
                            SetMotion(r)
                      /\ UNCHANGED <<fprintVars, lockVars>>
    BY <1>2 DEF submit_password
  <2>2. PICK ok \in singularity_pam_authenticate(broker, right) :
                /\ authenticated' = (authenticated \/ (ok /\ right))
                /\ \/ ok /\ begin_leave(m, verifying)
                   \/ /\ ~ok
                      /\ \E shake \in {TRUE, m.shaking} :
                         \E r \in render_all([m EXCEPT !.shaking = shake]) :
                            SetMotion(r)
                      /\ UNCHANGED <<fprintVars, lockVars>>
    BY <2>1
  <2>3. ok \in BOOLEAN /\ (ok => right)
    BY AcceptedIsRight
  <2>4. /\ m \in Motions /\ m.frames \subseteq configured
        /\ m.phase # "leave"
    <3>1. PICK r \in render_all(motion) : m \in after_pam(r)
      OBVIOUS
    <3>2. /\ motion \in Motions /\ motion.frames = frames
          /\ motion.phase = phase
      BY MotionType DEF motion
    <3>3. configured \in SUBSET Outputs /\ frames \subseteq configured
      BY DEF TypeOK
    <3>4. /\ r \in Motions /\ r.frames \subseteq configured
          /\ r.phase # "leave"
      <4>. HIDE DEF motion
      <4>. QED
        BY <3>1, <3>2, <3>3, RenderedMotion DEF render_all
    <3>. QED
      BY <3>1, <3>4 DEF after_pam, Motions, Clocks
  <2>5. password_len' = 0
    BY <1>2 DEF submit_password, TypeOK
  <2>6. authenticated' \in BOOLEAN /\ (authenticated => authenticated')
    BY <2>2, <2>3
  <2>7. CASE ok /\ begin_leave(m, verifying)
    <3>1. authenticated'
      BY <2>2, <2>3, <2>7
    <3>2. verifying \in BOOLEAN
      BY DEF TypeOK
    <3>. QED
      BY <2>4, <2>5, <2>6, <2>7, <3>1, <3>2, BeginLeave
  <2>8. CASE /\ ~ok
             /\ \E shake \in {TRUE, m.shaking} :
                \E r \in render_all([m EXCEPT !.shaking = shake]) : SetMotion(r)
             /\ UNCHANGED <<fprintVars, lockVars>>
    <3>1. PICK shake \in {TRUE, m.shaking} :
                \E r \in render_all([m EXCEPT !.shaking = shake]) : SetMotion(r)
      BY <2>8
    <3>. DEFINE n == [m EXCEPT !.shaking = shake]
    <3>2. n \in Motions /\ n.frames = m.frames /\ n.phase = m.phase
      BY <2>4 DEF Motions
    <3>3. configured \in SUBSET Outputs
      BY DEF TypeOK
    <3>4. \E r \in rendered(configured, n) : SetMotion(r)
      BY <3>1 DEF render_all
    <3>5. /\ phase' \in Phases /\ anim' \in Clocks /\ shaking' \in BOOLEAN
          /\ frames' \subseteq configured
          /\ phase' # "leave"
      <4>. HIDE DEF n
      <4>. QED
        BY <2>4, <3>2, <3>3, <3>4, RenderSome
    <3>. QED
      BY <2>5, <2>6, <2>8, <3>5 DEF TypeOK, fprintVars, lockVars
  <2>. QED
    BY <2>2, <2>7, <2>8
<1>. QED
  BY <1>1, <1>2

-----------------------------------------------------------------------------
(* Types.                                                                  *)

\* The locker starts with every variable in its type.
LEMMA InitType == Init => TypeOK
<1>. SUFFICES ASSUME Init
              PROVE  TypeOK
  OBVIOUS
<1>1. /\ password_len \in 0..(PasswordSize - 2)
      /\ depth \in 0..MaxDepth /\ unlocks \in 0..2
  BY PasswordAssumption, DepthAssumption DEF Init
<1>2. /\ locked \in BOOLEAN /\ shaking \in BOOLEAN /\ running \in BOOLEAN
      /\ device \in BOOLEAN /\ claimed \in BOOLEAN
      /\ verifying \in BOOLEAN /\ cancelled \in BOOLEAN
      /\ authenticated \in BOOLEAN /\ misused \in BOOLEAN
  BY DEF Init
<1>. QED
  BY <1>1, <1>2 DEF Init, TypeOK, Calls

\* Every callback of the locker keeps the types.
LEMMA NextType == TypeOK /\ [Next]_vars => TypeOK'
<1>. SUFFICES ASSUME TypeOK, [Next]_vars
              PROVE  TypeOK'
  OBVIOUS
<1>. USE DEF Phases, Clocks
<1>1. CASE kb_key
  <2>1. CASE submit_password
    <3>1. phase # "leave" /\ configured # {}
      BY <1>1 DEF kb_key
    <3>2. 0 \in 0..(PasswordSize - 2)
      BY PasswordAssumption
    <3>. QED
      BY <1>1, <2>1, <3>1, <3>2, SubmitPassword DEF kb_key, TypeOK, loopVars
  <2>2. CASE /\ password_len' \in typed_lengths
             /\ \E r \in render_all(motion) : SetMotion(r)
             /\ UNCHANGED <<fprintVars, lockVars, authenticated>>
    <3>1. password_len' \in 0..(PasswordSize - 2)
      BY <2>2, PasswordAssumption DEF typed_lengths, TypeOK
    <3>. QED
      BY <1>1, <2>2, <3>1, RenderCurrent
         DEF kb_key, TypeOK, loopVars, fprintVars, lockVars
  <2>. QED
    BY <1>1, <2>1, <2>2 DEF kb_key
<1>2. CASE on_manager \/ on_default_device \/ on_device \/ on_fingers
           \/ on_claimed
  <2>1. ASSUME NEW c \in Calls, NEW n \in Calls, NEW d \in BOOLEAN,
               NEW k \in BOOLEAN, Chain(c, n, d, k)
        PROVE  TypeOK'
    <3>1. /\ call' \in Calls /\ device' \in BOOLEAN /\ claimed' \in BOOLEAN
          /\ UNCHANGED <<verifying, cancelled>>
      BY <2>1 DEF Chain, TypeOK, Calls
    <3>2. UNCHANGED <<sent, locked, sceneVars, motionVars, password_len,
                      loopVars, authenticated, lockVars>>
      BY <2>1 DEF Chain
    <3>. QED
      BY <3>1, <3>2 DEF TypeOK, sceneVars, motionVars, loopVars, lockVars
  <2>. QED
    BY <1>2, <2>1 DEF on_manager, on_default_device, on_device, on_fingers,
                      on_claimed, Calls
<1>3. CASE on_verify_started
  <2>1. \/ \E r \in render_all(motion) : SetMotion(r)
        \/ UNCHANGED <<motionVars, frames>>
    BY <1>3 DEF on_verify_started, report, SetMotion, motion, motionVars
  <2>2. /\ phase' \in Phases /\ anim' \in Clocks /\ shaking' \in BOOLEAN
        /\ frames' \subseteq configured
    BY <2>1, RenderCurrent DEF TypeOK, motionVars
  <2>. QED
    BY <1>3, <2>2 DEF on_verify_started, TypeOK, Calls, loopVars, lockVars
<1>4. CASE on_signal_match
  <2>1. PICK m \in render_all(motion) : begin_leave(m, FALSE)
    BY <1>4 DEF on_signal_match
  <2>2. motion \in Motions /\ motion.frames = frames
    BY MotionType DEF motion
  <2>3. configured \in SUBSET Outputs /\ frames \subseteq configured
    BY DEF TypeOK
  <2>4. m \in Motions /\ m.frames \subseteq configured
    <3>. HIDE DEF motion
    <3>. QED
      BY <2>1, <2>2, <2>3, RenderedMotion DEF render_all
  <2>. QED
    BY <1>4, <2>1, <2>4, BeginLeave DEF on_signal_match, TypeOK, loopVars
<1>5. CASE on_signal_retry
  <2>1. \/ \E r \in render_all(motion) : SetMotion(r)
        \/ UNCHANGED <<motionVars, frames>>
    BY <1>5 DEF on_signal_retry, report, SetMotion, motion, motionVars
  <2>2. /\ phase' \in Phases /\ anim' \in Clocks /\ shaking' \in BOOLEAN
        /\ frames' \subseteq configured
    BY <2>1, RenderCurrent DEF TypeOK, motionVars
  <2>3. /\ call' \in Calls /\ verifying' \in BOOLEAN
        /\ UNCHANGED <<device, claimed, cancelled>>
    BY <1>5 DEF on_signal_retry, TypeOK, Calls
  <2>4. UNCHANGED <<sent, locked, outputs, surfaced, configured, password_len,
                    loopVars, authenticated, lockVars>>
    BY <1>5 DEF on_signal_retry
  <2>. QED
    BY <2>2, <2>3, <2>4 DEF TypeOK, loopVars, lockVars
<1>6. CASE lock_locked
  BY <1>6 DEF lock_locked, create_lock_surface, TypeOK, motionVars, loopVars,
              fprintVars
<1>7. CASE lock_finished
  <2>1. running' \in BOOLEAN
    BY <1>7 DEF lock_finished
  <2>2. UNCHANGED <<sent, locked, sceneVars, motionVars, password_len, pc,
                    fprintVars, authenticated, lockVars>>
    BY <1>7 DEF lock_finished
  <2>. QED
    BY <2>1, <2>2 DEF TypeOK, sceneVars, motionVars, fprintVars, lockVars
<1>8. ASSUME NEW o \in Outputs, frame_done(o)
      PROVE  TypeOK'
  <2>1. CASE unlock_session
    <3>1. /\ phase' \in Phases /\ anim' \in Clocks /\ shaking' \in BOOLEAN
          /\ frames' \subseteq configured
      BY <1>8, FrameDone
    <3>2. UNCHANGED <<sent, locked, outputs, surfaced, configured,
                      password_len, loopVars, authenticated>>
      BY <1>8 DEF frame_done
    <3>. QED
      BY <2>1, <3>1, <3>2, UnlockType DEF TypeOK, loopVars
  <2>2. CASE UNCHANGED <<fprintVars, lockVars>>
    BY <1>8, <2>2, FrameDone
       DEF frame_done, TypeOK, loopVars, fprintVars, lockVars
  <2>. QED
    BY <1>8, <2>1, <2>2, FrameDone
<1>9. ASSUME NEW o \in Outputs, lock_surface_configure(o)
      PROVE  TypeOK'
  <2>1. /\ motion \in Motions /\ motion.frames = frames
        /\ {o} \in SUBSET Outputs
    BY MotionType DEF motion
  <2>2. \E r \in rendered({o}, motion) : SetMotion(r)
    BY <1>9 DEF lock_surface_configure
  <2>3. /\ phase' \in Phases /\ anim' \in Clocks /\ shaking' \in BOOLEAN
        /\ frames' \subseteq frames \cup {o}
    <3>. HIDE DEF motion
    <3>. QED
      BY <2>1, <2>2, RenderSome
  <2>. QED
    BY <1>9, <2>3 DEF lock_surface_configure, TypeOK, loopVars, fprintVars,
                      lockVars
<1>10. ASSUME NEW o \in Outputs, reg_global(o)
       PROVE  TypeOK'
  BY <1>10 DEF reg_global, create_lock_surface, TypeOK, motionVars, loopVars,
               fprintVars
<1>11. ASSUME NEW o \in Outputs, reg_remove(o)
       PROVE  TypeOK'
  <2>1. /\ outputs' \subseteq Outputs /\ surfaced' \subseteq outputs'
        /\ configured' \subseteq surfaced' /\ frames' \subseteq configured'
    BY <1>11 DEF reg_remove, Unplug, TypeOK
  <2>2. CASE unlock_session
    <3>1. UNCHANGED <<sent, locked, motionVars, password_len, loopVars,
                      authenticated>>
      BY <1>11 DEF reg_remove
    <3>. QED
      BY <2>1, <2>2, <3>1, UnlockType DEF TypeOK, motionVars, loopVars
  <2>3. CASE UNCHANGED <<fprintVars, lockVars>>
    BY <1>11, <2>1, <2>3
       DEF reg_remove, TypeOK, motionVars, loopVars, fprintVars, lockVars
  <2>. QED
    BY <1>11, <2>2, <2>3 DEF reg_remove
<1>12. CASE RoundtripDone
  <2>1. depth' \in 0..MaxDepth
    BY <1>12, DepthAssumption DEF RoundtripDone, TypeOK
  <2>2. running' \in BOOLEAN
    BY <1>12 DEF RoundtripDone
  <2>3. UNCHANGED <<sent, locked, sceneVars, motionVars, password_len, pc,
                    fprintVars, authenticated, unlocks, misused>>
    BY <1>12 DEF RoundtripDone
  <2>. QED
    BY <2>1, <2>2, <2>3 DEF TypeOK, sceneVars, motionVars, fprintVars
<1>13. CASE Repaint
  BY <1>13, RenderCurrent
     DEF Repaint, TypeOK, loopVars, fprintVars, lockVars
<1>14. CASE LoopEnds \/ CrashOfMisuse
  <2>1. pc' \in {"loop", "final", "exited"}
    BY <1>14 DEF LoopEnds, CrashOfMisuse
  <2>2. UNCHANGED <<sent, locked, sceneVars, motionVars, password_len,
                    running, fprintVars, authenticated, lockVars>>
    BY <1>14 DEF LoopEnds, CrashOfMisuse
  <2>. QED
    BY <2>1, <2>2 DEF TypeOK, sceneVars, motionVars, fprintVars, lockVars
<1>15. ASSUME NEW e \in {"locked", "finished"}, CompositorSends(e)
       PROVE  TypeOK'
  BY <1>15 DEF CompositorSends, TypeOK, sceneVars, motionVars, loopVars,
               fprintVars, lockVars
<1>16. CASE AnimationElapses
  BY <1>16 DEF AnimationElapses, TypeOK, sceneVars, loopVars, fprintVars,
               lockVars
<1>17. CASE UNCHANGED vars
  BY <1>17 DEF vars, TypeOK, sceneVars, motionVars, loopVars, fprintVars,
               lockVars
<1>. QED
  BY <1>1, <1>2, <1>3, <1>4, <1>5, <1>6, <1>7, <1>8, <1>9, <1>10, <1>11,
     <1>12, <1>13, <1>14, <1>15, <1>16, <1>17
     DEF Next

\* Every variable keeps its type; in particular the password never outgrows
\* its buffer, and a frame callback, a configured surface and a lock surface
\* only exist on an output that is still plugged in.
THEOREM TypeCorrect == Spec => []TypeOK
BY InitType, NextType, PTL DEF Spec

-----------------------------------------------------------------------------
(* Safety.                                                                 *)

\* UnlockOnlyAfterAuth is not inductive: a frame callback unlocks in the
\* leave phase, so the leave phase too must imply an authentication.
AuthInv == unlocks > 0 \/ phase = "leave" => authenticated

\* A roundtrip is only on the stack after an unlock request.
DepthInv == depth > 0 => unlocks > 0

\* UnlocksLocked rests on this: a lock surface is only made once the locked
\* event has been handled, and the leave phase only begins on such a surface.
LockedInv ==
    /\ locked => "locked" \in sent
    /\ surfaced # {} => locked
    /\ phase = "leave" => "locked" \in sent

\* A stopped fingerprint client holds nothing.
FprintInv == cancelled => ~device /\ ~claimed /\ ~verifying

LockInv ==
    /\ TypeOK
    /\ DepthInv
    /\ FprintInv
    /\ AuthInv
    /\ LeaveHasOutput
    /\ EveryOutputCovered
    /\ LockedInv

\* The inductive invariant holds when the locker starts.
LEMMA InitSafety == Init => LockInv
<1>. SUFFICES ASSUME Init
              PROVE  LockInv
  OBVIOUS
<1>1. TypeOK
  BY InitType
<1>. QED
  BY <1>1 DEF Init, LockInv, AuthInv, LeaveHasOutput, EveryOutputCovered,
              LockedInv, DepthInv, FprintInv

\* Every callback keeps: an unlock is preceded by an authentication.
LEMMA NextAuth == LockInv /\ [Next]_vars => AuthInv' /\ LeaveHasOutput'
<1>. SUFFICES ASSUME LockInv, [Next]_vars
              PROVE  AuthInv' /\ LeaveHasOutput'
  OBVIOUS
<1>0. TypeOK /\ AuthInv /\ LeaveHasOutput /\ unlocks \in 0..2
  BY DEF LockInv, TypeOK
<1>. USE DEF AuthInv, LeaveHasOutput
<1>1. CASE kb_key
  <2>0. phase # "leave" /\ configured # {} /\ UNCHANGED configured
    BY <1>1 DEF kb_key
  <2>1. CASE submit_password
    BY <1>0, <2>0, <2>1, SubmitPassword
  <2>2. CASE /\ \E r \in render_all(motion) : SetMotion(r)
             /\ UNCHANGED <<lockVars, authenticated>>
    BY <1>0, <2>0, <2>2, RenderCurrent DEF lockVars
  <2>. QED
    BY <1>1, <2>1, <2>2 DEF kb_key
<1>2. CASE on_signal_match
  <2>1. PICK m \in render_all(motion) : begin_leave(m, FALSE)
    BY <1>2 DEF on_signal_match
  <2>2. /\ motion \in Motions /\ motion.frames = frames
        /\ motion.phase = phase
    BY <1>0, MotionType DEF motion
  <2>3. configured \in SUBSET Outputs /\ frames \subseteq configured
    BY <1>0 DEF TypeOK
  <2>4. /\ m \in Motions /\ m.frames \subseteq configured
        /\ m.phase = "leave" <=> phase = "leave"
    <3>. HIDE DEF motion
    <3>. QED
      BY <2>1, <2>2, <2>3, RenderedMotion DEF render_all
  <2>5. authenticated' /\ UNCHANGED configured
    BY <1>2 DEF on_signal_match
  <2>6. unlocks' \in 0..2 /\ unlocks' >= unlocks
    BY <1>0, <2>1, <2>4, BeginLeave
  <2>7. phase' = "leave" /\ phase # "leave" => configured # {}
    BY <1>0, <2>1, <2>4, BeginLeave
  <2>. QED
    BY <1>0, <2>5, <2>6, <2>7
<1>3. CASE /\ \E r \in render_all(motion) : SetMotion(r)
           /\ UNCHANGED <<configured, unlocks, authenticated>>
  BY <1>0, <1>3, RenderCurrent
<1>4. CASE UNCHANGED <<phase, configured, unlocks, authenticated>>
  BY <1>0, <1>4
<1>5. ASSUME NEW o \in Outputs, frame_done(o)
      PROVE  AuthInv' /\ LeaveHasOutput'
  <2>0. UNCHANGED <<configured, authenticated>>
    BY <1>5 DEF frame_done
  <2>1. CASE phase = "leave" /\ phase' = "idle" /\ unlock_session
    BY <1>0, <2>0, <2>1
  <2>2. CASE /\ phase' = "leave" <=> phase = "leave"
             /\ UNCHANGED <<fprintVars, lockVars>>
    BY <1>0, <2>0, <2>2 DEF lockVars
  <2>. QED
    BY <1>0, <1>5, <2>1, <2>2, FrameDone
<1>6. ASSUME NEW o \in Outputs, lock_surface_configure(o)
      PROVE  AuthInv' /\ LeaveHasOutput'
  <2>1. /\ motion \in Motions /\ motion.phase = phase
        /\ {o} \in SUBSET Outputs
    BY <1>0, MotionType DEF motion
  <2>2. /\ \E r \in rendered({o}, motion) : SetMotion(r)
        /\ configured' = configured \cup {o}
        /\ UNCHANGED <<authenticated, unlocks>>
    BY <1>6 DEF lock_surface_configure, lockVars
  <2>3. phase' = "leave" <=> phase = "leave"
    <3>. HIDE DEF motion
    <3>. QED
      BY <1>0, <2>1, <2>2, RenderSome
  <2>. QED
    BY <1>0, <2>2, <2>3
<1>7. ASSUME NEW o \in Outputs, reg_remove(o)
      PROVE  AuthInv' /\ LeaveHasOutput'
  <2>0. UNCHANGED <<phase, authenticated>>
    BY <1>7 DEF reg_remove, motionVars
  <2>1. CASE phase = "leave" /\ configured' = {} /\ unlock_session
    <3>1. unlocks' \in 1..2
      BY <1>0, <2>1, UnlockEffect
    <3>. QED
      BY <1>0, <2>0, <2>1, <3>1
  <2>2. CASE /\ ~(phase = "leave" /\ configured' = {})
             /\ UNCHANGED lockVars
    BY <1>0, <2>0, <2>2 DEF lockVars
  <2>. QED
    BY <1>7, <2>1, <2>2 DEF reg_remove
<1>8. CASE on_verify_started \/ on_signal_retry
  <2>1. \/ \E r \in render_all(motion) : SetMotion(r)
        \/ UNCHANGED phase
    BY <1>8 DEF on_verify_started, on_signal_retry, report, SetMotion, motion
  <2>2. UNCHANGED <<configured, unlocks, authenticated>>
    BY <1>8 DEF on_verify_started, on_signal_retry, lockVars
  <2>. QED
    BY <1>3, <1>4, <2>1, <2>2
<1>9. CASE Repaint
  BY <1>3, <1>9 DEF Repaint, lockVars
<1>10. CASE \/ on_manager \/ on_default_device \/ on_device \/ on_fingers
            \/ on_claimed
  BY <1>4, <1>10 DEF on_manager, on_default_device, on_device, on_fingers,
                     on_claimed, Chain, sceneVars, motionVars, lockVars
<1>11. CASE \/ lock_locked \/ lock_finished \/ RoundtripDone \/ LoopEnds
            \/ CrashOfMisuse \/ AnimationElapses
            \/ \E e \in {"locked", "finished"} : CompositorSends(e)
            \/ \E o \in Outputs : reg_global(o)
            \/ UNCHANGED vars
  BY <1>4, <1>11 DEF lock_locked, lock_finished, RoundtripDone, LoopEnds,
                     CrashOfMisuse, AnimationElapses, CompositorSends,
                     reg_global, sceneVars, motionVars, lockVars, vars
<1>. QED
  BY <1>1, <1>2, <1>5, <1>6, <1>7, <1>8, <1>9, <1>10, <1>11 DEF Next

\* Every step either leaves the lock object and the fingerprint client alone
\* (apart from the chain of calls), or is an unlock request.
LEMMA BeginLeaveUnlocks ==
    ASSUME NEW m, NEW v, begin_leave(m, v)
    PROVE  \/ unlock_session
           \/ verifying' = v /\ UNCHANGED <<device, claimed, call, cancelled,
                                            lockVars>>
BY DEF begin_leave

\* submit_password() touches the lock only through unlock_session().
LEMMA SubmitUnlocks ==
    ASSUME submit_password
    PROVE  unlock_session \/ UNCHANGED <<fprintVars, lockVars>>
<1>1. CASE UNCHANGED <<fprintVars, lockVars>>
  BY <1>1
<1>2. CASE \E m : begin_leave(m, verifying)
  BY <1>2, BeginLeaveUnlocks DEF fprintVars
<1>. QED
  BY <1>1, <1>2 DEF submit_password

\* Only unlock_session(), its roundtrip and lock_finished() touch the lock.
LEMMA NextUnlocks ==
    [Next]_vars =>
      \/ unlock_session /\ UNCHANGED <<running, sent>>
      \/ RoundtripDone
      \/ lock_finished
      \/ UNCHANGED <<unlocks, depth, running>> /\ sent \subseteq sent'
<1>. SUFFICES ASSUME [Next]_vars
              PROVE  \/ unlock_session /\ UNCHANGED <<running, sent>>
                     \/ RoundtripDone
                     \/ lock_finished
                     \/ /\ UNCHANGED <<unlocks, depth, running>>
                        /\ sent \subseteq sent'
  OBVIOUS
<1>1. CASE kb_key
  <2>1. unlock_session \/ UNCHANGED <<fprintVars, lockVars>>
    BY <1>1, SubmitUnlocks DEF kb_key
  <2>. QED
    BY <1>1, <2>1 DEF kb_key, loopVars, lockVars
<1>2. CASE on_signal_match
  <2>1. unlock_session \/ UNCHANGED lockVars
    BY <1>2, BeginLeaveUnlocks DEF on_signal_match
  <2>. QED
    BY <1>2, <2>1 DEF on_signal_match, loopVars, lockVars
<1>3. ASSUME NEW o \in Outputs, frame_done(o)
      PROVE  \/ unlock_session /\ UNCHANGED <<running, sent>>
             \/ /\ UNCHANGED <<unlocks, depth, running>>
                /\ sent \subseteq sent'
  <2>1. unlock_session \/ UNCHANGED <<fprintVars, lockVars>>
    BY <1>3 DEF frame_done
  <2>. QED
    BY <1>3, <2>1 DEF frame_done, loopVars, lockVars
<1>4. ASSUME NEW o \in Outputs, reg_remove(o)
      PROVE  \/ unlock_session /\ UNCHANGED <<running, sent>>
             \/ /\ UNCHANGED <<unlocks, depth, running>>
                /\ sent \subseteq sent'
  BY <1>4 DEF reg_remove, loopVars, lockVars
<1>5. CASE \/ on_manager \/ on_default_device \/ on_device \/ on_fingers
           \/ on_claimed
  BY <1>5 DEF on_manager, on_default_device, on_device, on_fingers,
              on_claimed, Chain, loopVars, lockVars
<1>6. CASE on_verify_started \/ on_signal_retry \/ Repaint
  BY <1>6 DEF on_verify_started, on_signal_retry, Repaint, loopVars, lockVars
<1>7. CASE \/ lock_locked \/ LoopEnds \/ CrashOfMisuse \/ AnimationElapses
           \/ \E e \in {"locked", "finished"} : CompositorSends(e)
           \/ \E o \in Outputs : reg_global(o) \/ lock_surface_configure(o)
           \/ UNCHANGED vars
  BY <1>7 DEF lock_locked, LoopEnds, CrashOfMisuse, AnimationElapses,
              CompositorSends, reg_global, lock_surface_configure, loopVars,
              lockVars, vars
<1>. QED
  BY <1>1, <1>2, <1>3, <1>4, <1>5, <1>6, <1>7 DEF Next

\* Every callback keeps: roundtrips are those of unlock requests.
LEMMA NextDepth == LockInv /\ [Next]_vars => DepthInv'
<1>. SUFFICES ASSUME LockInv, [Next]_vars
              PROVE  DepthInv'
  OBVIOUS
<1>0. TypeOK /\ DepthInv /\ unlocks \in 0..2 /\ depth \in 0..MaxDepth
  BY DEF LockInv, TypeOK
<1>. USE DepthAssumption DEF DepthInv
<1>1. CASE unlock_session /\ UNCHANGED <<running, sent>>
  <2>1. unlocks' \in 1..2
    BY <1>0, <1>1, UnlockEffect
  <2>. QED
    BY <2>1
<1>2. CASE RoundtripDone
  BY <1>0, <1>2 DEF RoundtripDone
<1>3. CASE lock_finished
  BY <1>0, <1>3 DEF lock_finished, lockVars
<1>4. CASE UNCHANGED <<unlocks, depth, running>> /\ sent \subseteq sent'
  BY <1>0, <1>4
<1>. QED
  BY <1>1, <1>2, <1>3, <1>4, NextUnlocks

\* Every callback keeps: once locked, each output has a lock surface.
LEMMA NextCovered == LockInv /\ [Next]_vars => EveryOutputCovered'
<1>. SUFFICES ASSUME LockInv, [Next]_vars
              PROVE  EveryOutputCovered'
  OBVIOUS
<1>0. EveryOutputCovered /\ surfaced \subseteq outputs
  BY DEF LockInv, TypeOK
<1>. USE DEF EveryOutputCovered
<1>1. CASE UNCHANGED <<locked, outputs, surfaced>>
  BY <1>0, <1>1
<1>2. CASE lock_locked
  BY <1>0, <1>2 DEF lock_locked, create_lock_surface
<1>3. ASSUME NEW o \in Outputs, reg_global(o)
      PROVE  EveryOutputCovered'
  BY <1>0, <1>3 DEF reg_global, create_lock_surface
<1>4. ASSUME NEW o \in Outputs, reg_remove(o)
      PROVE  EveryOutputCovered'
  BY <1>0, <1>4 DEF reg_remove, Unplug
<1>5. CASE kb_key \/ on_signal_match \/ on_verify_started \/ on_signal_retry
           \/ Repaint
           \/ \E o \in Outputs : frame_done(o) \/ lock_surface_configure(o)
  BY <1>1, <1>5 DEF kb_key, on_signal_match, on_verify_started,
                    on_signal_retry, Repaint, frame_done,
                    lock_surface_configure
<1>6. CASE \/ on_manager \/ on_default_device \/ on_device \/ on_fingers
           \/ on_claimed
  BY <1>1, <1>6 DEF on_manager, on_default_device, on_device, on_fingers,
                    on_claimed, Chain, sceneVars
<1>7. CASE \/ lock_finished \/ RoundtripDone \/ LoopEnds \/ CrashOfMisuse
           \/ AnimationElapses \/ UNCHANGED vars
           \/ \E e \in {"locked", "finished"} : CompositorSends(e)
  BY <1>1, <1>7 DEF lock_finished, RoundtripDone, LoopEnds, CrashOfMisuse,
                    AnimationElapses, CompositorSends, sceneVars, vars
<1>. QED
  BY <1>2, <1>3, <1>4, <1>5, <1>6, <1>7 DEF Next

\* What a step that unlocks finds, unless a finger caused it.
UnlocksTheLocked ==
    unlocks' # unlocks /\ ~on_signal_match => "locked" \in sent

\* Every callback keeps: surfaces and the leave phase come after the locked
\* event.
LEMMA NextLocked == LockInv /\ [Next]_vars => LockedInv'
<1>. SUFFICES ASSUME LockInv, [Next]_vars
              PROVE  LockedInv'
  OBVIOUS
<1>0. /\ TypeOK /\ LockedInv
      /\ frames \subseteq configured /\ configured \subseteq surfaced
      /\ configured \subseteq Outputs
  BY DEF LockInv, TypeOK
<1>1. ASSUME UNCHANGED <<locked, sent, surfaced>>,
             phase' = "leave" => phase = "leave" \/ configured # {}
      PROVE  LockedInv'
  BY <1>0, <1>1 DEF LockedInv
<1>2. CASE /\ \E r \in render_all(motion) : SetMotion(r)
           /\ UNCHANGED <<locked, sent, surfaced>>
  BY <1>0, <1>1, <1>2, RenderCurrent
<1>3. CASE UNCHANGED <<phase, locked, sent, surfaced>>
  BY <1>1, <1>3
<1>4. CASE kb_key
  <2>1. configured # {} /\ UNCHANGED <<locked, sent, surfaced>>
    BY <1>4 DEF kb_key
  <2>. QED
    BY <1>1, <2>1
<1>5. CASE on_signal_match
  <2>1. PICK m \in render_all(motion) : begin_leave(m, FALSE)
    BY <1>5 DEF on_signal_match
  <2>2. /\ motion \in Motions /\ motion.frames = frames
        /\ motion.phase = phase
    BY <1>0, MotionType DEF motion
  <2>3. /\ m \in Motions /\ m.frames \subseteq configured
        /\ m.phase = "leave" <=> phase = "leave"
    <3>. HIDE DEF motion
    <3>. QED
      BY <1>0, <2>1, <2>2, RenderedMotion DEF render_all
  <2>4. phase' = "leave" => phase = "leave" \/ configured # {}
    BY <1>0, <2>1, <2>3, BeginLeave
  <2>5. UNCHANGED <<locked, sent, surfaced>>
    BY <1>5 DEF on_signal_match
  <2>. QED
    BY <1>1, <2>4, <2>5
<1>6. CASE on_verify_started \/ on_signal_retry
  <2>1. \/ \E r \in render_all(motion) : SetMotion(r)
        \/ UNCHANGED phase
    BY <1>6 DEF on_verify_started, on_signal_retry, report, SetMotion, motion
  <2>2. UNCHANGED <<locked, sent, surfaced>>
    BY <1>6 DEF on_verify_started, on_signal_retry
  <2>. QED
    BY <1>2, <1>3, <2>1, <2>2
<1>7. CASE Repaint
  BY <1>2, <1>7 DEF Repaint
<1>8. ASSUME NEW o \in Outputs, frame_done(o)
      PROVE  LockedInv'
  <2>1. phase' = "leave" => phase = "leave"
    BY <1>0, <1>8, FrameDone
  <2>2. UNCHANGED <<locked, sent, surfaced>>
    BY <1>8 DEF frame_done
  <2>. QED
    BY <1>1, <2>1, <2>2
<1>9. ASSUME NEW o \in Outputs, lock_surface_configure(o)
      PROVE  LockedInv'
  <2>1. /\ motion \in Motions /\ motion.phase = phase
        /\ {o} \in SUBSET Outputs
    BY <1>0, MotionType DEF motion
  <2>2. /\ \E r \in rendered({o}, motion) : SetMotion(r)
        /\ UNCHANGED <<locked, sent, surfaced>>
    BY <1>9 DEF lock_surface_configure
  <2>3. phase' = "leave" <=> phase = "leave"
    <3>. HIDE DEF motion
    <3>. QED
      BY <1>0, <2>1, <2>2, RenderSome
  <2>. QED
    BY <1>1, <2>2, <2>3
<1>10. CASE lock_locked
  BY <1>0, <1>10 DEF LockedInv, lock_locked, create_lock_surface, motionVars
<1>11. ASSUME NEW o \in Outputs, reg_global(o)
       PROVE  LockedInv'
  BY <1>0, <1>11 DEF LockedInv, reg_global, create_lock_surface, motionVars
<1>12. ASSUME NEW o \in Outputs, reg_remove(o)
       PROVE  LockedInv'
  BY <1>0, <1>12 DEF LockedInv, reg_remove, Unplug, motionVars
<1>13. ASSUME NEW e \in {"locked", "finished"}, CompositorSends(e)
       PROVE  LockedInv'
  BY <1>0, <1>13 DEF LockedInv, CompositorSends, sceneVars, motionVars
<1>14. CASE \/ on_manager \/ on_default_device \/ on_device \/ on_fingers
            \/ on_claimed
  BY <1>3, <1>14 DEF on_manager, on_default_device, on_device, on_fingers,
                     on_claimed, Chain, sceneVars, motionVars
<1>15. CASE \/ lock_finished \/ RoundtripDone \/ LoopEnds \/ CrashOfMisuse
            \/ AnimationElapses \/ UNCHANGED vars
  BY <1>3, <1>15 DEF lock_finished, RoundtripDone, LoopEnds, CrashOfMisuse,
                     AnimationElapses, sceneVars, motionVars, vars
<1>. QED
  BY <1>4, <1>5, <1>6, <1>7, <1>8, <1>9, <1>10, <1>11, <1>12, <1>13, <1>14,
     <1>15 DEF Next

\* A key, a frame callback and the removal of an output only unlock on, or
\* after, a surface made since the locked event.
LEMMA NextUnlocksLocked == LockInv /\ [Next]_vars => UnlocksTheLocked
<1>. SUFFICES ASSUME LockInv, [Next]_vars, unlocks' # unlocks,
                     ~on_signal_match
              PROVE  "locked" \in sent
  BY DEF UnlocksTheLocked
<1>0. /\ LockedInv
      /\ frames \subseteq configured /\ configured \subseteq surfaced
  BY DEF LockInv, TypeOK
<1>1. CASE kb_key
  BY <1>0, <1>1 DEF LockedInv, kb_key
<1>2. ASSUME NEW o \in Outputs, frame_done(o)
      PROVE  "locked" \in sent
  BY <1>0, <1>2 DEF LockedInv, frame_done
<1>3. ASSUME NEW o \in Outputs, reg_remove(o)
      PROVE  "locked" \in sent
  <2>1. phase = "leave"
    BY <1>3 DEF reg_remove, lockVars
  <2>. QED
    BY <1>0, <2>1 DEF LockedInv
<1>4. CASE \/ on_manager \/ on_default_device \/ on_device \/ on_fingers
           \/ on_claimed
  BY <1>4 DEF on_manager, on_default_device, on_device, on_fingers,
              on_claimed, Chain, lockVars
<1>5. CASE on_verify_started \/ on_signal_retry \/ Repaint
  BY <1>5 DEF on_verify_started, on_signal_retry, Repaint, lockVars
<1>6. CASE \/ lock_locked \/ lock_finished \/ RoundtripDone \/ LoopEnds
           \/ CrashOfMisuse \/ AnimationElapses
           \/ \E e \in {"locked", "finished"} : CompositorSends(e)
           \/ \E o \in Outputs : reg_global(o) \/ lock_surface_configure(o)
           \/ UNCHANGED vars
  BY <1>6 DEF lock_locked, lock_finished, RoundtripDone, LoopEnds,
              CrashOfMisuse, AnimationElapses, CompositorSends, reg_global,
              lock_surface_configure, lockVars, vars
<1>. QED
  BY <1>1, <1>2, <1>3, <1>4, <1>5, <1>6 DEF Next

\* What any step does to the fingerprint client once it has been stopped.
StaysStopped ==
    cancelled => call' \in {call, "none"} /\ ~claimed' /\ ~verifying'

\* Every callback keeps: fingerprint reading stays stopped.
LEMMA NextStopped == LockInv /\ [Next]_vars => FprintInv' /\ StaysStopped
<1>. SUFFICES ASSUME LockInv, [Next]_vars
              PROVE  FprintInv' /\ StaysStopped
  OBVIOUS
<1>0. TypeOK /\ FprintInv
  BY DEF LockInv
<1>. USE DEF FprintInv, StaysStopped
<1>1. CASE unlock_session
  BY <1>1 DEF unlock_session, lock_fprint_stop
<1>2. CASE UNCHANGED fprintVars
  BY <1>0, <1>2 DEF fprintVars
<1>3. CASE kb_key
  BY <1>1, <1>2, <1>3, SubmitUnlocks DEF kb_key
<1>4. CASE on_signal_match
  <2>1. CASE verifying' = FALSE /\ UNCHANGED <<device, claimed, call, cancelled>>
    BY <1>0, <2>1
  <2>. QED
    BY <1>1, <1>4, <2>1, BeginLeaveUnlocks DEF on_signal_match
<1>5. CASE \/ on_manager \/ on_default_device \/ on_device \/ on_fingers
           \/ on_claimed
  BY <1>0, <1>5 DEF on_manager, on_default_device, on_device, on_fingers,
                    on_claimed, Chain
<1>6. CASE on_verify_started \/ on_signal_retry
  BY <1>0, <1>6 DEF on_verify_started, on_signal_retry
<1>7. CASE \E o \in Outputs : frame_done(o) \/ reg_remove(o)
  BY <1>1, <1>2, <1>7 DEF frame_done, reg_remove
<1>8. CASE \/ lock_locked \/ lock_finished \/ RoundtripDone \/ Repaint
           \/ LoopEnds \/ CrashOfMisuse \/ AnimationElapses
           \/ \E o \in Outputs : reg_global(o) \/ lock_surface_configure(o)
           \/ \E e \in {"locked", "finished"} : CompositorSends(e)
           \/ UNCHANGED vars
  BY <1>2, <1>8 DEF lock_locked, lock_finished, RoundtripDone, Repaint,
                    LoopEnds, CrashOfMisuse, AnimationElapses, reg_global,
                    lock_surface_configure, CompositorSends, vars
<1>. QED
  BY <1>3, <1>4, <1>5, <1>6, <1>7, <1>8 DEF Next

\* The conjunction of the above is an invariant of the locker.
THEOREM LockInvariant == Spec => []LockInv
<1>1. LockInv /\ [Next]_vars => LockInv'
  BY NextType, NextAuth, NextDepth, NextCovered, NextLocked, NextStopped
     DEF LockInv
<1>. QED
  BY <1>1, InitSafety, PTL DEF Spec

\* The session is never unlocked without a right password or a matching
\* finger, for any number of outputs and however handlers nest.
THEOREM UnlockOnlyAfterAuthAlways == Spec => []UnlockOnlyAfterAuth
<1>1. LockInv => UnlockOnlyAfterAuth
  BY DEF LockInv, AuthInv, UnlockOnlyAfterAuth
<1>. QED
  BY <1>1, LockInvariant, PTL

\* The leave animation never loses the last output that paces it.
THEOREM LeaveHasOutputAlways == Spec => []LeaveHasOutput
<1>1. LockInv => LeaveHasOutput
  BY DEF LockInv
<1>. QED
  BY <1>1, LockInvariant, PTL

\* Every output is covered from the locked event on.
THEOREM EveryOutputCoveredAlways == Spec => []EveryOutputCovered
<1>1. LockInv => EveryOutputCovered
  BY DEF LockInv
<1>. QED
  BY <1>1, LockInvariant, PTL

\* Only the unlock request of an early finger can be of a session that has
\* not been locked.
THEOREM UnlocksLockedAlways == Spec => UnlocksLocked
<1>1. LockInv /\ [Next]_vars => [UnlocksTheLocked]_vars
  BY NextUnlocksLocked
<1>. QED
  BY <1>1, LockInvariant, PTL DEF Spec, UnlocksLocked, UnlocksTheLocked

\* A stopped fingerprint client stays stopped, whatever answers come late.
THEOREM FprintStaysStoppedAlways == Spec => FprintStaysStopped
<1>1. LockInv /\ [Next]_vars => [StaysStopped]_vars
  BY NextStopped
<1>. QED
  BY <1>1, LockInvariant, PTL DEF Spec, FprintStaysStopped, StaysStopped

=============================================================================
