----------------------------- MODULE StageModel -----------------------------
(***************************************************************************)
(* core/stage/stage_model.vala: the window groups ("sets") of one monitor. *)
(* One set is on stage (active), the others are thumbnails (inactive);     *)
(* every window belongs to one set.  The class only decides: what has to   *)
(* be hidden and shown is returned as a plan for the stage manager.        *)
(*                                                                         *)
(* A model is a record and an operation a function of it.  The order of    *)
(* the thumbnails is left out: "the first" inactive set is any of them.    *)
(***************************************************************************)
EXTENDS Integers

CONSTANTS
    Windows,
    MaxId       \* bound: set ids handed out in one life of the shell

ASSUME MaxIdAssumption == MaxId \in Nat \ {0}

NoSet == 0
Ids   == 1..MaxId

Models == [active         : Ids \cup {NoSet},
           inactive       : SUBSET Ids,
           owner          : [Windows -> Ids \cup {NoSet}],
           hidden         : SUBSET Windows,
           user_minimized : SUBSET Windows]

NewModel == [active         |-> NoSet,
             inactive       |-> {},
             owner          |-> [w \in Windows |-> NoSet],
             hidden         |-> {},
             user_minimized |-> {}]

contains(m, w) == m.owner[w] # NoSet

all_windows(m) == {w \in Windows : contains(m, w)}

\* The windows of a set; the windows of no set are nobody's.
windows(m, s) == {w \in Windows : s # NoSet /\ m.owner[w] = s}

find_set(m, id) == id # NoSet /\ (id = m.active \/ id \in m.inactive)

\* StagePlan: a new state of the model, and what it takes on the screen.
Plan(m, hide, show) == [model |-> m, hide |-> hide, show |-> show]

reserve_id_lower(next, id) == IF id > next THEN id ELSE next

\* The id new_set() hands out next, after set_id was seen.
reserve_id(next, id) == IF id >= next THEN id + 1 ELSE next

-----------------------------------------------------------------------------
(* Windows come and go.                                                    *)

add_window(m, w, fresh) ==
    LET a == IF m.active = NoSet THEN fresh ELSE m.active
    IN  IF contains(m, w) THEN m
        ELSE [m EXCEPT !.active = a, !.owner[w] = a]

remove_window(m, w) ==
    LET s == m.owner[w]
    IN  IF ~contains(m, w) THEN m
        ELSE [m EXCEPT
                !.owner[w] = NoSet,
                !.hidden = @ \ {w},
                !.user_minimized = @ \ {w},
                !.inactive = IF s # m.active /\ windows(m, s) \subseteq {w}
                             THEN @ \ {s} ELSE @]

set_user_minimized(m, w, minimized) ==
    IF ~contains(m, w) THEN m
    ELSE [m EXCEPT !.user_minimized = IF minimized THEN @ \cup {w}
                                                   ELSE @ \ {w}]

mark_shown(m, w) ==
    [m EXCEPT !.hidden = @ \ {w}, !.user_minimized = @ \ {w}]

-----------------------------------------------------------------------------
(* Switching.                                                              *)

activate_keeping_previous(m, id) ==
    IF ~find_set(m, id) \/ id = m.active THEN Plan(m, {}, {})
    ELSE LET previous == windows(m, m.active)
             show     == windows(m, id) \cap m.hidden
         IN  Plan([m EXCEPT
                     !.active = id,
                     !.inactive = (@ \ {id}) \cup
                                  (IF previous = {} THEN {} ELSE {m.active}),
                     !.hidden = @ \ show],
                  {}, show)

activate(m, id) ==
    IF ~find_set(m, id) \/ id = m.active THEN Plan(m, {}, {})
    ELSE LET previous == windows(m, m.active)
             hide     == previous \ (m.user_minimized \cup m.hidden)
             show     == windows(m, id) \cap m.hidden
         IN  Plan([m EXCEPT
                     !.active = id,
                     !.inactive = (@ \ {id}) \cup
                                  (IF previous = {} THEN {} ELSE {m.active}),
                     !.hidden = (@ \cup hide) \ show],
                  hide, show)

\* target_id = 0 asks for a new set.
move_window(m, w, target_id, fresh) ==
    LET source == m.owner[w]
        target == IF target_id = 0 THEN fresh ELSE target_id
        show   == IF target = m.active THEN m.hidden \cap {w} ELSE {}
        hide   == IF target # m.active /\ source = m.active
                  THEN {w} \ (m.user_minimized \cup m.hidden) ELSE {}
        empty  == source # m.active /\ windows(m, source) \subseteq {w}
    IN  IF \/ ~contains(m, w)
           \/ target_id # 0 /\ ~find_set(m, target_id)
           \/ target = source
        THEN Plan(m, {}, {})
        ELSE Plan([m EXCEPT
                     !.owner[w] = target,
                     !.inactive = (IF target_id = 0 THEN @ \cup {fresh}
                                                    ELSE @)
                                  \ (IF empty THEN {source} ELSE {}),
                     !.hidden = (@ \cup hide) \ show],
                  hide, show)

\* The groups of a monitor that went away join those of another one.
adopt(m, other, fresh) ==
    LET guests == windows(other, other.active)
        a      == IF m.active = NoSet /\ guests # {} THEN fresh ELSE m.active
        moved  == {s \in other.inactive : windows(other, s) # {}}
    IN  [active         |-> a,
         inactive       |-> m.inactive \cup moved,
         owner          |-> [w \in Windows |->
                               CASE w \in guests             -> a
                                 [] other.owner[w] \in moved -> other.owner[w]
                                 [] OTHER                    -> m.owner[w]],
         hidden         |-> m.hidden \cup (other.hidden \ guests),
         user_minimized |-> m.user_minimized \cup other.user_minimized]

clear(m) == Plan(NewModel, {}, m.hidden)

-----------------------------------------------------------------------------
(* After a restart of the shell.                                           *)

Flagged(m, w, minimized, hidden) ==
    [m EXCEPT !.hidden = IF minimized /\ hidden THEN @ \cup {w} ELSE @,
              !.user_minimized = IF minimized /\ ~hidden THEN @ \cup {w}
                                                         ELSE @]

restore_window_on_stage(m, w, set_id, minimized, hidden, fresh) ==
    Flagged(add_window(m, w, fresh), w, minimized, hidden)

restore_window(m, w, set_id, minimized, hidden, fresh) ==
    IF contains(m, w) THEN m
    ELSE IF set_id = 0
    THEN Flagged(add_window(m, w, fresh), w, minimized, hidden)
    ELSE Flagged([m EXCEPT !.inactive = IF find_set(m, set_id) THEN @
                                        ELSE @ \cup {set_id},
                           !.owner[w] = set_id],
                 w, minimized, hidden)

visible_sets(m) ==
    {s \in m.inactive :
        ~(windows(m, s) \subseteq (m.hidden \cup m.user_minimized))}

\* The set restore_finish() puts on stage, or NoSet for a new one.
wanted_sets(m, active_id) ==
    CASE find_set(m, active_id) -> {active_id}
      [] ~find_set(m, active_id) /\ visible_sets(m) # {} -> visible_sets(m)
      [] ~find_set(m, active_id) /\ visible_sets(m) = {}
           -> IF m.inactive # {} THEN m.inactive ELSE {m.active}

restore_finish(m, wanted, fresh) ==
    LET a     == IF wanted = NoSet THEN fresh ELSE wanted
        owner == [w \in Windows |-> IF w \in windows(m, m.active) THEN a
                                                          ELSE m.owner[w]]
        rest  == {s \in m.inactive \ {a} : windows(m, s) # {}}
        show  == {w \in m.hidden : owner[w] = a}
        hide  == {w \in Windows : owner[w] \in rest}
                    \ (m.hidden \cup m.user_minimized)
    IN  Plan([active         |-> a,
              inactive       |-> rest,
              owner          |-> owner,
              hidden         |-> (m.hidden \cup hide) \ show,
              user_minimized |-> m.user_minimized],
             hide, show)

-----------------------------------------------------------------------------
(* What the class keeps.                                                   *)

\* Every window's set is listed, once, and every thumbnail stands for some
\* window.
WellFormed(m) ==
    /\ m.active \notin m.inactive
    /\ \A w \in Windows : contains(m, w) => find_set(m, m.owner[w])
    /\ \A s \in m.inactive : windows(m, s) # {}
    /\ m.hidden \cup m.user_minimized \subseteq all_windows(m)

\* The windows hidden for a switch are off stage, and every window off
\* stage is hidden, or was minimized by the user before the switch.
Staged(m) ==
    /\ m.hidden \cap windows(m, m.active) = {}
    /\ m.hidden \cap m.user_minimized = {}
    /\ \A w \in Windows :
          m.owner[w] \in m.inactive => w \in m.hidden \cup m.user_minimized

=============================================================================
