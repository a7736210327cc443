-------------------------- MODULE StageSyncProofs ---------------------------
(***************************************************************************)
(* The window groups with a compositor that answers at once: for any       *)
(* windows, monitors and applications, and whatever happens while the      *)
(* shell is down, one group of each monitor is shown, the flags of the     *)
(* compositor tell hidden windows from minimized ones, and nothing stays   *)
(* hidden when the mode is off.                                            *)
(*                                                                         *)
(* The first part is about StageModel alone: what every operation does to  *)
(* a well-formed model.  It stays one, the plan accounts for every change  *)
(* of the hidden windows, and no window changes hands that the operation   *)
(* is not about.                                                           *)
(*                                                                         *)
(* The last part is about a restart: when no window opens, closes or moves *)
(* while the shell is down, the groups come back as they were.             *)
(***************************************************************************)
EXTENDS StageSync, TLAPS

\* A model in which the id f can be given to a new set.
IsFresh(m, f) == f \in Ids /\ ~find_set(m, f)

\* A new StageModel is well formed and has nothing.
LEMMA NewModelLemma ==
    /\ NewModel \in Models
    /\ WellFormed(NewModel)
    /\ Staged(NewModel)
    /\ all_windows(NewModel) = {}
    /\ NewModel.hidden = {} /\ NewModel.user_minimized = {}
    /\ NewModel.active = NoSet /\ NewModel.inactive = {}
    /\ \A id : ~find_set(NewModel, id)
BY MaxIdAssumption DEF NewModel, Models, WellFormed, Staged, all_windows, contains,
   find_set, windows, NoSet, Ids

\* add_window(): the window joins the stage, in a new set if there is none.
LEMMA AddWindow ==
    ASSUME NEW m \in Models, WellFormed(m), NEW w \in Windows,
           ~contains(m, w), NEW f,
           m.active = NoSet => IsFresh(m, f)
    PROVE  LET r == add_window(m, w, f)
           IN  /\ r \in Models
               /\ WellFormed(r)
               /\ all_windows(r) = all_windows(m) \cup {w}
               /\ r.hidden = m.hidden
               /\ r.user_minimized = m.user_minimized
               /\ r.owner[w] = r.active
               /\ \A id : find_set(r, id)
                            => find_set(m, id) \/ (m.active = NoSet /\ id = f)
               /\ Staged(m) => Staged(r)
<1>. DEFINE a == IF m.active = NoSet THEN f ELSE m.active
            r == add_window(m, w, f)
<1>1. a \in Ids /\ a # NoSet /\ a \notin m.inactive
  BY MaxIdAssumption DEF IsFresh, find_set, Models, NoSet, Ids, WellFormed
<1>2. r = [active |-> a, inactive |-> m.inactive,
           owner |-> [m.owner EXCEPT ![w] = a],
           hidden |-> m.hidden, user_minimized |-> m.user_minimized]
  BY DEF add_window, Models
<1>3. r \in Models
  BY <1>1, <1>2 DEF Models
<1>4. \A v \in Windows : r.owner[v] = IF v = w THEN a ELSE m.owner[v]
  BY <1>2 DEF Models
<1>5. all_windows(r) = all_windows(m) \cup {w}
  BY <1>1, <1>4 DEF all_windows, contains
<1>6. \A s : windows(m, s) \subseteq windows(r, s)
  BY <1>4 DEF windows, contains, NoSet
<1>7. \A v \in Windows : contains(r, v) => find_set(r, r.owner[v])
  BY <1>1, <1>2, <1>4 DEF contains, find_set, WellFormed
<1>8. \A s \in r.inactive : windows(r, s) # {}
  <2>. SUFFICES ASSUME NEW s \in r.inactive PROVE windows(r, s) # {}
    OBVIOUS
  <2>1. windows(m, s) # {}
    BY <1>2 DEF WellFormed
  <2>. QED  BY <2>1, <1>6
<1>9. WellFormed(r)
  BY <1>1, <1>2, <1>5, <1>7, <1>8 DEF WellFormed
<1>10. \A id : find_set(r, id)
                 => find_set(m, id) \/ (m.active = NoSet /\ id = f)
  BY <1>2 DEF find_set
<1>11. ASSUME Staged(m) PROVE Staged(r)
  <2>1. w \notin m.hidden
    BY DEF WellFormed, all_windows
  <2>2. windows(r, r.active) = windows(m, m.active) \cup {w}
    BY <1>1, <1>2, <1>4 DEF windows, WellFormed, contains, find_set, IsFresh
  <2>. QED  BY <1>1, <1>2, <1>4, <1>11, <2>1, <2>2 DEF Staged
<1>. QED  BY <1>2, <1>3, <1>4, <1>5, <1>9, <1>10, <1>11

\* remove_window(): the window goes, and with it a set it leaves empty.
LEMMA RemoveWindow ==
    ASSUME NEW m \in Models, WellFormed(m), NEW w \in Windows
    PROVE  LET r == remove_window(m, w)
           IN  /\ r \in Models
               /\ WellFormed(r)
               /\ all_windows(r) = all_windows(m) \ {w}
               /\ r.hidden = m.hidden \ {w}
               /\ r.user_minimized = m.user_minimized \ {w}
               /\ \A id : find_set(r, id) => find_set(m, id)
               /\ Staged(m) => Staged(r)
<1>. DEFINE s == m.owner[w]
            r == remove_window(m, w)
            i == IF s # m.active /\ windows(m, s) \subseteq {w}
                 THEN m.inactive \ {s} ELSE m.inactive
<1>1. CASE ~contains(m, w)
  <2>1. r = m /\ w \notin all_windows(m)
    BY <1>1 DEF remove_window, all_windows
  <2>. QED  BY <2>1 DEF WellFormed
<1>2. CASE contains(m, w)
  <2>1. r = [active |-> m.active, inactive |-> i,
             owner |-> [m.owner EXCEPT ![w] = NoSet],
             hidden |-> m.hidden \ {w},
             user_minimized |-> m.user_minimized \ {w}]
    BY <1>2 DEF remove_window, Models
  <2>2. r \in Models
    BY <2>1 DEF Models
  <2>3. \A v \in Windows : r.owner[v] = IF v = w THEN NoSet ELSE m.owner[v]
    BY <2>1 DEF Models
  <2>4. all_windows(r) = all_windows(m) \ {w}
    BY <2>3 DEF all_windows, contains
  <2>5. \A t : windows(r, t) = windows(m, t) \ {w}
    BY <2>3 DEF windows
  <2>6. \A t \in r.inactive : windows(r, t) # {}
    <3>. SUFFICES ASSUME NEW t \in r.inactive PROVE windows(m, t) \ {w} # {}
      BY <2>5
    <3>1. t \in m.inactive /\ windows(m, t) # {}
      BY <2>1 DEF WellFormed
    <3>2. CASE t = s
      BY <3>1, <3>2, <2>1 DEF WellFormed
    <3>3. CASE t # s
      BY <3>1, <3>3 DEF windows
    <3>. QED  BY <3>2, <3>3
  <2>7. ASSUME NEW v \in Windows, contains(r, v)
        PROVE  find_set(r, r.owner[v])
    <3>1. v # w /\ r.owner[v] = m.owner[v] /\ contains(m, v)
      BY <2>3, <2>7 DEF contains
    <3>2. find_set(m, m.owner[v])
      BY <3>1 DEF WellFormed
    <3>3. m.owner[v] \in m.inactive => m.owner[v] \in i
      BY <3>1 DEF windows, contains
    <3>. QED  BY <3>1, <3>2, <3>3, <2>1 DEF find_set
  <2>8. WellFormed(r)
    BY <2>1, <2>4, <2>6, <2>7 DEF WellFormed
  <2>9. \A id : find_set(r, id) => find_set(m, id)
    BY <2>1 DEF find_set
  <2>10. Staged(m) => Staged(r)
    BY <2>1, <2>3, <2>5, <2>2 DEF Staged, NoSet, Models, Ids
  <2>. QED  BY <2>1, <2>2, <2>4, <2>8, <2>9, <2>10
<1>. QED  BY <1>1, <1>2

\* Staged, except that windows of the set id, which is about to be put on
\* stage, may already be shown.
StagedBut(m, id) ==
    /\ m.hidden \cap windows(m, m.active) = {}
    /\ m.hidden \cap m.user_minimized = {}
    /\ \A w \in Windows :
          m.owner[w] \in m.inactive \ {id}
             => w \in m.hidden \cup m.user_minimized

\* What a plan p of model m may do: every window it hides was visible to the
\* model, every window it shows was hidden by it, and the model keeps count.
PlanOK(m, p) ==
    /\ p.model \in Models
    /\ WellFormed(p.model)
    /\ all_windows(p.model) = all_windows(m)
    /\ p.hide \subseteq all_windows(m) \ (m.hidden \cup m.user_minimized)
    /\ p.show \subseteq m.hidden
    /\ p.model.hidden = (m.hidden \cup p.hide) \ p.show
    /\ p.model.user_minimized = m.user_minimized

\* activate(): the set comes on stage and the plan swaps the windows.
LEMMA Activate_ ==
    ASSUME NEW m \in Models, WellFormed(m), NEW id \in m.inactive
    PROVE  LET p == activate(m, id)
           IN  /\ PlanOK(m, p)
               /\ \A j : find_set(p.model, j) => find_set(m, j)
               /\ StagedBut(m, id) => Staged(p.model)
<1>. DEFINE previous == windows(m, m.active)
            hide == previous \ (m.user_minimized \cup m.hidden)
            show == windows(m, id) \cap m.hidden
            inactive == (m.inactive \ {id}) \cup
                        (IF previous = {} THEN {} ELSE {m.active})
            p == activate(m, id)
<1>0. id \in Ids /\ id # NoSet /\ id # m.active /\ find_set(m, id)
  BY MaxIdAssumption DEF Models, Ids, NoSet, WellFormed, find_set
<1>1. p.model = [active |-> id, inactive |-> inactive, owner |-> m.owner,
                 hidden |-> (m.hidden \cup hide) \ show,
                 user_minimized |-> m.user_minimized]
  BY <1>0 DEF activate, Plan, Models
<1>2. p.hide = hide /\ p.show = show
  BY <1>0 DEF activate, Plan
<1>3. previous # {} => m.active \in Ids
  BY DEF windows, Models, NoSet
<1>4. p.model \in Models
  BY <1>0, <1>1, <1>3 DEF Models, windows
<1>5. /\ \A v \in Windows : contains(p.model, v) <=> contains(m, v)
      /\ \A s : windows(p.model, s) = windows(m, s)
      /\ all_windows(p.model) = all_windows(m)
  BY <1>1 DEF windows, contains, all_windows
<1>6. ASSUME NEW v \in Windows, contains(m, v)
      PROVE  find_set(p.model, m.owner[v])
  <2>1. find_set(m, m.owner[v])
    BY <1>6 DEF WellFormed
  <2>2. CASE m.owner[v] = m.active
    <3>1. v \in previous
      BY <2>1, <2>2 DEF windows, find_set
    <3>. QED  BY <3>1, <2>1, <2>2, <1>1 DEF find_set
  <2>3. CASE m.owner[v] \in m.inactive
    BY <2>3, <2>1, <1>1 DEF find_set
  <2>. QED  BY <2>1, <2>2, <2>3 DEF find_set
<1>7. \A s \in inactive : windows(m, s) # {}
  BY DEF WellFormed
<1>8. hide \subseteq all_windows(m)
  BY DEF windows, all_windows, contains, NoSet
<1>9. WellFormed(p.model)
  <2>1. id \notin inactive
    BY <1>0
  <2>2. p.model.hidden \cup p.model.user_minimized \subseteq all_windows(m)
    BY <1>1, <1>8 DEF WellFormed
  <2>3. \A v \in Windows :
           contains(p.model, v) => find_set(p.model, p.model.owner[v])
    BY <1>1, <1>5, <1>6
  <2>4. \A s \in p.model.inactive : windows(p.model, s) # {}
    BY <1>1, <1>5, <1>7
  <2>5. /\ p.model.active \notin p.model.inactive
        /\ p.model.hidden \cup p.model.user_minimized
              \subseteq all_windows(p.model)
    BY <2>1, <2>2, <1>1, <1>5
  <2>. HIDE DEF p
  <2>. QED  BY <2>3, <2>4, <2>5 DEF WellFormed
<1>10. PlanOK(m, p)
  BY <1>1, <1>2, <1>4, <1>5, <1>8, <1>9 DEF PlanOK
<1>11. \A j : find_set(p.model, j) => find_set(m, j)
  BY <1>0, <1>1 DEF find_set, windows
<1>12. ASSUME StagedBut(m, id) PROVE Staged(p.model)
  <2>1. p.model.hidden \cap windows(p.model, id) = {}
    <3>. SUFFICES ASSUME NEW v \in (m.hidden \cup hide) \ show,
                         v \in windows(m, id)
                  PROVE  FALSE
      BY <1>1, <1>5
    <3>1. v \in hide
      OBVIOUS
    <3>. QED  BY <3>1, <1>0 DEF windows
  <2>2. p.model.hidden \cap p.model.user_minimized = {}
    BY <1>1, <1>12 DEF StagedBut
  <2>3. ASSUME NEW v \in Windows, m.owner[v] \in inactive
        PROVE  v \in ((m.hidden \cup hide) \ show) \cup m.user_minimized
    <3>1. m.owner[v] # id /\ v \notin show
      BY <1>0, <2>3 DEF windows
    <3>2. CASE m.owner[v] \in m.inactive
      BY <3>1, <3>2, <1>12 DEF StagedBut
    <3>3. CASE m.owner[v] = m.active /\ previous # {}
      BY <3>1, <3>3, <1>3 DEF windows, NoSet, Ids
    <3>. QED  BY <2>3, <3>2, <3>3
  <2>. QED  BY <2>1, <2>2, <2>3, <1>1 DEF Staged
<1>. QED  BY <1>10, <1>11, <1>12

\* move_window(): one window changes sets, and is hidden or shown for it.
LEMMA MoveWindow_ ==
    ASSUME NEW m \in Models, WellFormed(m), NEW w \in Windows,
           contains(m, w), NEW t, t = NoSet \/ find_set(m, t), NEW f,
           t = NoSet => IsFresh(m, f)
    PROVE  LET p == move_window(m, w, t, f)
           IN  /\ PlanOK(m, p)
               /\ \A j : find_set(p.model, j)
                            => find_set(m, j) \/ (t = NoSet /\ j = f)
               /\ Staged(m) => Staged(p.model)
<1>. DEFINE source == m.owner[w]
            target == IF t = 0 THEN f ELSE t
            show   == IF target = m.active THEN m.hidden \cap {w} ELSE {}
            hide   == IF target # m.active /\ source = m.active
                      THEN {w} \ (m.user_minimized \cup m.hidden) ELSE {}
            empty  == source # m.active /\ windows(m, source) \subseteq {w}
            inactive == (IF t = 0 THEN m.inactive \cup {f} ELSE m.inactive)
                          \ (IF empty THEN {source} ELSE {})
            p == move_window(m, w, t, f)
<1>0. target \in Ids /\ target # NoSet /\ find_set(m, source)
  BY MaxIdAssumption DEF Models, Ids, NoSet, WellFormed, find_set, IsFresh
<1>1. CASE target = source
  <2>1. p = Plan(m, {}, {})
    BY <1>1 DEF move_window
  <2>. QED  BY <2>1 DEF Plan, PlanOK, WellFormed, Models
<1>2. CASE target # source
  <2>1. /\ p.model = [active |-> m.active, inactive |-> inactive,
                      owner |-> [m.owner EXCEPT ![w] = target],
                      hidden |-> (m.hidden \cup hide) \ show,
                      user_minimized |-> m.user_minimized]
        /\ p.hide = hide /\ p.show = show
    BY <1>2 DEF move_window, Plan, Models, NoSet
  <2>2. \A v \in Windows :
           p.model.owner[v] = IF v = w THEN target ELSE m.owner[v]
    BY <2>1 DEF Models
  <2>3. p.model \in Models
    BY <1>0, <2>1 DEF Models, IsFresh, NoSet
  <2>4. all_windows(p.model) = all_windows(m)
    BY <1>0, <2>2 DEF all_windows, contains
  <2>5. target = m.active \/ target \in inactive
    BY <1>2, <1>0 DEF find_set, NoSet
  <2>6. ASSUME NEW v \in Windows, contains(m, v)
        PROVE  find_set(p.model, p.model.owner[v])
    <3>1. CASE v = w
      BY <3>1, <2>2, <2>5, <1>0, <2>1 DEF find_set
    <3>2. CASE v # w
      <4>1. find_set(m, m.owner[v]) /\ p.model.owner[v] = m.owner[v]
        BY <3>2, <2>2, <2>6 DEF WellFormed
      <4>2. m.owner[v] = source => ~empty
        BY <3>2, <4>1 DEF windows, find_set
      <4>. QED  BY <4>1, <4>2, <2>1 DEF find_set
    <3>. QED  BY <3>1, <3>2
  <2>7. ASSUME NEW s \in inactive PROVE windows(p.model, s) # {}
    <3>1. CASE s = target
      BY <3>1, <1>0, <2>2 DEF windows
    <3>2. CASE s # target
      <4>1. s \in m.inactive /\ windows(m, s) # {} /\ s # NoSet
        BY <3>2, <2>7 DEF WellFormed, windows
      <4>2. CASE s = source
        BY <4>1, <4>2, <2>7, <2>2, <1>2 DEF windows, WellFormed
      <4>3. CASE s # source
        BY <4>1, <4>3, <3>2, <2>2 DEF windows
      <4>. QED  BY <4>2, <4>3
    <3>. QED  BY <3>1, <3>2
  <2>8. m.active \notin inactive
    BY DEF WellFormed, IsFresh, find_set, NoSet, Ids
  <2>9. w \in all_windows(m)
    BY DEF all_windows
  <2>10. WellFormed(p.model)
    BY <2>1, <2>4, <2>6, <2>7, <2>8, <2>9 DEF WellFormed, all_windows
  <2>11. PlanOK(m, p)
    BY <2>1, <2>3, <2>4, <2>9, <2>10 DEF PlanOK
  <2>12. \A j : find_set(p.model, j)
                  => find_set(m, j) \/ (t = NoSet /\ j = f)
    BY <2>1 DEF find_set, NoSet
  <2>13. ASSUME Staged(m) PROVE Staged(p.model)
    <3>1. \A v \in Windows : v \in windows(m, m.active)
             <=> m.active # NoSet /\ m.owner[v] = m.active
      BY DEF windows
    <3>2. p.model.hidden \cap windows(p.model, m.active) = {}
      <4>. SUFFICES ASSUME NEW v \in Windows, v \in p.model.hidden,
                           v \in windows(p.model, m.active)
                    PROVE  FALSE
        BY <2>3 DEF Models
      <4>1. CASE v = w
        BY <4>1, <2>1, <2>2 DEF windows
      <4>2. CASE v # w
        BY <4>2, <2>1, <2>2, <2>13, <3>1 DEF windows, Staged
      <4>. QED  BY <4>1, <4>2
    <3>3. p.model.hidden \cap p.model.user_minimized = {}
      BY <2>1, <2>13 DEF Staged
    <3>4. ASSUME NEW v \in Windows, p.model.owner[v] \in inactive
          PROVE  v \in p.model.hidden \cup p.model.user_minimized
      <4>1. CASE v # w
        <5>1. m.owner[v] \in m.inactive
          BY <4>1, <2>2, <3>4, <1>0 DEF IsFresh, find_set, WellFormed,
             contains, NoSet, Ids
        <5>. QED  BY <4>1, <5>1, <2>1, <2>13 DEF Staged
      <4>2. CASE v = w
        <5>1. target # m.active
          BY <4>2, <2>2, <2>8, <3>4
        <5>2. CASE source = m.active
          BY <4>2, <5>1, <5>2, <2>1
        <5>3. CASE source \in m.inactive
          BY <4>2, <5>1, <5>3, <2>1, <2>13 DEF Staged
        <5>. QED  BY <5>2, <5>3, <1>0 DEF find_set
      <4>. QED  BY <4>1, <4>2
    <3>. QED  BY <2>1, <3>2, <3>3, <3>4 DEF Staged
  <2>. QED  BY <2>11, <2>12, <2>13
<1>. QED  BY <1>1, <1>2

\* adopt(): the sets of a monitor that is gone join those of another one.
LEMMA Adopt ==
    ASSUME NEW m \in Models, WellFormed(m),
           NEW o \in Models, WellFormed(o), Staged(o),
           all_windows(m) \cap all_windows(o) = {},
           \A id \in Ids : ~(find_set(m, id) /\ find_set(o, id)),
           NEW f,
           m.active = NoSet /\ windows(o, o.active) # {}
              => IsFresh(m, f) /\ ~find_set(o, f)
    PROVE  LET r == adopt(m, o, f)
           IN  /\ r \in Models
               /\ WellFormed(r)
               /\ all_windows(r) = all_windows(m) \cup all_windows(o)
               /\ r.hidden = m.hidden \cup o.hidden
               /\ r.user_minimized = m.user_minimized \cup o.user_minimized
               /\ \A id : find_set(r, id)
                    => \/ find_set(m, id) \/ find_set(o, id)
                       \/ /\ m.active = NoSet /\ windows(o, o.active) # {}
                          /\ id = f
               /\ Staged(m) => Staged(r)
<1>. DEFINE guests == windows(o, o.active)
            a == IF m.active = NoSet /\ guests # {} THEN f ELSE m.active
            moved == {s \in o.inactive : windows(o, s) # {}}
            r == adopt(m, o, f)
<1>1. moved = o.inactive
  BY DEF WellFormed
<1>2. o.hidden \ guests = o.hidden
  BY DEF Staged
<1>3. /\ r.active = a
      /\ r.inactive = m.inactive \cup o.inactive
      /\ r.hidden = m.hidden \cup o.hidden
      /\ r.user_minimized = m.user_minimized \cup o.user_minimized
  BY <1>1, <1>2 DEF adopt
<1>4. \A w \in Windows :
         r.owner[w] = IF w \in guests THEN a
                      ELSE IF o.owner[w] \in o.inactive THEN o.owner[w]
                      ELSE m.owner[w]
  <2>1. r.owner = [w \in Windows |->
                     CASE w \in guests             -> a
                       [] o.owner[w] \in o.inactive -> o.owner[w]
                       [] OTHER                    -> m.owner[w]]
    BY <1>1 DEF adopt
  <2>2. guests \cap {w \in Windows : o.owner[w] \in o.inactive} = {}
    BY DEF windows, WellFormed
  <2>. HIDE DEF guests, a, r
  <2>. QED  BY <2>1, <2>2
<1>5. a \in Ids \cup {NoSet} /\ (guests # {} => a \in Ids)
  BY DEF Models, IsFresh
<1>6. NoSet \notin Ids /\ NoSet \notin m.inactive /\ NoSet \notin o.inactive
  BY MaxIdAssumption DEF Models, Ids, NoSet
<1>7. r \in Models
  <2>1. r.owner \in [Windows -> Ids \cup {NoSet}]
    BY <1>1, <1>5 DEF Models, adopt
  <2>. QED  BY <2>1, <1>1, <1>3, <1>5 DEF Models, adopt
<1>8. \A w \in Windows : w \in guests <=> o.active # NoSet /\ o.owner[w] = o.active
  BY DEF windows
<1>9. \A w \in Windows : contains(o, w) =>
         /\ ~contains(m, w)
         /\ w \in guests \/ o.owner[w] \in o.inactive
  BY <1>8 DEF all_windows, WellFormed, find_set
<1>10. \A w \in Windows : ~contains(o, w) =>
         w \notin guests /\ o.owner[w] \notin o.inactive
  BY <1>6, <1>8 DEF contains
<1>11. all_windows(r) = all_windows(m) \cup all_windows(o)
  <2>1. ASSUME NEW w \in Windows
        PROVE  contains(r, w) <=> contains(m, w) \/ contains(o, w)
    BY <1>4, <1>5, <1>6, <1>9, <1>10 DEF contains
  <2>. QED  BY <2>1 DEF all_windows
<1>12. a \notin r.inactive
  BY <1>3, <1>5, <1>6 DEF IsFresh, find_set, WellFormed, Models
<1>13. ASSUME NEW w \in Windows, contains(r, w)
       PROVE  find_set(r, r.owner[w])
  <2>1. CASE w \in guests
    BY <2>1, <1>3, <1>4, <1>5, <1>6 DEF find_set
  <2>2. CASE w \notin guests /\ o.owner[w] \in o.inactive
    BY <2>2, <1>3, <1>4, <1>6 DEF find_set
  <2>3. CASE w \notin guests /\ o.owner[w] \notin o.inactive
    <3>1. r.owner[w] = m.owner[w] /\ contains(m, w)
      BY <2>3, <1>4, <1>13 DEF contains
    <3>2. find_set(m, m.owner[w])
      BY <3>1 DEF WellFormed
    <3>. QED  BY <3>1, <3>2, <1>3 DEF find_set
  <2>. QED  BY <2>1, <2>2, <2>3
<1>14. ASSUME NEW s \in r.inactive PROVE windows(r, s) # {}
  <2>1. CASE s \in m.inactive
    <3>1. PICK w \in Windows : m.owner[w] = s
      BY <2>1 DEF WellFormed, windows
    <3>2. contains(m, w) /\ ~contains(o, w)
      BY <3>1, <2>1, <1>6, <1>9 DEF contains
    <3>. QED  BY <3>1, <3>2, <2>1, <1>4, <1>6, <1>10 DEF windows
  <2>2. CASE s \in o.inactive
    <3>1. PICK w \in Windows : o.owner[w] = s
      BY <2>2 DEF WellFormed, windows
    <3>2. w \notin guests
      BY <3>1, <2>2, <1>8 DEF WellFormed
    <3>. QED  BY <3>1, <3>2, <2>2, <1>4, <1>6 DEF windows
  <2>. QED  BY <2>1, <2>2, <1>3
<1>15. WellFormed(r)
  <2>1. r.hidden \cup r.user_minimized \subseteq all_windows(r)
    BY <1>3, <1>11 DEF WellFormed
  <2>. QED  BY <2>1, <1>3, <1>12, <1>13, <1>14 DEF WellFormed
<1>16. \A id : find_set(r, id)
          => \/ find_set(m, id) \/ find_set(o, id)
             \/ m.active = NoSet /\ guests # {} /\ id = f
  BY <1>3 DEF find_set
<1>17. ASSUME Staged(m) PROVE Staged(r)
  <2>1. r.hidden \cap windows(r, r.active) = {}
    <3>. SUFFICES ASSUME NEW w \in r.hidden, w \in windows(r, r.active)
                  PROVE  FALSE
      OBVIOUS
    <3>1. w \in Windows /\ r.owner[w] = a /\ a # NoSet
      BY <1>3 DEF windows
    <3>2. CASE w \in m.hidden
      <4>1. contains(m, w) /\ ~contains(o, w)
        BY <3>1, <3>2, <1>9 DEF WellFormed, all_windows
      <4>2. m.owner[w] = a
        BY <3>1, <4>1, <1>4, <1>10
      <4>3. a = m.active
        BY <4>1, <4>2, <3>1 DEF WellFormed, IsFresh
      <4>. QED  BY <3>1, <3>2, <4>2, <4>3, <1>17 DEF Staged, windows
    <3>3. CASE w \in o.hidden
      <4>1. contains(o, w) /\ w \notin guests
        BY <3>3 DEF WellFormed, all_windows, Staged
      <4>2. r.owner[w] \in o.inactive
        BY <3>1, <4>1, <1>4, <1>9
      <4>. QED  BY <3>1, <4>2, <1>3, <1>12
    <3>. QED  BY <3>2, <3>3, <1>3
  <2>2. r.hidden \cap r.user_minimized = {}
    BY <1>3, <1>17 DEF Staged, WellFormed
  <2>3. ASSUME NEW w \in Windows, r.owner[w] \in r.inactive
        PROVE  w \in r.hidden \cup r.user_minimized
    <3>1. w \notin guests
      BY <2>3, <1>3, <1>4, <1>12
    <3>2. CASE o.owner[w] \in o.inactive
      BY <3>2, <1>3 DEF Staged
    <3>3. CASE o.owner[w] \notin o.inactive
      <4>1. r.owner[w] = m.owner[w] /\ ~contains(o, w)
        BY <3>1, <3>3, <1>4, <1>9
      <4>2. contains(m, w)
        BY <4>1, <2>3, <1>6, <1>3 DEF contains
      <4>3. find_set(m, m.owner[w])
        BY <4>2 DEF WellFormed
      <4>4. m.owner[w] \in m.inactive
        <5>1. m.owner[w] \in o.inactive => find_set(o, m.owner[w])
          BY <4>2 DEF find_set, contains
        <5>2. m.owner[w] \in Ids
          BY <4>2 DEF Models, contains
        <5>. QED  BY <4>1, <4>3, <5>1, <5>2, <2>3, <1>3
      <4>. QED  BY <4>4, <1>3, <1>17 DEF Staged
    <3>. QED  BY <3>2, <3>3
  <2>. QED  BY <2>1, <2>2, <2>3 DEF Staged
<1>. QED  BY <1>3, <1>7, <1>11, <1>15, <1>16, <1>17

\* restore_window(): a window returns to the set the compositor names.
LEMMA RestoreWindow_ ==
    ASSUME NEW m \in Models, WellFormed(m), NEW w \in Windows,
           ~contains(m, w), NEW g \in Ids \cup {NoSet},
           NEW mini \in BOOLEAN, NEW hidden \in BOOLEAN,
           NEW f, g = NoSet /\ m.active = NoSet => IsFresh(m, f)
    PROVE  LET r == restore_window(m, w, g, mini, hidden, f)
           IN  /\ r \in Models
               /\ WellFormed(r)
               /\ all_windows(r) = all_windows(m) \cup {w}
               /\ r.hidden = m.hidden
                             \cup (IF mini /\ hidden THEN {w} ELSE {})
               /\ r.user_minimized = m.user_minimized
                             \cup (IF mini /\ ~hidden THEN {w} ELSE {})
               /\ g = NoSet => r.inactive = m.inactive
               /\ \A id : find_set(r, id)
                    => \/ find_set(m, id) \/ id = g
                       \/ g = NoSet /\ m.active = NoSet /\ id = f
<1>. DEFINE base == IF g = NoSet THEN add_window(m, w, f)
                    ELSE [m EXCEPT !.inactive = IF find_set(m, g) THEN @
                                                ELSE @ \cup {g},
                                   !.owner[w] = g]
            r == restore_window(m, w, g, mini, hidden, f)
            h == m.hidden \cup (IF mini /\ hidden THEN {w} ELSE {})
            u == m.user_minimized
                    \cup (IF mini /\ ~hidden THEN {w} ELSE {})
<1>1. /\ base \in Models
      /\ WellFormed(base)
      /\ all_windows(base) = all_windows(m) \cup {w}
      /\ base.hidden = m.hidden
      /\ base.user_minimized = m.user_minimized
      /\ g = NoSet => base.inactive = m.inactive
      /\ \A id : find_set(base, id)
           => \/ find_set(m, id) \/ id = g
              \/ g = NoSet /\ m.active = NoSet /\ id = f
  <2>1. CASE g = NoSet
    <3>1. base = add_window(m, w, f)
      BY <2>1
    <3>2. base.inactive = m.inactive
      BY <3>1 DEF add_window, Models
    <3>. QED  BY <2>1, <3>1, <3>2, AddWindow
  <2>2. CASE g # NoSet
    <3>. DEFINE i == IF find_set(m, g) THEN m.inactive
                     ELSE m.inactive \cup {g}
    <3>1. base = [active |-> m.active, inactive |-> i,
                  owner |-> [m.owner EXCEPT ![w] = g],
                  hidden |-> m.hidden, user_minimized |-> m.user_minimized]
      BY <2>2 DEF Models
    <3>2. base \in Models
      BY <2>2, <3>1 DEF Models
    <3>3. \A v \in Windows : base.owner[v] = IF v = w THEN g ELSE m.owner[v]
      BY <3>1 DEF Models
    <3>4. all_windows(base) = all_windows(m) \cup {w}
      BY <2>2, <3>3 DEF all_windows, contains
    <3>5. \A v \in Windows :
             contains(base, v) => find_set(base, base.owner[v])
      BY <2>2, <3>1, <3>3 DEF contains, find_set, WellFormed
    <3>6. ASSUME NEW s \in i PROVE windows(base, s) # {}
      <4>1. CASE s = g
        BY <2>2, <4>1, <3>3 DEF windows
      <4>2. CASE s # g
        <5>1. windows(m, s) # {}
          BY <4>2 DEF WellFormed
        <5>2. windows(m, s) \subseteq windows(base, s)
          BY <3>3 DEF windows, contains
        <5>. QED  BY <5>1, <5>2
      <4>. QED  BY <4>1, <4>2
    <3>7. m.active \notin i
      BY <2>2 DEF WellFormed, find_set
    <3>8. WellFormed(base)
      <4>1. /\ base.active \notin base.inactive
            /\ \A s \in base.inactive : windows(base, s) # {}
            /\ base.hidden \cup base.user_minimized
                  \subseteq all_windows(base)
        BY <3>1, <3>4, <3>6, <3>7 DEF WellFormed
      <4>. HIDE DEF base
      <4>. QED  BY <4>1, <3>5 DEF WellFormed
    <3>9. \A id : find_set(base, id) => find_set(m, id) \/ id = g
      BY <3>1 DEF find_set
    <3>. QED  BY <2>2, <3>1, <3>2, <3>4, <3>8, <3>9
  <2>. QED  BY <2>1, <2>2
<1>2. r = Flagged(base, w, mini, hidden)
  BY DEF restore_window, NoSet
<1>. HIDE DEF base
<1>3. r = [active |-> base.active, inactive |-> base.inactive,
           owner |-> base.owner, hidden |-> h, user_minimized |-> u]
  BY <1>1, <1>2 DEF Flagged, Models
<1>4. r \in Models
  BY <1>1, <1>3 DEF Models
<1>3a. /\ r.active = base.active /\ r.inactive = base.inactive
       /\ r.owner = base.owner /\ r.hidden = h /\ r.user_minimized = u
  BY <1>3
<1>3b. h \cup u \subseteq m.hidden \cup m.user_minimized \cup {w}
  OBVIOUS
<1>. HIDE DEF r, h, u
<1>5. /\ \A s : windows(r, s) = windows(base, s)
      /\ all_windows(r) = all_windows(base)
  BY <1>3a DEF windows, all_windows, contains
<1>6. WellFormed(r)
  <2>1. \A v \in Windows : contains(r, v) => find_set(r, r.owner[v])
    BY <1>1, <1>3a DEF WellFormed, contains, find_set
  <2>2. \A s \in r.inactive : windows(r, s) # {}
    BY <1>1, <1>3a, <1>5 DEF WellFormed
  <2>3. /\ r.active \notin r.inactive
        /\ r.hidden \cup r.user_minimized \subseteq all_windows(r)
    BY <1>1, <1>3a, <1>3b, <1>5 DEF WellFormed
  <2>. QED  BY <2>1, <2>2, <2>3 DEF WellFormed
<1>7. \A id : find_set(r, id) <=> find_set(base, id)
  BY <1>3a DEF find_set
<1>8. /\ r.hidden = m.hidden \cup (IF mini /\ hidden THEN {w} ELSE {})
      /\ r.user_minimized = m.user_minimized
                             \cup (IF mini /\ ~hidden THEN {w} ELSE {})
  BY <1>3a DEF h, u
<1>9. /\ all_windows(r) = all_windows(m) \cup {w}
      /\ g = NoSet => r.inactive = m.inactive
      /\ \A id : find_set(r, id)
           => \/ find_set(m, id) \/ id = g
              \/ g = NoSet /\ m.active = NoSet /\ id = f
  BY <1>1, <1>3a, <1>5, <1>7
<1>. QED  BY <1>4, <1>6, <1>8, <1>9 DEF r

\* restore_finish() finds a set to put on stage, or there is none.
LEMMA WantedSets ==
    ASSUME NEW m \in Models, WellFormed(m), NEW id,
           NEW wanted \in wanted_sets(m, id)
    PROVE  \/ wanted = NoSet /\ m.active = NoSet /\ m.inactive = {}
           \/ wanted \in Ids /\ find_set(m, wanted)
<1>1. NoSet \notin m.inactive
  BY MaxIdAssumption DEF Models, Ids, NoSet
<1>2. CASE find_set(m, id)
  BY <1>2 DEF wanted_sets, find_set, Models
<1>3. CASE ~find_set(m, id)
  <2>1. visible_sets(m) \subseteq m.inactive
    BY DEF visible_sets
  <2>2. wanted \in m.inactive \/ (m.inactive = {} /\ wanted = m.active)
    BY <1>3, <2>1 DEF wanted_sets
  <2>. QED  BY <1>1, <2>2 DEF find_set, Models
<1>. QED  BY <1>2, <1>3

\* restore_finish(): the plan leaves a staged model, whatever was shown.
LEMMA RestoreFinish ==
    ASSUME NEW m \in Models, WellFormed(m),
           m.hidden \cap m.user_minimized = {}, NEW wanted, NEW f,
           \/ /\ wanted = NoSet /\ m.active = NoSet /\ m.inactive = {}
              /\ IsFresh(m, f)
           \/ wanted \in Ids /\ find_set(m, wanted)
    PROVE  LET p == restore_finish(m, wanted, f)
           IN  /\ PlanOK(m, p)
               /\ Staged(p.model)
               /\ \A id : find_set(p.model, id)
                            => find_set(m, id) \/ (wanted = NoSet /\ id = f)
<1>. DEFINE a     == IF wanted = NoSet THEN f ELSE wanted
            owner == [w \in Windows |-> IF w \in windows(m, m.active) THEN a
                                                          ELSE m.owner[w]]
            rest  == {s \in m.inactive \ {a} : windows(m, s) # {}}
            show  == {w \in m.hidden : owner[w] = a}
            off   == {w \in Windows : owner[w] \in rest}
            hide  == off \ (m.hidden \cup m.user_minimized)
            p == restore_finish(m, wanted, f)
<1>1. a \in Ids /\ a # NoSet
  BY MaxIdAssumption DEF IsFresh, Ids, NoSet
<1>2. rest = m.inactive \ {a}
  BY DEF WellFormed
<1>3. /\ p.model.active = a /\ p.model.inactive = m.inactive \ {a}
      /\ p.model.owner = owner
      /\ p.model.hidden = (m.hidden \cup hide) \ show
      /\ p.model.user_minimized = m.user_minimized
      /\ p.hide = hide /\ p.show = show
  BY <1>2 DEF restore_finish, Plan
<1>3a. /\ owner \in [Windows -> Ids \cup {NoSet}]
       /\ \A w \in Windows :
             owner[w] = IF w \in windows(m, m.active) THEN a ELSE m.owner[w]
  BY <1>1 DEF Models
<1>3b. /\ \A w : w \in show <=> w \in m.hidden /\ owner[w] = a
       /\ \A w : w \in hide <=> /\ w \in Windows /\ owner[w] \in rest
                                 /\ w \notin m.hidden \cup m.user_minimized
       /\ hide \subseteq off
       /\ \A w : w \in off <=> w \in Windows /\ owner[w] \in rest
  OBVIOUS
<1>4. p.model \in Models
  <2>1. p.model = [active |-> a, inactive |-> rest, owner |-> owner,
                   hidden |-> (m.hidden \cup hide) \ show,
                   user_minimized |-> m.user_minimized]
    BY DEF restore_finish, Plan
  <2>2. (m.hidden \cup hide) \ show \subseteq Windows
    BY DEF Models
  <2>. HIDE DEF hide, show, owner, a, p
  <2>. QED  BY <2>1, <2>2, <1>1, <1>2, <1>3a DEF Models
<1>. HIDE DEF a, owner, rest, show, off, hide, p
<1>5. \A w \in Windows : w \in windows(m, m.active)
         <=> m.active # NoSet /\ m.owner[w] = m.active
  BY DEF windows
<1>6. \A w \in Windows : contains(p.model, w) <=> contains(m, w)
  BY <1>1, <1>3, <1>3a, <1>5 DEF contains
<1>7. all_windows(p.model) = all_windows(m)
  BY <1>6 DEF all_windows
<1>8. ASSUME NEW w \in Windows, contains(m, w)
      PROVE  owner[w] = a \/ owner[w] \in m.inactive \ {a}
  <2>1. find_set(m, m.owner[w])
    BY <1>8 DEF WellFormed
  <2>. QED  BY <2>1, <1>3a, <1>5 DEF find_set
<1>9. ASSUME NEW s \in m.inactive \ {a} PROVE windows(p.model, s) # {}
  <2>1. PICK w \in Windows : m.owner[w] = s /\ s # NoSet
    BY DEF WellFormed, windows
  <2>2. owner[w] = s
    BY <2>1, <1>3a, <1>5 DEF WellFormed
  <2>. QED  BY <2>1, <2>2, <1>3 DEF windows
<1>10. off \subseteq all_windows(m)
  <2>1. \A w \in Windows : owner[w] \in m.inactive => contains(m, w)
    BY MaxIdAssumption, <1>3a, <1>5, <1>1 DEF contains, Models, Ids, NoSet
  <2>. QED  BY <2>1, <1>2, <1>3b DEF all_windows
<1>11. WellFormed(p.model)
  <2>1. /\ p.model.active \notin p.model.inactive
        /\ p.model.hidden \cup p.model.user_minimized
              \subseteq all_windows(p.model)
    BY <1>3, <1>3b, <1>7, <1>10 DEF WellFormed
  <2>2. \A w \in Windows :
           contains(p.model, w) => find_set(p.model, p.model.owner[w])
    <3>. SUFFICES ASSUME NEW w \in Windows, contains(p.model, w)
                  PROVE  find_set(p.model, p.model.owner[w])
      OBVIOUS
    <3>1. owner[w] = a \/ owner[w] \in m.inactive \ {a}
      BY <1>6, <1>8
    <3>2. p.model.owner[w] = owner[w] /\ owner[w] # NoSet
      BY <1>3 DEF contains
    <3>. QED  BY <3>1, <3>2, <1>3 DEF find_set
  <2>3. \A s \in p.model.inactive : windows(p.model, s) # {}
    BY <1>3, <1>9
  <2>. QED  BY <2>1, <2>2, <2>3 DEF WellFormed
<1>12. PlanOK(m, p)
  BY <1>3, <1>3b, <1>4, <1>7, <1>10, <1>11 DEF PlanOK
<1>13. Staged(p.model)
  <2>1. p.model.hidden \cap windows(p.model, a) = {}
    <3>. SUFFICES ASSUME NEW w \in (m.hidden \cup hide) \ show,
                         w \in windows(p.model, a)
                  PROVE  FALSE
      BY <1>3
    <3>1. w \in Windows /\ owner[w] = a
      BY <1>3 DEF windows
    <3>2. w \in hide
      BY <3>1, <1>3b
    <3>. QED  BY <3>1, <3>2, <1>2, <1>3b
  <2>2. p.model.hidden \cap p.model.user_minimized = {}
    BY <1>3, <1>3b
  <2>3. ASSUME NEW w \in Windows, owner[w] \in m.inactive \ {a}
        PROVE  w \in ((m.hidden \cup hide) \ show) \cup m.user_minimized
    <3>1. owner[w] # a /\ w \notin show
      BY <2>3, <1>3b
    <3>. QED  BY <3>1, <2>3, <1>2, <1>3b
  <2>4. \A w \in Windows : p.model.owner[w] \in p.model.inactive
           => w \in p.model.hidden \cup p.model.user_minimized
    BY <1>3, <2>3
  <2>5. p.model.active = a
    BY <1>3
  <2>. QED  BY <2>1, <2>2, <2>4, <2>5 DEF Staged
<1>14. \A id : find_set(p.model, id)
                 => find_set(m, id) \/ (wanted = NoSet /\ id = f)
  BY <1>3 DEF find_set, a
<1>. QED  BY <1>12, <1>13, <1>14 DEF p

-----------------------------------------------------------------------------
(* The manager.                                                            *)

\* The inductive invariant.  OneGroupShown follows from AllStaged and
\* FlagsMatch; AllStaged needs fresh ids for new sets, and HiddenGrouped for
\* the windows split_by_app() leaves on stage.
Inv ==
    /\ TypeOK
    /\ SetsWellFormed
    /\ FlagsMatch
    /\ Placed
    /\ FreshIds
    /\ AllStaged
    /\ HiddenGrouped
    /\ OffShowsAll

\* The windows of a model are those of its monitor the shell knows of.
LEMMA KnownWindows ==
    ASSUME TypeOK, SetsWellFormed
    PROVE  \A w \in Windows : /\ out[w] \in Monitors
                              /\ w \in known <=> \E k \in Monitors :
                                     w \in all_windows(models[k])
BY DEF TypeOK, SetsWellFormed, known, all_windows

\* A plan of one model, carried out: the compositor's flags follow the model.
LEMMA PlanStep ==
    ASSUME TypeOK, SetsWellFormed, FlagsMatch, FreshIds, Placed,
           NEW k \in plugged, NEW p, PlanOK(models[k], p),
           models' = [models EXCEPT ![k] = p.model],
           set_hidden(p.hide, p.show),
           UNCHANGED <<out, open>>,
           next_id' \in 1..(MaxId + 1), next_id <= next_id',
           \A id \in Ids : find_set(p.model, id) => id < next_id'
    PROVE  /\ models' \in [Monitors -> Models]
           /\ minimized' \subseteq open /\ hid' \subseteq minimized'
           /\ SetsWellFormed'
           /\ FlagsMatch'
           /\ FreshIds'
           /\ known' = known
           /\ \A j \in Monitors :
                 all_windows(models'[j]) = all_windows(models[j])
<1>0. k \in Monitors /\ models[k] \in Models
  BY DEF TypeOK
<1>1. /\ models' \in [Monitors -> Models]
      /\ models'[k] = p.model
      /\ \A j \in Monitors \ {k} : models'[j] = models[j]
  BY <1>0 DEF TypeOK, PlanOK
<1>2. \A j \in Monitors : /\ all_windows(models'[j]) = all_windows(models[j])
                          /\ WellFormed(models'[j])
  BY <1>0, <1>1 DEF PlanOK, SetsWellFormed
<1>3. SetsWellFormed'
  BY <1>1, <1>2 DEF SetsWellFormed
<1>4. known' = known
  <2>1. \A w \in Windows, j \in Monitors :
           contains(models'[j], w) <=> contains(models[j], w)
    BY <1>2 DEF all_windows
  <2>. QED  BY <2>1 DEF known, TypeOK
<1>5. p.hide \subseteq all_windows(models[k]) /\ p.show \subseteq all_windows(models[k])
  BY <1>0 DEF PlanOK, SetsWellFormed, WellFormed
<1>6. /\ minimized' = (minimized \cup p.hide) \ p.show
      /\ hid' = (hid \cup p.hide) \ p.show
  BY DEF set_hidden, singularity_stage_set_hidden
<1>7. /\ p.model.hidden = (models[k].hidden \cup p.hide) \ p.show
      /\ p.model.user_minimized = models[k].user_minimized
      /\ p.hide \cap (models[k].hidden \cup models[k].user_minimized) = {}
      /\ p.show \subseteq models[k].hidden
  BY DEF PlanOK
<1>8. ASSUME NEW j \in Monitors, NEW w \in all_windows(models[j])
      PROVE  /\ w \in models'[j].hidden <=> w \in hid'
             /\ w \in models'[j].user_minimized <=> w \in minimized' \ hid'
  <2>1. /\ w \in models[j].hidden <=> w \in hid
        /\ w \in models[j].user_minimized <=> w \in minimized \ hid
        /\ hid \subseteq minimized
    BY <1>8 DEF FlagsMatch, TypeOK
  <2>2. CASE j = k
    BY <2>1, <2>2, <1>1, <1>6, <1>7
  <2>3. CASE j # k
    <3>1. w \notin p.hide /\ w \notin p.show
      BY <2>3, <1>0, <1>5 DEF SetsWellFormed
    <3>. QED  BY <2>1, <2>3, <3>1, <1>1, <1>6
  <2>. QED  BY <2>2, <2>3
<1>9. FlagsMatch'
  BY <1>2, <1>8 DEF FlagsMatch
<1>10. FreshIds'
  <2>1. ASSUME NEW j \in Monitors, NEW id \in Ids, find_set(models'[j], id)
        PROVE  id < next_id'
    <3>1. CASE j = k
      BY <2>1, <3>1, <1>1
    <3>2. CASE j # k
      BY <2>1, <3>2, <1>1, MaxIdAssumption DEF FreshIds, TypeOK, Ids
    <3>. QED  BY <3>1, <3>2
  <2>. QED  BY <2>1 DEF FreshIds
<1>11. minimized' \subseteq open /\ hid' \subseteq minimized'
  BY <1>0, <1>5, <1>6 DEF TypeOK, Placed
<1>. QED  BY <1>1, <1>2, <1>3, <1>4, <1>9, <1>10, <1>11

\* What sync_tags leaves behind: every known window has a group.
LEMMA SyncTags ==
    ASSUME NEW ms \in [Monitors -> Models], models' = ms,
           out' \in [Windows -> Monitors],
           group \in [Windows -> Ids \cup {NoSet}],
           sync_tags
    PROVE  /\ group' \in [Windows -> Ids \cup {NoSet}]
           /\ \A w \in known' : group'[w] # NoSet
           /\ \A w \in Windows \ known' : group'[w] = group[w]
<1>1. \A w \in Windows : /\ models'[out'[w]].owner[w] \in Ids \cup {NoSet}
                         /\ group'[w] = IF contains(models'[out'[w]], w)
                                THEN models'[out'[w]].owner[w] ELSE group[w]
  BY DEF sync_tags, singularity_stage_set_group, Models
<1>2. group' = [w \in Windows |-> group'[w]]
  BY DEF sync_tags, singularity_stage_set_group
<1>. QED  BY <1>1, <1>2 DEF known, contains

\* A fresh session satisfies the invariant.
THEOREM InitInv == Init => Inv
<1>. SUFFICES ASSUME Init PROVE Inv
  OBVIOUS
<1>1. \A k \in Monitors : models[k] = NewModel
  BY DEF Init, NoModels
<1>2. TypeOK
  <2>1. known = {}
    BY <1>1, NewModelLemma DEF known, Init, all_windows
  <2>2. models \in [Monitors -> Models]
    BY NewModelLemma DEF Init, NoModels
  <2>3. plugged \subseteq Monitors /\ out \in [Windows -> Monitors]
    BY DEF Init
  <2>4. /\ saved \in [Monitors -> Ids \cup {NoSet}]
        /\ group \in [Windows -> Ids \cup {NoSet}]
        /\ next_id \in 1..(MaxId + 1)
    BY MaxIdAssumption DEF Init
  <2>. QED  BY <2>1, <2>2, <2>3, <2>4 DEF Init, TypeOK
<1>3. SetsWellFormed
  BY <1>1, NewModelLemma DEF SetsWellFormed
<1>4. FlagsMatch
  BY <1>1, NewModelLemma DEF FlagsMatch
<1>5. Placed
  <2>1. known = {}
    BY <1>1, NewModelLemma DEF known, Init, all_windows
  <2>. QED  BY <1>1, <2>1, NewModelLemma DEF Placed, Init
<1>6. FreshIds
  BY <1>1, NewModelLemma DEF FreshIds
<1>7. AllStaged
  BY <1>1, NewModelLemma DEF AllStaged, InUse, Init
<1>8. HiddenGrouped /\ OffShowsAll
  BY DEF HiddenGrouped, OffShowsAll, Init
<1>. QED  BY <1>2, <1>3, <1>4, <1>5, <1>6, <1>7, <1>8 DEF Inv

-----------------------------------------------------------------------------
(* Steps that put a plan of one model into effect while the mode is on.    *)

\* What is left to show of such a step once PlanStep is known.
LEMMA PlanStepOn ==
    ASSUME Inv, phase = "on", UNCHANGED <<phase, plugged, open, out, saved>>,
           UNCHANGED restoringVars, save_due' \in BOOLEAN,
           NEW k \in plugged, NEW p, PlanOK(models[k], p), Staged(p.model),
           models' = [models EXCEPT ![k] = p.model],
           set_hidden(p.hide, p.show), sync_tags,
           next_id' \in 1..(MaxId + 1), next_id <= next_id',
           \A id \in Ids : find_set(p.model, id) => id < next_id'
    PROVE  Inv'
<1>1. /\ models' \in [Monitors -> Models]
      /\ minimized' \subseteq open /\ hid' \subseteq minimized'
      /\ SetsWellFormed'
      /\ FlagsMatch'
      /\ FreshIds'
      /\ known' = known
      /\ \A j \in Monitors :
            all_windows(models'[j]) = all_windows(models[j])
  BY PlanStep DEF Inv
<1>2. /\ group' \in [Windows -> Ids \cup {NoSet}]
      /\ \A w \in known' : group'[w] # NoSet
      /\ \A w \in Windows \ known' : group'[w] = group[w]
  BY <1>1, SyncTags DEF Inv, TypeOK
<1>3. TypeOK'
  BY <1>1, <1>2 DEF Inv, TypeOK, restoringVars
<1>4. Placed'
  <2>1. \A j \in Monitors \ plugged : models'[j] = NewModel
    BY DEF Inv, TypeOK, Placed
  <2>. QED  BY <1>1, <2>1 DEF Inv, Placed, restoringVars
<1>5. AllStaged'
  <2>1. InUse' = plugged /\ InUse = plugged
    BY DEF InUse
  <2>. QED  BY <2>1 DEF Inv, AllStaged, TypeOK
<1>6. HiddenGrouped' /\ OffShowsAll'
  BY <1>1, <1>2 DEF Inv, HiddenGrouped, OffShowsAll, Placed
<1>. QED  BY <1>1, <1>3, <1>4, <1>5, <1>6 DEF Inv

\* activate() keeps the invariant.
LEMMA ActivateInv ==
    ASSUME Inv, NEW k \in Monitors, NEW id \in Ids, Activate(k, id)
    PROVE  Inv'
<1>. DEFINE p == activate(models[k], id)
<1>1. models[k] \in Models /\ WellFormed(models[k])
  BY DEF Inv, TypeOK, SetsWellFormed
<1>2. id \in models[k].inactive
  BY DEF Activate, find_set
<1>3. k \in plugged
  BY <1>2, NewModelLemma DEF Inv, Placed
<1>4. Staged(models[k])
  BY <1>3 DEF Inv, AllStaged, InUse, Activate
<1>5. StagedBut(models[k], id)
  BY <1>4 DEF Staged, StagedBut
<1>6. /\ PlanOK(models[k], p)
      /\ \A j : find_set(p.model, j) => find_set(models[k], j)
      /\ Staged(p.model)
  BY <1>1, <1>2, <1>5, Activate_
<1>. HIDE DEF p
<1>7. \A j \in Ids : find_set(p.model, j) => j < next_id'
  BY <1>6 DEF Inv, FreshIds, Activate
<1>8. next_id' \in 1..(MaxId + 1) /\ next_id <= next_id'
  BY DEF Activate, Inv, TypeOK
<1>9. /\ models' = [models EXCEPT ![k] = p.model]
      /\ set_hidden(p.hide, p.show) /\ sync_tags
      /\ phase = "on" /\ UNCHANGED <<phase, plugged, open, out, saved>>
      /\ UNCHANGED restoringVars /\ save_due' \in BOOLEAN
  BY DEF Activate, Apply, p
<1>. QED  BY <1>3, <1>6, <1>7, <1>8, <1>9, PlanStepOn

\* move_window() keeps the invariant.
LEMMA MoveWindowInv ==
    ASSUME Inv, NEW w \in Windows, NEW t \in Ids \cup {NoSet},
           MoveWindow(w, t)
    PROVE  Inv'
<1>. DEFINE k == out[w]
            p == move_window(models[k], w, t, next_id)
<1>0. k \in Monitors /\ contains(models[k], w) /\ phase = "on"
  BY DEF Inv, TypeOK, MoveWindow, known
<1>1. models[k] \in Models /\ WellFormed(models[k])
  BY <1>0 DEF Inv, TypeOK, SetsWellFormed
<1>2. k \in plugged
  BY <1>0, NewModelLemma DEF Inv, Placed, all_windows
<1>3. Staged(models[k])
  BY <1>0, <1>2 DEF Inv, AllStaged, InUse
<1>4. t = NoSet => IsFresh(models[k], next_id)
  BY <1>0, MaxIdAssumption DEF MoveWindow, NewSetIf, IsFresh, Inv, TypeOK,
     FreshIds, Ids
<1>5. t = NoSet \/ find_set(models[k], t)
  BY DEF MoveWindow
<1>6. /\ PlanOK(models[k], p)
      /\ \A j : find_set(p.model, j)
                  => find_set(models[k], j) \/ (t = NoSet /\ j = next_id)
      /\ Staged(p.model)
  BY <1>0, <1>1, <1>3, <1>4, <1>5, MoveWindow_
<1>7. /\ models' = [models EXCEPT ![k] = p.model]
      /\ set_hidden(p.hide, p.show) /\ sync_tags
      /\ UNCHANGED <<phase, plugged, open, out, saved>>
      /\ UNCHANGED restoringVars /\ save_due' \in BOOLEAN
      /\ t = NoSet => next_id <= MaxId
      /\ next_id' = IF t = NoSet THEN next_id + 1 ELSE next_id
  BY DEF MoveWindow, Apply, NewSetIf
<1>. HIDE DEF p, k
<1>8. next_id' \in 1..(MaxId + 1) /\ next_id <= next_id'
  BY <1>7, MaxIdAssumption DEF Inv, TypeOK
<1>9. \A j \in Ids : find_set(p.model, j) => j < next_id'
  BY <1>0, <1>6, <1>7, MaxIdAssumption DEF Inv, FreshIds, TypeOK, Ids
<1>. QED  BY <1>0, <1>2, <1>6, <1>7, <1>8, <1>9, PlanStepOn

-----------------------------------------------------------------------------
(* enable() and its steps.                                                 *)

\* The start of enable() keeps the invariant.
LEMMA EnableInv == Inv /\ enable => Inv'
<1>. SUFFICES ASSUME Inv, enable PROVE Inv'
  OBVIOUS
<1>0. \A k \in Monitors : models[k] = NewModel
  BY DEF Inv, Placed, enable
<1>1. known = {} /\ known' = known
  BY <1>0, NewModelLemma DEF known, all_windows, enable, compositorVars,
     Inv, TypeOK
<1>2. TypeOK'
  <2>1. restored' \in BOOLEAN
    BY DEF enable
  <2>. QED  BY <1>1, <2>1 DEF Inv, TypeOK, enable, savedVars, compositorVars
<1>3. SetsWellFormed' /\ FlagsMatch' /\ FreshIds'
  BY DEF Inv, SetsWellFormed, FlagsMatch, FreshIds, enable, compositorVars
<1>4. Placed'
  BY <1>0, <1>1 DEF Inv, Placed, enable, compositorVars
<1>5. AllStaged'
  BY DEF AllStaged, InUse, enable, compositorVars
<1>6. HiddenGrouped'
  <2>. SUFFICES ASSUME ~restored'
                PROVE  /\ \A w \in open : group[w] = NoSet
                       /\ \A w \in hid : out[w] \notin unfinished'
                       /\ \A k \in unfinished' : models[k].inactive = {}
    BY DEF Inv, HiddenGrouped, enable, compositorVars
  <2>1. \A w \in open : group[w] = NoSet
    BY DEF enable
  <2>2. hid = {}
    BY <2>1 DEF Inv, TypeOK, HiddenGrouped, OffShowsAll, enable
  <2>3. \A k \in plugged : models[k].inactive = {}
    BY <1>0, NewModelLemma DEF Inv, TypeOK
  <2>. QED  BY <2>1, <2>2, <2>3 DEF enable
<1>7. OffShowsAll'
  BY DEF OffShowsAll, enable
<1>. QED  BY <1>2, <1>3, <1>4, <1>5, <1>6, <1>7 DEF Inv

\* Every window enable() restores keeps the invariant.
LEMMA RestoreWindowInv ==
    ASSUME Inv, NEW w \in Windows, RestoreWindow(w)
    PROVE  Inv'
<1>. DEFINE k == out[w]
            m == models[k]
            g == group[w]
            r == restore_window(m, w, g, w \in minimized, w \in hid, next_id)
<1>0. /\ phase = "restoring" /\ phase' = phase
      /\ w \in todo /\ w \in open /\ todo' = todo \ {w}
      /\ models' = [models EXCEPT ![k] = r]
      /\ UNCHANGED <<unfinished, restored, saved, save_due>>
      /\ UNCHANGED <<plugged, open, out, minimized, hid, group>>
  BY DEF RestoreWindow, singularity_stage_get_group, Inv, TypeOK, savedVars, compositorVars
<1>1. k \in Monitors /\ k \in plugged /\ g \in Ids \cup {NoSet}
  BY <1>0 DEF Inv, TypeOK, Placed
<1>2. m \in Models /\ WellFormed(m)
  BY <1>1 DEF Inv, TypeOK, SetsWellFormed
<1>3. ~contains(m, w)
  BY <1>0 DEF Inv, Placed, known
<1>4. g = NoSet /\ m.active = NoSet => IsFresh(m, next_id)
  BY <1>1, MaxIdAssumption DEF RestoreWindow, singularity_stage_get_group, NewSetIf, IsFresh, Inv, TypeOK,
     FreshIds, Ids
<1>5. /\ r \in Models
      /\ WellFormed(r)
      /\ all_windows(r) = all_windows(m) \cup {w}
      /\ r.hidden = m.hidden
                    \cup (IF w \in minimized /\ w \in hid THEN {w} ELSE {})
      /\ r.user_minimized = m.user_minimized
                    \cup (IF w \in minimized /\ w \notin hid THEN {w} ELSE {})
      /\ g = NoSet => r.inactive = m.inactive
      /\ \A id : find_set(r, id)
           => \/ find_set(m, id)
              \/ id = g
              \/ g = NoSet /\ m.active = NoSet /\ id = next_id
  <2>. DEFINE mi == w \in minimized
              hi == w \in hid
              q  == restore_window(m, w, g, mi, hi, next_id)
  <2>1. mi \in BOOLEAN /\ hi \in BOOLEAN
    OBVIOUS
  <2>2. r = q
    OBVIOUS
  <2>. HIDE DEF mi, hi, r
  <2>3. /\ q \in Models
        /\ WellFormed(q)
        /\ all_windows(q) = all_windows(m) \cup {w}
        /\ q.hidden = m.hidden \cup (IF mi /\ hi THEN {w} ELSE {})
        /\ q.user_minimized = m.user_minimized
                                \cup (IF mi /\ ~hi THEN {w} ELSE {})
        /\ g = NoSet => q.inactive = m.inactive
        /\ \A id : find_set(q, id)
             => \/ find_set(m, id)
                \/ id = g
                \/ g = NoSet /\ m.active = NoSet /\ id = next_id
    BY <1>1, <1>2, <1>3, <1>4, <2>1, RestoreWindow_, SMTT(20)
  <2>. HIDE DEF q
  <2>. QED  BY <2>2, <2>3 DEF mi, hi
<1>6. next_id' = IF g = NoSet
                 THEN IF m.active = NoSet THEN next_id + 1 ELSE next_id
                 ELSE IF g >= next_id THEN g + 1 ELSE next_id
  BY DEF RestoreWindow, singularity_stage_get_group, NewSetIf, reserve_id
<1>7. g = NoSet /\ m.active = NoSet => next_id <= MaxId
  BY DEF RestoreWindow, singularity_stage_get_group, NewSetIf
<1>. HIDE DEF r, m, g, k
<1>8. /\ next_id' \in 1..(MaxId + 1) /\ next_id <= next_id'
      /\ g \in Ids => g < next_id'
      /\ g = NoSet /\ m.active = NoSet => next_id < next_id'
  BY <1>1, <1>6, <1>7, MaxIdAssumption DEF Inv, TypeOK, Ids, NoSet
<1>9. /\ models' \in [Monitors -> Models]
      /\ models'[k] = r /\ models[k] = m
      /\ \A j \in Monitors \ {k} : models'[j] = models[j]
  BY <1>0, <1>1, <1>5 DEF Inv, TypeOK, m
<1>10. known' = known \cup {w}
  <2>1. \A v \in Windows, j \in Monitors :
           contains(models'[j], v)
              <=> contains(models[j], v) \/ (j = k /\ v = w)
    BY <1>1, <1>5, <1>9 DEF all_windows
  <2>. QED  BY <2>1, <1>0 DEF known, Inv, TypeOK, k
<1>11. TypeOK'
  BY <1>0, <1>8, <1>9, <1>10 DEF Inv, TypeOK
<1>12. SetsWellFormed'
  <2>1. \A j \in Monitors : WellFormed(models'[j])
    BY <1>5, <1>9 DEF Inv, SetsWellFormed
  <2>2. \A j \in Monitors : \A v \in all_windows(models'[j]) : out'[v] = j
    BY <1>0, <1>1, <1>5, <1>9 DEF Inv, SetsWellFormed, k
  <2>. QED  BY <2>1, <2>2 DEF SetsWellFormed
<1>13. FlagsMatch'
  <2>. SUFFICES ASSUME NEW j \in Monitors, NEW v \in all_windows(models'[j])
                PROVE  /\ v \in models'[j].hidden <=> v \in hid
                       /\ v \in models'[j].user_minimized
                             <=> v \in minimized \ hid
    BY <1>0 DEF FlagsMatch
  <2>0. hid \subseteq minimized
    BY DEF Inv, TypeOK
  <2>1. CASE j # k
    BY <2>1, <1>9 DEF Inv, FlagsMatch
  <2>2. CASE j = k /\ v # w
    BY <2>2, <1>1, <1>5, <1>9 DEF Inv, FlagsMatch
  <2>3. CASE j = k /\ v = w
    <3>1. w \notin m.hidden /\ w \notin m.user_minimized
      BY <1>2, <1>3 DEF WellFormed, all_windows
    <3>. QED  BY <2>0, <2>3, <3>1, <1>5, <1>9
  <2>. QED  BY <2>1, <2>2, <2>3
<1>14. Placed'
  <2>1. \A j \in Monitors : all_windows(models'[j]) \subseteq open
    BY <1>0, <1>5, <1>9 DEF Inv, Placed
  <2>. QED  BY <2>1, <1>0, <1>1, <1>9, <1>10 DEF Inv, Placed
<1>15. FreshIds'
  <2>. SUFFICES ASSUME NEW j \in Monitors, NEW id \in Ids,
                       find_set(models'[j], id)
                PROVE  id < next_id'
    BY DEF FreshIds
  <2>1. find_set(models[j], id) => id < next_id
    BY DEF Inv, FreshIds
  <2>2. \/ find_set(models[j], id)
        \/ id = g \/ (g = NoSet /\ m.active = NoSet /\ id = next_id)
    <3>1. CASE j = k
      BY <3>1, <1>5, <1>9
    <3>2. CASE j # k
      BY <3>2, <1>9
    <3>. QED  BY <3>1, <3>2
  <2>. QED  BY <2>1, <2>2, <1>8, MaxIdAssumption DEF Inv, TypeOK, Ids
<1>16. AllStaged'
  <2>1. InUse' = InUse /\ todo # {}
    BY <1>0 DEF InUse
  <2>2. CASE k \notin InUse
    BY <2>1, <2>2, <1>9 DEF Inv, AllStaged, InUse, TypeOK
  <2>3. CASE k \in InUse
    BY <2>1, <2>3, <1>0 DEF Inv, Placed, InUse
  <2>. QED  BY <2>2, <2>3
<1>17. HiddenGrouped'
  <2>. SUFFICES ASSUME ~restored
                PROVE  \A j \in unfinished : models'[j].inactive = {}
    BY <1>0 DEF Inv, HiddenGrouped
  <2>1. g = NoSet
    BY <1>0 DEF Inv, HiddenGrouped, g
  <2>. QED  BY <2>1, <1>0, <1>5, <1>9 DEF Inv, HiddenGrouped, TypeOK
<1>18. OffShowsAll'
  BY <1>0 DEF OffShowsAll
<1>. QED  BY <1>11, <1>12, <1>13, <1>14, <1>15, <1>16, <1>17, <1>18 DEF Inv

\* A monitor that enable() is done with, after a plan that stages it.
LEMMA FinishedInv ==
    ASSUME Inv, NEW k \in Monitors, Finished(k), NEW p, Apply(k, p),
           PlanOK(models[k], p), Staged(p.model),
           next_id' \in 1..(MaxId + 1), next_id <= next_id',
           \A id \in Ids : find_set(p.model, id) => id < next_id'
    PROVE  Inv'
<1>0. /\ phase = "restoring" /\ todo = {} /\ k \in unfinished
      /\ unfinished' = unfinished \ {k}
      /\ UNCHANGED <<todo, restored, saved, plugged, open, out>>
      /\ save_due' = TRUE
      /\ models' = [models EXCEPT ![k] = p.model]
      /\ set_hidden(p.hide, p.show)
      /\ \/ unfinished' = {} /\ phase' = "on" /\ sync_tags
         \/ unfinished' # {} /\ phase' = "restoring" /\ group' = group
  BY DEF Finished, Apply
<1>1. k \in plugged
  BY <1>0 DEF Inv, TypeOK
<1>2. /\ models' \in [Monitors -> Models]
      /\ minimized' \subseteq open /\ hid' \subseteq minimized'
      /\ SetsWellFormed'
      /\ FlagsMatch'
      /\ FreshIds'
      /\ known' = known
      /\ \A j \in Monitors :
            all_windows(models'[j]) = all_windows(models[j])
  BY <1>0, <1>1, PlanStep DEF Inv
<1>3. /\ group' \in [Windows -> Ids \cup {NoSet}]
      /\ unfinished' = {} => \A w \in known' : group'[w] # NoSet
      /\ \A w \in Windows \ open : group'[w] = NoSet
  <2>1. CASE sync_tags /\ unfinished' = {}
    <3>1. known' \subseteq open
      BY <1>2 DEF Inv, TypeOK
    <3>. QED  BY <3>1, <1>0, <1>2, <2>1, SyncTags DEF Inv, TypeOK, HiddenGrouped
  <2>2. CASE group' = group /\ unfinished' # {}
    BY <2>2 DEF Inv, TypeOK, HiddenGrouped
  <2>. QED  BY <1>0, <2>1, <2>2
<1>4. /\ models'[k] = p.model
      /\ \A j \in Monitors \ {k} : models'[j] = models[j]
  BY <1>0 DEF Inv, TypeOK
<1>5. TypeOK'
  BY <1>0, <1>2, <1>3 DEF Inv, TypeOK
<1>6. Placed'
  BY <1>0, <1>1, <1>2, <1>4 DEF Inv, Placed
<1>7. AllStaged'
  <2>1. InUse' = InUse \cup {k}
    BY <1>0, <1>1 DEF InUse
  <2>2. InUse' \subseteq Monitors
    BY <1>0 DEF InUse, Inv, TypeOK
  <2>. QED  BY <2>1, <2>2, <1>4 DEF Inv, AllStaged
<1>8. HiddenGrouped'
  <2>1. CASE phase' = "on"
    BY <2>1, <1>0, <1>2, <1>3 DEF HiddenGrouped, Inv, Placed
  <2>2. CASE phase' = "restoring"
    <3>. SUFFICES ASSUME ~restored
                  PROVE  /\ \A w \in open : group'[w] = NoSet
                         /\ \A w \in hid' : out[w] \notin unfinished'
                         /\ \A j \in unfinished' : models'[j].inactive = {}
      BY <2>2, <1>0, <1>3 DEF HiddenGrouped
    <3>1. \A w \in open : group'[w] = NoSet
      BY <2>2, <1>0 DEF Inv, HiddenGrouped
    <3>2. \A w \in p.hide : out[w] = k
      BY <1>1 DEF PlanOK, Inv, SetsWellFormed
    <3>3. \A w \in hid' : out[w] \notin unfinished'
      BY <3>2, <1>0 DEF set_hidden, singularity_stage_set_hidden, Inv, HiddenGrouped
    <3>4. \A j \in unfinished' : models'[j].inactive = {}
      BY <1>0, <1>4 DEF Inv, HiddenGrouped, TypeOK
    <3>. QED  BY <3>1, <3>3, <3>4
  <2>. QED  BY <1>0, <2>1, <2>2
<1>9. OffShowsAll'
  BY <1>0 DEF OffShowsAll
<1>. QED  BY <1>2, <1>5, <1>6, <1>7, <1>8, <1>9 DEF Inv

\* enable() keeps the invariant on a monitor it found groups for.
LEMMA FinishRestoredInv ==
    ASSUME Inv, NEW k \in Monitors, FinishRestored(k)
    PROVE  Inv'
<1>1. PICK wanted \in wanted_sets(models[k], saved[k]) :
         /\ NewSetIf(wanted = NoSet)
         /\ Apply(k, restore_finish(models[k], wanted, next_id))
  BY DEF FinishRestored
<1>. DEFINE m == models[k]
            p == restore_finish(m, wanted, next_id)
<1>2. m \in Models /\ WellFormed(m)
  BY DEF Inv, TypeOK, SetsWellFormed
<1>3. m.hidden \cap m.user_minimized = {}
  BY <1>2 DEF Inv, FlagsMatch, WellFormed
<1>4. \/ wanted = NoSet /\ m.active = NoSet /\ m.inactive = {}
      \/ wanted \in Ids /\ find_set(m, wanted)
  BY <1>2, WantedSets
<1>5. /\ wanted = NoSet => next_id <= MaxId
      /\ next_id' = IF wanted = NoSet THEN next_id + 1 ELSE next_id
  BY <1>1 DEF NewSetIf
<1>6. wanted = NoSet => IsFresh(m, next_id)
  BY <1>5, MaxIdAssumption DEF IsFresh, Inv, TypeOK, FreshIds, Ids
<1>7. /\ PlanOK(m, p)
      /\ Staged(p.model)
      /\ \A id : find_set(p.model, id)
                   => find_set(m, id) \/ (wanted = NoSet /\ id = next_id)
  BY <1>2, <1>3, <1>4, <1>6, RestoreFinish
<1>8. Apply(k, p) /\ Finished(k)
  BY <1>1 DEF FinishRestored
<1>. HIDE DEF p
<1>9. next_id' \in 1..(MaxId + 1) /\ next_id <= next_id'
  BY <1>5, MaxIdAssumption DEF Inv, TypeOK
<1>10. \A id \in Ids : find_set(p.model, id) => id < next_id'
  BY <1>5, <1>7, MaxIdAssumption DEF Inv, FreshIds, TypeOK, Ids
<1>. QED  BY <1>7, <1>8, <1>9, <1>10, FinishedInv

\* split_by_app() of a monitor whose windows are all on stage and shown.
LEMMA SplitByApp ==
    ASSUME NEW m \in Models, WellFormed(m), m.inactive = {}, m.hidden = {},
           NEW first \in windows(m, m.active), NEW lo \in Nat, NEW top \in Nat,
           lo >= 1, lo <= top, top <= MaxId + 1,
           \A id \in Ids : find_set(m, id) => id < lo,
           NEW as \in [{App[w] : w \in windows(m, m.active)} \ {App[first]}
                          -> lo..(top - 1)]
    PROVE  LET p == split_by_app(m, App[first], as)
           IN  /\ PlanOK(m, p)
               /\ Staged(p.model)
               /\ \A id \in Ids : find_set(p.model, id) => id < top
<1>. DEFINE staged == windows(m, m.active)
            leave == {w \in staged : App[w] # App[first]}
            hide == leave \ (m.user_minimized \cup m.hidden)
            owner == [w \in Windows |-> IF w \in leave THEN as[App[w]]
                                                       ELSE m.owner[w]]
            new == {as[App[w]] : w \in leave}
            p == split_by_app(m, App[first], as)
<1>1. \A w \in leave : as[App[w]] \in lo..(top - 1)
  OBVIOUS
<1>2. new \subseteq Ids /\ \A id \in new : lo <= id /\ id < top /\ id # NoSet
  <2>. SUFFICES ASSUME NEW id \in new
                PROVE  id \in Ids /\ lo <= id /\ id < top /\ id # NoSet
    OBVIOUS
  <2>1. id \in lo..(top - 1)
    BY <1>1
  <2>. HIDE DEF new
  <2>. QED  BY <2>1, MaxIdAssumption DEF Ids, NoSet
<1>3. \A id \in new : ~find_set(m, id)
  <2>. HIDE DEF new
  <2>. SUFFICES ASSUME NEW id \in new, find_set(m, id) PROVE FALSE
    OBVIOUS
  <2>1. id \in Ids /\ lo <= id
    BY <1>2
  <2>2. id < lo
    BY <2>1
  <2>3. id \in Int
    BY <2>1, MaxIdAssumption DEF Ids
  <2>. QED  BY <2>1, <2>2, <2>3
<1>4. /\ p.model = [active |-> m.active, inactive |-> new, owner |-> owner,
                    hidden |-> hide, user_minimized |-> m.user_minimized]
      /\ p.hide = hide /\ p.show = {}
  BY DEF split_by_app, Plan, Models
<1>5. leave \subseteq Windows /\ \A w \in leave : owner[w] \in new
  BY DEF windows
<1>6. \A w \in Windows \ leave : owner[w] = m.owner[w]
  OBVIOUS
<1>7. \A w \in leave : m.owner[w] = m.active /\ contains(m, w)
  BY DEF windows, contains
<1>. HIDE DEF p, new, owner, leave, hide
<1>8. owner \in [Windows -> Ids \cup {NoSet}]
  <2>1. \A w \in Windows : owner[w] \in Ids \cup {NoSet}
    BY <1>2, <1>5, <1>6 DEF Models
  <2>. QED  BY <2>1 DEF owner
<1>9. p.model \in Models
  BY <1>2, <1>4, <1>5, <1>8 DEF Models, hide
<1>10. \A w \in Windows : contains(p.model, w) <=> contains(m, w)
  <2>1. p.model.owner = owner
    BY <1>4
  <2>. QED  BY <2>1, <1>2, <1>5, <1>6, <1>7 DEF contains
<1>11. all_windows(p.model) = all_windows(m)
  BY <1>10 DEF all_windows
<1>12. m.active \notin new
  BY <1>2, <1>3 DEF find_set
<1>13. \A w \in Windows : owner[w] \in new <=> w \in leave
  <2>. SUFFICES ASSUME NEW w \in Windows, w \notin leave PROVE owner[w] \notin new
    BY <1>5
  <2>1. owner[w] = m.owner[w] /\ (contains(m, w) => find_set(m, m.owner[w]))
    BY <1>6 DEF WellFormed
  <2>. QED  BY <2>1, <1>2, <1>3 DEF contains
<1>14. \A w \in Windows : contains(p.model, w) => find_set(p.model, p.model.owner[w])
  BY <1>2, <1>4, <1>5, <1>6, <1>10 DEF find_set, WellFormed, contains
<1>15. \A s \in new : windows(p.model, s) # {}
  <2>. SUFFICES ASSUME NEW w \in leave PROVE windows(p.model, as[App[w]]) # {}
    BY DEF new
  <2>1. owner[w] = as[App[w]] /\ as[App[w]] \in new /\ w \in Windows
    BY <1>5 DEF owner, new
  <2>2. as[App[w]] # NoSet
    BY <2>1, <1>2
  <2>0. p.model.owner = owner
    BY <1>4
  <2>3. p.model.owner[w] = as[App[w]]
    BY <2>0, <2>1
  <2>. QED  BY <2>1, <2>2, <2>3 DEF windows
<1>16. hide \subseteq all_windows(m) /\ m.user_minimized \subseteq all_windows(m)
  BY <1>5, <1>7 DEF all_windows, WellFormed, hide
<1>17. WellFormed(p.model)
  <2>1. /\ p.model.active = m.active /\ p.model.inactive = new
        /\ p.model.hidden = hide
        /\ p.model.user_minimized = m.user_minimized
    BY <1>4
  <2>2. \A s \in p.model.inactive : windows(p.model, s) # {}
    BY <2>1, <1>15
  <2>. QED  BY <2>1, <2>2, <1>11, <1>12, <1>14, <1>16 DEF WellFormed
<1>18. PlanOK(m, p)
  BY <1>4, <1>9, <1>11, <1>16, <1>17 DEF PlanOK, hide
<1>19. Staged(p.model)
  <2>1. hide \cap windows(p.model, m.active) = {}
    BY <1>4, <1>5, <1>12 DEF windows, hide
  <2>2. /\ p.model.active = m.active /\ p.model.inactive = new
        /\ p.model.hidden = hide /\ p.model.owner = owner
        /\ p.model.user_minimized = m.user_minimized
    BY <1>4
  <2>3. hide \cap m.user_minimized = {}
    BY DEF hide
  <2>4. \A w \in Windows : owner[w] \in new => w \in hide \cup m.user_minimized
    BY <1>13 DEF hide
  <2>. QED  BY <2>1, <2>2, <2>3, <2>4 DEF Staged
<1>20. \A id \in Ids : find_set(p.model, id) => id < top
  <2>. SUFFICES ASSUME NEW id \in Ids, find_set(p.model, id) PROVE id < top
    OBVIOUS
  <2>1. id \in new \/ find_set(m, id)
    BY <1>4 DEF find_set
  <2>. QED  BY <2>1, <1>2, MaxIdAssumption DEF Ids
<1>. QED  BY <1>18, <1>19, <1>20 DEF p

\* enable() keeps the invariant on a monitor it splits by application.
LEMMA FinishSplitInv ==
    ASSUME Inv, NEW k \in Monitors, FinishSplit(k)
    PROVE  Inv'
<1>. DEFINE m == models[k]
            staged == windows(m, m.active)
<1>1. m \in Models /\ WellFormed(m)
  BY DEF Inv, TypeOK, SetsWellFormed
<1>2. Finished(k) /\ ~restored /\ phase = "restoring" /\ k \in unfinished
  BY DEF FinishSplit, Finished
<1>3. m.inactive = {}
  BY <1>2 DEF Inv, HiddenGrouped
<1>4. m.hidden = {}
  <2>. SUFFICES ASSUME NEW w \in m.hidden PROVE FALSE
    OBVIOUS
  <2>1. w \in all_windows(m)
    BY <1>1 DEF WellFormed
  <2>2. out[w] = k /\ w \in hid
    BY <2>1 DEF Inv, SetsWellFormed, FlagsMatch
  <2>. QED  BY <2>2, <1>2 DEF Inv, HiddenGrouped
<1>5. CASE Apply(k, Plan(m, {}, {})) /\ next_id' = next_id
  <2>. DEFINE p == Plan(m, {}, {})
  <2>1. p.model = m /\ p.hide = {} /\ p.show = {}
    BY DEF Plan
  <2>2. PlanOK(m, p) /\ Staged(p.model)
    BY <2>1, <1>1, <1>3, <1>4 DEF PlanOK, Staged
  <2>3. /\ next_id' \in 1..(MaxId + 1) /\ next_id <= next_id'
        /\ \A id \in Ids : find_set(p.model, id) => id < next_id'
    BY <1>5, <2>1 DEF Inv, TypeOK, FreshIds
  <2>4. Apply(k, p)
    BY <1>5
  <2>. HIDE DEF p
  <2>. QED  BY <1>2, <2>2, <2>3, <2>4, FinishedInv
<1>6. ASSUME NEW first \in staged, NEW top \in next_id..(MaxId + 1),
             NEW as \in [{App[w] : w \in staged} \ {App[first]}
                            -> next_id..(top - 1)],
             next_id' = top, Apply(k, split_by_app(m, App[first], as))
      PROVE  Inv'
  <2>. DEFINE p == split_by_app(m, App[first], as)
  <2>1. /\ next_id \in Nat /\ top \in Nat /\ next_id >= 1 /\ next_id <= top
        /\ top <= MaxId + 1 /\ next_id' \in 1..(MaxId + 1)
    BY <1>6, MaxIdAssumption DEF Inv, TypeOK
  <2>2. \A id \in Ids : find_set(m, id) => id < next_id
    BY DEF Inv, FreshIds
  <2>3. /\ PlanOK(m, p)
        /\ Staged(p.model)
        /\ \A id \in Ids : find_set(p.model, id) => id < top
    BY <1>1, <1>3, <1>4, <1>6, <2>1, <2>2, SplitByApp
  <2>4. Apply(k, p)
    BY <1>6
  <2>. HIDE DEF p
  <2>. QED  BY <1>2, <1>6, <2>1, <2>3, <2>4, FinishedInv
<1>. QED  BY <1>5, <1>6 DEF FinishSplit

-----------------------------------------------------------------------------
(* The mode goes off, the shell ends and starts again.                     *)

\* disable() keeps the invariant: it shows every window again.
LEMMA DisableInv == Inv /\ disable => Inv'
<1>. SUFFICES ASSUME Inv, disable PROVE Inv'
  OBVIOUS
<1>. DEFINE show == UNION {clear(models[k]).show : k \in plugged}
<1>0. /\ phase = "on" /\ phase' = "off"
      /\ minimized' = minimized \ show /\ hid' = hid \ show
      /\ group' = [w \in Windows |-> IF w \in known THEN NoSet ELSE group[w]]
      /\ saved' = [k \in Monitors |-> NoSet]
      /\ UNCHANGED <<next_id, todo, unfinished, restored, save_due>>
      /\ UNCHANGED <<plugged, open, out>>
  BY DEF disable, singularity_stage_set_group, set_hidden, singularity_stage_set_hidden, restoringVars
<1>1. models' = [k \in Monitors |-> NewModel]
  BY DEF disable, clear, Plan
<1>2. hid' = {}
  <2>. SUFFICES ASSUME NEW w \in hid PROVE w \in show
    BY <1>0
  <2>1. w \in open /\ w \in known /\ w \in Windows
    BY <1>0 DEF Inv, TypeOK, Placed
  <2>2. PICK k \in plugged : k = out[w] /\ w \in all_windows(models[k])
    BY <2>1 DEF Inv, Placed, known, all_windows
  <2>3. w \in models[k].hidden
    BY <2>2 DEF Inv, FlagsMatch, TypeOK
  <2>. QED  BY <2>3 DEF clear, Plan
<1>3. known' = {}
  BY <1>0, <1>1, NewModelLemma DEF known, all_windows, Inv, TypeOK
<1>4. open = known
  BY <1>0 DEF Inv, Placed
<1>5. TypeOK'
  <2>1. models' \in [Monitors -> Models]
    BY <1>1, NewModelLemma
  <2>2. /\ group' \in [Windows -> Ids \cup {NoSet}]
        /\ saved' \in [Monitors -> Ids \cup {NoSet}]
        /\ minimized' \subseteq open
    BY <1>0 DEF Inv, TypeOK
  <2>. QED  BY <1>0, <1>2, <1>3, <2>1, <2>2 DEF Inv, TypeOK
<1>6. SetsWellFormed' /\ FlagsMatch' /\ FreshIds'
  BY <1>1, NewModelLemma DEF SetsWellFormed, FlagsMatch, FreshIds
<1>7. Placed'
  BY <1>0, <1>1, <1>3, NewModelLemma DEF Inv, Placed
<1>8. AllStaged' /\ HiddenGrouped'
  BY <1>0 DEF Inv, TypeOK, AllStaged, InUse, HiddenGrouped
<1>9. OffShowsAll'
  BY <1>0, <1>2, <1>4 DEF OffShowsAll, Inv, TypeOK
<1>. QED  BY <1>5, <1>6, <1>7, <1>8, <1>9 DEF Inv

\* A start with the mode off keeps the invariant.
LEMMA StartOffInv == Inv /\ StartOff => Inv'
<1>. SUFFICES ASSUME Inv, StartOff PROVE Inv'
  OBVIOUS
<1>0. /\ phase = "down" /\ phase' = "off"
      /\ minimized' = minimized \ {w \in hid : group[w] # NoSet}
      /\ hid' = hid \ {w \in hid : group[w] # NoSet}
      /\ group' = [w \in Windows |-> NoSet]
      /\ UNCHANGED <<models, next_id, todo, unfinished, restored>>
      /\ UNCHANGED <<saved, save_due, plugged, open, out>>
  BY DEF StartOff, singularity_stage_set_group, set_hidden, singularity_stage_set_hidden, restoringVars, savedVars
<1>1. \A k \in Monitors : models[k] = NewModel
  BY <1>0 DEF Inv, Placed
<1>2. hid' = {}
  BY <1>0 DEF Inv, HiddenGrouped
<1>3. known' = known
  BY <1>0 DEF known
<1>4. TypeOK'
  BY <1>0, <1>2, <1>3 DEF Inv, TypeOK
<1>5. SetsWellFormed' /\ FlagsMatch' /\ FreshIds'
  BY <1>0, <1>1, NewModelLemma DEF SetsWellFormed, FlagsMatch, FreshIds
<1>6. Placed'
  BY <1>0, <1>1, <1>3 DEF Inv, Placed
<1>7. AllStaged' /\ HiddenGrouped'
  BY <1>0 DEF AllStaged, InUse, HiddenGrouped
<1>8. OffShowsAll'
  BY <1>0, <1>2 DEF OffShowsAll, Inv, TypeOK
<1>. QED  BY <1>4, <1>5, <1>6, <1>7, <1>8 DEF Inv

\* The end of the shell keeps the invariant: groups stay tagged.
LEMMA ShellEndsInv == Inv /\ ShellEnds => Inv'
<1>. SUFFICES ASSUME Inv, ShellEnds PROVE Inv'
  OBVIOUS
<1>0. /\ phase \in {"off", "on"} /\ phase' = "down"
      /\ models' = [k \in Monitors |-> NewModel]
      /\ next_id' = 1 /\ save_due' = FALSE
      /\ UNCHANGED <<todo, unfinished, restored, saved>>
      /\ UNCHANGED <<plugged, open, out, minimized, hid, group>>
  BY DEF ShellEnds, NoModels, restoringVars, compositorVars
<1>1. known' = {}
  BY <1>0, NewModelLemma DEF known, all_windows, Inv, TypeOK
<1>2. TypeOK'
  <2>1. models' \in [Monitors -> Models] /\ next_id' \in 1..(MaxId + 1)
    BY <1>0, NewModelLemma, MaxIdAssumption
  <2>. QED  BY <1>0, <1>1, <2>1 DEF Inv, TypeOK
<1>3. SetsWellFormed' /\ FlagsMatch' /\ FreshIds'
  BY <1>0, NewModelLemma DEF SetsWellFormed, FlagsMatch, FreshIds
<1>4. Placed'
  BY <1>0, <1>1, NewModelLemma DEF Inv, Placed
<1>5. AllStaged' /\ OffShowsAll'
  BY <1>0 DEF AllStaged, InUse, OffShowsAll
<1>6. HiddenGrouped'
  BY <1>0 DEF Inv, TypeOK, HiddenGrouped, OffShowsAll
<1>. QED  BY <1>2, <1>3, <1>4, <1>5, <1>6 DEF Inv

\* save_state() keeps the invariant.
LEMMA SaveStateInv == Inv /\ save_state => Inv'
<1>. SUFFICES ASSUME Inv, save_state PROVE Inv'
  OBVIOUS
<1>1. /\ UNCHANGED <<phase, models, next_id, todo, unfinished, restored>>
      /\ UNCHANGED <<plugged, open, out, minimized, hid, group>>
      /\ save_due' = FALSE
  BY DEF save_state, managerVars, compositorVars
<1>2. saved' \in [Monitors -> Ids \cup {NoSet}]
  BY DEF save_state, Inv, TypeOK, Models
<1>3. known' = known
  BY <1>1 DEF known
<1>4. TypeOK'
  BY <1>1, <1>2, <1>3 DEF Inv, TypeOK
<1>5. SetsWellFormed' /\ FlagsMatch' /\ FreshIds'
  BY <1>1 DEF Inv, SetsWellFormed, FlagsMatch, FreshIds
<1>6. Placed' /\ AllStaged' /\ HiddenGrouped' /\ OffShowsAll'
  BY <1>1, <1>3 DEF Inv, Placed, AllStaged, InUse, HiddenGrouped, OffShowsAll
<1>. QED  BY <1>4, <1>5, <1>6 DEF Inv

-----------------------------------------------------------------------------
(* Windows open, close, are minimized, restored and moved.                 *)

\* on_window_opened() keeps the invariant.
LEMMA OpenedInv ==
    ASSUME Inv, NEW w \in Windows, on_window_opened(w)
    PROVE  Inv'
<1>1. PICK k \in plugged :
         /\ out' = [out EXCEPT ![w] = k]
         /\ \/ /\ phase = "on"
               /\ NewSetIf(models[k].active = NoSet)
               /\ models' = [models EXCEPT ![k] =
                               add_window(@, w, next_id)]
               /\ sync_tags
               /\ save_due' = TRUE
            \/ /\ phase # "on"
               /\ UNCHANGED <<next_id, models, group, save_due>>
  BY DEF on_window_opened
<1>2. /\ phase # "restoring" /\ w \notin open /\ open' = open \cup {w}
      /\ UNCHANGED <<phase, todo, unfinished, restored, saved>>
      /\ UNCHANGED <<plugged, minimized, hid>>
  BY DEF on_window_opened, restoringVars
<1>3. k \in Monitors /\ out' \in [Windows -> Monitors] /\ out'[w] = k
      /\ \A v \in Windows \ {w} : out'[v] = out[v]
  BY <1>1 DEF Inv, TypeOK
<1>4. \A j \in Monitors : w \notin all_windows(models[j])
  BY <1>2 DEF Inv, Placed
<1>5. CASE phase # "on"
  <2>1. UNCHANGED <<next_id, models, group, save_due>>
    BY <1>1, <1>5
  <2>2. \A j \in Monitors : models[j] = NewModel
    BY <1>2, <1>5 DEF Inv, TypeOK, Placed
  <2>3. known' = {}
    BY <2>1, <2>2, <1>3, NewModelLemma DEF known, all_windows
  <2>4. TypeOK'
    BY <2>1, <2>3, <1>2, <1>3 DEF Inv, TypeOK
  <2>5. SetsWellFormed' /\ FlagsMatch' /\ FreshIds'
    BY <2>1, <2>2, NewModelLemma DEF SetsWellFormed, FlagsMatch, FreshIds
  <2>6. Placed'
    BY <2>1, <2>2, <1>2, <1>3, <1>5, NewModelLemma DEF Inv, TypeOK, Placed
  <2>7. AllStaged' /\ HiddenGrouped'
    BY <2>1, <1>2, <1>5 DEF Inv, TypeOK, AllStaged, InUse, HiddenGrouped
  <2>8. group[w] = NoSet
    BY <1>2 DEF Inv, HiddenGrouped
  <2>9. OffShowsAll'
    BY <2>1, <2>8, <1>2 DEF Inv, OffShowsAll
  <2>. QED  BY <2>4, <2>5, <2>6, <2>7, <2>9 DEF Inv
<1>6. CASE phase = "on"
  <2>. DEFINE m == models[k]
              r == add_window(m, w, next_id)
  <2>1. m \in Models /\ WellFormed(m) /\ ~contains(m, w) /\ Staged(m)
    BY <1>3, <1>4, <1>6 DEF Inv, TypeOK, SetsWellFormed, all_windows, AllStaged,
       InUse
  <2>2. /\ models' = [models EXCEPT ![k] = r] /\ sync_tags /\ save_due' = TRUE
        /\ m.active = NoSet => next_id <= MaxId
        /\ next_id' = IF m.active = NoSet THEN next_id + 1 ELSE next_id
    BY <1>1, <1>3, <1>6 DEF NewSetIf, Inv, TypeOK
  <2>3. m.active = NoSet => IsFresh(m, next_id)
    BY <2>2, <1>3, MaxIdAssumption DEF IsFresh, Inv, TypeOK, FreshIds, Ids
  <2>4. /\ r \in Models /\ WellFormed(r) /\ Staged(r)
        /\ all_windows(r) = all_windows(m) \cup {w}
        /\ r.hidden = m.hidden /\ r.user_minimized = m.user_minimized
        /\ \A id : find_set(r, id)
                     => find_set(m, id) \/ (m.active = NoSet /\ id = next_id)
    BY <2>1, <2>3, AddWindow
  <2>. HIDE DEF r
  <2>5. /\ models' \in [Monitors -> Models] /\ models'[k] = r
        /\ \A j \in Monitors \ {k} : models'[j] = models[j]
    BY <2>2, <2>4, <1>3 DEF Inv, TypeOK
  <2>6. next_id' \in 1..(MaxId + 1) /\ next_id <= next_id'
    BY <2>2, MaxIdAssumption DEF Inv, TypeOK
  <2>7. \A j \in Monitors : /\ WellFormed(models'[j]) /\ (j \in plugged => Staged(models'[j]))
    BY <2>4, <2>5, <1>6 DEF Inv, SetsWellFormed, AllStaged, InUse
  <2>8. ASSUME NEW j \in Monitors, NEW v \in all_windows(models'[j])
        PROVE  /\ v \in open' /\ out'[v] = j
               /\ v \in models'[j].hidden <=> v \in hid
               /\ v \in models'[j].user_minimized <=> v \in minimized \ hid
    <3>1. CASE v = w
      <4>1. j = k
        BY <2>5, <2>8, <3>1, <1>4
      <4>2. w \notin m.hidden /\ w \notin m.user_minimized
        BY <2>1, <1>3, <1>4 DEF WellFormed
      <4>3. w \notin hid /\ w \notin minimized
        BY <1>2 DEF Inv, TypeOK
      <4>. QED  BY <3>1, <4>1, <4>2, <4>3, <2>4, <2>5, <1>2, <1>3
    <3>2. CASE v # w
      <4>1. v \in all_windows(models[j])
        BY <2>4, <2>5, <2>8, <3>2
      <4>2. v \in Windows /\ v \in open /\ out[v] = j
        BY <4>1 DEF all_windows, Inv, Placed, SetsWellFormed
      <4>3. /\ models'[j].hidden = models[j].hidden
            /\ models'[j].user_minimized = models[j].user_minimized
        BY <2>4, <2>5
      <4>. QED  BY <3>2, <4>1, <4>2, <4>3, <1>2, <1>3 DEF Inv, FlagsMatch
    <3>. QED  BY <3>1, <3>2
  <2>9. SetsWellFormed'
    BY <2>7, <2>8 DEF SetsWellFormed
  <2>10. FlagsMatch'
    BY <2>8, <1>2 DEF FlagsMatch
  <2>11. FreshIds'
    <3>. SUFFICES ASSUME NEW j \in Monitors, NEW id \in Ids,
                         find_set(models'[j], id)
                  PROVE  id < next_id'
      BY DEF FreshIds
    <3>1. find_set(models[j], id) \/ (m.active = NoSet /\ id = next_id)
      BY <2>4, <2>5
    <3>. QED  BY <3>1, <2>2, MaxIdAssumption DEF Inv, FreshIds, TypeOK, Ids
  <2>12. known' = open'
    <3>1. known' \subseteq open'
      BY <2>8, <1>3 DEF known, all_windows
    <3>2. ASSUME NEW v \in open' PROVE v \in known'
      <4>1. CASE v = w
        BY <4>1, <2>4, <2>5, <1>3 DEF known, all_windows
      <4>2. CASE v # w
        <5>1. v \in Windows /\ contains(models[out[v]], v) /\ out'[v] = out[v] /\ out[v] \in Monitors
          BY <3>2, <4>2, <1>2, <1>3, <1>6 DEF Inv, TypeOK, Placed, known
        <5>2. all_windows(models[out[v]]) \subseteq all_windows(models'[out[v]])
          BY <5>1, <2>4, <2>5
        <5>. QED  BY <5>1, <5>2 DEF known, all_windows
      <4>. QED  BY <4>1, <4>2
    <3>. QED  BY <3>1, <3>2
  <2>13. /\ group' \in [Windows -> Ids \cup {NoSet}]
         /\ \A v \in known' : group'[v] # NoSet
         /\ \A v \in Windows \ known' : group'[v] = group[v]
    BY <2>2, <2>5, <1>3, SyncTags DEF Inv, TypeOK
  <2>14. TypeOK'
    BY <2>2, <2>5, <2>6, <2>12, <2>13, <1>2, <1>3 DEF Inv, TypeOK
  <2>15. Placed'
    BY <2>5, <2>8, <2>12, <1>2, <1>3, <1>6 DEF Inv, TypeOK, Placed
  <2>16. AllStaged'
    BY <2>7, <1>2, <1>6 DEF AllStaged, InUse, Inv, TypeOK
  <2>17. HiddenGrouped' /\ OffShowsAll'
    BY <2>12, <2>13, <1>2, <1>6 DEF HiddenGrouped, OffShowsAll, Inv
  <2>. QED  BY <2>9, <2>10, <2>11, <2>14, <2>15, <2>16, <2>17 DEF Inv
<1>. QED  BY <1>5, <1>6

\* on_window_closed() keeps the invariant.
LEMMA ClosedInv ==
    ASSUME Inv, NEW w \in Windows, on_window_closed(w)
    PROVE  Inv'
<1>. DEFINE k == out[w]
            m == models[k]
            r == remove_window(m, w)
<1>0. /\ phase # "restoring" /\ w \in open
      /\ models' = [models EXCEPT ![k] = r]
      /\ open' = open \ {w} /\ minimized' = minimized \ {w} /\ hid' = hid \ {w}
      /\ group' = [group EXCEPT ![w] = NoSet]
      /\ save_due' = (save_due \/ w \in known)
      /\ UNCHANGED <<phase, next_id, todo, unfinished, restored, saved>>
      /\ UNCHANGED <<plugged, out>>
  BY DEF on_window_closed, restoringVars, Inv, TypeOK
<1>1. k \in Monitors /\ k \in plugged /\ m \in Models /\ WellFormed(m)
  BY <1>0 DEF Inv, TypeOK, Placed, SetsWellFormed
<1>2. /\ r \in Models /\ WellFormed(r)
      /\ all_windows(r) = all_windows(m) \ {w}
      /\ r.hidden = m.hidden \ {w} /\ r.user_minimized = m.user_minimized \ {w}
      /\ \A id : find_set(r, id) => find_set(m, id)
      /\ Staged(m) => Staged(r)
  BY <1>1, RemoveWindow
<1>3. phase # "on" => r = m
  <2>1. phase # "on" => m = NewModel
    BY <1>0, <1>1 DEF Inv, TypeOK, Placed
  <2>2. ~contains(NewModel, w)
    BY NewModelLemma DEF all_windows
  <2>. QED  BY <2>1, <2>2 DEF remove_window
<1>. HIDE DEF r
<1>4. /\ models' \in [Monitors -> Models] /\ models'[k] = r
      /\ \A j \in Monitors \ {k} : models'[j] = models[j]
  BY <1>0, <1>1, <1>2 DEF Inv, TypeOK
<1>5. \A j \in Monitors \ {k} : w \notin all_windows(models[j])
  BY DEF Inv, SetsWellFormed
<1>6. \A j \in Monitors : all_windows(models'[j]) = all_windows(models[j]) \ {w}
  BY <1>2, <1>4, <1>5
<1>7. SetsWellFormed'
  BY <1>0, <1>2, <1>4, <1>6 DEF Inv, SetsWellFormed
<1>8. FlagsMatch'
  <2>1. \A j \in Monitors : \A v \in Windows \ {w} :
           /\ v \in models'[j].hidden <=> v \in models[j].hidden
           /\ v \in models'[j].user_minimized <=> v \in models[j].user_minimized
    BY <1>2, <1>4
  <2>2. \A j \in Monitors : \A v \in all_windows(models'[j]) :
           v \in Windows \ {w} /\ v \in all_windows(models[j])
    BY <1>6 DEF all_windows
  <2>. QED  BY <2>1, <2>2, <1>0 DEF Inv, FlagsMatch
<1>9. FreshIds'
  BY <1>0, <1>2, <1>4 DEF Inv, FreshIds
<1>10. known' = known \ {w}
  <2>1. \A v \in Windows : \A j \in Monitors :
           contains(models'[j], v) <=> contains(models[j], v) /\ v # w
    BY <1>6 DEF all_windows
  <2>. QED  BY <2>1, <1>0 DEF known, Inv, TypeOK
<1>11. TypeOK'
  <2>1. group' \in [Windows -> Ids \cup {NoSet}] /\ save_due' \in BOOLEAN
    BY <1>0 DEF Inv, TypeOK
  <2>2. todo \subseteq open'
    BY <1>0 DEF Inv, Placed
  <2>. QED  BY <2>1, <2>2, <1>0, <1>4, <1>10 DEF Inv, TypeOK
<1>12. Placed'
  <2>1. \A j \in Monitors : j \notin plugged \/ phase \in {"down", "off"}
                                => models'[j] = NewModel
    BY <1>0, <1>1, <1>3, <1>4 DEF Inv, Placed
  <2>. QED  BY <2>1, <1>0, <1>6, <1>10 DEF Inv, Placed
<1>13. AllStaged'
  <2>1. \A j \in Monitors : Staged(models[j]) => Staged(models'[j])
    BY <1>2, <1>4
  <2>2. InUse' = InUse /\ InUse \subseteq Monitors
    BY <1>0 DEF InUse, Inv, TypeOK
  <2>. QED  BY <2>1, <2>2 DEF Inv, AllStaged
<1>14. HiddenGrouped'
  <2>1. \A v \in Windows \ {w} : group'[v] = group[v]
    BY <1>0 DEF Inv, TypeOK
  <2>2. group'[w] = NoSet
    BY <1>0 DEF Inv, TypeOK
  <2>3. open \subseteq Windows /\ hid \subseteq Windows
    BY DEF Inv, TypeOK
  <2>. QED  BY <2>1, <2>2, <2>3, <1>0 DEF Inv, HiddenGrouped
<1>15. OffShowsAll'
  BY <1>0 DEF Inv, TypeOK, OffShowsAll
<1>. QED  BY <1>7, <1>8, <1>9, <1>11, <1>12, <1>13, <1>14, <1>15 DEF Inv

\* A window the user minimizes keeps the invariant.
LEMMA UserMinimizesInv ==
    ASSUME Inv, NEW w \in Windows, UserMinimizes(w)
    PROVE  Inv'
<1>. DEFINE k == out[w]
            m == models[k]
            on_stage == contains(m, w) /\ m.owner[w] = m.active
            r == IF on_stage THEN set_user_minimized(m, w, TRUE) ELSE m
<1>0. /\ phase # "restoring" /\ w \in open \ minimized
      /\ minimized' = minimized \cup {w}
      /\ models' = [models EXCEPT ![k] = r]
      /\ UNCHANGED <<phase, next_id, todo, unfinished, restored, saved, save_due>>
      /\ UNCHANGED <<plugged, open, out, hid, group>>
  BY DEF UserMinimizes, restoringVars, savedVars
<1>1. k \in Monitors /\ k \in plugged /\ m \in Models /\ WellFormed(m)
  BY <1>0 DEF Inv, TypeOK, Placed, SetsWellFormed
<1>2. w \notin hid
  BY <1>0 DEF Inv, TypeOK
<1>3. phase = "on" => Staged(m) /\ contains(m, w)
  BY <1>0, <1>1 DEF Inv, AllStaged, InUse, Placed, known
<1>4. phase # "on" => m = NewModel
  BY <1>0, <1>1 DEF Inv, TypeOK, Placed
<1>5. phase = "on" => on_stage
  <2>. SUFFICES ASSUME phase = "on", m.owner[w] # m.active PROVE FALSE
    BY <1>3
  <2>1. m.owner[w] \in m.inactive
    BY <1>1, <1>3 DEF find_set, WellFormed
  <2>2. w \in m.hidden \cup m.user_minimized
    BY <2>1, <1>3 DEF Staged
  <2>3. w \in all_windows(m)
    BY <1>3 DEF all_windows
  <2>. QED  BY <2>2, <2>3, <1>0, <1>1, <1>2 DEF Inv, FlagsMatch
<1>6. phase # "on" => ~contains(m, w)
  BY <1>4, NewModelLemma DEF all_windows
<1>7. /\ r.active = m.active /\ r.inactive = m.inactive /\ r.owner = m.owner
      /\ r.hidden = m.hidden
      /\ r.user_minimized = IF phase = "on" THEN m.user_minimized \cup {w}
                                            ELSE m.user_minimized
      /\ r \in Models
      /\ phase # "on" => r = m
  BY <1>1, <1>3, <1>5, <1>6 DEF set_user_minimized, Models
<1>. HIDE DEF r, on_stage
<1>8. /\ all_windows(r) = all_windows(m)
      /\ \A s : windows(r, s) = windows(m, s)
      /\ \A s : find_set(r, s) <=> find_set(m, s)
      /\ \A v \in Windows : contains(r, v) <=> contains(m, v)
  BY <1>7 DEF all_windows, windows, contains, find_set
<1>9. WellFormed(r)
  <2>1. r.hidden \cup r.user_minimized \subseteq all_windows(r)
    BY <1>1, <1>3, <1>7, <1>8 DEF WellFormed, all_windows
  <2>. QED  BY <2>1, <1>1, <1>7, <1>8 DEF WellFormed
<1>10. Staged(m) => Staged(r)
  <2>1. phase = "on" => w \notin m.hidden
    BY <1>1, <1>2, <1>3 DEF Inv, FlagsMatch, all_windows
  <2>. QED  BY <2>1, <1>7, <1>8 DEF Staged
<1>11. /\ models' \in [Monitors -> Models] /\ models'[k] = r
       /\ \A j \in Monitors \ {k} : models'[j] = models[j]
  BY <1>0, <1>1, <1>7 DEF Inv, TypeOK
<1>12. \A j \in Monitors : all_windows(models'[j]) = all_windows(models[j])
  BY <1>8, <1>11
<1>13. SetsWellFormed' /\ FreshIds'
  BY <1>0, <1>8, <1>9, <1>11, <1>12 DEF Inv, SetsWellFormed, FreshIds
<1>14. FlagsMatch'
  <2>. SUFFICES ASSUME NEW j \in Monitors, NEW v \in all_windows(models[j])
                PROVE  /\ v \in models'[j].hidden <=> v \in hid
                       /\ v \in models'[j].user_minimized
                             <=> v \in minimized' \ hid
    BY <1>0, <1>12 DEF FlagsMatch
  <2>0. /\ v \in models[j].hidden <=> v \in hid
        /\ v \in models[j].user_minimized <=> v \in minimized \ hid
    BY DEF Inv, FlagsMatch
  <2>1. CASE j # k
    <3>1. v # w
      BY <2>1 DEF Inv, SetsWellFormed
    <3>. QED  BY <2>0, <2>1, <3>1, <1>0, <1>11
  <2>2. CASE j = k
    <3>1. phase = "on"
      BY <2>2, <1>4, NewModelLemma
    <3>. QED  BY <2>0, <2>2, <3>1, <1>0, <1>2, <1>7, <1>11
  <2>. QED  BY <2>1, <2>2
<1>15. known' = known
  <2>1. \A v \in Windows : \A j \in Monitors :
           contains(models'[j], v) <=> contains(models[j], v)
    BY <1>12 DEF all_windows
  <2>. QED  BY <2>1, <1>0 DEF known, Inv, TypeOK
<1>16. TypeOK'
  BY <1>0, <1>11, <1>15 DEF Inv, TypeOK
<1>17. Placed'
  <2>1. \A j \in Monitors : j \notin plugged \/ phase \in {"down", "off"}
                                => models'[j] = NewModel
    BY <1>0, <1>1, <1>7, <1>11 DEF Inv, Placed
  <2>. QED  BY <2>1, <1>0, <1>12, <1>15 DEF Inv, Placed
<1>18. AllStaged'
  <2>1. InUse' = InUse /\ InUse \subseteq Monitors
    BY <1>0 DEF InUse, Inv, TypeOK
  <2>. QED  BY <2>1, <1>10, <1>11 DEF Inv, AllStaged
<1>19. HiddenGrouped' /\ OffShowsAll'
  BY <1>0 DEF Inv, HiddenGrouped, OffShowsAll
<1>. QED  BY <1>13, <1>14, <1>16, <1>17, <1>18, <1>19 DEF Inv

\* A step that changes one model, none of its windows, and the flags with it.
LEMMA OneModelStep ==
    ASSUME Inv, phase # "restoring", NEW k \in plugged, NEW r \in Models,
           WellFormed(r), all_windows(r) = all_windows(models[k]),
           phase = "on" => Staged(r),
           phase # "on" => r = models[k],
           \A id \in Ids : find_set(r, id) => find_set(models[k], id),
           models' = [models EXCEPT ![k] = r],
           minimized' \subseteq open, hid' \subseteq minimized',
           \A v \in Windows \ all_windows(models[k]) :
              /\ v \in minimized' => v \in minimized
              /\ phase = "on" => (v \in minimized' <=> v \in minimized)
              /\ v \in hid' => v \in hid
              /\ phase = "on" => (v \in hid' <=> v \in hid),
           \A v \in all_windows(models[k]) :
              /\ v \in r.hidden <=> v \in hid'
              /\ v \in r.user_minimized <=> v \in minimized' \ hid',
           sync_tags \/ group' = group,
           UNCHANGED <<phase, next_id, todo, unfinished, restored, saved>>,
           UNCHANGED <<plugged, open, out>>, save_due' \in BOOLEAN
    PROVE  Inv'
<1>0. k \in Monitors
  BY DEF Inv, TypeOK
<1>1. /\ models' \in [Monitors -> Models] /\ models'[k] = r
      /\ \A j \in Monitors \ {k} : models'[j] = models[j]
  BY <1>0 DEF Inv, TypeOK
<1>2. \A j \in Monitors : all_windows(models'[j]) = all_windows(models[j])
  BY <1>1
<1>3. SetsWellFormed' /\ FreshIds'
  BY <1>1, <1>2 DEF Inv, SetsWellFormed, FreshIds
<1>4. FlagsMatch'
  <2>. SUFFICES ASSUME NEW j \in Monitors, NEW v \in all_windows(models[j])
                PROVE  /\ v \in models'[j].hidden <=> v \in hid'
                       /\ v \in models'[j].user_minimized
                             <=> v \in minimized' \ hid'
    BY <1>2 DEF FlagsMatch
  <2>1. CASE j = k
    BY <2>1, <1>1
  <2>2. CASE j # k
    <3>1. v \in Windows \ all_windows(models[k])
      BY <2>2, <1>0 DEF Inv, SetsWellFormed, all_windows
    <3>2. phase = "on"
      BY NewModelLemma DEF Inv, TypeOK, Placed
    <3>. QED  BY <2>2, <3>1, <3>2, <1>1 DEF Inv, FlagsMatch
  <2>. QED  BY <2>1, <2>2
<1>5. known' = known
  <2>1. \A v \in Windows : \A j \in Monitors :
           contains(models'[j], v) <=> contains(models[j], v)
    BY <1>2 DEF all_windows
  <2>. QED  BY <2>1 DEF known, Inv, TypeOK
<1>6. /\ group' \in [Windows -> Ids \cup {NoSet}]
      /\ \A v \in Windows \ known : group'[v] = group[v]
      /\ phase = "on" => \A v \in open : group'[v] # NoSet
  <2>1. CASE sync_tags
    BY <2>1, <1>1, <1>5, SyncTags DEF Inv, TypeOK, Placed
  <2>2. CASE group' = group
    BY <2>2 DEF Inv, TypeOK, HiddenGrouped
  <2>. QED  BY <2>1, <2>2
<1>7. TypeOK'
  BY <1>1, <1>5, <1>6 DEF Inv, TypeOK
<1>8. Placed'
  <2>1. \A j \in Monitors : j \notin plugged \/ phase \in {"down", "off"}
                                => models'[j] = NewModel
    BY <1>1 DEF Inv, Placed
  <2>. QED  BY <2>1, <1>2, <1>5 DEF Inv, Placed
<1>9. AllStaged'
  BY <1>1 DEF Inv, TypeOK, AllStaged, InUse
<1>10. phase # "on" => known = {} /\ hid' \subseteq hid
  <2>. SUFFICES ASSUME phase # "on" PROVE known = {} /\ hid' \subseteq hid
    OBVIOUS
  <2>1. \A j \in Monitors : models[j] = NewModel
    BY DEF Inv, TypeOK, Placed
  <2>2. known = {} /\ all_windows(models[k]) = {}
    BY <2>1, <1>0, NewModelLemma DEF known, all_windows, Inv, TypeOK
  <2>. QED  BY <2>2 DEF Inv, TypeOK
<1>11. HiddenGrouped'
  BY <1>5, <1>6, <1>10 DEF Inv, TypeOK, Placed, HiddenGrouped
<1>12. OffShowsAll'
  BY <1>6, <1>10 DEF Inv, TypeOK, OffShowsAll
<1>. QED  BY <1>3, <1>4, <1>7, <1>8, <1>9, <1>11, <1>12 DEF Inv

\* A window the user restores keeps the invariant, on stage and off it.
LEMMA UserRestoresInv ==
    ASSUME Inv, NEW w \in Windows, UserRestores(w)
    PROVE  Inv'
<1>. DEFINE k == out[w]
            m == models[k]
            p == activate(mark_shown(m, w), m.owner[w])
<1>0. /\ phase # "restoring" /\ w \in minimized /\ w \in open
      /\ UNCHANGED <<phase, next_id, todo, unfinished, restored, saved>>
      /\ UNCHANGED <<plugged, open, out>>
  BY DEF UserRestores, restoringVars, Inv, TypeOK
<1>1. k \in Monitors /\ k \in plugged /\ m \in Models /\ WellFormed(m)
  BY <1>0 DEF Inv, TypeOK, Placed, SetsWellFormed
<1>2. phase = "on" => Staged(m) /\ contains(m, w)
  BY <1>0, <1>1 DEF Inv, AllStaged, InUse, Placed, known
<1>3. phase # "on" => m = NewModel
  BY <1>0, <1>1 DEF Inv, TypeOK, Placed
<1>4. \A v \in all_windows(m) :
         /\ v \in m.hidden <=> v \in hid
         /\ v \in m.user_minimized <=> v \in minimized \ hid
  BY <1>1 DEF Inv, FlagsMatch
<1>5. hid \subseteq minimized /\ minimized \subseteq open
  BY DEF Inv, TypeOK
<1>6. CASE /\ m.owner[w] = m.active \/ phase # "on"
           /\ models' = [models EXCEPT ![k] = set_user_minimized(@, w, FALSE)]
           /\ minimized' = minimized \ {w}
           /\ hid' = hid \ {w}
           /\ UNCHANGED <<save_due, group>>
  <2>. DEFINE r == set_user_minimized(m, w, FALSE)
  <2>1. models' = [models EXCEPT ![k] = r]
    BY <1>1, <1>6 DEF Inv, TypeOK
  <2>2. phase # "on" => r = m /\ all_windows(m) = {}
    BY <1>3, NewModelLemma DEF set_user_minimized, all_windows
  <2>3. /\ r \in Models /\ r.active = m.active /\ r.inactive = m.inactive
        /\ r.owner = m.owner /\ r.hidden = m.hidden
        /\ contains(m, w) => r.user_minimized = m.user_minimized \ {w}
        /\ ~contains(m, w) => r = m
    BY <1>1 DEF set_user_minimized, Models
  <2>. HIDE DEF r
  <2>4. /\ all_windows(r) = all_windows(m)
        /\ \A s : windows(r, s) = windows(m, s)
        /\ \A s : find_set(r, s) <=> find_set(m, s)
        /\ \A v \in Windows : contains(r, v) <=> contains(m, v)
    BY <2>3 DEF all_windows, windows, contains, find_set
  <2>5. r.user_minimized \subseteq m.user_minimized
    BY <2>3
  <2>6. WellFormed(r)
    BY <1>1, <2>3, <2>4, <2>5 DEF WellFormed
  <2>7. phase = "on" => w \in windows(m, m.active)
    BY <1>2, <1>6 DEF windows, contains
  <2>8. phase = "on" => w \notin m.hidden
    BY <2>7, <1>2 DEF Staged
  <2>9. phase = "on" => Staged(r)
    <3>. SUFFICES ASSUME phase = "on" PROVE Staged(r)
      OBVIOUS
    <3>1. \A v \in Windows : m.owner[v] \in m.inactive => v # w
      BY <2>7, <1>1 DEF windows, WellFormed
    <3>2. r.user_minimized = m.user_minimized \ {w}
      BY <2>3, <1>2
    <3>. QED  BY <3>1, <3>2, <2>3, <2>4, <1>2 DEF Staged
  <2>10. \A v \in all_windows(m) :
            /\ v \in r.hidden <=> v \in hid'
            /\ v \in r.user_minimized <=> v \in minimized' \ hid'
    <3>. SUFFICES ASSUME NEW v \in all_windows(m)
                  PROVE  /\ v \in r.hidden <=> v \in hid'
                         /\ v \in r.user_minimized <=> v \in minimized' \ hid'
      OBVIOUS
    <3>1. phase = "on"
      BY <2>2
    <3>. QED  BY <3>1, <2>3, <2>8, <1>2, <1>4, <1>6
  <2>11. \A v \in Windows \ all_windows(m) :
            /\ v \in minimized' => v \in minimized
            /\ phase = "on" => (v \in minimized' <=> v \in minimized)
            /\ v \in hid' => v \in hid
            /\ phase = "on" => (v \in hid' <=> v \in hid)
    BY <1>2, <1>6 DEF all_windows
  <2>12. minimized' \subseteq open /\ hid' \subseteq minimized'
    BY <1>5, <1>6
  <2>13. save_due' \in BOOLEAN /\ group' = group
    BY <1>6 DEF Inv, TypeOK
  <2>. HIDE DEF m, k
  <2>. QED  BY <1>0, <1>1, <2>1, <2>2, <2>3, <2>4, <2>6, <2>9, <2>10, <2>11,
               <2>12, <2>13, OneModelStep DEF m
<1>7. CASE /\ m.owner[w] # m.active /\ phase = "on"
           /\ models' = [models EXCEPT ![k] = p.model]
           /\ minimized' = ((minimized \ {w}) \cup p.hide) \ p.show
           /\ hid' = ((hid \ {w}) \cup p.hide) \ p.show
           /\ sync_tags
           /\ save_due' = TRUE
  <2>. DEFINE m1 == mark_shown(m, w)
              id == m.owner[w]
  <2>1. /\ m1 \in Models /\ m1.active = m.active /\ m1.inactive = m.inactive
        /\ m1.owner = m.owner /\ m1.hidden = m.hidden \ {w}
        /\ m1.user_minimized = m.user_minimized \ {w}
    BY <1>1 DEF mark_shown, Models
  <2>2. id \in m.inactive
    BY <1>1, <1>2, <1>7 DEF WellFormed, find_set
  <2>3. /\ all_windows(m1) = all_windows(m)
        /\ \A s : windows(m1, s) = windows(m, s)
        /\ \A s : find_set(m1, s) <=> find_set(m, s)
        /\ \A v \in Windows : contains(m1, v) <=> contains(m, v)
    BY <2>1 DEF all_windows, windows, contains, find_set
  <2>. HIDE DEF m1
  <2>4. WellFormed(m1)
    BY <1>1, <2>1, <2>3 DEF WellFormed
  <2>5. StagedBut(m1, id)
    <3>1. \A v \in Windows : m1.owner[v] \in m1.inactive \ {id}
                => v \in m1.hidden \cup m1.user_minimized
      BY <1>2, <1>7, <2>1 DEF Staged
    <3>. QED  BY <3>1, <1>2, <1>7, <2>1, <2>3 DEF Staged, StagedBut
  <2>6. p = activate(m1, id)
    BY DEF m1
  <2>. HIDE DEF p, id
  <2>7. /\ PlanOK(m1, p) /\ Staged(p.model)
        /\ \A j : find_set(p.model, j) => find_set(m1, j)
    BY <2>1, <2>2, <2>4, <2>5, <2>6, Activate_
  <2>8. /\ p.model \in Models /\ WellFormed(p.model)
        /\ all_windows(p.model) = all_windows(m)
        /\ p.hide \subseteq all_windows(m)
        /\ p.hide \cap (m1.hidden \cup m1.user_minimized) = {}
        /\ p.show \subseteq m1.hidden
        /\ p.model.hidden = (m1.hidden \cup p.hide) \ p.show
        /\ p.model.user_minimized = m1.user_minimized
    BY <2>3, <2>7 DEF PlanOK
  <2>9. m.hidden \subseteq all_windows(m) /\ w \in all_windows(m)
    BY <1>1, <1>2, <1>7 DEF WellFormed, all_windows
  <2>10. \A v \in all_windows(m) :
            /\ v \in p.model.hidden <=> v \in hid'
            /\ v \in p.model.user_minimized <=> v \in minimized' \ hid'
    BY <2>1, <2>8, <1>4, <1>5, <1>7
  <2>11. \A v \in Windows \ all_windows(m) :
            /\ v \in minimized' <=> v \in minimized
            /\ v \in hid' <=> v \in hid
    BY <2>1, <2>8, <2>9, <1>7
  <2>12. minimized' \subseteq open /\ hid' \subseteq minimized'
    <3>1. all_windows(m) \subseteq open
      BY <1>1 DEF Inv, Placed
    <3>. QED  BY <3>1, <2>8, <1>5, <1>7
  <2>13. \A j \in Ids : find_set(p.model, j) => find_set(m, j)
    BY <2>3, <2>7
  <2>. HIDE DEF m, k
  <2>. QED  BY <1>0, <1>1, <1>7, <2>7, <2>8, <2>10, <2>11, <2>12, <2>13,
               OneModelStep DEF m
<1>. QED  BY <1>6, <1>7 DEF UserRestores

\* on_window_output_changed() keeps the invariant.
LEMMA WindowMovesInv ==
    ASSUME Inv, NEW w \in Windows, NEW k \in Monitors, WindowMoves(w, k)
    PROVE  Inv'
<1>. DEFINE f == out[w]
            from == models[f]
            was_hidden == w \in from.hidden
            dest == add_window(models[k], w, next_id)
            moved == IF w \in minimized /\ ~was_hidden
                     THEN set_user_minimized(dest, w, TRUE) ELSE dest
            left == remove_window(from, w)
<1>0. /\ w \in open /\ k \in plugged /\ k # f /\ f \in Monitors
      /\ out' = [out EXCEPT ![w] = k]
      /\ UNCHANGED <<phase, todo, unfinished, restored, saved, plugged, open>>
  BY DEF WindowMoves, restoringVars, Inv, TypeOK
<1>1. /\ out' \in [Windows -> Monitors] /\ out'[w] = k
      /\ \A v \in Windows \ {w} : out'[v] = out[v]
  BY <1>0 DEF Inv, TypeOK
<1>2. CASE /\ phase \in {"off", "down"}
           /\ UNCHANGED <<models, next_id, save_due, minimized, hid, group>>
  <2>1. \A j \in Monitors : models[j] = NewModel
    BY <1>2 DEF Inv, Placed
  <2>2. known' = {}
    BY <2>1, <1>1, <1>2, NewModelLemma DEF known, all_windows
  <2>3. TypeOK'
    BY <2>2, <1>0, <1>1, <1>2 DEF Inv, TypeOK
  <2>4. SetsWellFormed' /\ FlagsMatch' /\ FreshIds'
    BY <2>1, <1>2, NewModelLemma DEF SetsWellFormed, FlagsMatch, FreshIds
  <2>5. Placed'
    <3>1. \A v \in open : out'[v] \in plugged
      BY <1>0, <1>1 DEF Inv, TypeOK, Placed
    <3>. QED  BY <3>1, <2>1, <1>0, <1>2, NewModelLemma DEF Inv, Placed
  <2>6. AllStaged' /\ HiddenGrouped' /\ OffShowsAll'
    BY <1>0, <1>2 DEF Inv, AllStaged, InUse, HiddenGrouped, OffShowsAll
  <2>. QED  BY <2>3, <2>4, <2>5, <2>6 DEF Inv
<1>3. CASE on_window_output_changed(w, k)
  <2>0. /\ phase = "on" /\ w \in known
        /\ models[k].active = NoSet => next_id <= MaxId
        /\ next_id' = IF models[k].active = NoSet THEN next_id + 1 ELSE next_id
        /\ models' = [models EXCEPT ![f] = left, ![k] = moved]
        /\ minimized' = minimized \ (IF was_hidden THEN {w} ELSE {})
        /\ hid' = hid \ (IF was_hidden THEN {w} ELSE {})
        /\ sync_tags /\ save_due' = TRUE
    BY <1>3 DEF on_window_output_changed, NewSetIf, set_hidden, singularity_stage_set_hidden
  <2>1. /\ f \in plugged /\ from \in Models /\ WellFormed(from) /\ Staged(from)
        /\ models[k] \in Models /\ WellFormed(models[k]) /\ Staged(models[k])
    BY <1>0, <2>0 DEF Inv, TypeOK, Placed, SetsWellFormed, AllStaged, InUse
  <2>2. w \in all_windows(from) /\ ~contains(models[k], w)
    BY <1>0, <2>0 DEF known, all_windows, Inv, SetsWellFormed
  <2>3. /\ was_hidden <=> w \in hid
        /\ w \in from.user_minimized <=> w \in minimized \ hid
        /\ hid \subseteq minimized
    BY <1>0, <2>2 DEF Inv, FlagsMatch, TypeOK
  <2>4. models[k].active = NoSet => IsFresh(models[k], next_id)
    BY <2>0, MaxIdAssumption DEF IsFresh, Inv, TypeOK, FreshIds, Ids
  <2>5. /\ left \in Models /\ WellFormed(left) /\ Staged(left)
        /\ all_windows(left) = all_windows(from) \ {w}
        /\ left.hidden = from.hidden \ {w}
        /\ left.user_minimized = from.user_minimized \ {w}
        /\ \A id : find_set(left, id) => find_set(from, id)
    BY <2>1, RemoveWindow
  <2>6. /\ dest \in Models /\ WellFormed(dest) /\ Staged(dest)
        /\ all_windows(dest) = all_windows(models[k]) \cup {w}
        /\ dest.hidden = models[k].hidden
        /\ dest.user_minimized = models[k].user_minimized
        /\ dest.owner[w] = dest.active
        /\ \A id : find_set(dest, id)
             => find_set(models[k], id)
                \/ (models[k].active = NoSet /\ id = next_id)
    BY <2>1, <2>2, <2>4, AddWindow
  <2>. HIDE DEF dest, left
  <2>7. /\ moved \in Models /\ moved.active = dest.active
        /\ moved.inactive = dest.inactive /\ moved.owner = dest.owner
        /\ moved.hidden = dest.hidden
        /\ moved.user_minimized = dest.user_minimized
              \cup (IF w \in minimized /\ ~was_hidden THEN {w} ELSE {})
    <3>1. contains(dest, w)
      BY <2>6 DEF all_windows
    <3>2. CASE w \in minimized /\ ~was_hidden
      BY <3>1, <3>2, <2>6 DEF set_user_minimized, Models
    <3>3. CASE ~(w \in minimized /\ ~was_hidden)
      BY <3>3, <2>6
    <3>. QED  BY <3>2, <3>3
  <2>. HIDE DEF moved, was_hidden
  <2>8. /\ all_windows(moved) = all_windows(dest)
        /\ \A s : windows(moved, s) = windows(dest, s)
        /\ \A s : find_set(moved, s) <=> find_set(dest, s)
        /\ \A v \in Windows : contains(moved, v) <=> contains(dest, v)
    BY <2>7 DEF all_windows, windows, contains, find_set
  <2>9. WellFormed(moved)
    <3>1. moved.hidden \cup moved.user_minimized \subseteq all_windows(moved)
      BY <2>6, <2>7, <2>8 DEF WellFormed
    <3>. QED  BY <3>1, <2>6, <2>7, <2>8 DEF WellFormed
  <2>10. w \notin models[k].hidden /\ w \notin models[k].user_minimized
    BY <2>1, <2>2 DEF WellFormed, all_windows
  <2>11. Staged(moved)
    BY <2>6, <2>7, <2>8, <2>10 DEF Staged
  <2>12. /\ models' \in [Monitors -> Models]
         /\ models'[f] = left /\ models'[k] = moved
         /\ \A j \in Monitors \ {f, k} : models'[j] = models[j]
    BY <1>0, <2>0, <2>5, <2>7 DEF Inv, TypeOK
  <2>13. \A j \in Monitors : /\ WellFormed(models'[j])
                             /\ j \in plugged => Staged(models'[j])
    BY <2>0, <2>5, <2>9, <2>11, <2>12 DEF Inv, SetsWellFormed, AllStaged, InUse
  <2>14. ASSUME NEW j \in Monitors, NEW v \in all_windows(models'[j])
         PROVE  /\ v \in open /\ out'[v] = j
                /\ v \in models'[j].hidden <=> v \in hid'
                /\ v \in models'[j].user_minimized <=> v \in minimized' \ hid'
    <3>1. CASE v = w
      <4>1. j = k
        <5>1. j # f
          BY <2>5, <2>12, <2>14, <3>1
        <5>2. j \notin {f, k} => w \notin all_windows(models[j])
          BY DEF Inv, SetsWellFormed
        <5>. QED  BY <5>1, <5>2, <2>12, <2>14, <3>1
      <4>2. w \notin hid'
        BY <2>0, <2>3 DEF was_hidden
      <4>3. w \in minimized' <=> w \in minimized /\ ~was_hidden
        BY <2>0
      <4>. QED  BY <3>1, <4>1, <4>2, <4>3, <2>6, <2>7, <2>10, <2>12, <1>0, <1>1
    <3>2. CASE v # w
      <4>1. v \in all_windows(models[j])
        BY <2>5, <2>6, <2>8, <2>12, <2>14, <3>2
      <4>2. v \in Windows /\ v \in open /\ out[v] = j
        BY <4>1 DEF all_windows, Inv, Placed, SetsWellFormed
      <4>3. /\ v \in models'[j].hidden <=> v \in models[j].hidden
            /\ v \in models'[j].user_minimized <=> v \in models[j].user_minimized
        BY <3>2, <2>5, <2>6, <2>7, <2>12
      <4>4. /\ v \in hid' <=> v \in hid
            /\ v \in minimized' <=> v \in minimized
        BY <3>2, <2>0
      <4>. QED  BY <3>2, <4>1, <4>2, <4>3, <4>4, <1>1 DEF Inv, FlagsMatch
    <3>. QED  BY <3>1, <3>2
  <2>15. SetsWellFormed'
    BY <2>13, <2>14 DEF SetsWellFormed
  <2>16. FlagsMatch'
    BY <2>14 DEF FlagsMatch
  <2>17. next_id' \in 1..(MaxId + 1) /\ next_id <= next_id'
    BY <2>0, MaxIdAssumption DEF Inv, TypeOK
  <2>18. FreshIds'
    <3>. SUFFICES ASSUME NEW j \in Monitors, NEW id \in Ids,
                         find_set(models'[j], id)
                  PROVE  id < next_id'
      BY DEF FreshIds
    <3>1. \/ find_set(models[j], id)
          \/ models[k].active = NoSet /\ id = next_id
      BY <2>5, <2>6, <2>8, <2>12
    <3>. QED  BY <3>1, <2>0, MaxIdAssumption DEF Inv, FreshIds, TypeOK, Ids
  <2>19. known' = open
    <3>1. known' \subseteq open
      BY <2>14, <1>1 DEF known, all_windows
    <3>2. ASSUME NEW v \in open PROVE v \in known'
      <4>1. CASE v = w
        BY <4>1, <2>6, <2>8, <2>12, <1>1 DEF known, all_windows
      <4>2. CASE v # w
        <5>1. /\ v \in Windows /\ contains(models[out[v]], v)
              /\ out'[v] = out[v] /\ out[v] \in Monitors
          BY <3>2, <4>2, <1>1, <2>0 DEF Inv, TypeOK, Placed, known
        <5>2. v \in all_windows(models[out[v]])
          BY <5>1 DEF all_windows
        <5>3. v \in all_windows(models'[out[v]])
          BY <4>2, <5>1, <5>2, <2>5, <2>6, <2>8, <2>12
        <5>. QED  BY <5>1, <5>3 DEF known, all_windows
      <4>. QED  BY <4>1, <4>2
    <3>. QED  BY <3>1, <3>2
  <2>20. /\ group' \in [Windows -> Ids \cup {NoSet}]
         /\ \A v \in known' : group'[v] # NoSet
         /\ \A v \in Windows \ known' : group'[v] = group[v]
    BY <2>0, <2>12, <1>1, SyncTags DEF Inv, TypeOK
  <2>21. TypeOK'
    BY <2>0, <2>3, <2>12, <2>17, <2>19, <2>20, <1>0, <1>1 DEF Inv, TypeOK
  <2>22. Placed'
    <3>1. \A v \in open : out'[v] \in plugged
      BY <1>0, <1>1 DEF Inv, TypeOK, Placed
    <3>2. \A j \in Monitors : j \notin plugged => models'[j] = NewModel
      BY <1>0, <2>1, <2>12 DEF Inv, Placed
    <3>3. \A j \in Monitors : all_windows(models'[j]) \subseteq open
      BY <2>14
    <3>4. phase' = "on" /\ open' = open /\ plugged' = plugged /\ known' = open
      BY <2>0, <2>19, <1>0
    <3>5. todo' = {} /\ unfinished' = {}
      BY <2>0, <1>0 DEF Inv, Placed
    <3>. QED  BY <3>1, <3>2, <3>3, <3>4, <3>5 DEF Placed
  <2>23. AllStaged'
    BY <2>0, <2>13, <1>0 DEF AllStaged, InUse, Inv, TypeOK
  <2>24. HiddenGrouped' /\ OffShowsAll'
    BY <2>0, <2>19, <2>20, <1>0 DEF Inv, HiddenGrouped, OffShowsAll
  <2>. QED  BY <2>15, <2>16, <2>18, <2>21, <2>22, <2>23, <2>24 DEF Inv
<1>. QED  BY <1>2, <1>3 DEF WindowMoves

-----------------------------------------------------------------------------
(* Monitors come and go.                                                   *)

\* A new monitor keeps the invariant.
LEMMA PluggedInv ==
    ASSUME Inv, NEW k \in Monitors, MonitorPlugged(k)
    PROVE  Inv'
<1>0. /\ phase # "restoring" /\ k \notin plugged
      /\ plugged' = plugged \cup {k}
      /\ save_due' = (save_due \/ phase = "on")
      /\ UNCHANGED <<phase, models, next_id, todo, unfinished, restored, saved>>
      /\ UNCHANGED <<open, out, minimized, hid, group>>
  BY DEF MonitorPlugged, managerVars
<1>1. known' = known
  BY <1>0 DEF known
<1>2. TypeOK'
  <2>1. save_due' \in BOOLEAN
    BY <1>0
  <2>. QED  BY <2>1, <1>0, <1>1 DEF Inv, TypeOK
<1>3. SetsWellFormed' /\ FlagsMatch' /\ FreshIds' /\ Placed'
  BY <1>0, <1>1 DEF Inv, SetsWellFormed, FlagsMatch, FreshIds, Placed
<1>4. AllStaged'
  <2>1. Staged(models[k])
    BY <1>0, NewModelLemma DEF Inv, Placed
  <2>. QED  BY <2>1, <1>0 DEF Inv, TypeOK, AllStaged, InUse
<1>5. HiddenGrouped' /\ OffShowsAll'
  BY <1>0 DEF Inv, HiddenGrouped, OffShowsAll
<1>. QED  BY <1>2, <1>3, <1>4, <1>5 DEF Inv

\* Adopting an empty model into an empty model changes nothing.
LEMMA AdoptNothing == \A f : adopt(NewModel, NewModel, f) = NewModel
<1>. SUFFICES ASSUME NEW f PROVE adopt(NewModel, NewModel, f) = NewModel
  OBVIOUS
<1>1. windows(NewModel, NewModel.active) = {}
  BY DEF windows, NewModel
<1>2. /\ NewModel.active = NoSet /\ NewModel.inactive = {}
      /\ NewModel.owner = [w \in Windows |-> NoSet]
      /\ NewModel.hidden = {} /\ NewModel.user_minimized = {}
  BY DEF NewModel
<1>3. {s \in NewModel.inactive : windows(NewModel, s) # {}} = {}
  BY <1>2
<1>4. [w \in Windows |->
         CASE w \in {}                 -> NoSet
           [] NewModel.owner[w] \in {} -> NewModel.owner[w]
           [] OTHER                    -> NewModel.owner[w]]
        = [w \in Windows |-> NoSet]
  BY <1>2
<1>. QED  BY <1>1, <1>2, <1>3, <1>4 DEF adopt, NewModel

\* A monitor that goes away keeps the invariant.
LEMMA UnpluggedInv ==
    ASSUME Inv, NEW k \in Monitors, NEW t \in Monitors, MonitorUnplugged(k, t)
    PROVE  Inv'
<1>. DEFINE m == models[t]
            o == models[k]
            r == adopt(m, o, next_id)
            new == m.active = NoSet /\ windows(o, o.active) # {}
<1>0. /\ phase # "restoring" /\ k \in plugged /\ t \in plugged /\ t # k
      /\ \A id \in Ids : ~(find_set(m, id) /\ find_set(o, id))
      /\ plugged' = plugged \ {k}
      /\ out' = [w \in Windows |-> IF out[w] = k THEN t ELSE out[w]]
      /\ new => next_id <= MaxId
      /\ next_id' = IF new THEN next_id + 1 ELSE next_id
      /\ models' = [models EXCEPT ![t] = r, ![k] = NewModel]
      /\ save_due' = (save_due \/ phase = "on")
      /\ UNCHANGED <<phase, todo, unfinished, restored, saved>>
      /\ UNCHANGED <<open, minimized, hid, group>>
  <2>1. NewSetIf(new)
    BY DEF MonitorUnplugged
  <2>2. /\ new => next_id <= MaxId
        /\ next_id' = IF new THEN next_id + 1 ELSE next_id
    BY <2>1 DEF NewSetIf
  <2>3. models' = [models EXCEPT ![t] = r, ![k] = NewModel]
    BY DEF MonitorUnplugged, Inv, TypeOK
  <2>. QED  BY <2>2, <2>3 DEF MonitorUnplugged, restoringVars
<1>1. m \in Models /\ WellFormed(m) /\ o \in Models /\ WellFormed(o)
  BY DEF Inv, TypeOK, SetsWellFormed
<1>2. Staged(m) /\ Staged(o)
  <2>1. CASE phase = "on"
    BY <2>1, <1>0 DEF Inv, AllStaged, InUse
  <2>2. CASE phase # "on"
    BY <2>2, <1>0, NewModelLemma DEF Inv, TypeOK, Placed
  <2>. QED  BY <2>1, <2>2
<1>3. all_windows(m) \cap all_windows(o) = {}
  BY <1>0 DEF Inv, SetsWellFormed
<1>4. new => IsFresh(m, next_id) /\ ~find_set(o, next_id)
  <2>. SUFFICES ASSUME new PROVE IsFresh(m, next_id) /\ ~find_set(o, next_id)
    OBVIOUS
  <2>1. next_id \in Ids
    BY <1>0, MaxIdAssumption DEF Inv, TypeOK, Ids
  <2>2. ~(next_id < next_id)
    BY <2>1 DEF Ids
  <2>. QED  BY <2>1, <2>2 DEF IsFresh, Inv, FreshIds
<1>5. /\ r \in Models
      /\ WellFormed(r)
      /\ all_windows(r) = all_windows(m) \cup all_windows(o)
      /\ r.hidden = m.hidden \cup o.hidden
      /\ r.user_minimized = m.user_minimized \cup o.user_minimized
      /\ \A id : find_set(r, id)
           => find_set(m, id) \/ find_set(o, id) \/ (new /\ id = next_id)
      /\ Staged(r)
  BY <1>0, <1>1, <1>2, <1>3, <1>4, Adopt, SMTT(20)
<1>6. phase # "on" => r = NewModel
  <2>. SUFFICES ASSUME phase # "on" PROVE r = NewModel
    OBVIOUS
  <2>1. m = NewModel /\ o = NewModel
    BY <1>0 DEF Inv, TypeOK, Placed
  <2>. QED  BY <2>1, AdoptNothing
<1>. HIDE DEF r, new
<1>7. /\ models' \in [Monitors -> Models]
      /\ models'[t] = r /\ models'[k] = NewModel
      /\ \A j \in Monitors \ {t, k} : models'[j] = models[j]
  BY <1>0, <1>5, NewModelLemma DEF Inv, TypeOK
<1>8. /\ out' \in [Windows -> Monitors]
      /\ \A v \in Windows : out'[v] = IF out[v] = k THEN t ELSE out[v]
  BY <1>0 DEF Inv, TypeOK
<1>9. \A j \in Monitors : WellFormed(models'[j]) /\ (Staged(models[j]) => Staged(models'[j]))
  BY <1>2, <1>5, <1>7, NewModelLemma DEF Inv, SetsWellFormed
<1>10. ASSUME NEW j \in Monitors, NEW v \in all_windows(models'[j])
       PROVE  /\ v \in open /\ out'[v] = j
              /\ v \in models'[j].hidden <=> v \in hid
              /\ v \in models'[j].user_minimized <=> v \in minimized \ hid
  <2>0. v \in Windows
    BY <1>10 DEF all_windows
  <2>1. j # k
    BY <1>7, <1>10, NewModelLemma
  <2>2. CASE j = t
    <3>1. v \in all_windows(m) \/ v \in all_windows(o)
      BY <2>2, <1>5, <1>7, <1>10
    <3>2. CASE v \in all_windows(m)
      <4>1. out[v] = t /\ v \in open /\ v \notin all_windows(o)
        BY <3>2, <1>3 DEF Inv, SetsWellFormed, Placed
      <4>2. v \notin o.hidden /\ v \notin o.user_minimized
        BY <4>1, <1>1 DEF WellFormed
      <4>3. /\ v \in m.hidden <=> v \in hid
            /\ v \in m.user_minimized <=> v \in minimized \ hid
        BY <3>2 DEF Inv, FlagsMatch
      <4>. QED  BY <2>0, <2>2, <4>1, <4>2, <4>3, <1>0, <1>5, <1>7, <1>8
    <3>3. CASE v \in all_windows(o)
      <4>1. out[v] = k /\ v \in open /\ v \notin all_windows(m)
        BY <3>3, <1>3 DEF Inv, SetsWellFormed, Placed
      <4>2. v \notin m.hidden /\ v \notin m.user_minimized
        BY <4>1, <1>1 DEF WellFormed
      <4>3. /\ v \in o.hidden <=> v \in hid
            /\ v \in o.user_minimized <=> v \in minimized \ hid
        BY <3>3 DEF Inv, FlagsMatch
      <4>. QED  BY <2>0, <2>2, <4>1, <4>2, <4>3, <1>5, <1>7, <1>8
    <3>. QED  BY <3>1, <3>2, <3>3
  <2>3. CASE j # t
    <3>1. models'[j] = models[j]
      BY <2>1, <2>3, <1>7
    <3>2. out[v] = j /\ v \in open
      BY <3>1, <1>10 DEF Inv, SetsWellFormed, Placed
    <3>. QED  BY <2>0, <2>1, <3>1, <3>2, <1>8, <1>10 DEF Inv, FlagsMatch
  <2>. QED  BY <2>2, <2>3
<1>11. SetsWellFormed'
  BY <1>9, <1>10 DEF SetsWellFormed
<1>12. FlagsMatch'
  BY <1>0, <1>10 DEF FlagsMatch
<1>13. next_id' \in 1..(MaxId + 1) /\ next_id <= next_id'
  BY <1>0, MaxIdAssumption DEF Inv, TypeOK
<1>14. FreshIds'
  <2>. SUFFICES ASSUME NEW j \in Monitors, NEW id \in Ids,
                       find_set(models'[j], id)
                PROVE  id < next_id'
    BY DEF FreshIds
  <2>1. \/ find_set(models[j], id) \/ find_set(m, id) \/ find_set(o, id)
        \/ (new /\ id = next_id)
    BY <1>5, <1>7, NewModelLemma
  <2>2. id < next_id \/ (new /\ id = next_id)
    BY <2>1 DEF Inv, FreshIds
  <2>. QED  BY <2>2, <1>0, MaxIdAssumption DEF Inv, TypeOK, Ids
<1>15. known' \subseteq open
  BY <1>8, <1>10 DEF known, all_windows
<1>16. ASSUME phase = "on", NEW v \in open PROVE v \in known'
  <2>1. v \in Windows /\ out[v] \in Monitors /\ v \in all_windows(models[out[v]])
    BY <1>16 DEF Inv, TypeOK, Placed, known, all_windows
  <2>2. CASE out[v] = k \/ out[v] = t
    <3>1. v \in all_windows(models'[t]) /\ out'[v] = t
      BY <2>1, <2>2, <1>0, <1>5, <1>7, <1>8
    <3>. QED  BY <2>1, <3>1 DEF known, all_windows
  <2>3. CASE out[v] # k /\ out[v] # t
    <3>1. v \in all_windows(models'[out[v]]) /\ out'[v] = out[v]
      BY <2>1, <2>3, <1>7, <1>8
    <3>. QED  BY <2>1, <3>1 DEF known, all_windows
  <2>. QED  BY <2>2, <2>3
<1>17. TypeOK'
  <2>1. save_due' \in BOOLEAN
    BY <1>0
  <2>2. unfinished' = {}
    BY <1>0 DEF Inv, Placed
  <2>3. plugged' \subseteq Monitors
    BY <1>0 DEF Inv, TypeOK
  <2>. QED  BY <2>1, <2>2, <2>3, <1>0, <1>7, <1>8, <1>13, <1>15 DEF Inv, TypeOK
<1>18. Placed'
  <2>1. \A v \in open : out'[v] \in plugged'
    BY <1>0, <1>8 DEF Inv, TypeOK, Placed
  <2>2. \A j \in Monitors : j \notin plugged' \/ phase' \in {"down", "off"}
                               => models'[j] = NewModel
    BY <1>0, <1>6, <1>7 DEF Inv, Placed
  <2>3. \A j \in Monitors : all_windows(models'[j]) \subseteq open
    BY <1>10
  <2>4. /\ phase' = phase /\ phase # "restoring" /\ open' = open
        /\ todo' = {} /\ unfinished' = {}
        /\ phase = "on" => known' = open
    BY <1>0, <1>15, <1>16 DEF Inv, Placed
  <2>. QED  BY <2>1, <2>2, <2>3, <2>4 DEF Placed
<1>19. AllStaged'
  <2>1. InUse' \subseteq InUse /\ InUse \subseteq Monitors
    BY <1>0 DEF InUse, Inv, TypeOK
  <2>. QED  BY <2>1, <1>9 DEF Inv, AllStaged
<1>20. HiddenGrouped' /\ OffShowsAll'
  BY <1>0 DEF Inv, HiddenGrouped, OffShowsAll
<1>. QED  BY <1>11, <1>12, <1>14, <1>17, <1>18, <1>19, <1>20 DEF Inv

-----------------------------------------------------------------------------
(* Results.                                                                *)

\* Every step of the stage manager keeps Inv.
LEMMA NextInv == Inv /\ [Next]_vars => Inv'
<1>. SUFFICES ASSUME Inv, [Next]_vars PROVE Inv'
  OBVIOUS
<1>1. CASE enable \/ disable \/ StartOff \/ ShellEnds \/ save_state
  BY <1>1, EnableInv, DisableInv, StartOffInv, ShellEndsInv, SaveStateInv
<1>2. ASSUME NEW w \in Windows,
             \/ RestoreWindow(w)
             \/ on_window_opened(w)
             \/ on_window_closed(w)
             \/ UserMinimizes(w)
             \/ UserRestores(w)
      PROVE  Inv'
  BY <1>2, RestoreWindowInv, OpenedInv, ClosedInv, UserMinimizesInv,
     UserRestoresInv
<1>3. ASSUME NEW w \in Windows, NEW k \in Monitors, WindowMoves(w, k)
      PROVE  Inv'
  BY <1>3, WindowMovesInv
<1>4. ASSUME NEW w \in Windows, NEW id \in Ids \cup {NoSet},
             MoveWindow(w, id)
      PROVE  Inv'
  BY <1>4, MoveWindowInv
<1>5. ASSUME NEW k \in Monitors,
             FinishRestored(k) \/ FinishSplit(k) \/ MonitorPlugged(k)
      PROVE  Inv'
  BY <1>5, FinishRestoredInv, FinishSplitInv, PluggedInv
<1>6. ASSUME NEW k \in Monitors, NEW id \in Ids, Activate(k, id)
      PROVE  Inv'
  BY <1>6, ActivateInv
<1>7. ASSUME NEW k \in Monitors, NEW t \in Monitors, MonitorUnplugged(k, t)
      PROVE  Inv'
  BY <1>7, UnpluggedInv
<1>8. CASE UNCHANGED vars
  <2>1. /\ UNCHANGED <<phase, models, next_id, todo, unfinished, restored>>
        /\ UNCHANGED <<saved, save_due>>
        /\ UNCHANGED <<plugged, open, out, minimized, hid, group>>
    BY <1>8 DEF vars, managerVars, savedVars, compositorVars
  <2>2. known' = known
    BY <2>1 DEF known
  <2>3. TypeOK' /\ SetsWellFormed' /\ FlagsMatch' /\ Placed'
    BY <2>1, <2>2 DEF Inv, TypeOK, SetsWellFormed, FlagsMatch, Placed
  <2>4. FreshIds' /\ AllStaged' /\ HiddenGrouped' /\ OffShowsAll'
    BY <2>1 DEF Inv, FreshIds, AllStaged, InUse, HiddenGrouped, OffShowsAll
  <2>. QED  BY <2>3, <2>4 DEF Inv
<1>. QED  BY <1>1, <1>2, <1>3, <1>4, <1>5, <1>6, <1>7, <1>8 DEF Next

\* Inv is an invariant of the stage manager.
THEOREM Invariance == Spec => []Inv
BY InitInv, NextInv, PTL DEF Spec

\* Every variable keeps its type; in particular ids stay below the next one
\* the shell hands out, and hidden windows are minimized windows.
THEOREM TypeCorrect == Spec => []TypeOK
BY Invariance, PTL DEF Inv

\* The sets stay well formed: stage_model.vala never loses a window and never
\* leaves a thumbnail that stands for nothing, for any windows and monitors.
THEOREM SetsWellFormedAlways == Spec => []SetsWellFormed
BY Invariance, PTL DEF Inv

\* One group of every monitor is shown, and the others are minimized.
THEOREM OneGroupShownAlways == Spec => []OneGroupShown
<1>1. Inv => OneGroupShown
  <2>. SUFFICES ASSUME Inv, NEW k \in InUse, NEW w \in all_windows(models[k])
                PROVE  IF models[k].owner[w] = models[k].active
                       THEN w \in minimized => w \notin hid
                       ELSE w \in minimized
    BY DEF OneGroupShown
  <2>1. k \in Monitors /\ w \in Windows /\ contains(models[k], w)
    BY DEF InUse, Inv, TypeOK, all_windows
  <2>2. /\ w \in models[k].hidden <=> w \in hid
        /\ w \in models[k].user_minimized <=> w \in minimized \ hid
        /\ hid \subseteq minimized
    BY <2>1 DEF Inv, FlagsMatch, TypeOK
  <2>3. Staged(models[k])
    BY DEF Inv, AllStaged
  <2>4. CASE models[k].owner[w] = models[k].active
    <3>1. w \in windows(models[k], models[k].active)
      BY <2>1, <2>4 DEF windows, contains
    <3>. QED  BY <2>2, <2>3, <2>4, <3>1 DEF Staged
  <2>5. CASE models[k].owner[w] # models[k].active
    <3>1. models[k].owner[w] \in models[k].inactive
      BY <2>1, <2>5 DEF Inv, SetsWellFormed, WellFormed, find_set
    <3>. QED  BY <2>1, <2>2, <2>3, <2>5, <3>1 DEF Staged
  <2>. QED  BY <2>4, <2>5
<1>. QED  BY Invariance, <1>1, PTL

\* What the shell believes to be hidden or minimized is what the compositor
\* keeps, so a shell that restarts can tell the two apart.
THEOREM FlagsMatchAlways == Spec => []FlagsMatch
BY Invariance, PTL DEF Inv

\* With the mode off no window stays hidden or grouped.
THEOREM OffShowsAllAlways == Spec => []OffShowsAll
BY Invariance, PTL DEF Inv

-----------------------------------------------------------------------------
(* A restart in peace: what holds when no window opens or moves while the  *)
(* shell is down.  The numbers the compositor keeps then name sets of one  *)
(* monitor each, and a restart finds them again.                           *)

\* Windows of one group number are on one monitor, so that enable() makes one
\* set of them.
TagsTogether ==
    \A v, w \in open :
        group[v] = group[w] /\ group[v] # NoSet => out[v] = out[w]

\* A shell that ends leaves all windows grouped, or none.
AllOrNone ==
    phase = "down" => \/ \A w \in open : group[w] # NoSet
                      \/ \A w \in open : group[w] = NoSet

\* No number the compositor keeps will be given to a new set.
TagsOld == phase = "on" => \A w \in open : group[w] < next_id

\* enable() makes the sets the numbers name and none besides, until it
\* finishes a monitor.
AsTagged ==
    phase = "restoring" /\ restored =>
       /\ \A w \in open : group[w] # NoSet
       /\ \A k \in Monitors : \A w \in all_windows(models[k]) :
             models[k].owner[w] = group[w]
       /\ \A k \in unfinished : models[k].active = NoSet

\* The invariant that makes set ids unique, on top of Inv.
QuietInv ==
    /\ QuietWhileDown
    /\ OneSetPerId
    /\ GroupsNotMixed
    /\ TagsTogether
    /\ AllOrNone
    /\ TagsOld
    /\ AsTagged

\* The sets an operation makes: none, or one with the fresh id.
LEMMA SetsGrow ==
    ASSUME NEW m \in Models, NEW w \in Windows, NEW f
    PROVE  /\ \A id : find_set(add_window(m, w, f), id)
                => find_set(m, id) \/ (m.active = NoSet /\ id = f)
           /\ \A id : find_set(remove_window(m, w), id) => find_set(m, id)
           /\ \A id, b : find_set(set_user_minimized(m, w, b), id)
                => find_set(m, id)
           /\ \A id : find_set(mark_shown(m, w), id) => find_set(m, id)
<1>1. /\ add_window(m, w, f).inactive = m.inactive
      /\ \/ add_window(m, w, f).active = m.active
         \/ m.active = NoSet /\ add_window(m, w, f).active = f
  BY DEF add_window, Models
<1>2. /\ remove_window(m, w).active = m.active
      /\ remove_window(m, w).inactive \subseteq m.inactive
  BY DEF remove_window, Models
<1>3. \A b : /\ set_user_minimized(m, w, b).active = m.active
             /\ set_user_minimized(m, w, b).inactive = m.inactive
  BY DEF set_user_minimized, Models
<1>4. /\ mark_shown(m, w).active = m.active
      /\ mark_shown(m, w).inactive = m.inactive
  BY DEF mark_shown, Models
<1>. QED  BY <1>1, <1>2, <1>3, <1>4 DEF find_set

\* Ids stay unique when only one model gets sets, and all of them are new.
LEMMA OneSetKept ==
    ASSUME Inv, OneSetPerId, NEW k \in Monitors,
           \A j \in Monitors \ {k} : \A id \in Ids :
              find_set(models'[j], id) => find_set(models[j], id),
           \A id \in Ids : find_set(models'[k], id)
              => find_set(models[k], id) \/ id >= next_id
    PROVE  OneSetPerId'
<1>. SUFFICES ASSUME NEW i \in Monitors, NEW j \in Monitors, NEW id \in Ids,
                     find_set(models'[i], id), find_set(models'[j], id)
              PROVE  i = j
  BY DEF OneSetPerId
<1>1. id \in Int /\ next_id \in Int
  BY MaxIdAssumption DEF Ids, Inv, TypeOK
<1>2. \A h \in Monitors : find_set(models[h], id) => ~(id >= next_id)
  BY <1>1 DEF Inv, FreshIds
<1>. QED  BY <1>2 DEF OneSetPerId

\* After sync_tags() the numbers are those of the sets.
LEMMA TagsSynced ==
    ASSUME Inv, Inv', QuietWhileDown, OneSetPerId', phase' = "on", sync_tags
    PROVE  QuietInv'
<1>1. known' = open' /\ open' \subseteq Windows
  BY DEF Inv, Placed, TypeOK
<1>2. ASSUME NEW w \in open'
      PROVE  /\ out'[w] \in Monitors
             /\ group'[w] = models'[out'[w]].owner[w]
             /\ group'[w] \in Ids
             /\ find_set(models'[out'[w]], group'[w])
             /\ group'[w] < next_id'
  <2>1. w \in Windows /\ out'[w] \in Monitors /\ contains(models'[out'[w]], w)
    BY <1>1, <1>2 DEF known, Inv, TypeOK
  <2>2. group'[w] = models'[out'[w]].owner[w]
    BY <2>1 DEF sync_tags, singularity_stage_set_group
  <2>3. find_set(models'[out'[w]], group'[w])
    BY <2>1, <2>2 DEF Inv, SetsWellFormed, WellFormed
  <2>4. group'[w] \in Ids
    BY <2>1, <2>3 DEF Inv, TypeOK, find_set
  <2>. QED  BY <2>1, <2>2, <2>3, <2>4 DEF Inv, FreshIds
<1>3. GroupsNotMixed'
  BY <1>1, <1>2 DEF GroupsNotMixed, OneSetPerId
<1>4. TagsTogether'
  BY <1>2 DEF TagsTogether, OneSetPerId
<1>5. AllOrNone' /\ TagsOld' /\ AsTagged'
  BY <1>2 DEF AllOrNone, TagsOld, AsTagged
<1>. QED  BY <1>3, <1>4, <1>5 DEF QuietInv

\* With the mode off there is nothing to confuse.
LEMMA OffQuiet ==
    ASSUME Inv', QuietWhileDown, phase' = "off"
    PROVE  QuietInv'
<1>1. \A k \in Monitors : models'[k] = NewModel
  BY DEF Inv, Placed
<1>2. OneSetPerId'
  BY <1>1, NewModelLemma DEF OneSetPerId
<1>3. TagsTogether'
  BY DEF Inv, OffShowsAll, TagsTogether
<1>. QED  BY <1>2, <1>3 DEF QuietInv, GroupsNotMixed, AllOrNone, TagsOld, AsTagged

\* Nor while the shell is down, but for the numbers of the windows.
LEMMA DownQuiet ==
    ASSUME Inv', QuietWhileDown, phase' = "down", TagsTogether', AllOrNone'
    PROVE  QuietInv'
<1>1. \A k \in Monitors : models'[k] = NewModel
  BY DEF Inv, Placed
<1>2. OneSetPerId'
  BY <1>1, NewModelLemma DEF OneSetPerId
<1>. QED  BY <1>2 DEF QuietInv, GroupsNotMixed, TagsOld, AsTagged

\* A step that leaves windows, groups and sets as they are, or drops some.
LEMMA CalmStep ==
    ASSUME Inv, Inv', QuietInv, phase # "restoring", phase' = phase,
           open' \subseteq open, next_id' = next_id,
           \A w \in open' : group'[w] = group[w] /\ out'[w] = out[w],
           \A k \in Monitors : \A id \in Ids :
              find_set(models'[k], id) => find_set(models[k], id),
           \A w \in open' : models'[out[w]].owner[w] = models[out[w]].owner[w]
    PROVE  QuietInv'
<1>1. OneSetPerId'
  BY DEF QuietInv, OneSetPerId
<1>2. TagsTogether' /\ AllOrNone'
  BY DEF QuietInv, TagsTogether, AllOrNone
<1>3. TagsOld' /\ AsTagged'
  BY DEF QuietInv, TagsOld, AsTagged
<1>4. GroupsNotMixed'
  <2>. SUFFICES ASSUME phase = "on", NEW w \in known', NEW k \in Monitors,
                       find_set(models'[k], group'[w])
                PROVE  k = out'[w] /\ models'[k].owner[w] = group'[w]
    BY DEF GroupsNotMixed
  <2>1. w \in open' /\ w \in open /\ w \in known /\ w \in Windows
    BY DEF Inv, Placed, TypeOK
  <2>2. group'[w] \in Ids
    BY DEF Inv, TypeOK, find_set
  <2>3. find_set(models[k], group[w])
    BY <2>1, <2>2
  <2>4. k = out[w] /\ models[k].owner[w] = group[w]
    BY <2>1, <2>3 DEF QuietInv, GroupsNotMixed
  <2>. QED  BY <2>1, <2>4
<1>. QED  BY <1>1, <1>2, <1>3, <1>4 DEF QuietInv

\* The end and the start of the shell, and the mode going off.
LEMMA SwitchQuiet ==
    ASSUME Inv, Inv', QuietInv, disable \/ StartOff \/ ShellEnds
    PROVE  QuietInv'
<1>0. QuietWhileDown
  BY DEF QuietInv
<1>1. CASE disable \/ StartOff
  BY <1>0, <1>1, OffQuiet DEF disable, StartOff
<1>2. CASE ShellEnds
  <2>1. /\ phase \in {"off", "on"} /\ phase' = "down"
        /\ UNCHANGED <<open, out, group>>
    BY <1>2 DEF ShellEnds, compositorVars
  <2>2. TagsTogether'
    BY <2>1 DEF QuietInv, TagsTogether
  <2>3. AllOrNone'
    BY <2>1 DEF AllOrNone, Inv, HiddenGrouped, OffShowsAll
  <2>. QED  BY <1>0, <2>1, <2>2, <2>3, DownQuiet
<1>. QED  BY <1>1, <1>2

\* A save, a new monitor, and a step that changes nothing.
LEMMA SaveQuiet ==
    ASSUME Inv, Inv', QuietInv, save_state \/ \E k \in Monitors : MonitorPlugged(k)
    PROVE  QuietInv'
<1>1. /\ phase # "restoring"
      /\ UNCHANGED <<phase, models, next_id, open, out, group>>
  BY DEF save_state, MonitorPlugged, managerVars, compositorVars
<1>. QED  BY <1>1, CalmStep

\* A window closes.
LEMMA ClosedQuiet ==
    ASSUME Inv, Inv', QuietInv, NEW w \in Windows, on_window_closed(w)
    PROVE  QuietInv'
<1>. DEFINE r == remove_window(models[out[w]], w)
<1>1. /\ phase # "restoring" /\ phase' = phase /\ next_id' = next_id
      /\ models' = [models EXCEPT ![out[w]] = r]
      /\ open' = open \ {w} /\ out' = out
      /\ group' = [group EXCEPT ![w] = NoSet]
  BY DEF on_window_closed, Inv, TypeOK
<1>2. out[w] \in Monitors /\ models[out[w]] \in Models
  BY DEF Inv, TypeOK
<1>3. \A id : find_set(r, id) => find_set(models[out[w]], id)
  BY <1>2, SetsGrow
<1>4. \A v \in Windows \ {w} : r.owner[v] = models[out[w]].owner[v]
  BY <1>2 DEF remove_window, Models
<1>. HIDE DEF r
<1>5. \A k \in Monitors : \A id \in Ids :
         find_set(models'[k], id) => find_set(models[k], id)
  BY <1>1, <1>2, <1>3 DEF Inv, TypeOK
<1>6. \A v \in open' : /\ group'[v] = group[v] /\ out'[v] = out[v]
                       /\ models'[out[v]].owner[v] = models[out[v]].owner[v]
  BY <1>1, <1>2, <1>4 DEF Inv, TypeOK
<1>7. open' \subseteq open
  BY <1>1
<1>. QED  BY <1>1, <1>5, <1>6, <1>7, CalmStep

\* The user minimizes a window, or restores one that is on stage.
LEMMA MinimizedQuiet ==
    ASSUME Inv, Inv', QuietInv, NEW w \in Windows, NEW b,
           phase # "restoring",
           \/ models' = models
           \/ models' = [models EXCEPT ![out[w]] =
                           set_user_minimized(models[out[w]], w, b)],
           UNCHANGED <<phase, next_id, open, out, group>>
    PROVE  QuietInv'
<1>. DEFINE r == set_user_minimized(models[out[w]], w, b)
<1>1. out[w] \in Monitors /\ models[out[w]] \in Models
  BY DEF Inv, TypeOK
<1>2. /\ \A id : find_set(r, id) => find_set(models[out[w]], id)
      /\ r.owner = models[out[w]].owner
  <2>1. r.owner = models[out[w]].owner
    BY <1>1 DEF set_user_minimized, Models
  <2>. QED  BY <2>1, <1>1, SetsGrow
<1>. HIDE DEF r
<1>3. \A k \in Monitors :
         /\ \A id \in Ids : find_set(models'[k], id) => find_set(models[k], id)
         /\ models'[k].owner = models[k].owner
  BY <1>1, <1>2 DEF Inv, TypeOK, r
<1>4. \A v \in open : out[v] \in Monitors
  BY DEF Inv, TypeOK
<1>. QED  BY <1>3, <1>4, CalmStep

\* The user minimizes a window: no window changes its group.
LEMMA UserMinimizesQuiet ==
    ASSUME Inv, Inv', QuietInv, NEW w \in Windows, UserMinimizes(w)
    PROVE  QuietInv'
<1>. DEFINE m == models[out[w]]
<1>1. /\ phase # "restoring"
      /\ models' = [models EXCEPT ![out[w]] =
                      IF contains(m, w) /\ m.owner[w] = m.active
                      THEN set_user_minimized(m, w, TRUE) ELSE m]
      /\ UNCHANGED <<phase, next_id, open, out, group>>
  BY DEF UserMinimizes
<1>2. \/ models' = models
      \/ models' = [models EXCEPT ![out[w]] = set_user_minimized(m, w, TRUE)]
  BY <1>1 DEF Inv, TypeOK
<1>. QED  BY <1>1, <1>2, MinimizedQuiet

\* A step of the mode that is on, with one model changed and the tags synced.
LEMMA SyncedStep ==
    ASSUME Inv, Inv', QuietInv, phase' = "on", sync_tags,
           NEW k \in Monitors, NEW r, models' = [models EXCEPT ![k] = r],
           \A id \in Ids : find_set(r, id)
              => find_set(models[k], id) \/ id = next_id
    PROVE  QuietInv'
<1>1. QuietWhileDown /\ OneSetPerId
  BY DEF QuietInv
<1>2. next_id >= next_id
  BY DEF Inv, TypeOK
<1>3. /\ models'[k] = r
      /\ \A j \in Monitors \ {k} : models'[j] = models[j]
  BY DEF Inv, TypeOK
<1>4. OneSetPerId'
  BY <1>1, <1>2, <1>3, OneSetKept
<1>. QED  BY <1>1, <1>4, TagsSynced

\* The user restores a window.
LEMMA UserRestoresQuiet ==
    ASSUME Inv, Inv', QuietInv, NEW w \in Windows, UserRestores(w)
    PROVE  QuietInv'
<1>. DEFINE k == out[w]
            m == models[k]
            m1 == mark_shown(m, w)
            p == activate(m1, m.owner[w])
<1>0. /\ phase # "restoring"
      /\ UNCHANGED <<phase, next_id, open, out>>
  BY DEF UserRestores
<1>1. k \in Monitors /\ m \in Models
  BY DEF Inv, TypeOK
<1>2. CASE /\ models' = [models EXCEPT ![k] = set_user_minimized(@, w, FALSE)]
           /\ UNCHANGED group
  <2>1. models' = [models EXCEPT ![k] = set_user_minimized(m, w, FALSE)]
    BY <1>1, <1>2 DEF Inv, TypeOK
  <2>. QED  BY <1>0, <1>2, <2>1, MinimizedQuiet
<1>3. CASE /\ phase = "on" /\ sync_tags
           /\ models' = [models EXCEPT ![k] = p.model]
  <2>1. \A id : find_set(m1, id) => find_set(m, id)
    BY <1>1, SetsGrow
  <2>2. m1 \in Models
    BY <1>1 DEF mark_shown, Models
  <2>. HIDE DEF m1
  <2>3. \A id : find_set(p.model, id) => find_set(m1, id)
    BY <2>2 DEF activate, Plan, find_set, Models, windows
  <2>. HIDE DEF m, p
  <2>. QED  BY <1>0, <1>1, <1>3, <2>1, <2>3, SyncedStep DEF m
<1>. QED  BY <1>2, <1>3 DEF UserRestores

\* A set is put on stage.
LEMMA ActivateQuiet ==
    ASSUME Inv, Inv', QuietInv, NEW k \in Monitors, NEW id \in Ids,
           Activate(k, id)
    PROVE  QuietInv'
<1>. DEFINE p == activate(models[k], id)
<1>1. /\ phase' = "on" /\ sync_tags
      /\ models' = [models EXCEPT ![k] = p.model]
  BY DEF Activate, Apply
<1>2. models[k] \in Models
  BY DEF Inv, TypeOK
<1>3. \A i : find_set(p.model, i) => find_set(models[k], i)
  BY <1>2 DEF activate, Plan, find_set, Models, windows
<1>. HIDE DEF p
<1>. QED  BY <1>1, <1>3, SyncedStep

\* A window is moved to another set.
LEMMA MoveWindowQuiet ==
    ASSUME Inv, Inv', QuietInv, NEW w \in Windows, NEW id \in Ids \cup {NoSet},
           MoveWindow(w, id)
    PROVE  QuietInv'
<1>. DEFINE k == out[w]
            p == move_window(models[k], w, id, next_id)
<1>1. /\ phase' = "on" /\ sync_tags
      /\ models' = [models EXCEPT ![k] = p.model]
  BY DEF MoveWindow, Apply
<1>2. k \in Monitors /\ models[k] \in Models
  BY DEF Inv, TypeOK
<1>3. \A i : find_set(p.model, i) => find_set(models[k], i) \/ i = next_id
  BY <1>2 DEF move_window, Plan, find_set, Models, windows
<1>. HIDE DEF p, k
<1>. QED  BY <1>1, <1>2, <1>3, SyncedStep

\* A window opens, or moves to another monitor.
LEMMA OpenedQuiet ==
    ASSUME Inv, Inv', QuietInv, NEW w \in Windows, on_window_opened(w)
    PROVE  QuietInv'
<1>0. QuietWhileDown
  BY DEF QuietInv
<1>1. CASE phase = "on"
  <2>1. PICK k \in plugged :
           /\ models' = [models EXCEPT ![k] = add_window(@, w, next_id)]
           /\ sync_tags
    BY <1>1 DEF on_window_opened
  <2>. DEFINE r == add_window(models[k], w, next_id)
  <2>2. k \in Monitors /\ models[k] \in Models /\ phase' = "on"
    BY <1>1 DEF Inv, TypeOK, on_window_opened
  <2>3. models' = [models EXCEPT ![k] = r]
    BY <2>1, <2>2 DEF Inv, TypeOK
  <2>4. \A id : find_set(r, id) => find_set(models[k], id) \/ id = next_id
    BY <2>2, SetsGrow
  <2>. HIDE DEF r
  <2>. QED  BY <2>1, <2>2, <2>3, <2>4, SyncedStep
<1>2. CASE phase # "on"
  <2>1. phase' = "off"
    BY <1>0, <1>2 DEF on_window_opened, Inv, TypeOK
  <2>. QED  BY <1>0, <2>1, OffQuiet
<1>. QED  BY <1>1, <1>2

\* A window moves to another monitor and gets a group of its own there.
LEMMA WindowMovesQuiet ==
    ASSUME Inv, Inv', QuietInv, NEW w \in Windows, NEW k \in Monitors,
           WindowMoves(w, k)
    PROVE  QuietInv'
<1>0. QuietWhileDown /\ OneSetPerId
  BY DEF QuietInv
<1>1. CASE on_window_output_changed(w, k)
  <2>. DEFINE from == remove_window(models[out[w]], w)
              add  == add_window(models[k], w, next_id)
  <2>1. /\ phase' = "on" /\ sync_tags /\ k # out[w]
        /\ \/ models' = [models EXCEPT ![out[w]] = from, ![k] = add]
           \/ models' = [models EXCEPT ![out[w]] = from,
                                       ![k] = set_user_minimized(add, w, TRUE)]
    BY <1>1 DEF on_window_output_changed, WindowMoves
  <2>2. /\ out[w] \in Monitors /\ models[out[w]] \in Models
        /\ models[k] \in Models
    BY DEF Inv, TypeOK
  <2>3. /\ \A id : find_set(from, id) => find_set(models[out[w]], id)
        /\ \A id : find_set(add, id) => find_set(models[k], id) \/ id = next_id
    BY <2>2, SetsGrow
  <2>4. add \in Models
    <3>1. models[k].active = NoSet => next_id \in Ids
      BY <1>1, MaxIdAssumption DEF on_window_output_changed, NewSetIf, Inv,
         TypeOK, Ids
    <3>. QED  BY <2>2, <3>1 DEF add_window, Models
  <2>5. \A id : find_set(set_user_minimized(add, w, TRUE), id)
                  => find_set(add, id)
    BY <2>4, SetsGrow
  <2>. HIDE DEF from, add
  <2>6. PICK r : /\ models' = [models EXCEPT ![out[w]] = from, ![k] = r]
                 /\ \A id : find_set(r, id) => find_set(add, id)
    BY <2>1, <2>5
  <2>7. /\ models'[k] = r /\ models'[out[w]] = from
        /\ \A j \in Monitors \ {k, out[w]} : models'[j] = models[j]
    BY <2>1, <2>2, <2>6 DEF Inv, TypeOK
  <2>8. /\ \A j \in Monitors \ {k} : \A id \in Ids :
              find_set(models'[j], id) => find_set(models[j], id)
        /\ \A id \in Ids : find_set(models'[k], id)
              => find_set(models[k], id) \/ id = next_id
    BY <2>3, <2>6, <2>7
  <2>9. next_id >= next_id
    BY DEF Inv, TypeOK
  <2>10. OneSetPerId'
    BY <1>0, <2>8, <2>9, OneSetKept
  <2>. QED  BY <1>0, <2>1, <2>10, TagsSynced
<1>2. CASE phase = "off" \/ (phase = "down" /\ ~QuietWhileDown)
  BY <1>0, <1>2, OffQuiet DEF WindowMoves
<1>. QED  BY <1>1, <1>2 DEF WindowMoves

\* enable() starts: no set has been made yet.
LEMMA EnableQuiet ==
    ASSUME Inv, QuietInv, enable
    PROVE  QuietInv'
<1>1. /\ phase \in {"down", "off"} /\ phase' = "restoring"
      /\ restored' = \E w \in open : group[w] # NoSet
      /\ UNCHANGED <<models, open, out, group>>
  BY DEF enable, compositorVars
<1>2. \A k \in Monitors : models[k] = NewModel
  BY <1>1 DEF Inv, Placed
<1>3. OneSetPerId' /\ TagsTogether'
  BY <1>1 DEF QuietInv, OneSetPerId, TagsTogether
<1>4. AsTagged'
  <2>. SUFFICES ASSUME restored'
                PROVE  /\ \A w \in open : group[w] # NoSet
                       /\ \A k \in Monitors : all_windows(models[k]) = {}
                       /\ \A k \in unfinished' : models[k].active = NoSet
    BY <1>1 DEF AsTagged
  <2>1. \A w \in open : group[w] # NoSet
    BY <1>1 DEF Inv, OffShowsAll, QuietInv, AllOrNone
  <2>2. unfinished' \subseteq Monitors
    BY DEF enable, Inv, TypeOK
  <2>. QED  BY <2>1, <2>2, <1>2, NewModelLemma
<1>. QED  BY <1>1, <1>3, <1>4 DEF QuietInv, GroupsNotMixed, AllOrNone, TagsOld

\* What restore_window() makes of a window that has a group.
LEMMA RestoreTagged ==
    ASSUME NEW m \in Models, NEW w \in Windows, ~contains(m, w),
           NEW g \in Ids, NEW mini, NEW hidden, NEW f
    PROVE  LET r == restore_window(m, w, g, mini, hidden, f)
           IN  /\ r.active = m.active
               /\ \A v \in Windows :
                     r.owner[v] = IF v = w THEN g ELSE m.owner[v]
               /\ \A id : find_set(r, id) => find_set(m, id) \/ id = g
<1>. DEFINE i == IF find_set(m, g) THEN m.inactive ELSE m.inactive \cup {g}
            base == [m EXCEPT !.inactive = i, !.owner[w] = g]
            r == restore_window(m, w, g, mini, hidden, f)
<1>1. r = Flagged(base, w, mini, hidden)
  BY MaxIdAssumption DEF restore_window, Ids
<1>1a. i \subseteq m.inactive \cup {g}
  OBVIOUS
<1>. HIDE DEF i
<1>2. base \in [active : Ids \cup {NoSet}, inactive : SUBSET Ids,
                owner : [Windows -> Ids \cup {NoSet}],
                hidden : SUBSET Windows, user_minimized : SUBSET Windows]
  <2>1. i \in SUBSET Ids
    BY <1>1a DEF Models
  <2>. QED  BY <2>1 DEF Models
<1>2a. base.active = m.active /\ base.inactive = i
       /\ base.owner = [m.owner EXCEPT ![w] = g]
  BY DEF Models
<1>. HIDE DEF base
<1>3. r.active = base.active /\ r.inactive = base.inactive /\ r.owner = base.owner
  BY <1>1, <1>2 DEF Flagged
<1>. HIDE DEF r
<1>4. \A v \in Windows : r.owner[v] = IF v = w THEN g ELSE m.owner[v]
  BY <1>2a, <1>3 DEF Models
<1>5. \A id : find_set(r, id) => find_set(m, id) \/ id = g
  BY <1>1a, <1>2a, <1>3 DEF find_set
<1>. QED  BY <1>2a, <1>3, <1>4, <1>5 DEF r

\* enable() looks at a window.
LEMMA RestoreWindowQuiet ==
    ASSUME Inv, QuietInv, NEW w \in Windows, RestoreWindow(w)
    PROVE  QuietInv'
<1>. DEFINE k == out[w]
            m == models[k]
            g == group[w]
            r == restore_window(m, w, g, w \in minimized, w \in hid, next_id)
<1>0. /\ phase = "restoring" /\ phase' = phase
      /\ w \in todo /\ w \in open
      /\ models' = [models EXCEPT ![k] = r]
      /\ UNCHANGED <<unfinished, restored, open, out, group>>
  BY DEF RestoreWindow, singularity_stage_get_group, Inv, TypeOK, compositorVars
<1>1. k \in Monitors /\ m \in Models /\ g \in Ids \cup {NoSet}
  BY DEF Inv, TypeOK
<1>2. ~contains(m, w)
  BY <1>0 DEF Inv, Placed, known
<1>3. /\ \A j \in Monitors \ {k} : models'[j] = models[j]
      /\ models'[k] = r
  BY <1>0, <1>1 DEF Inv, TypeOK
<1>4. TagsTogether' /\ QuietWhileDown' /\ OneSetPerId
  BY <1>0 DEF QuietInv, TagsTogether
<1>5. OneSetPerId' /\ AsTagged'
  <2>1. CASE ~restored
    <3>1. g = NoSet
      BY <1>0, <2>1 DEF Inv, HiddenGrouped
    <3>2. \A id : find_set(r, id) => find_set(m, id) \/ id = next_id
      <4>1. r = Flagged(add_window(m, w, next_id), w, w \in minimized, w \in hid)
        BY <3>1, <1>2 DEF restore_window, NoSet
      <4>2. /\ r.active = add_window(m, w, next_id).active
            /\ r.inactive = add_window(m, w, next_id).inactive
        <5>. DEFINE b == add_window(m, w, next_id)
        <5>1. b = [active |-> b.active, inactive |-> b.inactive,
                   owner |-> b.owner, hidden |-> b.hidden,
                   user_minimized |-> b.user_minimized]
          BY <1>1 DEF add_window, Models
        <5>. HIDE DEF b, r
        <5>2. r = Flagged(b, w, w \in minimized, w \in hid)
          BY <4>1 DEF b
        <5>3. r.active = b.active /\ r.inactive = b.inactive
          BY <5>1, <5>2 DEF Flagged
        <5>. QED  BY <5>3 DEF b
      <4>. HIDE DEF r
      <4>3. \A id : find_set(add_window(m, w, next_id), id)
                      => find_set(m, id) \/ id = next_id
        BY <1>1, SetsGrow
      <4>. QED  BY <4>2, <4>3 DEF find_set
    <3>3. next_id >= next_id
      BY DEF Inv, TypeOK
    <3>. HIDE DEF r
    <3>4. OneSetPerId'
      BY <1>1, <1>3, <1>4, <3>2, <3>3, OneSetKept
    <3>. QED  BY <3>4, <2>1, <1>0 DEF AsTagged
  <2>2. CASE restored
    <3>1. g \in Ids
      BY <1>0, <1>1, <2>2 DEF QuietInv, AsTagged
    <3>2. /\ r.active = m.active
          /\ \A v \in Windows : r.owner[v] = IF v = w THEN g ELSE m.owner[v]
          /\ \A id : find_set(r, id) => find_set(m, id) \/ id = g
      BY <1>1, <1>2, <3>1, RestoreTagged
    <3>. HIDE DEF r
    <3>3. ASSUME NEW j \in Monitors, find_set(models[j], g) PROVE j = k
      <4>1. j \in plugged /\ unfinished = plugged
        BY <1>0, <3>3, NewModelLemma DEF Inv, Placed
      <4>2. models[j].active = NoSet /\ g \in models[j].inactive
        BY <4>1, <3>3, <1>0, <2>2 DEF QuietInv, AsTagged, find_set
      <4>3. PICK v \in Windows : models[j].owner[v] = g
        BY <4>2 DEF Inv, SetsWellFormed, WellFormed, windows
      <4>4. v \in all_windows(models[j])
        BY <4>3, <3>1, MaxIdAssumption DEF all_windows, contains, NoSet, Ids
      <4>5. out[v] = j /\ v \in open /\ group[v] = g
        BY <4>3, <4>4, <1>0, <2>2 DEF Inv, SetsWellFormed, Placed, QuietInv, AsTagged
      <4>6. g # NoSet
        BY <3>1, MaxIdAssumption DEF NoSet, Ids
      <4>. QED  BY <4>5, <4>6, <1>0 DEF QuietInv, TagsTogether
    <3>4. OneSetPerId'
      BY <1>1, <1>3, <1>4, <3>2, <3>3 DEF OneSetPerId
    <3>5. \A j \in unfinished : models'[j].active = NoSet
      BY <1>0, <1>3, <2>2, <3>2 DEF QuietInv, AsTagged, Inv, TypeOK
    <3>6. \A j \in Monitors : \A v \in all_windows(models'[j]) :
             models'[j].owner[v] = group[v]
      <4>. SUFFICES ASSUME NEW j \in Monitors, NEW v \in Windows,
                           contains(models'[j], v)
                    PROVE  models'[j].owner[v] = group[v]
        BY DEF all_windows
      <4>1. CASE j = k /\ v = w
        BY <4>1, <1>3, <3>2
      <4>2. CASE j = k /\ v # w
        <5>1. models'[j].owner[v] = m.owner[v]
          BY <4>2, <1>3, <3>2
        <5>. QED  BY <4>2, <5>1, <1>0, <1>1, <2>2 DEF contains, all_windows, QuietInv, AsTagged
      <4>3. CASE j # k
        BY <4>3, <1>0, <1>3, <2>2 DEF all_windows, QuietInv, AsTagged
      <4>. QED  BY <4>1, <4>2, <4>3
    <3>7. \A v \in open : group[v] # NoSet
      BY <1>0, <2>2 DEF QuietInv, AsTagged
    <3>8. AsTagged'
      BY <1>0, <3>5, <3>6, <3>7 DEF AsTagged
    <3>. QED  BY <3>4, <3>8
  <2>. QED  BY <2>1, <2>2
<1>. QED  BY <1>0, <1>4, <1>5 DEF QuietInv, GroupsNotMixed, AllOrNone, TagsOld

\* enable() finishes a monitor, with the sets it has or new ones.
LEMMA FinishedQuiet ==
    ASSUME Inv, Inv', QuietInv, NEW k \in Monitors, Finished(k),
           NEW r, models' = [models EXCEPT ![k] = r], out' = out,
           restored => r.owner = models[k].owner,
           \A id \in Ids : find_set(r, id)
              => find_set(models[k], id) \/ id >= next_id
    PROVE  QuietInv'
<1>1. QuietWhileDown /\ OneSetPerId
  BY DEF QuietInv
<1>2. /\ models'[k] = r
      /\ \A j \in Monitors \ {k} : models'[j] = models[j]
  BY DEF Inv, TypeOK
<1>3. OneSetPerId'
  BY <1>1, <1>2, OneSetKept
<1>4. CASE phase' = "on" /\ sync_tags
  BY <1>1, <1>3, <1>4, TagsSynced
<1>5. CASE UNCHANGED <<phase, group>>
  <2>1. /\ phase = "restoring" /\ phase' = "restoring" /\ restored' = restored
        /\ unfinished' = unfinished \ {k} /\ open' = open /\ group' = group
    BY <1>5 DEF Finished
  <2>2. TagsTogether'
    BY <2>1 DEF QuietInv, TagsTogether
  <2>3. AsTagged'
    <3>. SUFFICES ASSUME restored
                  PROVE  /\ \A w \in open : group[w] # NoSet
                         /\ \A j \in Monitors : \A w \in all_windows(models'[j]) :
                               models'[j].owner[w] = group[w]
                         /\ \A j \in unfinished' : models'[j].active = NoSet
      BY <2>1 DEF AsTagged
    <3>1. \A j \in Monitors : /\ models'[j].owner = models[j].owner
                              /\ all_windows(models'[j]) = all_windows(models[j])
      BY <1>2 DEF all_windows, contains
    <3>2. unfinished \subseteq Monitors
      BY DEF Inv, TypeOK
    <3>. QED  BY <3>1, <3>2, <2>1, <1>2 DEF QuietInv, AsTagged
  <2>. QED  BY <1>1, <1>3, <2>1, <2>2, <2>3 DEF QuietInv, GroupsNotMixed, AllOrNone, TagsOld
<1>. QED  BY <1>4, <1>5 DEF Finished

\* What enable() restored it leaves in the same sets.
LEMMA FinishRestoredOwner ==
    ASSUME Inv, QuietInv, NEW k \in Monitors, FinishRestored(k)
    PROVE  /\ restored /\ Finished(k) /\ out' = out
           /\ \E r : /\ models' = [models EXCEPT ![k] = r]
                     /\ r.owner = models[k].owner
                     /\ \A id : find_set(r, id)
                           => find_set(models[k], id) \/ id = next_id
<1>1. PICK wanted \in wanted_sets(models[k], saved[k]) :
         Apply(k, restore_finish(models[k], wanted, next_id))
  BY DEF FinishRestored
<1>. DEFINE m == models[k]
            p == restore_finish(m, wanted, next_id)
            r == p.model
<1>2. /\ restored /\ Finished(k) /\ out' = out
      /\ phase = "restoring" /\ k \in unfinished
      /\ models' = [models EXCEPT ![k] = r]
  BY <1>1 DEF FinishRestored, Apply, Finished
<1>3. m \in Models /\ WellFormed(m) /\ m.active = NoSet
  BY <1>2 DEF Inv, TypeOK, SetsWellFormed, QuietInv, AsTagged
<1>4. \/ wanted = NoSet /\ m.active = NoSet /\ m.inactive = {}
      \/ wanted \in Ids /\ find_set(m, wanted)
  BY <1>3, WantedSets
<1>5. windows(m, m.active) = {}
  BY <1>3 DEF windows
<1>6. r.owner = m.owner
  BY <1>3, <1>5 DEF restore_finish, Plan, Models
<1>7. \A id : find_set(r, id) => find_set(m, id) \/ id = next_id
  <2>1. r.active \in {wanted, next_id} /\ r.inactive \subseteq m.inactive
        /\ (r.active = wanted => wanted # NoSet \/ wanted = next_id)
    BY DEF restore_finish, Plan
  <2>. HIDE DEF r, p
  <2>. QED  BY <1>4, <2>1 DEF find_set
<1>. QED  BY <1>2, <1>6, <1>7

\* The end of a restore gives no window another group.
LEMMA FinishRestoredQuiet ==
    ASSUME Inv, Inv', QuietInv, NEW k \in Monitors, FinishRestored(k)
    PROVE  QuietInv'
<1>1. PICK r : /\ models' = [models EXCEPT ![k] = r]
               /\ r.owner = models[k].owner
               /\ \A id : find_set(r, id)
                     => find_set(models[k], id) \/ id = next_id
  BY FinishRestoredOwner
<1>2. Finished(k) /\ out' = out
  BY FinishRestoredOwner
<1>3. next_id >= next_id
  BY DEF Inv, TypeOK
<1>. QED  BY <1>1, <1>2, <1>3, FinishedQuiet

\* The windows of the first group are split by application.
LEMMA FinishSplitQuiet ==
    ASSUME Inv, Inv', QuietInv, NEW k \in Monitors, FinishSplit(k)
    PROVE  QuietInv'
<1>. DEFINE m == models[k]
            staged == windows(m, m.active)
<1>1. m \in Models /\ Finished(k) /\ ~restored
  BY DEF Inv, TypeOK, FinishSplit
<1>2. CASE Apply(k, Plan(m, {}, {}))
  <2>1. models' = [models EXCEPT ![k] = m] /\ out' = out
    BY <1>2 DEF Apply, Plan
  <2>. QED  BY <1>1, <2>1, FinishedQuiet
<1>3. ASSUME NEW first \in staged, NEW top \in next_id..(MaxId + 1),
             NEW as \in [{App[w] : w \in staged} \ {App[first]}
                            -> next_id..(top - 1)],
             Apply(k, split_by_app(m, App[first], as))
      PROVE  QuietInv'
  <2>. DEFINE r == split_by_app(m, App[first], as).model
              leave == {w \in staged : App[w] # App[first]}
  <2>1. models' = [models EXCEPT ![k] = r] /\ out' = out
    BY <1>3 DEF Apply
  <2>2. /\ r.active = m.active
        /\ r.inactive = m.inactive \cup {as[App[w]] : w \in leave}
    BY <1>1 DEF split_by_app, Plan, Models
  <2>3. \A w \in leave : as[App[w]] \in next_id..(top - 1)
    OBVIOUS
  <2>. HIDE DEF r, leave
  <2>4. ASSUME NEW id \in Ids, find_set(r, id)
        PROVE  find_set(m, id) \/ id >= next_id
    <3>1. CASE id = m.active \/ id \in m.inactive
      BY <3>1, <2>4 DEF find_set
    <3>2. ASSUME NEW w \in leave, id = as[App[w]] PROVE id >= next_id
      <4>1. id \in next_id..(top - 1)
        BY <2>3, <3>2
      <4>. QED  BY <4>1, MaxIdAssumption DEF Inv, TypeOK
    <3>. QED  BY <3>1, <3>2, <2>2, <2>4 DEF find_set
  <2>. QED  BY <1>1, <2>1, <2>4, FinishedQuiet
<1>. QED  BY <1>2, <1>3 DEF FinishSplit

\* The sets and the windows of a model that adopted those of another.
LEMMA AdoptOwners ==
    ASSUME NEW m \in Models, WellFormed(m), NEW o \in Models, WellFormed(o),
           all_windows(m) \cap all_windows(o) = {}, NEW f
    PROVE  LET r == adopt(m, o, f)
           IN  /\ \A w \in all_windows(m) : r.owner[w] = m.owner[w]
               /\ \A w \in Windows :
                     o.owner[w] \in o.inactive => r.owner[w] = o.owner[w]
               /\ \A id : find_set(r, id)
                     => find_set(m, id) \/ id \in o.inactive \/ id = f
<1>. DEFINE guests == windows(o, o.active)
            a == IF m.active = NoSet /\ guests # {} THEN f ELSE m.active
            moved == {s \in o.inactive : windows(o, s) # {}}
            r == adopt(m, o, f)
<1>1. moved = o.inactive
  BY DEF WellFormed
<1>2. r.active = a /\ r.inactive = m.inactive \cup o.inactive
  BY <1>1 DEF adopt
<1>3. r.owner = [w \in Windows |->
                   CASE w \in guests             -> a
                     [] o.owner[w] \in o.inactive -> o.owner[w]
                     [] OTHER                    -> m.owner[w]]
  BY <1>1 DEF adopt
<1>4. \A w \in Windows : w \in guests => contains(o, w) /\ o.owner[w] \notin o.inactive
  BY DEF windows, contains, WellFormed
<1>5. \A w \in Windows : o.owner[w] \in o.inactive => contains(o, w)
  BY MaxIdAssumption DEF contains, Models, Ids, NoSet
<1>6. \A w \in all_windows(m) :
         w \in Windows /\ w \notin guests /\ o.owner[w] \notin o.inactive
  BY <1>4, <1>5 DEF all_windows
<1>7. \A id : find_set(r, id) => find_set(m, id) \/ id \in o.inactive \/ id = f
  BY <1>2 DEF find_set
<1>. HIDE DEF r, guests, a
<1>. QED  BY <1>3, <1>4, <1>6, <1>7 DEF r

\* A monitor goes away, and the numbers of its windows are left as they are.
LEMMA UnpluggedQuiet ==
    ASSUME Inv, Inv', QuietInv, NEW k \in Monitors, NEW t \in Monitors,
           MonitorUnplugged(k, t)
    PROVE  QuietInv'
<1>. DEFINE m == models[t]
            o == models[k]
            r == adopt(m, o, next_id)
<1>0. /\ phase # "restoring" /\ phase' = phase /\ k # t
      /\ models' = [models EXCEPT ![t] = r, ![k] = NewModel]
      /\ out' = [w \in Windows |-> IF out[w] = k THEN t ELSE out[w]]
      /\ UNCHANGED <<open, group>>
  BY DEF MonitorUnplugged, Inv, TypeOK
<1>1. \A w \in open : w \in Windows
                      /\ out'[w] = IF out[w] = k THEN t ELSE out[w]
  BY <1>0 DEF Inv, TypeOK
<1>2. QuietWhileDown /\ TagsTogether' /\ AllOrNone'
  BY <1>0, <1>1 DEF QuietInv, TagsTogether, AllOrNone
<1>3. CASE phase = "off"
  BY <1>0, <1>2, <1>3, OffQuiet
<1>4. CASE phase = "down"
  BY <1>0, <1>2, <1>4, DownQuiet
<1>5. CASE phase = "on"
  <2>1. /\ m \in Models /\ WellFormed(m) /\ o \in Models /\ WellFormed(o)
        /\ all_windows(m) \cap all_windows(o) = {}
    BY <1>0 DEF Inv, TypeOK, SetsWellFormed
  <2>2. /\ \A w \in all_windows(m) : r.owner[w] = m.owner[w]
        /\ \A w \in Windows :
              o.owner[w] \in o.inactive => r.owner[w] = o.owner[w]
        /\ \A id : find_set(r, id)
              => find_set(m, id) \/ id \in o.inactive \/ id = next_id
    BY <2>1, AdoptOwners
  <2>. HIDE DEF r
  <2>3. /\ models'[t] = r /\ models'[k] = NewModel
        /\ \A j \in Monitors \ {t, k} : models'[j] = models[j]
    BY <1>0 DEF Inv, TypeOK
  <2>4. next_id \in Int /\ next_id' \in Int /\ next_id <= next_id'
    <3>1. next_id' = next_id + 1 \/ next_id' = next_id
      BY DEF MonitorUnplugged, NewSetIf
    <3>. QED  BY <3>1 DEF Inv, TypeOK
  <2>5. ASSUME NEW j \in Monitors, NEW id \in Ids, find_set(models'[j], id)
        PROVE  /\ j # k
               /\ \/ find_set(models[j], id)
                  \/ j = t /\ id \in o.inactive /\ find_set(o, id)
                  \/ j = t /\ id = next_id
    <3>1. j # k
      BY <2>3, <2>5, NewModelLemma
    <3>2. id # NoSet
      BY MaxIdAssumption DEF Ids, NoSet
    <3>. QED  BY <2>2, <2>3, <2>5, <3>1, <3>2 DEF find_set
  <2>6. \A j \in Monitors, id \in Ids : find_set(models[j], id) => id # next_id
    BY <2>4, MaxIdAssumption DEF Inv, FreshIds, Ids
  <2>7. OneSetPerId'
    <3>. SUFFICES ASSUME NEW i \in Monitors, NEW j \in Monitors, NEW id \in Ids,
                         find_set(models'[i], id), find_set(models'[j], id)
                  PROVE  i = j
      BY DEF OneSetPerId
    <3>1. /\ i # k /\ j # k
          /\ find_set(models[i], id) \/ (i = t /\ (find_set(o, id) \/ id = next_id))
          /\ find_set(models[j], id) \/ (j = t /\ (find_set(o, id) \/ id = next_id))
      BY <2>5
    <3>. QED  BY <3>1, <2>6 DEF QuietInv, OneSetPerId
  <2>8. TagsOld' /\ AsTagged'
    <3>1. ASSUME NEW w \in open PROVE group[w] < next_id'
      <4>1. group[w] < next_id /\ group[w] \in Int
        BY <1>1, <1>5, MaxIdAssumption DEF QuietInv, TagsOld, Inv, TypeOK, Ids, NoSet
      <4>. QED  BY <4>1, <2>4
    <3>. QED  BY <3>1, <1>0, <1>5 DEF TagsOld, AsTagged
  <2>9. GroupsNotMixed'
    <3>. SUFFICES ASSUME NEW w \in known', NEW j \in Monitors,
                         find_set(models'[j], group[w])
                  PROVE  j = out'[w] /\ models'[j].owner[w] = group[w]
      BY <1>0 DEF GroupsNotMixed
    <3>1. w \in open /\ w \in Windows /\ w \in known
      BY <1>0, <1>5 DEF Inv, Placed, TypeOK
    <3>2. group[w] \in Ids /\ group[w] # next_id
      <4>1. group[w] \in Ids
        BY <3>1 DEF Inv, TypeOK, find_set
      <4>2. group[w] < next_id
        BY <3>1, <1>5 DEF QuietInv, TagsOld
      <4>. QED  BY <4>1, <4>2, <2>4, MaxIdAssumption DEF Ids
    <3>3. \A i \in Monitors : find_set(models[i], group[w])
             => i = out[w] /\ models[i].owner[w] = group[w]
      BY <3>1, <1>5 DEF QuietInv, GroupsNotMixed
    <3>4. CASE find_set(models[j], group[w])
      <4>1. j # k /\ j = out[w] /\ models[j].owner[w] = group[w]
        BY <2>5, <3>2, <3>3, <3>4
      <4>2. out'[w] = j
        BY <4>1, <3>1, <1>1
      <4>3. models'[j].owner[w] = models[j].owner[w]
        <5>1. w \in all_windows(models[j])
          BY <3>1, <4>1 DEF known, all_windows
        <5>. QED  BY <5>1, <4>1, <2>2, <2>3
      <4>. QED  BY <4>1, <4>2, <4>3
    <3>5. CASE j = t /\ group[w] \in o.inactive /\ find_set(o, group[w])
      <4>1. out[w] = k /\ o.owner[w] = group[w]
        BY <3>3, <3>5
      <4>. QED  BY <4>1, <3>1, <3>5, <1>1, <2>2, <2>3
    <3>. QED  BY <3>2, <3>4, <3>5, <2>5
  <2>. QED  BY <1>2, <2>7, <2>8, <2>9 DEF QuietInv
<1>. QED  BY <1>3, <1>4, <1>5, <1>0 DEF Inv, TypeOK

\* Every step keeps QuietInv.
LEMMA NextQuiet == Inv /\ Inv' /\ QuietInv /\ [Next]_vars => QuietInv'
<1>. SUFFICES ASSUME Inv, Inv', QuietInv, [Next]_vars PROVE QuietInv'
  OBVIOUS
<1>1. CASE enable \/ disable \/ StartOff \/ ShellEnds \/ save_state
  BY <1>1, EnableQuiet, SwitchQuiet, SaveQuiet
<1>2. ASSUME NEW w \in Windows,
             \/ RestoreWindow(w)
             \/ on_window_opened(w)
             \/ on_window_closed(w)
             \/ UserMinimizes(w)
             \/ UserRestores(w)
      PROVE  QuietInv'
  BY <1>2, RestoreWindowQuiet, OpenedQuiet, ClosedQuiet, UserMinimizesQuiet,
     UserRestoresQuiet
<1>3. ASSUME NEW w \in Windows, NEW k \in Monitors, WindowMoves(w, k)
      PROVE  QuietInv'
  BY <1>3, WindowMovesQuiet
<1>4. ASSUME NEW w \in Windows, NEW id \in Ids \cup {NoSet},
             MoveWindow(w, id)
      PROVE  QuietInv'
  BY <1>4, MoveWindowQuiet
<1>5. ASSUME NEW k \in Monitors,
             FinishRestored(k) \/ FinishSplit(k) \/ MonitorPlugged(k)
      PROVE  QuietInv'
  BY <1>5, FinishRestoredQuiet, FinishSplitQuiet, SaveQuiet
<1>6. ASSUME NEW k \in Monitors, NEW id \in Ids, Activate(k, id)
      PROVE  QuietInv'
  BY <1>6, ActivateQuiet
<1>7. ASSUME NEW k \in Monitors, NEW t \in Monitors, MonitorUnplugged(k, t)
      PROVE  QuietInv'
  BY <1>7, UnpluggedQuiet
<1>8. CASE UNCHANGED vars
  <2>1. /\ UNCHANGED <<phase, models, next_id, todo, unfinished, restored>>
        /\ UNCHANGED <<plugged, open, out, minimized, hid, group>>
    BY <1>8 DEF vars, managerVars, compositorVars
  <2>2. known' = known
    BY <2>1 DEF known
  <2>3. OneSetPerId' /\ GroupsNotMixed'
    BY <2>1, <2>2 DEF QuietInv, OneSetPerId, GroupsNotMixed
  <2>4. TagsTogether' /\ AllOrNone' /\ TagsOld' /\ AsTagged'
    BY <2>1 DEF QuietInv, TagsTogether, AllOrNone, TagsOld, AsTagged
  <2>. QED  BY <2>3, <2>4 DEF QuietInv
<1>. QED  BY <1>1, <1>2, <1>3, <1>4, <1>5, <1>6, <1>7, <1>8 DEF Next

\* A session without windows satisfies it.
LEMMA InitQuiet == Init /\ QuietWhileDown => QuietInv
<1>. SUFFICES ASSUME Init, QuietWhileDown PROVE QuietInv
  OBVIOUS
<1>1. \A k \in Monitors : models[k] = NewModel
  BY DEF Init, NoModels
<1>2. known = {} /\ open = {} /\ phase # "restoring" /\ phase # "down"
  BY <1>1, InitInv DEF Init, Inv, TypeOK
<1>3. OneSetPerId
  BY <1>1, NewModelLemma DEF OneSetPerId
<1>. QED  BY <1>2, <1>3 DEF QuietInv, GroupsNotMixed, TagsTogether, AllOrNone,
     TagsOld, AsTagged

\* Inv and QuietInv together are inductive.
THEOREM QuietInvariance == Spec /\ QuietWhileDown => [](Inv /\ QuietInv)
<1>1. Init /\ QuietWhileDown => Inv /\ QuietInv
  BY InitInv, InitQuiet
<1>2. Inv /\ QuietInv /\ [Next]_vars => (Inv /\ QuietInv)'
  BY NextInv, NextQuiet
<1>. QED  BY <1>1, <1>2, PTL DEF Spec

\* A set id names one set of one monitor, for any windows and monitors, when
\* no window opens or moves during a restart: monitor_of_set() may stop at
\* the first monitor it finds.
THEOREM OneSetPerIdAlways == Spec /\ QuietWhileDown => []OneSetPerId
BY QuietInvariance, PTL DEF QuietInv

\* No number the compositor keeps for a window names a live set that the
\* window is not in, although sync_monitors() does not call sync_tags().
THEOREM GroupsNotMixedAlways == Spec /\ QuietWhileDown => []GroupsNotMixed
BY QuietInvariance, PTL DEF QuietInv

\* enable() puts no window that has a group into another one.
THEOREM RestartKeepsGroups == Spec /\ QuietWhileDown => GroupsKept
<1>. DEFINE Kept == \A w \in Windows :
                       /\ group[w] # NoSet
                       /\ phase = "restoring"
                       => group'[w] = group[w]
<1>1. Inv /\ Inv' /\ QuietInv /\ [Next]_vars => [Kept]_vars
  <2>. SUFFICES ASSUME Inv, Inv', QuietInv, Next,
                       NEW w \in Windows, group[w] # NoSet,
                       phase = "restoring"
                PROVE  group'[w] = group[w]
    OBVIOUS
  <2>1. w \in open /\ restored
    BY DEF Inv, HiddenGrouped
  <2>2. CASE group' = group
    BY <2>2
  <2>3. ASSUME NEW k \in Monitors, FinishRestored(k), sync_tags
        PROVE  group'[w] = group[w]
    <3>1. PICK r : /\ models' = [models EXCEPT ![k] = r]
                   /\ r.owner = models[k].owner
      BY <2>3, FinishRestoredOwner
    <3>2. out' = out /\ out[w] \in Monitors
      BY <2>3, FinishRestoredOwner DEF Inv, TypeOK
    <3>3. models'[out[w]].owner = models[out[w]].owner
      BY <3>1, <3>2 DEF Inv, TypeOK
    <3>4. contains(models[out[w]], w) => models[out[w]].owner[w] = group[w]
      BY <2>1, <3>2 DEF QuietInv, AsTagged, all_windows
    <3>5. group'[w] = IF contains(models'[out[w]], w)
                      THEN models'[out[w]].owner[w] ELSE group[w]
      BY <2>3, <3>2 DEF sync_tags, singularity_stage_set_group
    <3>. QED  BY <3>3, <3>4, <3>5 DEF contains
  <2>4. ASSUME NEW v \in Windows, RestoreWindow(v) PROVE group' = group
    BY <2>4 DEF RestoreWindow, compositorVars
  <2>5. ASSUME NEW k \in Monitors, FinishRestored(k)
        PROVE  group' = group \/ sync_tags
    BY <2>5 DEF FinishRestored, Finished
  <2>6. \A k \in Monitors : ~FinishSplit(k) /\ ~MonitorPlugged(k)
    BY <2>1 DEF FinishSplit, MonitorPlugged
  <2>7. ~enable /\ ~disable /\ ~StartOff /\ ~ShellEnds /\ ~save_state
    BY DEF enable, disable, StartOff, ShellEnds, save_state
  <2>8. \A v \in Windows :
           /\ ~on_window_opened(v) /\ ~on_window_closed(v)
           /\ ~UserMinimizes(v) /\ ~UserRestores(v)
           /\ \A k \in Monitors : ~WindowMoves(v, k)
           /\ \A id \in Ids \cup {NoSet} : ~MoveWindow(v, id)
    BY DEF on_window_opened, on_window_closed, UserMinimizes, UserRestores,
       WindowMoves, on_window_output_changed, MoveWindow
  <2>9. \A k \in Monitors : /\ \A id \in Ids : ~Activate(k, id)
                            /\ \A t \in Monitors : ~MonitorUnplugged(k, t)
    BY DEF Activate, MonitorUnplugged
  <2>. QED  BY <2>2, <2>3, <2>4, <2>5, <2>6, <2>7, <2>8, <2>9 DEF Next
<1>. QED  BY QuietInvariance, <1>1, PTL DEF Spec, GroupsKept
=============================================================================
