--------------------------- MODULE DisplaysProofs ---------------------------
(***************************************************************************)
(* Proofs about Displays, for any displays, modes and numbers of changes:  *)
(* the monitors of the display manager are the heads it was told of, and a *)
(* configuration the compositor takes covers all of its heads and no       *)
(* other, however events and configurations cross on the wire.             *)
(***************************************************************************)
EXTENDS Displays, WellFoundedInduction, TLAPS

-----------------------------------------------------------------------------
(* The invariant.                                                          *)

\* What may be on the wire.
Events ==
  [ev : {"head", "finished", "sync"}, h : Heads]
    \cup [ev : {"mode"}, h : Heads, m : Modes]
    \cup [ev : {"attributes"}, hs : SUBSET Heads, on : [Heads -> BOOLEAN], cur : [Heads -> Modes]]
    \cup [ev : {"done"}, serial : Nat]
    \cup [ev : {"answer"}, id : Configs]

Setting == [on : BOOLEAN, mode : Modes \cup {"none"}]
Requests ==
  [id : Configs, serial : Nat, heads : UNION {[S -> Setting] : S \in SUBSET Heads}]

QueuesOK == evq \in Seq(Events) /\ reqq \in Seq(Requests)

\* An event that adds a head to heads_list or takes one out of it.
IsTopo(x) == x.ev \in {"head", "finished"}

\* The shell knows the heads of the compositor, but for the events in flight:
\* the last one about a head tells whether it is there.
Told ==
  \A h \in Heads :
    /\ (\A i \in 1..Len(evq) : IsTopo(evq[i]) => evq[i].h # h) => (hd[h].known <=> h \in outs)
    /\ \A i \in 1..Len(evq) :
         /\ IsTopo(evq[i]) /\ evq[i].h = h
         /\ \A j \in (i + 1)..Len(evq) : IsTopo(evq[j]) => evq[j].h # h
         => (evq[i].ev = "head" <=> h \in outs)

\* Such an event is in a batch, whose done event has not come yet.
Batched ==
  \A i \in 1..Len(evq) : IsTopo(evq[i]) => \E j \in i..Len(evq) : evq[j].ev = "done"

\* Done events come with growing serials the shell has not seen.
DoneSerials ==
  /\ \A i \in 1..Len(evq) :
       evq[i].ev = "done" => serial < evq[i].serial /\ evq[i].serial <= cserial
  /\ \A i, j \in 1..Len(evq) :
       i < j /\ evq[i].ev = "done" /\ evq[j].ev = "done" => evq[i].serial < evq[j].serial

\* The shell cannot be ahead of the compositor.
OldSerials ==
  /\ serial <= cserial
  /\ \A i \in 1..Len(reqq) : reqq[i].serial <= cserial

Inv ==
  /\ TypeOK /\ QueuesOK
  /\ MonitorsMirrorHeads
  /\ Told /\ Batched /\ DoneSerials /\ OldSerials
  /\ ConfigCoversHeads

-----------------------------------------------------------------------------
(* Queues.                                                                 *)

\* What the fields of an event hold.
LEMMA EventFields ==
  ASSUME NEW x \in Events
  PROVE  /\ x.ev \in {"head", "finished", "sync", "mode"} => x.h \in Heads
         /\ x.ev = "mode" => x.m \in Modes
         /\ x.ev = "attributes" => x.on \in [Heads -> BOOLEAN] /\ x.cur \in [Heads -> Modes]
         /\ x.ev = "done" => x.serial \in Nat
         /\ x.ev = "answer" => x.id \in Configs
  BY DEF Events

\* The two parts of a queue that got longer.
LEMMA Joined ==
  ASSUME NEW S, NEW s \in Seq(S), NEW t \in Seq(S)
  PROVE  /\ s \o t \in Seq(S)
         /\ Len(s \o t) = Len(s) + Len(t) /\ Len(s) \in Nat /\ Len(t) \in Nat
         /\ \A i \in 1..Len(s) : (s \o t)[i] = s[i]
         /\ \A i \in 1..Len(t) : (s \o t)[Len(s) + i] = t[i]
  OBVIOUS

\* A queue after its first entry is taken.
LEMMA Taken ==
  ASSUME NEW S, NEW s \in Seq(S), s # <<>>
  PROVE  /\ Head(s) \in S /\ Head(s) = s[1] /\ Tail(s) \in Seq(S)
         /\ Len(s) \in Nat /\ Len(s) >= 1 /\ Len(Tail(s)) = Len(s) - 1
         /\ \A i \in 1..Len(Tail(s)) : Tail(s)[i] = s[i + 1]
  OBVIOUS

\* Numbers on both sides of another.
LEMMA Below ==
  ASSUME NEW x \in Nat, NEW y \in Nat, NEW z \in Nat, x <= z, y > z
  PROVE  x < y
  OBVIOUS

\* The compositor adds events: at most one about a head, which comes first and
\* tells what became of it, and at most one done event, which comes last and has
\* a new serial.
LEMMA EventsAdded ==
  ASSUME Inv, NEW b \in Seq(Events), evq' = evq \o b,
         UNCHANGED <<hd, serial>>, cserial' \in Nat, cserial <= cserial',
         \A i \in 1..Len(b) : b[i].ev = "done"
            => i = Len(b) /\ b[i].serial = cserial' /\ cserial < cserial',
         \A i \in 1..Len(b) : IsTopo(b[i])
            => i = 1 /\ b[Len(b)].ev = "done" /\ (b[1].h \in outs' <=> b[1].ev = "head"),
         \A h \in Heads : (\A i \in 1..Len(b) : IsTopo(b[i]) => b[i].h # h)
            => (h \in outs' <=> h \in outs)
  PROVE  evq' \in Seq(Events) /\ Told' /\ Batched' /\ DoneSerials'
<1> DEFINE n == Len(evq)
           k == Len(b)
<1>1. /\ evq' \in Seq(Events) /\ Len(evq') = n + k /\ n \in Nat /\ k \in Nat
      /\ \A i \in 1..n : evq'[i] = evq[i]
      /\ \A i \in 1..k : evq'[n + i] = b[i]
      /\ evq \in Seq(Events)
  BY Joined DEF Inv, QueuesOK
<1> HIDE DEF n, k
<1>2. \A j \in 1..(n + k) : j \in 1..n \/ (j - n \in 1..k /\ evq'[j] = b[j - n])
  BY <1>1
<1>3. Told'
  <2> SUFFICES ASSUME NEW h \in Heads
               PROVE  /\ (\A i \in 1..(n + k) : IsTopo(evq'[i]) => evq'[i].h # h)
                           => (hd[h].known <=> h \in outs')
                      /\ \A i \in 1..(n + k) :
                           /\ IsTopo(evq'[i]) /\ evq'[i].h = h
                           /\ \A j \in (i + 1)..(n + k) : IsTopo(evq'[j]) => evq'[j].h # h
                           => (evq'[i].ev = "head" <=> h \in outs')
    BY <1>1 DEF Told
  <2>1. CASE \A i \in 1..k : IsTopo(b[i]) => b[i].h # h
    <3>1. h \in outs' <=> h \in outs
      BY <2>1 DEF k
    <3>2. /\ (\A i \in 1..n : IsTopo(evq[i]) => evq[i].h # h) => (hd[h].known <=> h \in outs)
          /\ \A i \in 1..n :
               /\ IsTopo(evq[i]) /\ evq[i].h = h
               /\ \A j \in (i + 1)..n : IsTopo(evq[j]) => evq[j].h # h
               => (evq[i].ev = "head" <=> h \in outs)
      BY DEF Inv, Told, n
    <3>3. \A i \in 1..(n + k) : i \notin 1..n => (IsTopo(evq'[i]) => evq'[i].h # h)
      BY <1>2, <2>1
    <3>4. ASSUME \A i \in 1..(n + k) : IsTopo(evq'[i]) => evq'[i].h # h
          PROVE  hd[h].known <=> h \in outs'
      <4>1. \A i \in 1..n : IsTopo(evq[i]) => evq[i].h # h
        <5>1. \A i \in 1..n : i \in 1..(n + k)
          BY <1>1
        <5> QED BY <5>1, <3>4, <1>1
      <4> QED BY <4>1, <3>1, <3>2
    <3>5. ASSUME NEW i \in 1..(n + k), IsTopo(evq'[i]), evq'[i].h = h,
                 \A j \in (i + 1)..(n + k) : IsTopo(evq'[j]) => evq'[j].h # h
          PROVE  evq'[i].ev = "head" <=> h \in outs'
      <4>1. i \in 1..n
        BY <3>3, <3>5
      <4>2. \A j \in (i + 1)..n : j \in (i + 1)..(n + k) /\ j \in 1..n
        BY <1>1, <4>1
      <4>3. \A j \in (i + 1)..n : IsTopo(evq[j]) => evq[j].h # h
        BY <4>2, <3>5, <1>1
      <4> QED BY <4>1, <4>3, <3>1, <3>2, <3>5, <1>1
    <3> QED BY <3>4, <3>5
  <2>2. CASE \E i \in 1..k : IsTopo(b[i]) /\ b[i].h = h
    <3>1. 1 \in 1..k /\ IsTopo(b[1]) /\ b[1].h = h /\ (h \in outs' <=> b[1].ev = "head")
      BY <2>2 DEF k
    <3>2. evq'[n + 1] = b[1] /\ n + 1 \in 1..(n + k)
      BY <1>1, <3>1
    <3>3. ASSUME NEW i \in 1..(n + k), IsTopo(evq'[i]), evq'[i].h = h,
                 \A j \in (i + 1)..(n + k) : IsTopo(evq'[j]) => evq'[j].h # h
          PROVE  evq'[i].ev = "head" <=> h \in outs'
      <4>1. ~(n + 1 \in (i + 1)..(n + k))
        BY <3>1, <3>2, <3>3
      <4>2. i \notin 1..n
        BY <4>1, <3>2, <1>1
      <4>3. i - n \in 1..k /\ evq'[i] = b[i - n]
        BY <4>2, <1>2
      <4>4. i - n = 1
        BY <4>3, <3>3 DEF k
      <4> QED BY <4>3, <4>4, <3>1
    <3> QED BY <3>1, <3>2, <3>3
  <2> QED BY <2>1, <2>2
<1>4. Batched'
  <2> SUFFICES ASSUME NEW i \in 1..(n + k), IsTopo(evq'[i])
               PROVE  \E j \in i..(n + k) : evq'[j].ev = "done"
    BY <1>1 DEF Batched
  <2>1. CASE i \in 1..n
    <3>1. PICK j \in i..n : evq[j].ev = "done"
      BY <1>1, <2>1 DEF Inv, Batched, n
    <3>2. j \in i..(n + k) /\ evq'[j] = evq[j]
      BY <1>1, <2>1
    <3> QED BY <3>1, <3>2
  <2>2. CASE i \notin 1..n
    <3>1. i - n \in 1..k /\ b[k].ev = "done"
      BY <1>2, <2>2 DEF k
    <3>2. n + k \in i..(n + k) /\ evq'[n + k] = b[k]
      BY <1>1, <3>1
    <3> QED BY <3>1, <3>2
  <2> QED BY <2>1, <2>2
<1>5. DoneSerials'
  <2>1. cserial \in Nat /\ serial \in Nat /\ serial <= cserial
    BY DEF Inv, TypeOK, OldSerials
  <2>2. ASSUME NEW i \in 1..(n + k), evq'[i].ev = "done"
        PROVE  /\ serial < evq'[i].serial /\ evq'[i].serial <= cserial'
               /\ evq'[i].serial \in Nat
               /\ i \in 1..n => evq'[i].serial <= cserial
               /\ i \notin 1..n => i = n + k /\ evq'[i].serial > cserial
    <3>1. CASE i \in 1..n
      <4>1. evq[i].serial \in Nat
        BY <1>1, <2>2, <3>1, EventFields
      <4>2. serial < evq[i].serial /\ evq[i].serial <= cserial
        BY <1>1, <2>2, <3>1 DEF Inv, DoneSerials, n
      <4> QED BY <1>1, <2>1, <3>1, <4>1, <4>2, SMTT(20)
    <3>2. CASE i \notin 1..n
      <4>1. i - n \in 1..k /\ evq'[i] = b[i - n]
        BY <1>2, <3>2
      <4>2. i - n = k /\ evq'[i].serial = cserial' /\ cserial < cserial'
        BY <4>1, <2>2 DEF k
      <4> QED BY <1>1, <2>1, <3>2, <4>2
    <3> QED BY <3>1, <3>2
  <2>3. ASSUME NEW i \in 1..(n + k), NEW j \in 1..(n + k), i < j,
               evq'[i].ev = "done", evq'[j].ev = "done"
        PROVE  evq'[i].serial < evq'[j].serial
    <3>1. CASE j \in 1..n
      <4>1. i \in 1..n
        BY <1>1, <2>3, <3>1
      <4> QED BY <4>1, <2>3, <3>1, <1>1 DEF Inv, DoneSerials, n
    <3>2. CASE j \notin 1..n
      <4>1. i \in 1..n
        <5>1. n + k \in Nat
          BY <1>1
        <5>2. i # n + k
          BY <5>1, <2>3
        <5>3. i \notin 1..n => i = n + k
          BY <2>2, <2>3
        <5> QED BY <5>2, <5>3
      <4>2. evq'[i].serial \in Nat /\ evq'[i].serial <= cserial
        BY <4>1, <2>2, <2>3
      <4>3. evq'[j].serial \in Nat /\ evq'[j].serial > cserial
        BY <2>2, <2>3, <3>2
      <4> QED BY <4>2, <4>3, <2>1, Below, Zenon
    <3> QED BY <3>1, <3>2
  <2> QED BY <2>2, <2>3, <1>1 DEF DoneSerials
<1> QED BY <1>1, <1>3, <1>4, <1>5

\* The shell takes an event: one that adds or removes a head is taken into
\* account, done brings its serial.
LEMMA EventTaken ==
  ASSUME Inv, evq # <<>>, evq' = Tail(evq), UNCHANGED <<outs, cserial>>,
         serial' = (IF Head(evq).ev = "done" THEN Head(evq).serial ELSE serial),
         \A h \in Heads :
           hd'[h].known <=> IF IsTopo(Head(evq)) /\ Head(evq).h = h
                            THEN Head(evq).ev = "head" ELSE hd[h].known
  PROVE  /\ evq' \in Seq(Events) /\ Told' /\ Batched' /\ DoneSerials'
         /\ serial' \in Nat /\ serial' <= cserial
<1> DEFINE n == Len(evq)
<1>1. /\ evq' \in Seq(Events) /\ Len(evq') = n - 1 /\ n \in Nat /\ n >= 1
      /\ \A i \in 1..(n - 1) : evq'[i] = evq[i + 1]
      /\ evq \in Seq(Events) /\ Head(evq) = evq[1] /\ Head(evq) \in Events
  BY Taken DEF Inv, QueuesOK
<1> HIDE DEF n
<1>2. \A i \in 1..(n - 1) : i + 1 \in 1..n
  BY <1>1
<1>3. Told'
  <2> SUFFICES ASSUME NEW h \in Heads
               PROVE  /\ (\A i \in 1..(n - 1) : IsTopo(evq'[i]) => evq'[i].h # h)
                           => (hd'[h].known <=> h \in outs)
                      /\ \A i \in 1..(n - 1) :
                           /\ IsTopo(evq'[i]) /\ evq'[i].h = h
                           /\ \A j \in (i + 1)..(n - 1) : IsTopo(evq'[j]) => evq'[j].h # h
                           => (evq'[i].ev = "head" <=> h \in outs)
    BY <1>1 DEF Told
  <2>1. /\ (\A i \in 1..n : IsTopo(evq[i]) => evq[i].h # h) => (hd[h].known <=> h \in outs)
        /\ \A i \in 1..n :
             /\ IsTopo(evq[i]) /\ evq[i].h = h
             /\ \A j \in (i + 1)..n : IsTopo(evq[j]) => evq[j].h # h
             => (evq[i].ev = "head" <=> h \in outs)
    BY DEF Inv, Told, n
  <2>2. ASSUME \A i \in 1..(n - 1) : IsTopo(evq'[i]) => evq'[i].h # h
        PROVE  hd'[h].known <=> h \in outs
    <3>1. \A i \in 2..n : IsTopo(evq[i]) => evq[i].h # h
      <4>1. \A i \in 2..n : i - 1 \in 1..(n - 1) /\ (i - 1) + 1 = i
        BY <1>1
      <4>2. \A i \in 2..n : evq'[i - 1] = evq[i]
        BY <1>1, <4>1
      <4> QED BY <4>1, <4>2, <2>2
    <3>2. CASE IsTopo(evq[1]) /\ evq[1].h = h
      <4>1. 1 \in 1..n /\ 1 + 1 = 2
        BY <1>1
      <4>2. evq[1].ev = "head" <=> h \in outs
        BY <2>1, <3>1, <3>2, <4>1
      <4> QED BY <4>2, <3>2, <1>1
    <3>3. CASE ~(IsTopo(evq[1]) /\ evq[1].h = h)
      <4>1. \A i \in 1..n : i = 1 \/ i \in 2..n
        BY <1>1
      <4>2. \A i \in 1..n : IsTopo(evq[i]) => evq[i].h # h
        BY <4>1, <3>1, <3>3
      <4> QED BY <4>2, <3>3, <2>1, <1>1
    <3> QED BY <3>2, <3>3
  <2>3. ASSUME NEW i \in 1..(n - 1), IsTopo(evq'[i]), evq'[i].h = h,
               \A j \in (i + 1)..(n - 1) : IsTopo(evq'[j]) => evq'[j].h # h
        PROVE  evq'[i].ev = "head" <=> h \in outs
    <3>1. i + 1 \in 1..n /\ evq'[i] = evq[i + 1]
      BY <1>1, <1>2
    <3>2. \A j \in ((i + 1) + 1)..n : j - 1 \in (i + 1)..(n - 1) /\ j - 1 \in 1..(n - 1) /\ (j - 1) + 1 = j
      BY <1>1
    <3>3. \A j \in ((i + 1) + 1)..n : evq'[j - 1] = evq[j]
      BY <1>1, <3>2
    <3>4. \A j \in ((i + 1) + 1)..n : IsTopo(evq[j]) => evq[j].h # h
      BY <3>2, <3>3, <2>3
    <3> QED BY <3>1, <3>4, <2>1, <2>3
  <2> QED BY <2>2, <2>3
<1>4. Batched'
  <2> SUFFICES ASSUME NEW i \in 1..(n - 1), IsTopo(evq'[i])
               PROVE  \E j \in i..(n - 1) : evq'[j].ev = "done"
    BY <1>1 DEF Batched
  <2>1. PICK j \in (i + 1)..n : evq[j].ev = "done"
    BY <1>1, <1>2 DEF Inv, Batched, n
  <2>2. j - 1 \in i..(n - 1) /\ j - 1 \in 1..(n - 1) /\ (j - 1) + 1 = j
    BY <1>1
  <2>3. evq'[j - 1] = evq[j]
    BY <1>1, <2>2
  <2> QED BY <2>1, <2>2, <2>3
<1>5. DoneSerials' /\ serial' \in Nat /\ serial' <= cserial
  <2>1. cserial \in Nat /\ serial \in Nat /\ serial <= cserial
    BY DEF Inv, TypeOK, OldSerials
  <2>2. /\ \A i \in 1..n : evq[i].ev = "done" => serial < evq[i].serial /\ evq[i].serial <= cserial
        /\ \A i, j \in 1..n : i < j /\ evq[i].ev = "done" /\ evq[j].ev = "done"
             => evq[i].serial < evq[j].serial
    BY DEF Inv, DoneSerials, n
  <2>3. 1 \in 1..n /\ \A i \in 1..(n - 1) : 1 < i + 1
    BY <1>1
  <2>4. serial' \in Nat /\ serial' <= cserial
    <3>1. CASE evq[1].ev = "done"
      BY <3>1, <1>1, <2>2, <2>3, EventFields
    <3>2. CASE evq[1].ev # "done"
      BY <3>2, <1>1, <2>1
    <3> QED BY <3>1, <3>2
  <2>5. ASSUME NEW i \in 1..(n - 1), evq'[i].ev = "done"
        PROVE  serial' < evq'[i].serial /\ evq'[i].serial <= cserial
    <3>1. evq'[i] = evq[i + 1] /\ i + 1 \in 1..n /\ evq[i + 1].ev = "done"
      BY <1>1, <1>2, <2>5
    <3>2. serial < evq[i + 1].serial /\ evq[i + 1].serial <= cserial
      BY <3>1, <2>2
    <3>3. CASE evq[1].ev = "done"
      <4>1. evq[1].serial < evq[i + 1].serial
        BY <3>1, <3>3, <2>2, <2>3
      <4> QED BY <4>1, <3>1, <3>2, <3>3, <1>1
    <3>4. CASE evq[1].ev # "done"
      BY <3>4, <3>1, <3>2, <1>1
    <3> QED BY <3>3, <3>4
  <2>6. ASSUME NEW i \in 1..(n - 1), NEW j \in 1..(n - 1), i < j,
               evq'[i].ev = "done", evq'[j].ev = "done"
        PROVE  evq'[i].serial < evq'[j].serial
    <3>1. i + 1 \in 1..n /\ j + 1 \in 1..n /\ i + 1 < j + 1
      BY <1>1, <2>6
    <3> QED BY <3>1, <2>6, <2>2, <1>1
  <2> QED BY <2>4, <2>5, <2>6, <1>1 DEF DoneSerials
<1> QED BY <1>1, <1>3, <1>4, <1>5

-----------------------------------------------------------------------------
(* What is left of the types once the heads and the queues are set aside.  *)

Rest ==
  /\ current \in Configs \cup {0} /\ live \subseteq Configs
  /\ changes \in 0..MaxChanges /\ seen \subseteq Changes
  /\ topo \in BOOLEAN /\ restore \in BOOLEAN /\ closed \in BOOLEAN
  /\ pending \in BOOLEAN /\ inhibitor \in BOOLEAN
  /\ saved \in [Heads -> SavedRecord] /\ dimmed \subseteq Heads

\* The heads on both sides.
HeadsOK ==
  /\ outs \subseteq Heads /\ on \in [Heads -> BOOLEAN] /\ cur \in [Heads -> Modes]
  /\ hd \in [Heads -> HeadRecord] /\ mon \in [Heads -> HeadRecord]
  /\ cserial \in Nat /\ serial \in Nat

\* TypeOK in these two parts.
LEMMA TypeParts == TypeOK <=> HeadsOK /\ Rest
<1>1. {topo, restore, closed, pending, inhibitor} \subseteq BOOLEAN
        <=> /\ topo \in BOOLEAN /\ restore \in BOOLEAN /\ closed \in BOOLEAN
            /\ pending \in BOOLEAN /\ inhibitor \in BOOLEAN
  BY Zenon
<1> QED BY <1>1, Zenon DEF TypeOK, HeadsOK, Rest

\* The same after a step.
LEMMA TypePartsNext == TypeOK' <=> HeadsOK' /\ Rest'
<1>1. {topo', restore', closed', pending', inhibitor'} \subseteq BOOLEAN
        <=> /\ topo' \in BOOLEAN /\ restore' \in BOOLEAN /\ closed' \in BOOLEAN
            /\ pending' \in BOOLEAN /\ inhibitor' \in BOOLEAN
  BY Zenon
<1> QED BY <1>1, Zenon DEF TypeOK, HeadsOK, Rest

\* The invariant says both.
LEMMA InvTypes == Inv => HeadsOK /\ Rest
  BY TypeParts DEF Inv

-----------------------------------------------------------------------------
(* Steps of the compositor.                                                *)

\* A step that adds events and may take the oldest configuration keeps the
\* invariant: new serials make old configurations void, and without a new
\* serial the heads stay as they are.
LEMMA Announced ==
  ASSUME Inv, NEW b \in Seq(Events), evq' = evq \o b,
         UNCHANGED <<hd, mon, current, live, manager, lid>>,
         cserial' \in {cserial, cserial + 1},
         \A i \in 1..Len(b) : b[i].ev = "done"
            => i = Len(b) /\ b[i].serial = cserial' /\ cserial < cserial',
         \A i \in 1..Len(b) : IsTopo(b[i])
            => i = 1 /\ b[Len(b)].ev = "done" /\ (b[1].h \in outs' <=> b[1].ev = "head"),
         \A h \in Heads : (\A i \in 1..Len(b) : IsTopo(b[i]) => b[i].h # h)
            => (h \in outs' <=> h \in outs),
         cserial' = cserial => outs' = outs,
         outs' \subseteq Heads, on' \in [Heads -> BOOLEAN], cur' \in [Heads -> Modes],
         changes' \in 0..MaxChanges, seen' \subseteq Changes,
         reqq' = reqq \/ (reqq # <<>> /\ reqq' = Tail(reqq))
  PROVE  Inv'
<1> USE DEF manager, lid
<1>1. HeadsOK /\ Rest
  BY InvTypes
<1>2. cserial \in Nat /\ cserial' \in Nat /\ cserial <= cserial'
  BY <1>1 DEF HeadsOK
<1>3. evq' \in Seq(Events) /\ Told' /\ Batched' /\ DoneSerials'
  BY <1>2, EventsAdded
<1>4. TypeOK'
  <2>1. HeadsOK'
    BY <1>1, <1>2 DEF HeadsOK
  <2>2. Rest'
    BY <1>1 DEF Rest
  <2> QED BY <2>1, <2>2, TypePartsNext
<1>5. /\ reqq \in Seq(Requests) /\ serial <= cserial
      /\ \A i \in 1..Len(reqq) : /\ reqq[i].serial \in Nat /\ reqq[i].serial <= cserial
                                 /\ reqq[i].serial = cserial => DOMAIN reqq[i].heads = outs
  <2>1. reqq \in Seq(Requests) /\ serial <= cserial
    BY DEF Inv, QueuesOK, OldSerials
  <2>2. \A i \in 1..Len(reqq) : reqq[i].serial \in Nat
    <3>1. \A r \in Requests : r.serial \in Nat
      BY DEF Requests
    <3>2. \A i \in 1..Len(reqq) : reqq[i] \in Requests
      BY <2>1
    <3> QED BY <3>1, <3>2
  <2> QED BY <2>1, <2>2 DEF Inv, OldSerials, ConfigCoversHeads
<1>6. /\ reqq' \in Seq(Requests)
      /\ \A i \in 1..Len(reqq') : \E j \in 1..Len(reqq) : reqq'[i] = reqq[j]
  <2>1. CASE reqq' = reqq
    BY <2>1, <1>5
  <2>2. CASE reqq # <<>> /\ reqq' = Tail(reqq)
    BY <2>2, <1>5, Taken
  <2> QED BY <2>1, <2>2
<1>7. OldSerials'
  <2>1. serial' <= cserial'
    BY <1>1, <1>2, <1>5 DEF HeadsOK
  <2>2. ASSUME NEW i \in 1..Len(reqq') PROVE reqq'[i].serial <= cserial'
    <3>1. PICK j \in 1..Len(reqq) : reqq'[i] = reqq[j]
      BY <1>6
    <3>2. reqq[j].serial \in Nat /\ reqq[j].serial <= cserial
      BY <1>5
    <3> QED BY <3>1, <3>2, <1>2
  <2> QED BY <2>1, <2>2 DEF OldSerials
<1>8. ConfigCoversHeads'
  <2> SUFFICES ASSUME NEW i \in 1..Len(reqq'), reqq'[i].serial = cserial'
               PROVE  DOMAIN reqq'[i].heads = outs'
    BY DEF ConfigCoversHeads
  <2>1. PICK j \in 1..Len(reqq) : reqq'[i] = reqq[j]
    BY <1>6
  <2>2. cserial' = cserial
    <3>1. reqq[j].serial <= cserial /\ reqq[j].serial = cserial'
      BY <1>5, <2>1
    <3> QED BY <3>1, <1>2
  <2> QED BY <2>1, <2>2, <1>5
<1>9. MonitorsMirrorHeads'
  BY DEF Inv, MonitorsMirrorHeads
<1> QED BY <1>3, <1>4, <1>6, <1>7, <1>8, <1>9 DEF Inv, QueuesOK

\* The kinds of changes and their number.
LEMMA Counted ==
  ASSUME Rest, NEW kind, Change(kind)
  PROVE  changes' \in 0..MaxChanges /\ seen' \subseteq Changes
  BY BoundsAssumption DEF Rest, Change

\* A batch is its events and the done event, which is last.
LEMMA BatchParts ==
  ASSUME NEW s \in Seq(Events), cserial \in Nat
  PROVE  /\ Batch(s) \in Seq(Events) /\ Len(Batch(s)) = Len(s) + 1 /\ Len(s) \in Nat
         /\ \A i \in 1..Len(s) : Batch(s)[i] = s[i]
         /\ Batch(s)[Len(s) + 1].ev = "done" /\ Batch(s)[Len(s) + 1].serial = cserial + 1
<1> DEFINE d == [ev |-> "done", serial |-> cserial + 1]
<1>1. d \in Events /\ d.ev = "done" /\ d.serial = cserial + 1
  BY DEF Events
<1> HIDE DEF d
<1>2. /\ s \o <<d>> \in Seq(Events) /\ Len(s \o <<d>>) = Len(s) + 1 /\ Len(s) \in Nat
      /\ \A i \in 1..Len(s) : (s \o <<d>>)[i] = s[i]
      /\ (s \o <<d>>)[Len(s) + 1] = d
  BY <1>1
<1>3. Batch(s) = s \o <<d>>
  BY DEF Batch, d
<1> QED BY <1>1, <1>2, <1>3

\* A batch keeps the invariant.
LEMMA BatchSent ==
  ASSUME Inv, NEW s \in Seq(Events), evq' = evq \o Batch(s), cserial' = cserial + 1,
         UNCHANGED <<hd, mon, current, live, manager, lid>>,
         \A i \in 1..Len(s) : s[i].ev # "done",
         \A i \in 1..Len(s) : IsTopo(s[i]) => i = 1 /\ (s[1].h \in outs' <=> s[1].ev = "head"),
         \A h \in Heads : (\A i \in 1..Len(s) : IsTopo(s[i]) => s[i].h # h)
            => (h \in outs' <=> h \in outs),
         outs' \subseteq Heads, on' \in [Heads -> BOOLEAN], cur' \in [Heads -> Modes],
         changes' \in 0..MaxChanges, seen' \subseteq Changes,
         reqq' = reqq \/ (reqq # <<>> /\ reqq' = Tail(reqq))
  PROVE  Inv'
<1>1. cserial \in Nat
  BY InvTypes DEF HeadsOK
<1> DEFINE b == Batch(s)
<1>2. /\ b \in Seq(Events) /\ Len(b) = Len(s) + 1 /\ Len(s) \in Nat
      /\ \A i \in 1..Len(s) : b[i] = s[i]
      /\ b[Len(s) + 1].ev = "done" /\ b[Len(s) + 1].serial = cserial + 1
  BY <1>1, BatchParts
<1> HIDE DEF b
<1>3. \A i \in 1..Len(b) : i \in 1..Len(s) \/ i = Len(s) + 1
  BY <1>2
<1>4. ASSUME NEW i \in 1..Len(b), b[i].ev = "done"
      PROVE  i = Len(b) /\ b[i].serial = cserial' /\ cserial < cserial'
  <2>1. i = Len(s) + 1
    BY <1>2, <1>3, <1>4
  <2>2. cserial < cserial'
    BY <1>1
  <2> QED BY <2>1, <2>2, <1>2
<1>5. ASSUME NEW i \in 1..Len(b), IsTopo(b[i])
      PROVE  i = 1 /\ b[Len(b)].ev = "done" /\ (b[1].h \in outs' <=> b[1].ev = "head")
  <2>1. i \in 1..Len(s)
    BY <1>2, <1>3, <1>5 DEF IsTopo
  <2>2. i = 1 /\ (s[1].h \in outs' <=> s[1].ev = "head")
    BY <1>2, <1>5, <2>1
  <2> QED BY <1>2, <2>1, <2>2
<1>6. ASSUME NEW h \in Heads, \A i \in 1..Len(b) : IsTopo(b[i]) => b[i].h # h
      PROVE  h \in outs' <=> h \in outs
  <2>1. \A i \in 1..Len(s) : i \in 1..Len(b)
    BY <1>2
  <2>2. \A i \in 1..Len(s) : IsTopo(s[i]) => s[i].h # h
    BY <1>2, <1>6, <2>1
  <2> QED BY <2>2
<1>7. cserial' # cserial
  BY <1>1
<1>8. evq' = evq \o b
  BY DEF b
<1> QED BY <1>2, <1>4, <1>5, <1>6, <1>7, <1>8, Announced

-----------------------------------------------------------------------------
(* The actions of the compositor.                                          *)

\* The modes of a head as events.
LEMMA ModesSent ==
  ASSUME NEW h \in Heads
  PROVE  /\ ModeEvents(h) \in Seq(Events)
         /\ \A i \in 1..Len(ModeEvents(h)) : ModeEvents(h)[i].ev = "mode"
         /\ HeadModes[h][1] \in Modes
<1>1. HeadModes[h] \in Seq(Modes) /\ HeadModes[h] # <<>>
  BY ModesAssumption
<1>2. /\ Len(HeadModes[h]) \in Nat /\ 1 \in 1..Len(HeadModes[h])
      /\ \A i \in 1..Len(HeadModes[h]) : HeadModes[h][i] \in Modes
  BY <1>1
<1>3. ASSUME NEW m \in Modes
      PROVE  [ev |-> "mode", h |-> h, m |-> m] \in Events
  BY DEF Events
<1>4. ModeEvents(h) \in [1..Len(HeadModes[h]) -> Events]
  BY <1>2, <1>3 DEF ModeEvents
<1>5. ModeEvents(h) \in Seq(Events) /\ Len(ModeEvents(h)) = Len(HeadModes[h])
  BY <1>2, <1>4
<1>6. \A i \in 1..Len(HeadModes[h]) : ModeEvents(h)[i].ev = "mode"
  BY DEF ModeEvents
<1> QED BY <1>2, <1>5, <1>6

\* The attributes of heads as an event.
LEMMA AttributesSent ==
  ASSUME NEW hs \in SUBSET Heads, on' \in [Heads -> BOOLEAN], cur' \in [Heads -> Modes]
  PROVE  Attributes(hs) \in Events /\ Attributes(hs).ev = "attributes"
  BY DEF Attributes, Events

\* A display is plugged in.
LEMMA PlugInv == ASSUME Inv, NEW h \in Heads, plug(h) PROVE Inv'
<1>1. HeadsOK /\ Rest
  BY InvTypes
<1>2. changes' \in 0..MaxChanges /\ seen' \subseteq Changes
  BY <1>1, Counted DEF plug
<1>3. outs' = outs \cup {h} /\ outs' \subseteq Heads
  BY <1>1 DEF plug, HeadsOK
<1>4. on' \in [Heads -> BOOLEAN] /\ cur' \in [Heads -> Modes]
  BY <1>1, ModesSent DEF plug, HeadsOK
<1> DEFINE x == [ev |-> "head", h |-> h]
           y == [ev |-> "sync", h |-> h]
           z == Attributes({h})
           ms == ModeEvents(h)
           s == <<x>> \o ms \o <<z, y>>
<1>5. /\ x \in Events /\ x.ev = "head" /\ x.h = h
      /\ y \in Events /\ y.ev = "sync"
      /\ z \in Events /\ z.ev = "attributes"
  BY <1>4, AttributesSent DEF Events
<1>6. ms \in Seq(Events) /\ \A i \in 1..Len(ms) : ms[i].ev = "mode"
  BY ModesSent
<1>7. evq' = evq \o Batch(s) /\ cserial' = cserial + 1
  BY DEF plug
<1> HIDE DEF x, y, z, ms
<1>8. /\ s \in Seq(Events) /\ Len(ms) \in Nat /\ Len(s) = Len(ms) + 3 /\ s[1] = x
      /\ \A i \in 1..Len(ms) : s[i + 1] = ms[i]
      /\ s[Len(ms) + 2] = z /\ s[Len(ms) + 3] = y
  BY <1>5, <1>6
<1> HIDE DEF s
<1>9. \A i \in 1..Len(s) : i = 1 \/ s[i].ev \in {"mode", "sync", "attributes"}
  <2> SUFFICES ASSUME NEW i \in 1..Len(s), i # 1
               PROVE  s[i].ev \in {"mode", "sync", "attributes"}
    OBVIOUS
  <2>1. (i - 1 \in 1..Len(ms) /\ (i - 1) + 1 = i) \/ i = Len(ms) + 2 \/ i = Len(ms) + 3
    BY <1>8
  <2>2. ASSUME i - 1 \in 1..Len(ms), (i - 1) + 1 = i
        PROVE  s[i] = ms[i - 1]
    BY <1>8, <2>2
  <2> QED BY <2>1, <2>2, <1>5, <1>6, <1>8
<1>10. \A i \in 1..Len(s) : s[i].ev # "done" /\ (IsTopo(s[i]) => i = 1)
  BY <1>5, <1>8, <1>9 DEF IsTopo
<1>11. s[1].h \in outs' <=> s[1].ev = "head"
  BY <1>3, <1>5, <1>8
<1>12. \A g \in Heads : (\A i \in 1..Len(s) : IsTopo(s[i]) => s[i].h # g) => (g \in outs' <=> g \in outs)
  <2>1. 1 \in 1..Len(s) /\ IsTopo(s[1]) /\ s[1].h = h
    BY <1>5, <1>8 DEF IsTopo
  <2> QED BY <2>1, <1>3
<1>13. UNCHANGED <<hd, mon, current, live, manager, lid, reqq>>
  BY DEF plug
<1> QED BY <1>2, <1>3, <1>4, <1>7, <1>8, <1>10, <1>11, <1>12, <1>13, BatchSent

\* A display is unplugged.
LEMMA UnplugInv == ASSUME Inv, NEW h \in Heads, unplug(h) PROVE Inv'
<1>1. HeadsOK /\ Rest
  BY InvTypes
<1>2. changes' \in 0..MaxChanges /\ seen' \subseteq Changes
  BY <1>1, Counted DEF unplug
<1>3. outs' = outs \ {h} /\ outs' \subseteq Heads
  BY <1>1 DEF unplug, HeadsOK
<1>4. on' \in [Heads -> BOOLEAN] /\ cur' \in [Heads -> Modes]
  BY <1>1 DEF unplug, HeadsOK
<1> DEFINE x == [ev |-> "finished", h |-> h]
           s == <<x>>
<1>5. x \in Events /\ x.ev = "finished" /\ x.h = h
  BY DEF Events
<1>6. evq' = evq \o Batch(s) /\ cserial' = cserial + 1
  BY DEF unplug
<1> HIDE DEF x
<1>7. s \in Seq(Events) /\ Len(s) = 1 /\ s[1] = x
  BY <1>5
<1> HIDE DEF s
<1>8. \A i \in 1..Len(s) : i = 1
  BY <1>7
<1>9. \A i \in 1..Len(s) : s[i].ev # "done"
  BY <1>5, <1>7, <1>8
<1>10. s[1].h \in outs' <=> s[1].ev = "head"
  BY <1>3, <1>5, <1>7
<1>11. \A g \in Heads : (\A i \in 1..Len(s) : IsTopo(s[i]) => s[i].h # g) => (g \in outs' <=> g \in outs)
  <2>1. 1 \in 1..Len(s) /\ IsTopo(s[1]) /\ s[1].h = h
    BY <1>5, <1>7 DEF IsTopo
  <2> QED BY <2>1, <1>3
<1>12. UNCHANGED <<hd, mon, current, live, manager, lid, reqq>>
  BY DEF unplug
<1> QED BY <1>2, <1>3, <1>4, <1>6, <1>7, <1>8, <1>9, <1>10, <1>11, <1>12, BatchSent

\* Another client turns a head on or off.
LEMMA AlterInv == ASSUME Inv, NEW h \in Heads, alter(h) PROVE Inv'
<1>1. HeadsOK /\ Rest
  BY InvTypes
<1>2. changes' \in 0..MaxChanges /\ seen' \subseteq Changes
  BY <1>1, Counted DEF alter
<1>3. outs' = outs /\ outs' \subseteq Heads
  BY <1>1 DEF alter, HeadsOK
<1>4. on' \in [Heads -> BOOLEAN] /\ cur' \in [Heads -> Modes]
  BY <1>1 DEF alter, HeadsOK
<1> DEFINE x == Attributes({h})
           s == <<x>>
<1>5. x \in Events /\ x.ev = "attributes"
  BY <1>4, AttributesSent
<1>6. evq' = evq \o Batch(s) /\ cserial' = cserial + 1
  BY DEF alter
<1> HIDE DEF x
<1>7. s \in Seq(Events) /\ Len(s) = 1 /\ s[1] = x
  BY <1>5
<1> HIDE DEF s
<1>8. \A i \in 1..Len(s) : s[i].ev # "done" /\ ~IsTopo(s[i])
  BY <1>5, <1>7 DEF IsTopo
<1>9. UNCHANGED <<hd, mon, current, live, manager, lid, reqq>>
  BY DEF alter
<1> QED BY <1>2, <1>3, <1>4, <1>6, <1>7, <1>8, <1>9, BatchSent

\* What a configuration asks of a head.
LEMMA RequestFields ==
  ASSUME NEW c \in Requests
  PROVE  /\ c.id \in Configs /\ c.serial \in Nat
         /\ \A h \in DOMAIN c.heads : c.heads[h].on \in BOOLEAN /\ c.heads[h].mode \in Modes \cup {"none"}
<1>1. c.id \in Configs /\ c.serial \in Nat
      /\ c.heads \in UNION {[S -> Setting] : S \in SUBSET Heads}
  BY DEF Requests
<1>2. PICK S \in SUBSET Heads : c.heads \in [S -> Setting]
  BY <1>1
<1>3. \A h \in DOMAIN c.heads : c.heads[h] \in Setting
  BY <1>2
<1>4. \A x \in Setting : x.on \in BOOLEAN /\ x.mode \in Modes \cup {"none"}
  BY DEF Setting
<1> QED BY <1>1, <1>3, <1>4

\* The answer to a configuration.
LEMMA AnswerSent ==
  ASSUME NEW id \in Configs
  PROVE  /\ [ev |-> "answer", id |-> id] \in Events
         /\ [ev |-> "answer", id |-> id].ev = "answer"
  BY DEF Events

\* A configuration is taken.
LEMMA AcceptInv == ASSUME Inv, accept_config PROVE Inv'
<1>1. HeadsOK /\ Rest /\ evq \in Seq(Events) /\ reqq \in Seq(Requests)
  BY InvTypes DEF Inv, QueuesOK
<1> DEFINE c == Head(reqq)
           changed == {h \in Heads : on'[h] # on[h] \/ cur'[h] # cur[h]}
           a == [ev |-> "answer", id |-> c.id]
           x == Attributes(changed)
<1>2. c \in Requests
  BY <1>1, Taken DEF accept_config
<1>3. c.id \in Configs /\ \A h \in DOMAIN c.heads : c.heads[h].on \in BOOLEAN /\ c.heads[h].mode \in Modes \cup {"none"}
  BY <1>2, RequestFields
<1>4. a \in Events /\ a.ev = "answer"
  BY <1>3, AnswerSent
<1>5. on' \in [Heads -> BOOLEAN] /\ cur' \in [Heads -> Modes]
  <2>1. on' = [h \in Heads |-> IF h \in DOMAIN c.heads THEN c.heads[h].on ELSE on[h]]
    BY DEF accept_config
  <2>2. cur' = [h \in Heads |-> IF h \in DOMAIN c.heads /\ c.heads[h].mode # "none"
                                THEN c.heads[h].mode ELSE cur[h]]
    BY DEF accept_config
  <2> HIDE DEF c
  <2>3. \A h \in Heads : on[h] \in BOOLEAN /\ cur[h] \in Modes
    BY <1>1 DEF HeadsOK
  <2> QED BY <1>3, <2>1, <2>2, <2>3
<1>6. x \in Events /\ x.ev = "attributes"
  BY <1>5, AttributesSent
<1>7. /\ UNCHANGED <<outs, outside, hd, mon, current, live, manager, lid>>
      /\ reqq # <<>> /\ reqq' = Tail(reqq)
      /\ cserial' = IF changed = {} THEN cserial ELSE cserial + 1
      /\ evq' = Append(evq, a) \o IF changed = {} THEN <<>> ELSE Batch(<<x>>)
  BY DEF accept_config
<1>8. outs' \subseteq Heads /\ outs' = outs /\ changes' \in 0..MaxChanges /\ seen' \subseteq Changes
  BY <1>1, <1>7 DEF HeadsOK, Rest, outside
<1> HIDE DEF a, x, changed, c
<1>9. CASE changed = {}
  <2> DEFINE b == <<a>>
  <2>1. evq' = evq \o b /\ b \in Seq(Events) /\ Len(b) = 1 /\ b[1] = a
    <3>1. evq' = Append(evq, a) \o <<>>
      BY <1>7, <1>9
    <3> QED BY <3>1, <1>1, <1>4
  <2>2. cserial' = cserial /\ cserial' \in {cserial, cserial + 1}
    BY <1>7, <1>9
  <2> HIDE DEF b
  <2>3. \A i \in 1..Len(b) : b[i].ev # "done" /\ ~IsTopo(b[i])
    BY <1>4, <2>1 DEF IsTopo
  <2> QED BY <1>5, <1>7, <1>8, <2>1, <2>2, <2>3, Announced
<1>10. CASE changed # {}
  <2> DEFINE s == <<a, x>>
  <2>1. s \in Seq(Events) /\ Len(s) = 2 /\ s[1] = a /\ s[2] = x
    BY <1>4, <1>6
  <2>2. evq' = evq \o Batch(s)
    <3> DEFINE d == [ev |-> "done", serial |-> cserial + 1]
    <3>1. evq' = Append(evq, a) \o (<<x>> \o <<d>>)
      BY <1>7, <1>10 DEF Batch
    <3>2. Batch(s) = <<a, x>> \o <<d>>
      BY DEF Batch
    <3>3. d \in Events
      BY <1>1 DEF Events, HeadsOK
    <3> HIDE DEF d
    <3>4. Append(evq, a) \o (<<x>> \o <<d>>) = evq \o (<<a, x>> \o <<d>>)
      BY <1>1, <1>4, <1>6, <3>3
    <3> QED BY <3>1, <3>2, <3>4
  <2>3. cserial' = cserial + 1
    BY <1>7, <1>10
  <2> HIDE DEF s
  <2>4. \A i \in 1..Len(s) : s[i].ev # "done" /\ ~IsTopo(s[i])
    BY <1>4, <1>6, <2>1 DEF IsTopo
  <2> QED BY <1>5, <1>7, <1>8, <2>1, <2>2, <2>3, <2>4, BatchSent
<1> QED BY <1>9, <1>10

\* A configuration is cancelled, or fails.
LEMMA RejectInv == ASSUME Inv, reject_config PROVE Inv'
<1>1. HeadsOK /\ Rest /\ evq \in Seq(Events) /\ reqq \in Seq(Requests)
  BY InvTypes DEF Inv, QueuesOK
<1> DEFINE c == Head(reqq)
           a == [ev |-> "answer", id |-> c.id]
           b == <<a>>
<1>2. c \in Requests
  BY <1>1, Taken DEF reject_config
<1>3. a \in Events /\ a.ev = "answer"
  BY <1>2, RequestFields, AnswerSent
<1>4. /\ UNCHANGED <<outs, on, cur, cserial, hd, mon, current, live, manager, lid>>
      /\ reqq # <<>> /\ reqq' = Tail(reqq)
      /\ evq' = Append(evq, a)
  BY DEF reject_config
<1>5. changes' \in 0..MaxChanges /\ seen' \subseteq Changes
  <2>1. CASE UNCHANGED outside
    BY <2>1, <1>1 DEF outside, Rest
  <2>2. CASE Change("refuse")
    BY <2>2, <1>1, Counted
  <2> QED BY <2>1, <2>2 DEF reject_config
<1>6. outs' \subseteq Heads /\ on' \in [Heads -> BOOLEAN] /\ cur' \in [Heads -> Modes]
  BY <1>1, <1>4 DEF HeadsOK
<1> HIDE DEF a
<1>7. evq' = evq \o b /\ b \in Seq(Events) /\ Len(b) = 1 /\ b[1] = a
  BY <1>1, <1>3, <1>4
<1> HIDE DEF b
<1>8. \A i \in 1..Len(b) : b[i].ev # "done" /\ ~IsTopo(b[i])
  BY <1>3, <1>7 DEF IsTopo
<1>9. outs' = outs /\ cserial' \in {cserial, cserial + 1}
  BY <1>4
<1> QED BY <1>4, <1>5, <1>6, <1>7, <1>8, <1>9, Announced

-----------------------------------------------------------------------------
(* Configurations.                                                         *)

\* A set of naturals has a least member.
LEMMA LeastNat ==
  ASSUME NEW T \in SUBSET Nat, T # {}
  PROVE  \E n \in T : \A m \in T : n <= m
<1> DEFINE R == {p \in Nat \X Nat : p[1] < p[2]}
<1>1. IsWellFoundedOn(R, Nat)
  <2>1. OpToRel(<, Nat) = R
    BY DEF OpToRel
  <2> QED BY <2>1, NatLessThanWellFounded, Zenon
<1>2. \A m, n \in Nat : <<m, n>> \in R <=> m < n
  OBVIOUS
<1> HIDE DEF R
<1>3. PICK n \in T : \A m \in T : ~(<<m, n>> \in R)
  BY <1>1, WFMin, Zenon
<1>4. \A m \in T : ~(m < n)
  BY <1>2, <1>3, Zenon
<1>5. \A m \in T : n <= m
  BY <1>4
<1> QED BY <1>5

\* config_head_v2 finds a mode of the head, or none.
LEMMA MatchMode ==
  ASSUME hd \in [Heads -> HeadRecord], NEW h \in Heads, NEW m
  PROVE  Match(h, m) \in Modes \cup {"none"}
<1> DEFINE ms == hd[h].modes
           size == {i \in 1..Len(ms) : m # "none" /\ SizeOf[ms[i]] = SizeOf[m]}
           least == CHOOSE i \in size : \A j \in size : i <= j
<1>1. ms \in Seq(Modes)
  BY DEF HeadRecord
<1>2. Match(h, m) = IF \E i \in 1..Len(ms) : ms[i] = m THEN m
                    ELSE IF size # {} THEN ms[least] ELSE "none"
  BY DEF Match
<1> HIDE DEF ms
<1>3. \A i \in 1..Len(ms) : ms[i] \in Modes
  BY <1>1
<1>4. ASSUME size # {} PROVE ms[least] \in Modes
  <2>1. size \in SUBSET Nat /\ size \subseteq 1..Len(ms)
    OBVIOUS
  <2> HIDE DEF size
  <2>2. least \in size
    BY <1>4, <2>1, LeastNat
  <2> QED BY <2>1, <2>2, <1>3
<1> HIDE DEF least, size
<1> QED BY <1>2, <1>3, <1>4

\* When the shell has the last serial of the compositor, no batch is in flight
\* and it knows the heads as they are.
LEMMA UpToDate ==
  ASSUME Inv, serial = cserial
  PROVE  \A h \in Heads : hd[h].known <=> h \in outs
<1>1. serial \in Nat /\ cserial \in Nat /\ evq \in Seq(Events)
  BY InvTypes DEF Inv, HeadsOK, QueuesOK
<1>2. ASSUME NEW i \in 1..Len(evq), evq[i].ev = "done" PROVE FALSE
  <2>1. evq[i] \in Events
    BY <1>1
  <2>2. evq[i].serial \in Nat
    BY <1>2, <2>1, EventFields
  <2>3. serial < evq[i].serial /\ evq[i].serial <= cserial
    BY <1>2 DEF Inv, DoneSerials
  <2> QED BY <1>1, <2>2, <2>3
<1>3. ASSUME NEW i \in 1..Len(evq), IsTopo(evq[i]) PROVE FALSE
  <2>1. PICK j \in i..Len(evq) : evq[j].ev = "done"
    BY <1>3 DEF Inv, Batched
  <2>2. j \in 1..Len(evq)
    BY <1>1
  <2> QED BY <1>2, <2>1, <2>2
<1> QED BY <1>3 DEF Inv, Told

\* begin_output_config with the serial the shell has: a configuration of the
\* monitors is either out of date or covers the heads of the compositor.
LEMMA ConfigSent ==
  ASSUME Inv, NEW m \in [Heads -> HeadRecord],
         \A h \in Heads : m[h].known <=> hd[h].known,
         apply_configuration(m), UNCHANGED <<outs, cserial>>
  PROVE  /\ reqq' \in Seq(Requests) /\ current' \in Configs \cup {0} /\ live' \subseteq Configs
         /\ \A i \in 1..Len(reqq') : reqq'[i].serial <= cserial
         /\ ConfigCoversHeads'
<1> DEFINE known == {x \in Heads : m[x].known}
           heads == [h \in known |-> config_head_v2(h, m[h].on, m[h].cur)]
<1>1. PICK id \in Configs \ live :
        /\ current' = id /\ live' = live \cup {id}
        /\ reqq' = Append(reqq, [id |-> id, serial |-> serial, heads |-> heads])
  BY DEF apply_configuration
<1>2. HeadsOK /\ Rest
  BY InvTypes
<1>3. heads \in [known -> Setting]
  <2> SUFFICES ASSUME NEW h \in known
               PROVE  config_head_v2(h, m[h].on, m[h].cur) \in Setting
    OBVIOUS
  <2>1. m[h].on \in BOOLEAN
    BY DEF HeadRecord
  <2>2. Match(h, m[h].cur) \in Modes \cup {"none"}
    BY <1>2, MatchMode DEF HeadsOK
  <2> QED BY <2>1, <2>2 DEF Setting, config_head_v2
<1>4. DOMAIN heads = known /\ known \subseteq Heads
  OBVIOUS
<1> HIDE DEF heads
<1> DEFINE r == [id |-> id, serial |-> serial, heads |-> heads]
<1>5. r \in Requests /\ r.serial = serial /\ r.heads = heads
  <2>1. heads \in UNION {[S -> Setting] : S \in SUBSET Heads}
    BY <1>3, <1>4
  <2> QED BY <2>1, <1>2 DEF Requests, HeadsOK
<1> HIDE DEF r
<1>6. reqq \in Seq(Requests) /\ reqq' = Append(reqq, r)
  BY <1>1 DEF Inv, QueuesOK, r
<1>7. /\ reqq' \in Seq(Requests) /\ Len(reqq) \in Nat /\ Len(reqq') = Len(reqq) + 1
      /\ \A i \in 1..Len(reqq) : reqq'[i] = reqq[i]
      /\ reqq'[Len(reqq) + 1] = r
  BY <1>5, <1>6
<1>8. \A i \in 1..Len(reqq') : i \in 1..Len(reqq) \/ i = Len(reqq) + 1
  BY <1>7
<1>9. ASSUME NEW i \in 1..Len(reqq')
      PROVE  /\ reqq'[i].serial <= cserial
             /\ reqq'[i].serial = cserial => DOMAIN reqq'[i].heads = outs
  <2>1. CASE i \in 1..Len(reqq)
    BY <2>1, <1>7 DEF Inv, OldSerials, ConfigCoversHeads
  <2>2. CASE i = Len(reqq) + 1
    <3>1. reqq'[i].serial = serial /\ DOMAIN reqq'[i].heads = known
      BY <2>2, <1>4, <1>5, <1>7
    <3>2. serial <= cserial
      BY DEF Inv, OldSerials
    <3>3. ASSUME serial = cserial PROVE known = outs
      <4>1. \A h \in Heads : h \in known <=> h \in outs
        BY <3>3, UpToDate
      <4> HIDE DEF known
      <4> QED BY <4>1, <1>4, <1>2 DEF HeadsOK
    <3> QED BY <3>1, <3>2, <3>3
  <2> QED BY <2>1, <2>2, <1>8
<1>10. current' \in Configs \cup {0} /\ live' \subseteq Configs
  BY <1>1, <1>2 DEF Rest
<1>11. ConfigCoversHeads'
  BY <1>9 DEF ConfigCoversHeads
<1> QED BY <1>7, <1>9, <1>10, <1>11

\* A step of the shell that changes settings of the monitors, and sends them or
\* not, keeps the invariant.
LEMMA Configured ==
  ASSUME Inv, mon' \in [Heads -> HeadRecord],
         \A h \in Heads : mon'[h].known <=> mon[h].known,
         NoConfig \/ apply_configuration(mon'),
         UNCHANGED <<outs, on, cur, cserial, evq, hd, serial>>,
         (current' \in Configs \cup {0} /\ live' \subseteq Configs) => Rest'
  PROVE  Inv'
<1>1. HeadsOK /\ Rest
  BY InvTypes
<1>2. \A h \in Heads : mon'[h].known <=> hd[h].known
  BY DEF Inv, MonitorsMirrorHeads
<1>3. /\ reqq' \in Seq(Requests) /\ current' \in Configs \cup {0} /\ live' \subseteq Configs
      /\ \A i \in 1..Len(reqq') : reqq'[i].serial <= cserial
      /\ ConfigCoversHeads'
  <2>1. CASE NoConfig
    BY <2>1, <1>1 DEF NoConfig, Inv, QueuesOK, OldSerials, ConfigCoversHeads, Rest
  <2>2. CASE apply_configuration(mon')
    <3> DEFINE m == mon'
    <3>1. m \in [Heads -> HeadRecord] /\ \A h \in Heads : m[h].known <=> hd[h].known
      BY <1>2
    <3>2. apply_configuration(m)
      BY <2>2
    <3> HIDE DEF m
    <3> QED BY <3>1, <3>2, ConfigSent
  <2> QED BY <2>1, <2>2
<1>4. TypeOK'
  <2>1. HeadsOK'
    BY <1>1 DEF HeadsOK
  <2> QED BY <2>1, <1>3, TypePartsNext
<1>5. Told' /\ Batched' /\ DoneSerials'
  BY DEF Inv, Told, Batched, DoneSerials
<1>6. QueuesOK' /\ OldSerials'
  BY <1>3 DEF Inv, QueuesOK, OldSerials
<1>7. MonitorsMirrorHeads'
  BY <1>2 DEF MonitorsMirrorHeads
<1> QED BY <1>3, <1>4, <1>5, <1>6, <1>7 DEF Inv

-----------------------------------------------------------------------------
(* The actions of the shell that configure.                                *)

\* A monitor whose switch or mode is set is still the monitor of its head.
LEMMA MonitorSet ==
  ASSUME NEW x \in HeadRecord, NEW v \in BOOLEAN
  PROVE  [x EXCEPT !.on = v] \in HeadRecord /\ [x EXCEPT !.on = v].known = x.known
  BY DEF HeadRecord

\* The monitors as the file wants them are still the monitors of their heads.
LEMMA FromFileType ==
  ASSUME mon \in [Heads -> HeadRecord], saved \in [Heads -> SavedRecord]
  PROVE  /\ FromFile \in [Heads -> HeadRecord]
         /\ \A h \in Heads : FromFile[h].known = mon[h].known
<1> SUFFICES ASSUME NEW h \in Heads
             PROVE  FromFile[h] \in HeadRecord /\ FromFile[h].known = mon[h].known
  BY DEF FromFile
<1> DEFINE m == IF HasMode(h, saved[h].mode) THEN saved[h].mode ELSE mon[h].cur
           x == [mon[h] EXCEPT !.on = saved[h].on, !.cur = m]
<1>1. mon[h] \in HeadRecord /\ saved[h] \in SavedRecord
  OBVIOUS
<1>2. m \in Modes \cup {"none"}
  BY <1>1 DEF HeadRecord, SavedRecord
<1>3. saved[h].on \in BOOLEAN
  BY <1>1 DEF SavedRecord
<1>4. FromFile[h] = mon[h] \/ FromFile[h] = x
  BY DEF FromFile
<1> HIDE DEF m
<1>5. x \in HeadRecord /\ x.known = mon[h].known
  BY <1>1, <1>2, <1>3 DEF HeadRecord
<1> QED BY <1>1, <1>4, <1>5

\* The restore timer.
LEMMA RestoreInv == ASSUME Inv, load_and_apply_saved PROVE Inv'
<1>1. HeadsOK /\ Rest
  BY InvTypes
<1>2. mon \in [Heads -> HeadRecord] /\ saved \in [Heads -> SavedRecord]
  BY <1>1 DEF HeadsOK, Rest
<1>3. changes' \in 0..MaxChanges /\ seen' \subseteq Changes
  BY <1>1, Counted DEF load_and_apply_saved, outside, Rest
<1>4. UNCHANGED <<outs, on, cur, cserial, evq, hd, serial>>
  BY DEF load_and_apply_saved
<1>5. ASSUME current' \in Configs \cup {0}, live' \subseteq Configs PROVE Rest'
  BY <1>1, <1>3, <1>5 DEF load_and_apply_saved, Rest, lid
<1>6. CASE mon' = FromFile /\ apply_configuration(FromFile)
  <2>1. mon' \in [Heads -> HeadRecord] /\ \A h \in Heads : mon'[h].known = mon[h].known
    BY <1>2, <1>6, FromFileType
  <2>2. apply_configuration(mon')
    BY <1>6
  <2> QED BY <1>4, <1>5, <2>1, <2>2, Configured
<1>7. CASE UNCHANGED mon /\ NoConfig
  BY <1>2, <1>4, <1>5, <1>7, Configured
<1> QED BY <1>6, <1>7 DEF load_and_apply_saved

\* The displays page.
LEMMA ChangesInv ==
  ASSUME Inv, NEW h \in Heads, NEW v \in BOOLEAN, NEW m \in Modes, apply_changes(h, v, m)
  PROVE  Inv'
<1>1. HeadsOK /\ Rest
  BY InvTypes
<1>2. \A g \in Heads : mon[g] \in HeadRecord
  BY <1>1 DEF HeadsOK
<1>3. mon' = [mon EXCEPT ![h].on = v, ![h].cur = m]
  BY DEF apply_changes
<1>4. mon' \in [Heads -> HeadRecord] /\ \A g \in Heads : mon'[g].known = mon[g].known
  BY <1>1, <1>2, <1>3, ZenonT(30) DEF HeadsOK, HeadRecord
<1>5. apply_configuration(mon')
  BY <1>3 DEF apply_changes
<1>6. UNCHANGED <<outs, on, cur, cserial, evq, hd, serial>>
  BY DEF apply_changes
<1>7. changes' \in 0..MaxChanges /\ seen' \subseteq Changes
  BY <1>1, Counted DEF apply_changes
<1>8. saved' \in [Heads -> SavedRecord]
  <2> DEFINE x == [mon EXCEPT ![h].on = v, ![h].cur = m]
             s(g) == IF x[g].named THEN [named |-> TRUE, on |-> x[g].on, mode |-> x[g].cur]
                                   ELSE Unsaved
  <2>1. x \in [Heads -> HeadRecord] /\ saved' = [g \in Heads |-> s(g)]
    BY <1>3, <1>4 DEF apply_changes
  <2> HIDE DEF x
  <2>2. \A g \in Heads : s(g) \in SavedRecord
    BY <2>1 DEF SavedRecord, Unsaved, HeadRecord
  <2> QED BY <2>1, <2>2
<1>9. ASSUME current' \in Configs \cup {0}, live' \subseteq Configs PROVE Rest'
  BY <1>1, <1>7, <1>8, <1>9 DEF apply_changes, Rest, lid
<1> QED BY <1>4, <1>5, <1>6, <1>9, Configured

\* restore_internal turns the panel on again, dim_internal turns it off: the
\* monitors stay the monitors of their heads.
LEMMA PanelSwitched ==
  ASSUME Inv, restore_internal \/ dim_internal
  PROVE  /\ mon' \in [Heads -> HeadRecord]
         /\ \A h \in Heads : mon'[h].known = mon[h].known
         /\ NoConfig \/ apply_configuration(mon')
         /\ dimmed' \subseteq Heads
<1>1. HeadsOK /\ Rest
  BY InvTypes
<1>2. \A h \in Heads : mon[h] \in HeadRecord
  BY <1>1 DEF HeadsOK
<1>3. ASSUME NEW v \in BOOLEAN, NEW S,
             mon' = [h \in Heads |-> IF h \in S THEN [mon[h] EXCEPT !.on = v] ELSE mon[h]]
      PROVE  mon' \in [Heads -> HeadRecord] /\ \A h \in Heads : mon'[h].known = mon[h].known
  <2>1. \A h \in Heads : mon'[h] = mon[h] \/ mon'[h] = [mon[h] EXCEPT !.on = v]
    BY <1>3
  <2>2. ASSUME NEW h \in Heads
        PROVE  mon'[h] \in HeadRecord /\ mon'[h].known = mon[h].known
    <3>1. mon[h] \in HeadRecord
      BY <1>2
    <3>2. [mon[h] EXCEPT !.on = v] \in HeadRecord /\ [mon[h] EXCEPT !.on = v].known = mon[h].known
      BY <1>3, <3>1, MonitorSet, Zenon
    <3> QED BY <2>1, <3>1, <3>2, Zenon
  <2> QED BY <1>3, <2>2
<1>4. CASE mon' = mon /\ NoConfig
  <2>1. dimmed' \subseteq Heads
    BY <1>1 DEF restore_internal, dim_internal, Dimming, Rest
  <2> QED BY <2>1, <1>1, <1>4 DEF HeadsOK
<1>5. CASE restore_internal /\ dimmed # {}
  <2> DEFINE S == {h \in Heads : h \in dimmed /\ mon[h].known}
  <2>1. mon' = Restored /\ apply_configuration(Restored) /\ dimmed' = {}
    BY <1>5 DEF restore_internal
  <2>2. Restored = [h \in Heads |-> IF h \in S THEN [mon[h] EXCEPT !.on = TRUE] ELSE mon[h]]
    BY DEF Restored
  <2>3. apply_configuration(mon')
    BY <2>1
  <2> HIDE DEF S
  <2>4. mon' \in [Heads -> HeadRecord] /\ \A h \in Heads : mon'[h].known = mon[h].known
    BY <2>1, <2>2, <1>3
  <2> QED BY <2>1, <2>3, <2>4
<1>6. CASE dim_internal /\ Dimming # {}
  <2> DEFINE m == [h \in Heads |-> IF h \in Dimming THEN [mon[h] EXCEPT !.on = FALSE] ELSE mon[h]]
  <2>1. mon' = m /\ apply_configuration(m) /\ dimmed' = dimmed \cup Dimming
    BY <1>6 DEF dim_internal
  <2>2. apply_configuration(mon')
    BY <2>1
  <2>3. mon' \in [Heads -> HeadRecord] /\ \A h \in Heads : mon'[h].known = mon[h].known
    BY <2>1, <1>3
  <2>4. dimmed' \subseteq Heads
    BY <2>1, <1>1 DEF Dimming, Rest
  <2> QED BY <2>2, <2>3, <2>4
<1> QED BY <1>4, <1>5, <1>6 DEF restore_internal, dim_internal

\* The lid is closed or opened.
LEMMA SetClosedInv == ASSUME Inv, set_closed PROVE Inv'
<1>1. HeadsOK /\ Rest
  BY InvTypes
<1>2. /\ mon' \in [Heads -> HeadRecord]
      /\ \A h \in Heads : mon'[h].known = mon[h].known
      /\ NoConfig \/ apply_configuration(mon')
      /\ dimmed' \subseteq Heads
  <2>1. CASE UNCHANGED <<mon, dimmed>> /\ NoConfig
    BY <2>1, <1>1 DEF HeadsOK, Rest
  <2>2. CASE restore_internal
    BY <2>2, PanelSwitched
  <2> QED BY <2>1, <2>2 DEF set_closed
<1>3. UNCHANGED <<outs, on, cur, cserial, evq, hd, serial>>
  BY DEF set_closed, manager
<1>4. changes' \in 0..MaxChanges /\ seen' \subseteq Changes
  BY <1>1, Counted DEF set_closed
<1>5. closed' \in BOOLEAN /\ pending' \in BOOLEAN /\ inhibitor' \in BOOLEAN
  BY <1>1 DEF Rest, set_closed
<1>6. ASSUME current' \in Configs \cup {0}, live' \subseteq Configs PROVE Rest'
  BY <1>1, <1>2, <1>4, <1>5, <1>6 DEF set_closed, Rest, manager
<1> QED BY <1>2, <1>3, <1>6, Configured

\* The timer of the lid.
LEMMA ActInv == ASSUME Inv, act PROVE Inv'
<1>1. HeadsOK /\ Rest
  BY InvTypes
<1>2. /\ mon' \in [Heads -> HeadRecord]
      /\ \A h \in Heads : mon'[h].known = mon[h].known
      /\ NoConfig \/ apply_configuration(mon')
      /\ dimmed' \subseteq Heads
  <2>1. CASE UNCHANGED <<mon, dimmed>> /\ NoConfig
    BY <2>1, <1>1 DEF HeadsOK, Rest
  <2>2. CASE restore_internal \/ dim_internal
    BY <2>2, PanelSwitched
  <2> QED BY <2>1, <2>2 DEF act
<1>3. UNCHANGED <<outs, on, cur, cserial, evq, hd, serial>>
  BY DEF act, manager
<1>4. ASSUME current' \in Configs \cup {0}, live' \subseteq Configs PROVE Rest'
  BY <1>1, <1>2, <1>4 DEF act, Rest, manager, outside
<1> QED BY <1>2, <1>3, <1>4, Configured

\* logind answers.
LEMMA InhibitorInv == ASSUME Inv, take_inhibitor PROVE Inv'
<1>1. HeadsOK /\ Rest
  BY InvTypes
<1>2. UNCHANGED <<outs, on, cur, cserial, evq, hd, serial, mon>> /\ NoConfig
  BY DEF take_inhibitor, compositor, manager, NoConfig
<1>3. Rest'
  BY <1>1 DEF take_inhibitor, Rest, manager, outside
<1>4. mon' \in [Heads -> HeadRecord] /\ \A h \in Heads : mon'[h].known = mon[h].known
  BY <1>1, <1>2 DEF HeadsOK
<1> QED BY <1>2, <1>3, <1>4, Configured

-----------------------------------------------------------------------------
(* Events of the output manager.                                           *)

\* A handler that keeps the monitors and the heads together keeps the invariant.
LEMMA Handled ==
  ASSUME Inv, evq # <<>>, evq' = Tail(evq), UNCHANGED compositor,
         serial' = (IF Head(evq).ev = "done" THEN Head(evq).serial ELSE serial),
         hd' \in [Heads -> HeadRecord], mon' \in [Heads -> HeadRecord],
         \A h \in Heads :
           /\ hd'[h].known <=> IF IsTopo(Head(evq)) /\ Head(evq).h = h
                               THEN Head(evq).ev = "head" ELSE hd[h].known
           /\ mon'[h].known <=> hd'[h].known,
         Rest'
  PROVE  Inv'
<1>1. HeadsOK /\ Rest
  BY InvTypes
<1>2. UNCHANGED <<outs, on, cur, cserial, reqq>>
  BY DEF compositor
<1>3. /\ evq' \in Seq(Events) /\ Told' /\ Batched' /\ DoneSerials'
      /\ serial' \in Nat /\ serial' <= cserial
  BY <1>2, EventTaken
<1>4. HeadsOK'
  BY <1>1, <1>2, <1>3 DEF HeadsOK
<1>5. TypeOK'
  BY <1>4, TypePartsNext
<1>6. QueuesOK' /\ OldSerials' /\ ConfigCoversHeads'
  BY <1>2, <1>3 DEF Inv, QueuesOK, OldSerials, ConfigCoversHeads
<1>7. MonitorsMirrorHeads'
  BY DEF MonitorsMirrorHeads
<1> QED BY <1>3, <1>5, <1>6, <1>7 DEF Inv

\* The event a handler takes.
LEMMA EventIs ==
  ASSUME Inv, NEW kind, Event(kind)
  PROVE  evq # <<>> /\ evq' = Tail(evq) /\ Head(evq) \in Events /\ Head(evq).ev = kind
  BY Taken DEF Inv, QueuesOK, Event

\* What monitors_changed leaves of the lid.
LEMMA LidLooked ==
  ASSUME Rest, monitors_changed
  PROVE  /\ closed' \in BOOLEAN /\ pending' \in BOOLEAN /\ inhibitor' \in BOOLEAN
         /\ dimmed' \subseteq Heads
  BY DEF Rest, monitors_changed

\* The record of a head that is not there.
LEMMA GoneType == Gone \in HeadRecord /\ Gone.known = FALSE
<1>1. <<>> \in Seq(Modes)
  OBVIOUS
<1> QED BY <1>1 DEF Gone, HeadRecord

\* A head is announced.
LEMMA HeadInv == ASSUME Inv, output_manager_head PROVE Inv'
<1> DEFINE e == Head(evq)
           h == e.h
           x == [Gone EXCEPT !.known = TRUE]
           y == [Gone EXCEPT !.known = TRUE, !.on = TRUE]
<1>1. HeadsOK /\ Rest
  BY InvTypes
<1>2. evq # <<>> /\ evq' = Tail(evq) /\ e \in Events /\ e.ev = "head"
  BY EventIs DEF output_manager_head
<1>3. h \in Heads
  BY <1>2, EventFields
<1>4. x \in HeadRecord /\ x.known = TRUE /\ y \in HeadRecord /\ y.known = TRUE
  BY GoneType DEF HeadRecord
<1>5. /\ hd' = [hd EXCEPT ![h] = x] /\ mon' = [mon EXCEPT ![h] = y]
      /\ topo' = TRUE /\ monitors_changed
      /\ UNCHANGED <<compositor, outside, current, live, serial, restore, saved>>
  BY DEF output_manager_head
<1>6. Rest'
  BY <1>1, <1>5, LidLooked DEF Rest, outside
<1> HIDE DEF x, y, h
<1>7. hd' \in [Heads -> HeadRecord] /\ mon' \in [Heads -> HeadRecord]
  BY <1>1, <1>3, <1>4, <1>5 DEF HeadsOK
<1>8. \A g \in Heads :
        /\ hd'[g].known <=> IF IsTopo(e) /\ e.h = g THEN e.ev = "head" ELSE hd[g].known
        /\ mon'[g].known <=> hd'[g].known
  <2> SUFFICES ASSUME NEW g \in Heads
               PROVE  /\ hd'[g].known <=> IF IsTopo(e) /\ e.h = g THEN e.ev = "head" ELSE hd[g].known
                      /\ mon'[g].known <=> hd'[g].known
    OBVIOUS
  <2>1. CASE g = h
    BY <2>1, <1>1, <1>2, <1>3, <1>4, <1>5 DEF h, HeadsOK, IsTopo
  <2>2. CASE g # h
    <3>1. hd'[g] = hd[g] /\ mon'[g] = mon[g] /\ e.h # g
      BY <2>2, <1>1, <1>3, <1>5 DEF h, HeadsOK
    <3> QED BY <3>1 DEF Inv, MonitorsMirrorHeads
  <2> QED BY <2>1, <2>2
<1> QED BY <1>2, <1>5, <1>6, <1>7, <1>8, Handled

\* A mode of a head is announced.
LEMMA ModeInv == ASSUME Inv, head_handle_mode PROVE Inv'
<1> DEFINE e == Head(evq)
           h == e.h
<1>1. HeadsOK /\ Rest
  BY InvTypes
<1>2. evq # <<>> /\ evq' = Tail(evq) /\ e \in Events /\ e.ev = "mode"
  BY EventIs DEF head_handle_mode
<1>3. h \in Heads /\ e.m \in Modes
  BY <1>2, EventFields
<1>4. /\ hd' = [hd EXCEPT ![h].modes = <<e.m>> \o @]
      /\ UNCHANGED <<compositor, outside, current, live, mon, manager, lid>>
  BY DEF head_handle_mode
<1>5. Rest' /\ serial' = serial
  BY <1>1, <1>4 DEF Rest, outside, manager, lid
<1> HIDE DEF h, e
<1>6. hd[h].modes \in Seq(Modes)
  BY <1>1, <1>3 DEF HeadsOK, HeadRecord
<1>7. <<e.m>> \o hd[h].modes \in Seq(Modes)
  BY <1>3, <1>6
<1>8. hd' \in [Heads -> HeadRecord] /\ \A g \in Heads : hd'[g].known = hd[g].known
  BY <1>1, <1>3, <1>4, <1>7, ZenonT(30) DEF HeadsOK, HeadRecord
<1>9. mon' \in [Heads -> HeadRecord] /\ \A g \in Heads : mon'[g].known <=> hd'[g].known
  BY <1>1, <1>4, <1>8 DEF HeadsOK, Inv, MonitorsMirrorHeads
<1>10. ~IsTopo(e) /\ e.ev # "done"
  BY <1>2 DEF IsTopo
<1> QED BY <1>2, <1>4, <1>5, <1>8, <1>9, <1>10, Handled DEF e

\* The attributes of heads are told.
LEMMA AttributesInv == ASSUME Inv, head_handle_attributes PROVE Inv'
<1> DEFINE e == Head(evq)
<1>1. HeadsOK /\ Rest
  BY InvTypes
<1>2. evq # <<>> /\ evq' = Tail(evq) /\ e \in Events /\ e.ev = "attributes"
  BY EventIs DEF head_handle_attributes
<1>3. e.on \in [Heads -> BOOLEAN] /\ e.cur \in [Heads -> Modes]
  BY <1>2, EventFields
<1>4. /\ hd' = [h \in Heads |-> IF h \in e.hs /\ hd[h].known
                                THEN [hd[h] EXCEPT !.named = TRUE, !.on = e.on[h], !.cur = e.cur[h]]
                                ELSE hd[h]]
      /\ UNCHANGED <<compositor, outside, current, live, mon, manager, lid>>
  BY DEF head_handle_attributes
<1>5. Rest' /\ serial' = serial
  BY <1>1, <1>4 DEF Rest, outside, manager, lid
<1> HIDE DEF e
<1>6. \A h \in Heads : hd'[h] \in HeadRecord /\ hd'[h].known = hd[h].known
  <2> SUFFICES ASSUME NEW h \in Heads PROVE hd'[h] \in HeadRecord /\ hd'[h].known = hd[h].known
    OBVIOUS
  <2>1. hd[h] \in HeadRecord /\ e.on[h] \in BOOLEAN /\ e.cur[h] \in Modes
    BY <1>1, <1>3 DEF HeadsOK
  <2> DEFINE x == [hd[h] EXCEPT !.named = TRUE, !.on = e.on[h], !.cur = e.cur[h]]
  <2>2. x \in HeadRecord /\ x.known = hd[h].known
    BY <2>1 DEF HeadRecord
  <2>3. hd'[h] = x \/ hd'[h] = hd[h]
    BY <1>4
  <2> HIDE DEF x
  <2> QED BY <2>1, <2>2, <2>3
<1>7. hd' \in [Heads -> HeadRecord]
  BY <1>4, <1>6
<1>8. mon' \in [Heads -> HeadRecord] /\ \A g \in Heads : mon'[g].known <=> hd'[g].known
  BY <1>1, <1>4, <1>6 DEF HeadsOK, Inv, MonitorsMirrorHeads
<1>9. ~IsTopo(e) /\ e.ev # "done"
  BY <1>2 DEF IsTopo
<1> QED BY <1>2, <1>4, <1>5, <1>6, <1>7, <1>8, <1>9, Handled DEF e

\* Adaptive sync of a head is told.
LEMMA SyncInv == ASSUME Inv, head_handle_adaptive_sync PROVE Inv'
<1> DEFINE e == Head(evq)
           h == e.h
<1>1. HeadsOK /\ Rest
  BY InvTypes
<1>2. evq # <<>> /\ evq' = Tail(evq) /\ e \in Events /\ e.ev = "sync"
  BY EventIs DEF head_handle_adaptive_sync
<1>3. h \in Heads
  BY <1>2, EventFields
<1>4. /\ hd' = [hd EXCEPT ![h].vrr = "on"]
      /\ UNCHANGED <<compositor, outside, current, live, mon, manager, lid>>
  BY DEF head_handle_adaptive_sync
<1>5. Rest' /\ serial' = serial
  BY <1>1, <1>4 DEF Rest, outside, manager, lid
<1> HIDE DEF h, e
<1>6. hd' \in [Heads -> HeadRecord] /\ \A g \in Heads : hd'[g].known = hd[g].known
  BY <1>1, <1>3, <1>4, ZenonT(30) DEF HeadsOK, HeadRecord
<1>7. mon' \in [Heads -> HeadRecord] /\ \A g \in Heads : mon'[g].known <=> hd'[g].known
  BY <1>1, <1>4, <1>6 DEF HeadsOK, Inv, MonitorsMirrorHeads
<1>8. ~IsTopo(e) /\ e.ev # "done"
  BY <1>2 DEF IsTopo
<1> QED BY <1>2, <1>4, <1>5, <1>6, <1>7, <1>8, Handled DEF e

\* A head is gone, and its monitor with it.
LEMMA FinishedInv == ASSUME Inv, head_handle_finished PROVE Inv'
<1> DEFINE e == Head(evq)
           h == e.h
<1>1. HeadsOK /\ Rest
  BY InvTypes
<1>2. evq # <<>> /\ evq' = Tail(evq) /\ e \in Events /\ e.ev = "finished"
  BY EventIs DEF head_handle_finished
<1>3. h \in Heads
  BY <1>2, EventFields
<1>4. /\ hd' = [hd EXCEPT ![h] = Gone] /\ mon' = [mon EXCEPT ![h] = Gone]
      /\ topo' = TRUE /\ monitors_changed
      /\ UNCHANGED <<compositor, outside, current, live, serial, restore, saved>>
  BY DEF head_handle_finished
<1>5. Rest'
  BY <1>1, <1>4, LidLooked DEF Rest, outside
<1> HIDE DEF h
<1>6. hd' \in [Heads -> HeadRecord] /\ mon' \in [Heads -> HeadRecord]
  BY <1>1, <1>3, <1>4, GoneType DEF HeadsOK
<1>7. \A g \in Heads :
        /\ hd'[g].known <=> IF IsTopo(e) /\ e.h = g THEN e.ev = "head" ELSE hd[g].known
        /\ mon'[g].known <=> hd'[g].known
  <2> SUFFICES ASSUME NEW g \in Heads
               PROVE  /\ hd'[g].known <=> IF IsTopo(e) /\ e.h = g THEN e.ev = "head" ELSE hd[g].known
                      /\ mon'[g].known <=> hd'[g].known
    OBVIOUS
  <2>1. CASE g = h
    BY <2>1, <1>1, <1>2, <1>3, <1>4, GoneType DEF h, HeadsOK, IsTopo
  <2>2. CASE g # h
    <3>1. hd'[g] = hd[g] /\ mon'[g] = mon[g] /\ e.h # g
      BY <2>2, <1>1, <1>3, <1>4 DEF h, HeadsOK
    <3> QED BY <3>1 DEF Inv, MonitorsMirrorHeads
  <2> QED BY <2>1, <2>2
<1> QED BY <1>2, <1>4, <1>5, <1>6, <1>7, Handled

\* A batch is complete: every head is copied to its monitor.
LEMMA DoneInv == ASSUME Inv, output_manager_done PROVE Inv'
<1> DEFINE e == Head(evq)
<1>1. HeadsOK /\ Rest
  BY InvTypes
<1>2. evq # <<>> /\ evq' = Tail(evq) /\ e \in Events /\ e.ev = "done"
  BY EventIs DEF output_manager_done
<1>3. /\ serial' = e.serial /\ topo' = FALSE /\ restore' = (restore \/ topo)
      /\ mon' = [h \in Heads |-> IF hd[h].known THEN [hd[h] EXCEPT !.vrr = mon[h].vrr] ELSE mon[h]]
      /\ monitors_changed
      /\ UNCHANGED <<compositor, outside, hd, current, live, saved>>
  BY DEF output_manager_done
<1>4. Rest'
  BY <1>1, <1>3, LidLooked DEF Rest, outside
<1>5. \A h \in Heads : mon'[h] \in HeadRecord /\ (mon'[h].known <=> hd'[h].known)
  <2> SUFFICES ASSUME NEW h \in Heads PROVE mon'[h] \in HeadRecord /\ (mon'[h].known <=> hd'[h].known)
    OBVIOUS
  <2>1. hd[h] \in HeadRecord /\ mon[h] \in HeadRecord /\ mon[h].vrr \in {"none", "off", "on"}
    BY <1>1 DEF HeadsOK, HeadRecord
  <2> DEFINE x == [hd[h] EXCEPT !.vrr = mon[h].vrr]
  <2>2. x \in HeadRecord /\ x.known = hd[h].known
    BY <2>1 DEF HeadRecord
  <2>3. IF hd[h].known THEN mon'[h] = x ELSE mon'[h] = mon[h]
    BY <1>3
  <2>4. (mon[h].known <=> hd[h].known) /\ hd'[h] = hd[h]
    BY <1>3 DEF Inv, MonitorsMirrorHeads
  <2> HIDE DEF x
  <2> QED BY <2>1, <2>2, <2>3, <2>4
<1>6. mon' \in [Heads -> HeadRecord] /\ hd' \in [Heads -> HeadRecord] /\ hd' = hd
  BY <1>1, <1>3, <1>5 DEF HeadsOK
<1>7. ~IsTopo(e)
  BY <1>2 DEF IsTopo
<1> QED BY <1>2, <1>3, <1>4, <1>5, <1>6, <1>7, Handled

\* A configuration is answered.
LEMMA AnswerInv == ASSUME Inv, config_handle_answer PROVE Inv'
<1> DEFINE e == Head(evq)
<1>1. HeadsOK /\ Rest
  BY InvTypes
<1>2. evq # <<>> /\ evq' = Tail(evq) /\ e \in Events /\ e.ev = "answer"
  BY EventIs DEF config_handle_answer
<1>3. /\ live' = live \ {e.id} /\ current' = IF current = e.id THEN 0 ELSE current
      /\ UNCHANGED <<compositor, outside, hd, mon, manager, lid>>
  BY DEF config_handle_answer
<1>4. Rest' /\ serial' = serial
  BY <1>1, <1>3 DEF Rest, outside, manager, lid
<1>5. /\ mon' \in [Heads -> HeadRecord] /\ hd' \in [Heads -> HeadRecord] /\ hd' = hd
      /\ \A g \in Heads : mon'[g].known <=> hd'[g].known
  BY <1>1, <1>3 DEF HeadsOK, Inv, MonitorsMirrorHeads
<1>6. ~IsTopo(e) /\ e.ev # "done"
  BY <1>2 DEF IsTopo
<1> QED BY <1>2, <1>3, <1>4, <1>5, <1>6, Handled

-----------------------------------------------------------------------------
(* The theorems.                                                           *)

\* The invariant holds after the start.
LEMMA InitInv == ASSUME Init PROVE Inv
<1>1. \A h \in Heads : HeadModes[h][1] \in Modes /\ HeadModes[h] \in Seq(Modes)
  BY ModesSent, ModesAssumption
<1>2. \A h \in Heads : Shown(h) \in HeadRecord
  BY <1>1 DEF Shown, HeadRecord
<1>3. hd = [h \in Heads |-> IF h \in Plugged THEN Shown(h) ELSE Gone] /\ mon = hd
  BY DEF Init
<1>4. hd \in [Heads -> HeadRecord]
  BY <1>2, <1>3, GoneType
<1>5. \A h \in Heads : hd[h].known <=> h \in Plugged
  BY <1>3, GoneType DEF Shown
<1>6. HeadsOK
  BY <1>1, <1>3, <1>4, HeadsAssumption DEF Init, HeadsOK
<1>7. Rest
  <2>1. 0 \in 0..MaxChanges
    BY BoundsAssumption
  <2>2. current \in Configs \cup {0} /\ live \subseteq Configs /\ changes \in 0..MaxChanges
        /\ seen \subseteq Changes /\ dimmed \subseteq Heads
    BY <2>1 DEF Init
  <2>3. saved \in [Heads -> SavedRecord]
    BY DEF Init
  <2>4. topo \in BOOLEAN /\ restore \in BOOLEAN /\ closed \in BOOLEAN
        /\ pending \in BOOLEAN /\ inhibitor \in BOOLEAN
    BY DEF Init
  <2> QED BY <2>2, <2>3, <2>4, Zenon DEF Rest
<1>8. TypeOK
  BY <1>6, <1>7, TypeParts
<1>9. evq = <<>> /\ reqq = <<>> /\ outs = Plugged /\ serial = 1 /\ cserial = 1
  BY DEF Init
<1>10. QueuesOK
  BY <1>9 DEF QueuesOK
<1>11. Told /\ Batched
  BY <1>5, <1>9 DEF Told, Batched
<1>12. DoneSerials /\ OldSerials /\ ConfigCoversHeads
  BY <1>9 DEF DoneSerials, OldSerials, ConfigCoversHeads
<1>13. MonitorsMirrorHeads
  BY <1>3 DEF MonitorsMirrorHeads
<1> QED BY <1>8, <1>10, <1>11, <1>12, <1>13 DEF Inv

\* A step that changes nothing.
LEMMA StutterInv == ASSUME Inv, UNCHANGED vars PROVE Inv'
<1>1. HeadsOK' /\ Rest'
  BY InvTypes DEF vars, compositor, outside, manager, lid, HeadsOK, Rest
<1>2. TypeOK'
  BY <1>1, TypePartsNext
<1>3. QueuesOK' /\ MonitorsMirrorHeads' /\ OldSerials' /\ ConfigCoversHeads'
  BY DEF vars, compositor, outside, manager, lid, Inv, QueuesOK, MonitorsMirrorHeads,
         OldSerials, ConfigCoversHeads
<1>4. Told' /\ Batched' /\ DoneSerials'
  BY DEF vars, compositor, outside, manager, lid, Inv, Told, Batched, DoneSerials
<1> QED BY <1>2, <1>3, <1>4 DEF Inv

\* Every step keeps the invariant.
LEMMA NextInv == ASSUME Inv, [Next]_vars PROVE Inv'
<1>1. CASE \E h \in Heads : plug(h) \/ unplug(h) \/ alter(h)
  BY <1>1, PlugInv, UnplugInv, AlterInv
<1>2. CASE accept_config \/ reject_config
  BY <1>2, AcceptInv, RejectInv
<1>3. CASE Dispatch
  BY <1>3, HeadInv, ModeInv, AttributesInv, SyncInv, FinishedInv, DoneInv, AnswerInv DEF Dispatch
<1>4. CASE load_and_apply_saved
  BY <1>4, RestoreInv
<1>5. CASE \E h \in Heads, v \in BOOLEAN, m \in Modes : apply_changes(h, v, m)
  BY <1>5, ChangesInv
<1>6. CASE take_inhibitor \/ set_closed \/ act
  BY <1>6, InhibitorInv, SetClosedInv, ActInv
<1>7. CASE UNCHANGED vars
  BY <1>7, StutterInv
<1> QED BY <1>1, <1>2, <1>3, <1>4, <1>5, <1>6, <1>7 DEF Next

\* The invariant holds always.
THEOREM Invariance == Spec => []Inv
  BY InitInv, NextInv, PTL DEF Spec

\* The state of the output manager, the display manager and the lid stays in
\* its types.
THEOREM TypeCorrect == Spec => []TypeOK
<1>1. Inv => TypeOK
  BY DEF Inv
<1> QED BY <1>1, Invariance, PTL

\* head_handle_finished and output_manager_head keep heads_list and the monitors
\* together: no monitor holds a destroyed head, no head is without its monitor.
THEOREM MonitorsAlwaysMirror == Spec => []MonitorsMirrorHeads
<1>1. Inv => MonitorsMirrorHeads
  BY DEF Inv
<1> QED BY <1>1, Invariance, PTL

\* A configuration with the last serial covers the heads of the compositor: the
\* restore timer, the displays page and the lid can run between any two events
\* and no request of theirs is the protocol error that would end the shell.
THEOREM ConfigsAlwaysCover == Spec => []ConfigCoversHeads
<1>1. Inv => ConfigCoversHeads
  BY DEF Inv
<1> QED BY <1>1, Invariance, PTL
=============================================================================
