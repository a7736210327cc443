-------------------------- MODULE ClipboardProofs ---------------------------
(***************************************************************************)
(* The clipboard history, for any clips, limits and numbers of copies: no  *)
(* secret is kept, the shell serves what was chosen last, and, but for     *)
(* what a failed write leaves behind, pinned.json names no image that is   *)
(* missing and a restart brings the pins back.                             *)
(*                                                                         *)
(* The history is a list the code filters again and again, so the first    *)
(* part is about Filter: induction over the naturals, from the theorem     *)
(* that < is well founded, shows what it returns.                          *)
(***************************************************************************)
EXTENDS Clipboard, WellFoundedInduction, TLAPS

\* A set of naturals has a least member.
LEMMA LeastNat ==
  ASSUME NEW T \in SUBSET Nat, T # {}
  PROVE  \E n \in T : \A m \in T : n <= m
<1> DEFINE R == {p \in Nat \X Nat : p[1] < p[2]}
<1>1. IsWellFoundedOn(R, Nat)
  <2>1. OpToRel(<, Nat) = R
    BY DEF OpToRel
  <2> QED BY <2>1, NatLessThanWellFounded, Zenon
<1>2. \A m, n \in Nat : <<m, n>> \in R <=> m < n
  OBVIOUS
<1> HIDE DEF R
<1>3. PICK n \in T : \A m \in T : ~(<<m, n>> \in R)
  BY <1>1, WFMin, Zenon
<1>4. \A m \in T : ~(m < n)
  BY <1>2, <1>3, Zenon
<1>5. \A m \in T : n <= m
  BY <1>4
<1> QED
  BY <1>5

\* Induction over the naturals, for a set.
LEMMA SetInduction ==
  ASSUME NEW T, 0 \in T, \A n \in Nat : n \in T => n + 1 \in T
  PROVE  Nat \subseteq T
<1> SUFFICES ASSUME Nat \ T # {} PROVE FALSE
  OBVIOUS
<1>1. PICK n \in Nat \ T : \A m \in Nat \ T : n <= m
  BY LeastNat
<1>2. n # 0 /\ n - 1 \in T
  BY <1>1
<1> QED
  BY <1>1, <1>2

\* One round of the loop in Filter.
Round(s, K, F, i) == IF i = 0 THEN <<>> ELSE IF s[i] \in K THEN Append(F[i-1], s[i]) ELSE F[i-1]

\* The recursion of Filter has a solution.
LEMMA FilterDef ==
  ASSUME NEW S, NEW s \in Seq(S), NEW K
  PROVE  \E F : /\ \A i \in 0..Len(s) : F[i] = Round(s, K, F, i)
                /\ Filter(s, K) = F[Len(s)]
<1> DEFINE Sol(F, n) == F = [i \in 0..n |-> Round(s, K, F, i)]
           T == {n \in Nat : n <= Len(s) => \E F : Sol(F, n)}
<1>1. 0 \in T
  <2> DEFINE F == [i \in 0..0 |-> <<>>]
  <2>1. Sol(F, 0)
    BY DEF Round
  <2> QED BY <2>1
<1>2. ASSUME NEW n \in Nat, NEW G, Sol(G, n)
      PROVE  \A i \in 0..n : G[i] = Round(s, K, G, i)
  <2> DEFINE H == [i \in 0..n |-> Round(s, K, G, i)]
  <2>1. G = H
    BY <1>2
  <2>2. \A i \in 0..n : H[i] = Round(s, K, G, i)
    OBVIOUS
  <2> HIDE DEF H
  <2> QED BY <2>1, <2>2
<1>3. ASSUME NEW n \in Nat, n \in T PROVE n + 1 \in T
  <2> SUFFICES ASSUME n + 1 <= Len(s) PROVE \E F : Sol(F, n + 1)
    OBVIOUS
  <2>1. PICK G : Sol(G, n)
    BY <1>3
  <2>2. \A i \in 0..n : G[i] = Round(s, K, G, i)
    BY <1>2, <2>1
  <2> DEFINE F == [i \in 0..(n+1) |-> IF i <= n THEN G[i] ELSE Round(s, K, G, n+1)]
  <2>3. \A i \in 0..n : F[i] = G[i]
    OBVIOUS
  <2>4. F[n+1] = Round(s, K, G, n+1)
    OBVIOUS
  <2>5. \A i \in 0..(n+1) : Round(s, K, F, i) = Round(s, K, G, i)
    <3> HIDE DEF F
    <3>1. \A i \in 0..(n+1) : i # 0 => F[i-1] = G[i-1]
      BY <2>3
    <3> QED BY <3>1 DEF Round
  <2>6. \A i \in 0..(n+1) : F[i] = Round(s, K, F, i)
    <3> HIDE DEF F
    <3> QED BY <2>2, <2>3, <2>4, <2>5
  <2>7. F = [i \in 0..(n+1) |-> F[i]]
    OBVIOUS
  <2>8. Sol(F, n + 1)
    <3> HIDE DEF F
    <3> QED BY <2>6, <2>7
  <2> QED BY <2>8
<1>4. Len(s) \in T
  <2> HIDE DEF T
  <2> QED BY <1>1, <1>3, SetInduction
<1>5. \E F : Sol(F, Len(s))
  BY <1>4
<1> DEFINE C == CHOOSE G : Sol(G, Len(s))
<1>6. Sol(C, Len(s))
  <2> HIDE DEF Sol
  <2> QED BY <1>5, Zenon
<1>7. Filter(s, K) = C[Len(s)]
  BY DEF Filter, Round
<1> HIDE DEF C, Sol
<1> QED
  BY <1>2, <1>6, <1>7

\* Filter returns a sequence of members of s that are in K.
LEMMA FilterType ==
  ASSUME NEW S, NEW s \in Seq(S), NEW K
  PROVE  Filter(s, K) \in Seq({s[i] : i \in 1..Len(s)} \cap K)
<1>1. PICK F : (\A i \in 0..Len(s) : F[i] = Round(s, K, F, i)) /\ Filter(s, K) = F[Len(s)]
  BY FilterDef
<1> DEFINE R == {s[i] : i \in 1..Len(s)} \cap K
           T == {n \in Nat : n <= Len(s) => F[n] \in Seq(R)}
<1>2. 0 \in T
  <2>1. F[0] = <<>>
    BY <1>1 DEF Round
  <2>2. <<>> \in Seq(R)
    OBVIOUS
  <2>3. F[0] \in Seq(R)
    BY <2>1, <2>2, Zenon
  <2> HIDE DEF R
  <2> QED BY <2>3
<1>3. ASSUME NEW n \in Nat, n \in T PROVE n + 1 \in T
  <2> SUFFICES ASSUME n + 1 <= Len(s) PROVE F[n + 1] \in Seq(R)
    OBVIOUS
  <2>1. F[n] \in Seq(R) /\ s[n + 1] \in {s[i] : i \in 1..Len(s)}
    BY <1>3
  <2>2. F[n + 1] = IF s[n + 1] \in K THEN Append(F[n], s[n + 1]) ELSE F[n]
    BY <1>1 DEF Round
  <2>3. s[n + 1] \in K => s[n + 1] \in R
    BY <2>1 
  <2> HIDE DEF R
  <2> QED BY <2>1, <2>2, <2>3
<1>4. Len(s) \in T
  <2> HIDE DEF T
  <2> QED BY <1>2, <1>3, SetInduction
<1> QED
  BY <1>1, <1>4

\* When every member of s is in K, Filter returns s.
LEMMA FilterAll ==
  ASSUME NEW S, NEW s \in Seq(S), NEW K, \A i \in 1..Len(s) : s[i] \in K
  PROVE  Filter(s, K) = s
<1>1. PICK F : (\A i \in 0..Len(s) : F[i] = Round(s, K, F, i)) /\ Filter(s, K) = F[Len(s)]
  BY FilterDef
<1> DEFINE T == {n \in Nat : n <= Len(s) => F[n] = SubSeq(s, 1, n)}
<1>2. 0 \in T
  <2>1. F[0] = <<>>
    BY <1>1 DEF Round
  <2>2. SubSeq(s, 1, 0) = <<>>
    OBVIOUS
  <2>3. F[0] = SubSeq(s, 1, 0)
    BY <2>1, <2>2, Zenon
  <2> QED BY <2>3
<1>3. ASSUME NEW n \in Nat, n \in T PROVE n + 1 \in T
  <2> SUFFICES ASSUME n + 1 <= Len(s) PROVE F[n + 1] = SubSeq(s, 1, n + 1)
    OBVIOUS
  <2>1. F[n] = SubSeq(s, 1, n)
    BY <1>3
  <2>2. F[n + 1] = Append(F[n], s[n + 1])
    <3>1. n + 1 \in 0..Len(s) /\ n + 1 # 0 /\ (n + 1) - 1 = n /\ s[n + 1] \in K
      OBVIOUS
    <3> QED BY <1>1, <3>1 DEF Round
  <2>3. SubSeq(s, 1, n + 1) = Append(SubSeq(s, 1, n), s[n + 1])
    OBVIOUS
  <2> QED BY <2>1, <2>2, <2>3
<1>4. Len(s) \in T
  <2> HIDE DEF T
  <2> QED BY <1>2, <1>3, SetInduction
<1> QED
  BY <1>1, <1>4

\* A sequence over a set is one over any larger set.
LEMMA SeqMono ==
  ASSUME NEW R, NEW S, R \subseteq S
  PROVE  Seq(R) \subseteq Seq(S)
OBVIOUS

\* Filter keeps the type of a sequence.
LEMMA FilterSub ==
  ASSUME NEW S, NEW s \in Seq(S), NEW K
  PROVE  Filter(s, K) \in Seq(S)
<1>. DEFINE R == {s[i] : i \in 1..Len(s)} \cap K
<1>1. R \subseteq S
  OBVIOUS
<1>2. Filter(s, K) \in Seq(R)
  BY FilterType
<1>. HIDE DEF R
<1>. QED  BY <1>1, <1>2, SeqMono

------------------------------------------------------------------------------
(* The inductive invariant.                                                 *)

SafeData == {d \in Data : d.c \notin Secrets}
SafeJob == {j \in Job : j.d.c \notin Secrets /\ (j.wr = "gdk" => j.d \in Data)}
SafeEntry == [d : SafeData, pinned : BOOLEAN]

\* What can be offered when the shell has made n sources: only an application
\* offers a secret.
Offers(n) ==
  [by : {"app"}, src : {0}, d : Data] \cup [by : {"own"}, src : 1..n, d : SafeData]
    \cup [by : {"gdk"}, src : {0}, d : SafeData]

\* What can be under way to the shell while s is the selection: a source that
\* is still the selection has not been cancelled.
Events(n, s) ==
  {x \in [ev : {"selection"}, of : Offers(n)] \cup [ev : {"send", "cancelled"}, src : 1..n]
            \cup [ev : {"finished"}] :
     x.ev = "cancelled" /\ s.by = "own" => x.src # s.src}

\* The selection and the pipes: everything the shell reads or offers is safe,
\* and only a device that is there, or was, has a source of the shell's.
SourcesOK ==
  /\ count \in [copies : 0..MaxCopies, sets : 0..MaxSets, edits : 0..MaxEdits, crashes : 0..MaxCrashes]
  /\ sel \in Offers(count.sets) \cup {NoSelection}
  /\ evq \in Seq(Events(count.sets, sel))
  /\ dev \in {"none", "live", "gone", "gdk"}
  /\ own \in [src : 1..count.sets, d : SafeData] \cup {NoSource}
  /\ jobs \in Seq(SafeJob)
  /\ dev \in {"none", "gdk"} => sel.by # "own"

\* The list and the disk: everything the history keeps is safe.
HistoryOK ==
  /\ enabled \in BOOLEAN /\ save_id \in BOOLEAN /\ failed \in BOOLEAN /\ limit \in Limits
  /\ entries \in Seq(SafeEntry)
  /\ told \in SafeData \cup {NoData}
  /\ disk \in [json : Seq(SafeData), files : SUBSET SafeData]

\* Every pin, unpin and new order is on the disk, or the timer that saves it
\* runs, unless a write failed.
PinsSaved == save_id \/ failed \/ disk.json = Pins

Inv == SourcesOK /\ HistoryOK /\ SelectionServed /\ ImagesOnDisk /\ PinsSaved

------------------------------------------------------------------------------
(* What the operators on the list return.                                   *)

\* The data of a clip, and of a pipe that was closed, have the types of a job.
LEMMA DataTypes ==
  /\ \A c \in Clips : Full(c) \in Data
  /\ \A d \in SafeData : d \in Data /\ d.c \in Clips \ Secrets /\ d # NoData
  /\ \A c \in Clips : c \notin Secrets <=> Hint \notin MimesOf[c]
  /\ \A d \in SafeData \cup {Nil(c) : c \in Clips \ Secrets}, wr \in {"app", "wait", "own", "gdk"}, s \in 0..MaxSets :
        (wr = "gdk" => d \in Data) => [d |-> d, got |-> 0, wr |-> wr, src |-> s] \in SafeJob
BY ClipsAssumption DEF Full, Data, SafeData, Nil, NoData, Secrets, SafeJob, Job, MaxChunks

\* A pipe whose writer leaves, or that the shell starts to fill.
LEMMA Written ==
  ASSUME NEW j \in SafeJob, j.wr = "wait", NEW d \in SafeData \cup {Nil(j.d.c)}
  PROVE  [j EXCEPT !.wr = "own", !.d = d] \in SafeJob
<1>. DEFINE D == Data \cup {Nil(c) : c \in Clips}
            r == [j EXCEPT !.wr = "own", !.d = d]
<1>1. j.d.c \in Clips \ Secrets
  BY DEF SafeJob, Job, Data, Nil
<1>2. d \in D /\ d.c \notin Secrets
  BY <1>1 DEF SafeData, Nil
<1>3. Job = [d : D, got : 0..MaxChunks, wr : {"app", "wait", "own", "gdk"}, src : 0..MaxSets]
  BY DEF Job
<1>4. j \in Job
  BY DEF SafeJob
<1>. HIDE DEF D
<1>5. r \in Job /\ r.d = d /\ r.wr = "own"
  BY <1>2, <1>3, <1>4
<1>. QED  BY <1>2, <1>5 DEF SafeJob

\* A pipe gives one read more, and not more than there is.
LEMMA GotMore ==
  ASSUME NEW j \in SafeJob, j.got < j.d.n
  PROVE  [j EXCEPT !.got = @ + 1] \in SafeJob
<1>. DEFINE D == Data \cup {Nil(c) : c \in Clips}
            r == [j EXCEPT !.got = @ + 1]
<1>1. j.d.n \in 0..MaxChunks /\ j.got \in 0..MaxChunks
  BY DEF SafeJob, Job, Data, Nil, MaxChunks
<1>2. j.got + 1 \in 0..MaxChunks
  BY <1>1 DEF MaxChunks
<1>3. Job = [d : D, got : 0..MaxChunks, wr : {"app", "wait", "own", "gdk"}, src : 0..MaxSets]
  BY DEF Job
<1>4. j \in Job
  BY DEF SafeJob
<1>. HIDE DEF D
<1>5. r \in Job /\ r.d = j.d /\ r.wr = j.wr
  BY <1>2, <1>3, <1>4
<1>. QED  BY <1>5 DEF SafeJob

\* The list keeps its type, whatever is added, dropped or filtered.
LEMMA ListTypes ==
  ASSUME NEW es \in Seq(SafeEntry)
  PROVE  /\ PinnedOf(es) \in Seq(SafeEntry)
         /\ \A lim : trim(es, lim) \in Seq(SafeEntry)
         /\ \A d \in SafeData : add(es, d) \in Seq(SafeEntry)
         /\ DataOf(es) \in Seq(SafeData)
<1>1. PinnedOf(es) \in Seq(SafeEntry)
  BY FilterSub DEF PinnedOf
<1>2. ASSUME NEW xs \in Seq(SafeEntry), NEW lim PROVE trim(xs, lim) \in Seq(SafeEntry)
  BY FilterSub DEF trim
<1>3. ASSUME NEW d \in SafeData PROVE add(es, d) \in Seq(SafeEntry)
  <2>. DEFINE same == Filter(es, {x \in ToSet(es) : x.d = d})
              rest == Filter(es, {x \in ToSet(es) : x.d # d})
              front == <<[d |-> d, pinned |-> FALSE]>> \o es
  <2>1. same \in Seq(SafeEntry) /\ rest \in Seq(SafeEntry)
    BY FilterSub
  <2>2. same \o rest \in Seq(SafeEntry)
    <3>. HIDE DEF same, rest
    <3>. QED  BY <2>1
  <2>3. [d |-> d, pinned |-> FALSE] \in SafeEntry
    BY DEF SafeEntry
  <2>4. front \in Seq(SafeEntry)
    BY <2>3
  <2>5. trim(front, limit) \in Seq(SafeEntry)
    BY <1>2, <2>4
  <2>6. add(es, d) = IF same # <<>> THEN same \o rest ELSE trim(front, limit)
    BY DEF add
  <2>. HIDE DEF same, rest, front
  <2>. QED  BY <2>2, <2>5, <2>6
<1>4. DataOf(es) \in Seq(SafeData)
  <2>1. \A i \in 1..Len(es) : es[i].d \in SafeData
    <3>1. \A i \in 1..Len(es) : es[i] \in SafeEntry
      OBVIOUS
    <3>. QED  BY <3>1 DEF SafeEntry
  <2>2. DataOf(es) = [i \in 1..Len(es) |-> es[i].d]
    BY DEF DataOf
  <2>. QED  BY <2>1, <2>2
<1>. QED  BY <1>1, <1>2, <1>3, <1>4

\* RemoveAt keeps the type of a sequence.
LEMMA RemoveAtType ==
  ASSUME NEW S, NEW s \in Seq(S), NEW i \in 1..Len(s)
  PROVE  RemoveAt(s, i) \in Seq(S)
BY DEF RemoveAt

\* The pinned images in the list are safe data, and cover what pinned.json is
\* about to name.
LEMMA PinnedImagesCover ==
  ASSUME entries \in Seq(SafeEntry)
  PROVE  /\ PinnedImages \in SUBSET SafeData
         /\ \A d \in ToSet(DataOf(PinnedOf(entries))) : d.c \in Pictures => d \in PinnedImages
<1>1. PinnedImages \in SUBSET SafeData
  <2>1. \A i \in DOMAIN entries : entries[i].d \in SafeData
    <3>1. \A i \in DOMAIN entries : entries[i] \in SafeEntry
      OBVIOUS
    <3>. QED  BY <3>1 DEF SafeEntry
  <2>. QED  BY <2>1 DEF PinnedImages
<1>. DEFINE K == {x \in ToSet(entries) : x.pinned}
            ps == PinnedOf(entries)
<1>2. ps \in Seq({entries[i] : i \in 1..Len(entries)} \cap K)
  BY FilterType DEF PinnedOf
<1>3. \A k \in 1..Len(ps) : \E i \in 1..Len(entries) : ps[k] = entries[i] /\ entries[i].pinned
  <2>. HIDE DEF ps
  <2>. QED  BY <1>2
<1>4. DOMAIN ps = 1..Len(ps)
  <2>. HIDE DEF ps, K
  <2>. QED  BY <1>2
<1>. HIDE DEF ps
<1>5. \A d \in ToSet(DataOf(ps)) : \E i \in 1..Len(entries) : d = entries[i].d /\ entries[i].pinned
  BY <1>3, <1>4 DEF ToSet, DataOf
<1>. QED  BY <1>1, <1>5 DEF PinnedImages, ps

------------------------------------------------------------------------------
(* The selection.                                                           *)

\* A step that leaves the history alone keeps what is said of it.
LEMMA HistoryKept ==
  ASSUME Inv, UNCHANGED history
  PROVE  HistoryOK' /\ ImagesOnDisk' /\ PinsSaved'
BY DEF Inv, history, HistoryOK, ImagesOnDisk, PinsSaved, Pins

\* Counting one thing leaves the other counts, and the bounds, alone.
LEMMA Ticked ==
  ASSUME SourcesOK
  PROVE  /\ Tick("copies", MaxCopies) \/ Tick("edits", MaxEdits) \/ Tick("crashes", MaxCrashes)
              => /\ count' \in [copies : 0..MaxCopies, sets : 0..MaxSets, edits : 0..MaxEdits, crashes : 0..MaxCrashes]
                 /\ count'.sets = count.sets
         /\ Tick("sets", MaxSets)
              => /\ count' \in [copies : 0..MaxCopies, sets : 0..MaxSets, edits : 0..MaxEdits, crashes : 0..MaxCrashes]
                 /\ count'.sets = count.sets + 1
<1>. DEFINE A == 0..MaxCopies
            B == 0..MaxSets
            C == 0..MaxEdits
            D == 0..MaxCrashes
<1>1. count \in [copies : A, sets : B, edits : C, crashes : D]
  BY DEF SourcesOK
<1>2. /\ \A k \in A : k < MaxCopies => k + 1 \in A
      /\ \A k \in B : k < MaxSets => k + 1 \in B
      /\ \A k \in C : k < MaxEdits => k + 1 \in C
      /\ \A k \in D : k < MaxCrashes => k + 1 \in D
  BY BoundsAssumption
<1>. HIDE DEF A, B, C, D
<1>3. Tick("copies", MaxCopies) => count' \in [copies : A, sets : B, edits : C, crashes : D] /\ count'.sets = count.sets
  BY <1>1, <1>2 DEF Tick
<1>4. Tick("edits", MaxEdits) => count' \in [copies : A, sets : B, edits : C, crashes : D] /\ count'.sets = count.sets
  BY <1>1, <1>2 DEF Tick
<1>5. Tick("crashes", MaxCrashes) => count' \in [copies : A, sets : B, edits : C, crashes : D] /\ count'.sets = count.sets
  BY <1>1, <1>2 DEF Tick
<1>6. Tick("sets", MaxSets) => count' \in [copies : A, sets : B, edits : C, crashes : D] /\ count'.sets = count.sets + 1
  BY <1>1, <1>2 DEF Tick
<1>. QED  BY <1>3, <1>4, <1>5, <1>6 DEF A, B, C, D

\* Offers and events stay what they are when more sources are made, and when
\* the selection is no longer a source of the shell's, or one that is new.
LEMMA EventsMono ==
  ASSUME NEW n \in Nat, NEW m \in Nat, n <= m, NEW s, NEW t,
         t.by = "own" => (t.by = s.by /\ t.src = s.src) \/ t.src > n
  PROVE  Offers(n) \subseteq Offers(m) /\ Events(n, s) \subseteq Events(m, t)
<1>1. Offers(n) \subseteq Offers(m)
  BY DEF Offers
<1>. SUFFICES ASSUME NEW x \in Events(n, s) PROVE x \in Events(m, t)
  BY <1>1
<1>2. CASE x \in [ev : {"selection"}, of : Offers(n)]
  BY <1>1, <1>2 DEF Events
<1>3. CASE x \in [ev : {"send", "cancelled"}, src : 1..n]
  BY <1>3 DEF Events
<1>4. CASE x \in [ev : {"finished"}]
  BY <1>4 DEF Events
<1>. QED  BY <1>2, <1>3, <1>4 DEF Events

\* Two events, each maybe, at the end of a queue.
LEMMA Joined ==
  ASSUME NEW S, NEW q \in Seq(S), NEW x, NEW y, NEW a \in BOOLEAN, NEW b \in BOOLEAN, a => x \in S, b => y \in S
  PROVE  q \o (IF a THEN <<x>> ELSE <<>>) \o (IF b THEN <<y>> ELSE <<>>) \in Seq(S)
<1>1. (IF a THEN <<x>> ELSE <<>>) \in Seq(S)
  OBVIOUS
<1>2. (IF b THEN <<y>> ELSE <<>>) \in Seq(S)
  OBVIOUS
<1>. QED  BY <1>1, <1>2

\* An application copies.
LEMMA AppCopy ==
  ASSUME Inv, NEW c \in Clips, app_copy(c)
  PROVE  Inv'
<1>1. count' \in [copies : 0..MaxCopies, sets : 0..MaxSets, edits : 0..MaxEdits, crashes : 0..MaxCrashes]
      /\ count'.sets = count.sets
  BY Ticked DEF Inv, app_copy
<1>2. sel' = [by |-> "app", src |-> 0, d |-> Full(c)] /\ sel' \in Offers(count.sets)
  BY DataTypes DEF app_copy, Offers
<1>. DEFINE n == count.sets
            x == [ev |-> "cancelled", src |-> sel.src]
            y == Selection(sel')
<1>3. evq \in Seq(Events(n, sel'))
  <2>1. n \in Nat
    BY BoundsAssumption DEF Inv, SourcesOK
  <2>2. Events(n, sel) \subseteq Events(n, sel')
    BY <1>2, <2>1, EventsMono
  <2>. QED  BY <2>2, SeqMono DEF Inv, SourcesOK
<1>4. sel.by = "own" => x \in Events(n, sel')
  BY <1>2 DEF Inv, SourcesOK, Offers, NoSelection, Events
<1>5. y \in Events(n, sel')
  BY <1>2 DEF Selection, Events
<1>6. evq' \in Seq(Events(n, sel'))
  <2>1. evq' = evq \o (IF sel.by = "own" THEN <<x>> ELSE <<>>)
                   \o (IF dev \in {"live", "gdk"} THEN <<y>> ELSE <<>>)
    BY DEF app_copy
  <2>. HIDE DEF x, y
  <2>. QED  BY <1>3, <1>4, <1>5, <2>1, Joined
<1>7. UNCHANGED <<dev, own, jobs, history, chosen>>
  BY DEF app_copy, service
<1>8. SourcesOK'
  BY <1>1, <1>2, <1>6, <1>7 DEF Inv, SourcesOK
<1>9. SelectionServed'
  BY <1>2 DEF SelectionServed
<1>. QED  BY <1>7, <1>8, <1>9, HistoryKept DEF Inv

\* The seat goes away.
LEMMA SeatRemoved ==
  ASSUME Inv, seat_removed
  PROVE  Inv'
<1>. DEFINE n == count.sets
            x == [ev |-> "finished"]
<1>1. count' \in [copies : 0..MaxCopies, sets : 0..MaxSets, edits : 0..MaxEdits, crashes : 0..MaxCrashes]
      /\ count'.sets = n
  BY Ticked DEF Inv, seat_removed
<1>2. x \in Events(n, sel)
  BY DEF Events
<1>3. evq' \in Seq(Events(n, sel))
  <2>. HIDE DEF x
  <2>. QED  BY <1>2 DEF seat_removed, x, Inv, SourcesOK
<1>4. UNCHANGED <<sel, dev, own, jobs, history, chosen>>
  BY DEF seat_removed, service
<1>5. SourcesOK'
  BY <1>1, <1>3, <1>4 DEF Inv, SourcesOK
<1>6. SelectionServed'
  BY <1>4 DEF Inv, SelectionServed
<1>. QED  BY <1>4, <1>5, <1>6, HistoryKept DEF Inv

\* The shell starts to follow the selection.
LEMMA WatchStart ==
  ASSUME Inv, NEW found \in BOOLEAN, singularity_clipboard_watch_start(found)
  PROVE  Inv'
<1>. DEFINE n == count.sets
            y == Selection(sel)
<1>1. UNCHANGED <<sel, own, jobs, history, chosen, count>> /\ dev = "none" /\ dev' \in {"live", "gdk"}
  BY DEF singularity_clipboard_watch_start
<1>2. sel.by # "own"
  BY <1>1 DEF Inv, SourcesOK
<1>3. sel.by # "none" => y \in Events(n, sel)
  <2>1. sel.by # "none" => sel \in Offers(n)
    BY DEF Inv, SourcesOK, NoSelection
  <2>. QED  BY <2>1 DEF Selection, Events
<1>4. evq' \in Seq(Events(n, sel))
  <2>1. evq' = evq \o (IF sel.by = "none" THEN <<>> ELSE <<y>>)
    BY DEF singularity_clipboard_watch_start
  <2>2. evq \in Seq(Events(n, sel))
    BY DEF Inv, SourcesOK
  <2>. HIDE DEF y
  <2>3. (IF sel.by = "none" THEN <<>> ELSE <<y>>) \in Seq(Events(n, sel))
    <3>1. CASE sel.by = "none"
      <4>1. <<>> \in Seq(Events(n, sel))
        OBVIOUS
      <4>. QED  BY <3>1, <4>1, Zenon
    <3>2. CASE sel.by # "none"
      BY <1>3, <3>2
    <3>. QED  BY <3>1, <3>2
  <2>. QED  BY <2>1, <2>2, <2>3
<1>5. SourcesOK'
  BY <1>1, <1>2, <1>4 DEF Inv, SourcesOK
<1>6. SelectionServed'
  BY <1>1, <1>2 DEF SelectionServed
<1>. QED  BY <1>1, <1>5, <1>6, HistoryKept DEF Inv

\* The first event is one of those that may be under way, and so is the rest.
LEMMA FirstEvent ==
  ASSUME Inv, NEW kind, Event(kind)
  PROVE  /\ e \in Events(count.sets, sel) /\ e.ev = kind
         /\ Tail(evq) \in Seq(Events(count.sets, sel))
         /\ kind = "selection" => e.of \in Offers(count.sets)
         /\ kind \in {"send", "cancelled"} => e.src \in 1..count.sets
         /\ kind = "cancelled" /\ sel.by = "own" => e.src # sel.src
<1>1. evq \in Seq(Events(count.sets, sel)) /\ evq # <<>>
  BY DEF Event, Inv, SourcesOK
<1>2. Head(evq) \in Events(count.sets, sel) /\ Tail(evq) \in Seq(Events(count.sets, sel))
  BY <1>1
<1>3. e \in Events(count.sets, sel) /\ e.ev = kind
  BY <1>2 DEF e, Event
<1>. QED  BY <1>2, <1>3 DEF Events

\* A step that takes the first event, and touches neither the selection nor
\* the device.
LEMMA EventTaken ==
  ASSUME Inv, UNCHANGED <<sel, dev, own, history, chosen, count>>,
         evq' \in Seq(Events(count.sets, sel)), jobs' \in Seq(SafeJob)
  PROVE  Inv'
<1>1. SourcesOK'
  BY DEF Inv, SourcesOK
<1>2. SelectionServed'
  BY DEF Inv, SelectionServed
<1>. QED  BY <1>1, <1>2, HistoryKept DEF Inv

\* An offer of the shell's or of GDK holds nothing secret, and one of an
\* application is secret exactly when its types have the hint.
LEMMA OfferSafe ==
  ASSUME NEW s \in Offers(count.sets), count.sets \in 0..MaxSets
  PROVE  /\ s.d \in Data /\ s.src \in 0..MaxSets
         /\ Hint \notin Offered(s) => s.d \in SafeData
<1>1. CASE s.by = "app"
  BY <1>1, DataTypes, BoundsAssumption DEF Offers, Offered, SafeData, Data
<1>2. CASE s.by = "own"
  BY <1>2, DataTypes, BoundsAssumption DEF Offers
<1>3. CASE s.by = "gdk"
  BY <1>3, DataTypes, BoundsAssumption DEF Offers
<1>. QED  BY <1>1, <1>2, <1>3 DEF Offers

\* A selection is announced, with data control.
LEMMA DeviceSelection ==
  ASSUME Inv, NEW pipe \in BOOLEAN, device_selection(pipe)
  PROVE  Inv'
<1>. DEFINE n == count.sets
            reads == Hint \notin Offered(e.of) /\ pick_mime(Offered(e.of)) # "none" /\ pipe
            self  == e.of.by = "own"
            waits == reads /\ self /\ sel = e.of
            d == IF waits THEN e.of.d ELSE IF self THEN Nil(e.of.d.c) ELSE e.of.d
            j == NewJob(d, IF waits THEN "wait" ELSE "app")
            x == [ev |-> "send", src |-> sel.src]
<1>1. e.of \in Offers(n) /\ Tail(evq) \in Seq(Events(n, sel)) /\ n \in 0..MaxSets
  BY FirstEvent DEF device_selection, Inv, SourcesOK
<1>2. reads => j \in SafeJob
  <2>. SUFFICES ASSUME reads PROVE j \in SafeJob
    OBVIOUS
  <2>1. e.of.d \in SafeData /\ e.of.src \in 0..MaxSets
    BY <1>1, OfferSafe
  <2>2. d \in SafeData \cup {Nil(c) : c \in Clips \ Secrets}
    BY <2>1, DataTypes
  <2>3. (IF waits THEN "wait" ELSE "app") \in {"app", "wait", "own", "gdk"} \ {"gdk"}
    OBVIOUS
  <2>. HIDE DEF d, waits
  <2>. QED  BY <2>1, <2>2, <2>3, DataTypes DEF NewJob
<1>3. waits => x \in Events(n, sel)
  BY <1>1 DEF Offers, Events
<1>4. jobs' = IF reads THEN Append(jobs, j) ELSE jobs
  BY DEF device_selection
<1>5. evq' = Tail(evq) \o (IF waits THEN <<x>> ELSE <<>>)
  BY DEF device_selection
<1>6. UNCHANGED <<sel, dev, own, history, chosen, count>> /\ jobs \in Seq(SafeJob)
  BY DEF device_selection, Inv, SourcesOK
<1>. HIDE DEF reads, waits, j, x
<1>7. jobs' \in Seq(SafeJob)
  BY <1>2, <1>4, <1>6
<1>8. evq' \in Seq(Events(n, sel))
  <2>1. (IF waits THEN <<x>> ELSE <<>>) \in Seq(Events(n, sel))
    <3>1. CASE waits
      BY <1>3, <3>1
    <3>2. CASE ~waits
      <4>1. <<>> \in Seq(Events(n, sel))
        OBVIOUS
      <4>. QED  BY <3>2, <4>1, Zenon
    <3>. QED  BY <3>1, <3>2
  <2>. QED  BY <1>1, <1>5, <2>1
<1>. QED  BY <1>6, <1>7, <1>8, EventTaken

\* A selection is announced, without data control.
LEMMA ReadGdk ==
  ASSUME Inv, read_gdk
  PROVE  Inv'
<1>. DEFINE n == count.sets
            reads == ~(Hint \in Offered(e.of) \/ pick_mime(Offered(e.of)) = "none")
            j == NewJob(e.of.d, "gdk")
<1>1. e.of \in Offers(n) /\ Tail(evq) \in Seq(Events(n, sel)) /\ n \in 0..MaxSets
  BY FirstEvent DEF read_gdk, Inv, SourcesOK
<1>2. reads => j \in SafeJob
  BY <1>1, OfferSafe, DataTypes DEF NewJob
<1>3. jobs' = IF ~reads THEN jobs ELSE Append(jobs, j)
  BY DEF read_gdk
<1>4. UNCHANGED <<sel, dev, own, history, chosen, count>> /\ jobs \in Seq(SafeJob) /\ evq' = Tail(evq)
  BY DEF read_gdk, Inv, SourcesOK
<1>. HIDE DEF reads, j
<1>5. jobs' \in Seq(SafeJob)
  BY <1>2, <1>3, <1>4
<1>. QED  BY <1>1, <1>4, <1>5, EventTaken

\* The device is gone.
LEMMA DeviceFinished ==
  ASSUME Inv, device_finished
  PROVE  Inv'
<1>. DEFINE n == count.sets
<1>1. Tail(evq) \in Seq(Events(n, sel))
  BY FirstEvent DEF device_finished
<1>2. evq' \in Seq(Events(n, sel))
  BY <1>1, FilterSub DEF device_finished
<1>3. UNCHANGED <<sel, own, jobs, history, chosen, count>> /\ dev' = "gone"
  BY DEF device_finished
<1>4. SourcesOK'
  BY <1>2, <1>3 DEF Inv, SourcesOK
<1>5. SelectionServed'
  BY <1>3 DEF SelectionServed
<1>. QED  BY <1>3, <1>4, <1>5, HistoryKept DEF Inv

\* The shell fills the pipes that wait for its source.
LEMMA SourceSend ==
  ASSUME Inv, source_send
  PROVE  Inv'
<1>. DEFINE n == count.sets
            d == IF e.src = own.src THEN own.d ELSE NoData
            f(j) == IF j.wr = "wait" /\ j.src = e.src
                    THEN [j EXCEPT !.wr = "own", !.d = IF d = NoData THEN Nil(@.c) ELSE d] ELSE j
<1>1. Tail(evq) \in Seq(Events(n, sel))
  BY FirstEvent DEF source_send
<1>2. d \in SafeData \cup {NoData}
  BY DEF Inv, SourcesOK, NoSource
<1>3. ASSUME NEW j \in SafeJob PROVE f(j) \in SafeJob
  <2>. DEFINE v == IF d = NoData THEN Nil(j.d.c) ELSE d
  <2>1. v \in SafeData \cup {Nil(j.d.c)}
    BY <1>2
  <2>2. j.wr = "wait" => [j EXCEPT !.wr = "own", !.d = v] \in SafeJob
    <3>. HIDE DEF v
    <3>. QED  BY <2>1, Written
  <2>3. f(j) = IF j.wr = "wait" /\ j.src = e.src THEN [j EXCEPT !.wr = "own", !.d = v] ELSE j
    OBVIOUS
  <2>. HIDE DEF v, f
  <2>. QED  BY <2>2, <2>3
<1>4. jobs' = [i \in DOMAIN jobs |-> f(jobs[i])]
  BY DEF source_send
<1>5. UNCHANGED <<sel, dev, own, history, chosen, count>> /\ jobs \in Seq(SafeJob) /\ evq' = Tail(evq)
  BY DEF source_send, Inv, SourcesOK
<1>. HIDE DEF f
<1>6. jobs' \in Seq(SafeJob)
  BY <1>3, <1>4, <1>5
<1>. QED  BY <1>1, <1>5, <1>6, EventTaken

\* A source is cancelled: never the one that is the selection.
LEMMA SourceCancelled ==
  ASSUME Inv, source_cancelled
  PROVE  Inv'
<1>. DEFINE n == count.sets
<1>1. Tail(evq) \in Seq(Events(n, sel)) /\ (sel.by = "own" => e.src # sel.src)
  BY FirstEvent DEF source_cancelled
<1>2. UNCHANGED <<sel, dev, jobs, history, chosen, count>> /\ evq' = Tail(evq)
      /\ own' = IF e.src = own.src THEN NoSource ELSE own
  BY DEF source_cancelled
<1>3. SourcesOK'
  BY <1>1, <1>2 DEF Inv, SourcesOK
<1>4. SelectionServed'
  BY <1>1, <1>2 DEF Inv, SelectionServed
<1>. QED  BY <1>2, <1>3, <1>4, HistoryKept DEF Inv

\* The pipes of a source that is destroyed are closed.
LEMMA ShutType ==
  ASSUME jobs \in Seq(SafeJob), NEW src
  PROVE  Shut(src) \in Seq(SafeJob)
<1>. DEFINE f(j) == IF j.wr = "wait" /\ j.src = src
                    THEN [j EXCEPT !.wr = "own", !.d = Nil(@.c)] ELSE j
<1>1. ASSUME NEW j \in SafeJob PROVE f(j) \in SafeJob
  <2>1. j.wr = "wait" => [j EXCEPT !.wr = "own", !.d = Nil(j.d.c)] \in SafeJob
    BY Written
  <2>. QED  BY <2>1
<1>2. Shut(src) = [i \in DOMAIN jobs |-> f(jobs[i])]
  BY DEF Shut
<1>. HIDE DEF f
<1>. QED  BY <1>1, <1>2

\* An entry is picked: the new source is one no event is about.
LEMMA Copy ==
  ASSUME Inv, NEW d \in SafeData, copy(d)
  PROVE  Inv'
<1>. DEFINE n == count.sets
            m == n + 1
<1>1. count' \in [copies : 0..MaxCopies, sets : 0..MaxSets, edits : 0..MaxEdits, crashes : 0..MaxCrashes]
      /\ count'.sets = m /\ n \in Nat
  BY Ticked, BoundsAssumption DEF Inv, copy, SourcesOK
<1>2. chosen' = d /\ dev # "none" /\ UNCHANGED <<dev, history>>
  BY DEF copy
<1>3. own \in [src : 1..m, d : SafeData] \cup {NoSource} /\ jobs \in Seq(SafeJob) /\ evq \in Seq(Events(n, sel))
  BY <1>1 DEF Inv, SourcesOK
<1>4. CASE dev = "live"
  <2>1. own' = [src |-> m, d |-> d] /\ sel' = [by |-> "own", src |-> m, d |-> d]
        /\ jobs' = Shut(own.src) /\ evq' = Append(Forget(own.src, evq), Selection(sel'))
    BY <1>4 DEF copy, singularity_clipboard_set
  <2>2. sel' \in Offers(m) /\ own' \in [src : 1..m, d : SafeData]
    BY <1>1, <2>1 DEF Offers
  <2>3. Events(n, sel) \subseteq Events(m, sel')
    <3>1. sel'.src > n /\ m \in Nat /\ n <= m
      BY <1>1, <2>1
    <3>. HIDE DEF m
    <3>. QED  BY <1>1, <3>1, EventsMono
  <2>4. evq \in Seq(Events(m, sel'))
    BY <1>3, <2>3, SeqMono
  <2>5. Forget(own.src, evq) \in Seq(Events(m, sel'))
    BY <2>4, FilterSub DEF Forget
  <2>6. Selection(sel') \in Events(m, sel')
    BY <2>2 DEF Selection, Events
  <2>7. evq' \in Seq(Events(m, sel'))
    BY <2>1, <2>5, <2>6
  <2>8. jobs' \in Seq(SafeJob)
    BY <1>3, <2>1, ShutType
  <2>9. SourcesOK'
    BY <1>1, <1>2, <1>4, <2>2, <2>7, <2>8 DEF Inv, SourcesOK
  <2>10. SelectionServed'
    BY <1>2, <2>1 DEF SelectionServed
  <2>. QED  BY <1>2, <2>9, <2>10, HistoryKept DEF Inv
<1>5. CASE dev # "live"
  <2>. DEFINE x == [ev |-> "cancelled", src |-> sel.src]
              y == Selection(sel')
  <2>1. sel' = [by |-> "gdk", src |-> 0, d |-> d] /\ UNCHANGED <<own, jobs>>
        /\ evq' = evq \o (IF sel.by = "own" THEN <<x>> ELSE <<>>) \o (IF dev = "gdk" THEN <<y>> ELSE <<>>)
    BY <1>5 DEF copy
  <2>2. sel' \in Offers(m)
    BY <2>1 DEF Offers
  <2>3. Events(n, sel) \subseteq Events(m, sel')
    BY <1>1, <2>1, EventsMono
  <2>4. evq \in Seq(Events(m, sel'))
    BY <1>3, <2>3, SeqMono
  <2>5. sel.by = "own" => x \in Events(m, sel')
    BY <1>1, <2>1 DEF Inv, SourcesOK, Offers, NoSelection, Events
  <2>6. y \in Events(m, sel')
    BY <2>2, <2>1 DEF Selection, Events
  <2>7. evq' \in Seq(Events(m, sel'))
    <3>. HIDE DEF x, y
    <3>. QED  BY <2>1, <2>4, <2>5, <2>6, Joined
  <2>8. SourcesOK'
    BY <1>1, <1>2, <1>3, <2>1, <2>2, <2>7 DEF Inv, SourcesOK
  <2>9. SelectionServed'
    BY <2>1 DEF SelectionServed
  <2>. QED  BY <1>2, <2>8, <2>9, HistoryKept DEF Inv
<1>. QED  BY <1>4, <1>5

------------------------------------------------------------------------------
(* The history.                                                             *)

\* A step of the history leaves the selection alone, and what is written down
\* changes with the list only when the save timer runs.
LEMMA SourcesKept ==
  ASSUME Inv, UNCHANGED <<world, dev, own, chosen>>, jobs' \in Seq(SafeJob),
         count' = count \/ Tick("edits", MaxEdits)
  PROVE  SourcesOK' /\ SelectionServed'
<1>1. count' \in [copies : 0..MaxCopies, sets : 0..MaxSets, edits : 0..MaxEdits, crashes : 0..MaxCrashes]
      /\ count'.sets = count.sets
  BY Ticked DEF Inv, SourcesOK
<1>. QED  BY <1>1 DEF Inv, SourcesOK, SelectionServed, world

\* A list that changed is about to be saved.
LEMMA ListChanged ==
  ASSUME Inv, NEW es \in Seq(SafeEntry), Changed(es), UNCHANGED <<disk, failed>>,
         enabled' \in BOOLEAN, limit' \in Limits, told' \in SafeData \cup {NoData}
  PROVE  HistoryOK' /\ ImagesOnDisk' /\ PinsSaved'
BY DEF Inv, Changed, HistoryOK, ImagesOnDisk, PinsSaved

\* A selection has been read.
LEMMA OnSelection ==
  ASSUME Inv, NEW d \in SafeData, on_selection(d), UNCHANGED <<disk, failed, enabled, limit>>
  PROVE  HistoryOK' /\ ImagesOnDisk' /\ PinsSaved'
<1>1. told' \in SafeData \cup {NoData} /\ enabled' \in BOOLEAN /\ limit' \in Limits
  BY DEF Inv, HistoryOK, on_selection
<1>2. CASE enabled /\ d.c \notin Blank
  <2>1. Changed(add(entries, d))
    BY <1>2 DEF on_selection
  <2>2. add(entries, d) \in Seq(SafeEntry)
    BY ListTypes DEF Inv, HistoryOK
  <2>. QED  BY <1>1, <2>1, <2>2, ListChanged
<1>3. CASE ~(enabled /\ d.c \notin Blank)
  <2>1. UNCHANGED <<entries, save_id>>
    BY <1>3 DEF on_selection
  <2>. QED  BY <1>1, <2>1 DEF Inv, HistoryOK, ImagesOnDisk, PinsSaved, Pins
<1>. QED  BY <1>2, <1>3

\* A job is woken: it goes on, or ends with all, some or none of its data.
LEMMA OnRead ==
  ASSUME Inv, NEW i \in DOMAIN jobs, on_read(i)
  PROVE  Inv'
<1>. DEFINE j == jobs[i]
<1>1. UNCHANGED <<world, dev, own, enabled, limit, disk, failed, chosen, count>> /\ j.wr \in {"app", "own"}
  BY DEF on_read
<1>2. jobs \in Seq(SafeJob) /\ i \in 1..Len(jobs) /\ j \in SafeJob
  BY DEF Inv, SourcesOK
<1>3. Drop(i) => jobs' \in Seq(SafeJob)
  BY <1>2, RemoveAtType DEF Drop
<1>4. Kept => HistoryOK' /\ ImagesOnDisk' /\ PinsSaved'
  BY <1>1, HistoryKept DEF Kept, history
<1>5. CASE j.got < j.d.n /\ Kept /\ IF j.got + 1 > LimitOf(j.d.c) THEN Drop(i) ELSE jobs' = [jobs EXCEPT ![i].got = @ + 1]
  <2>1. [j EXCEPT !.got = @ + 1] \in SafeJob
    BY <1>2, <1>5, GotMore
  <2>2. jobs' \in Seq(SafeJob)
    BY <1>2, <1>3, <1>5, <2>1
  <2>. QED  BY <1>1, <1>4, <1>5, <2>2, SourcesKept DEF Inv
<1>6. CASE Drop(i) /\ IF j.got > 0 THEN on_selection([c |-> j.d.c, n |-> j.got]) ELSE Kept
  <2>1. j.got > 0 => [c |-> j.d.c, n |-> j.got] \in SafeData
    BY <1>2 DEF SafeJob, Job, SafeData, Data, Nil
  <2>2. HistoryOK' /\ ImagesOnDisk' /\ PinsSaved'
    BY <1>1, <1>4, <1>6, <2>1, OnSelection
  <2>. QED  BY <1>1, <1>3, <1>6, <2>2, SourcesKept DEF Inv
<1>7. CASE Drop(i) /\ Kept
  BY <1>1, <1>3, <1>4, <1>7, SourcesKept DEF Inv
<1>. QED  BY <1>5, <1>6, <1>7 DEF on_read

\* GDK hands over what was read.
LEMMA ReadGdkDone ==
  ASSUME Inv, NEW i \in DOMAIN jobs, read_gdk_done(i)
  PROVE  Inv'
<1>. DEFINE j == jobs[i]
<1>1. UNCHANGED <<world, dev, own, enabled, limit, disk, failed, chosen, count>> /\ j.wr = "gdk" /\ Drop(i)
      /\ (on_selection(j.d) \/ Kept)
  BY DEF read_gdk_done
<1>2. jobs \in Seq(SafeJob) /\ i \in 1..Len(jobs) /\ j \in SafeJob
  BY DEF Inv, SourcesOK
<1>3. j.d \in SafeData
  BY <1>1, <1>2 DEF SafeJob, SafeData
<1>4. jobs' \in Seq(SafeJob)
  BY <1>1, <1>2, RemoveAtType DEF Drop
<1>5. HistoryOK' /\ ImagesOnDisk' /\ PinsSaved'
  <2>1. CASE Kept
    BY <1>1, <2>1, HistoryKept DEF Kept, history
  <2>2. CASE on_selection(j.d)
    BY <1>1, <1>3, <2>2, OnSelection
  <2>. QED  BY <1>1, <2>1, <2>2
<1>. QED  BY <1>1, <1>4, <1>5, SourcesKept DEF Inv

\* The user edits the list, or the settings.
LEMMA Edits ==
  ASSUME Inv, \/ \E i \in DOMAIN entries : set_pinned(i) \/ remove(i)
              \/ clear \/ set_enabled \/ \E l \in Limits : set_limit(l)
  PROVE  Inv'
<1>1. Edited
  BY DEF set_pinned, remove, clear, set_enabled, set_limit
<1>2. SourcesOK' /\ SelectionServed' /\ UNCHANGED <<told, disk, failed>>
  BY <1>1, SourcesKept DEF Edited, world, service, Inv, SourcesOK
<1>3. entries \in Seq(SafeEntry) /\ told' \in SafeData \cup {NoData} /\ limit \in Limits /\ enabled \in BOOLEAN
  BY <1>2 DEF Inv, HistoryOK
<1>4. ASSUME NEW i \in DOMAIN entries, set_pinned(i) PROVE HistoryOK' /\ ImagesOnDisk' /\ PinsSaved'
  <2>. DEFINE es == [entries EXCEPT ![i].pinned = ~@]
  <2>1. [entries[i] EXCEPT !.pinned = ~@] \in SafeEntry
    <3>1. entries[i] \in SafeEntry
      BY <1>3
    <3>. QED  BY <3>1 DEF SafeEntry
  <2>2. es \in Seq(SafeEntry)
    BY <1>3, <2>1
  <2>. HIDE DEF es
  <2>3. trim(es, limit) \in Seq(SafeEntry)
    BY <2>2, ListTypes
  <2>4. Changed(trim(es, limit)) /\ UNCHANGED <<enabled, limit>>
    BY <1>4 DEF set_pinned, es
  <2>. QED  BY <1>2, <1>3, <2>3, <2>4, ListChanged
<1>5. ASSUME NEW i \in DOMAIN entries, remove(i) PROVE HistoryOK' /\ ImagesOnDisk' /\ PinsSaved'
  <2>1. RemoveAt(entries, i) \in Seq(SafeEntry)
    BY <1>3, RemoveAtType
  <2>. QED  BY <1>2, <1>3, <1>5, <2>1, ListChanged DEF remove
<1>6. PinnedOf(entries) \in Seq(SafeEntry)
  BY <1>3, ListTypes
<1>7. CASE clear
  <2>1. Changed(PinnedOf(entries)) /\ UNCHANGED <<enabled, limit>>
    BY <1>7 DEF clear
  <2>2. HistoryOK' /\ ImagesOnDisk' /\ PinsSaved'
    BY <1>2, <1>3, <1>6, <2>1, ListChanged
  <2>. QED  BY <1>2, <2>2 DEF Inv
<1>8. CASE set_enabled
  <2>1. enabled' \in BOOLEAN /\ limit' \in Limits
    BY <1>3, <1>8 DEF set_enabled
  <2>2. CASE enabled
    <3>1. Changed(PinnedOf(entries))
      BY <1>8, <2>2 DEF set_enabled
    <3>2. HistoryOK' /\ ImagesOnDisk' /\ PinsSaved'
      BY <1>2, <1>3, <1>6, <2>1, <3>1, ListChanged
    <3>. QED  BY <1>2, <3>2 DEF Inv
  <2>3. CASE ~enabled
    BY <1>2, <1>3, <1>8, <2>1, <2>3 DEF set_enabled, Inv, HistoryOK, ImagesOnDisk, PinsSaved, Pins
  <2>. QED  BY <2>2, <2>3
<1>9. ASSUME NEW l \in Limits, set_limit(l) PROVE HistoryOK' /\ ImagesOnDisk' /\ PinsSaved'
  BY <1>2, <1>9 DEF set_limit, Inv, HistoryOK, ImagesOnDisk, PinsSaved, Pins
<1>. QED  BY <1>2, <1>4, <1>5, <1>7, <1>8, <1>9 DEF Inv

\* What the disk holds after each step of a save: the names of before with all
\* their images, or, if pinned.json was written, the names of the pins.
AfterStep(on, ok, k) ==
  /\ on \in [json : Seq(SafeData), files : SUBSET SafeData]
  /\ k = 1 => on.json = disk.json /\ disk.files \subseteq on.files
  /\ k # 1 /\ ok => on.json = DataOf(PinnedOf(entries))

LEMMA SaveStepsSafe ==
  ASSUME Inv, NEW wrote \in SUBSET PinnedImages, NEW ok \in BOOLEAN, NEW k \in 1..3
  PROVE  AfterStep(SaveSteps(wrote, ok)[k], ok, k)
<1>. DEFINE js == DataOf(PinnedOf(entries))
            D == Seq(SafeData)
            F == SUBSET SafeData
            one == [disk EXCEPT !.files = @ \cup wrote]
            two == [one EXCEPT !.json = IF ok THEN js ELSE @]
            three == [two EXCEPT !.files = @ \cap PinnedImages]
<1>1. disk \in [json : D, files : F] /\ entries \in Seq(SafeEntry)
  BY DEF Inv, HistoryOK
<1>2. PinnedImages \in F
  BY <1>1, PinnedImagesCover
<1>3. js \in D
  BY <1>1, ListTypes
<1>4. disk.files \cup wrote \in F
  BY <1>1, <1>2
<1>5. SaveSteps(wrote, ok) = <<one, two, three>>
  BY DEF SaveSteps
<1>. HIDE DEF js, D
<1>6. one \in [json : D, files : F] /\ one.json = disk.json /\ one.files = disk.files \cup wrote
  BY <1>1, <1>4
<1>. HIDE DEF one
<1>7. two \in [json : D, files : F] /\ (ok => two.json = js) /\ two.files = one.files
  BY <1>3, <1>6
<1>. HIDE DEF two
<1>8. three \in [json : D, files : F] /\ three.json = two.json
  BY <1>7
<1>. HIDE DEF three
<1>9. SaveSteps(wrote, ok)[1] = one /\ SaveSteps(wrote, ok)[2] = two /\ SaveSteps(wrote, ok)[3] = three
  BY <1>5
<1>10. CASE k = 1
  BY <1>6, <1>9, <1>10 DEF D, AfterStep
<1>11. CASE k = 2
  BY <1>7, <1>9, <1>11 DEF D, js, AfterStep
<1>12. CASE k = 3
  BY <1>7, <1>8, <1>9, <1>12 DEF D, js, AfterStep
<1>. QED  BY <1>10, <1>11, <1>12

\* A save in which nothing failed has an image for every name.
LEMMA SavedWhole ==
  ASSUME Inv, NEW ok \in BOOLEAN, ok => disk'.json = DataOf(PinnedOf(entries)), failed' = WriteFailed(ok), ~failed'
  PROVE  /\ disk'.json = DataOf(PinnedOf(entries))
         /\ \A d \in ToSet(disk'.json) : d.c \in Pictures => d \in disk'.files
<1>1. ok /\ PinnedImages \subseteq disk'.files
  BY DEF WriteFailed
<1>2. \A d \in ToSet(DataOf(PinnedOf(entries))) : d.c \in Pictures => d \in PinnedImages
  BY PinnedImagesCover DEF Inv, HistoryOK
<1>. QED  BY <1>1, <1>2

\* The save timer.
LEMMA Save ==
  ASSUME Inv, save
  PROVE  Inv'
<1>1. UNCHANGED <<world, service, enabled, limit, entries, told, chosen, count>> /\ save_id' = FALSE
  BY DEF save
<1>2. PICK wrote \in SUBSET PinnedImages, ok \in BOOLEAN :
        disk' = SaveSteps(wrote, ok)[3] /\ failed' = WriteFailed(ok)
  BY DEF save
<1>3. SourcesOK' /\ SelectionServed'
  BY <1>1, SourcesKept DEF service, Inv, SourcesOK
<1>4. disk' \in [json : Seq(SafeData), files : SUBSET SafeData]
      /\ (ok => disk'.json = DataOf(PinnedOf(entries)))
  <2>1. AfterStep(disk', ok, 3)
    BY <1>2, SaveStepsSafe, 3 \in 1..3, Zenon
  <2>. QED  BY <2>1 DEF AfterStep
<1>5. HistoryOK'
  <2>1. failed' \in BOOLEAN
    BY <1>2 DEF WriteFailed
  <2>. QED  BY <1>1, <1>4, <2>1 DEF Inv, HistoryOK
<1>6. CASE failed'
  BY <1>3, <1>5, <1>6 DEF Inv, ImagesOnDisk, PinsSaved
<1>7. CASE ~failed'
  <2>1. /\ disk'.json = DataOf(PinnedOf(entries))
        /\ \A d \in ToSet(disk'.json) : d.c \in Pictures => d \in disk'.files
    BY <1>2, <1>4, <1>7, SavedWhole
  <2>. QED  BY <1>1, <1>3, <1>5, <2>1 DEF Inv, ImagesOnDisk, PinsSaved, Pins
<1>. QED  BY <1>6, <1>7

\* A list that is loaded from a disk with all its images is the list that was
\* saved: nothing is dropped, and everything in it is pinned.
LEMMA LoadAll ==
  ASSUME NEW on \in [json : Seq(SafeData), files : SUBSET SafeData],
         \A d \in ToSet(on.json) : d.c \in Pictures => d \in on.files
  PROVE  /\ load_pinned(on) \in Seq(SafeEntry)
         /\ DataOf(PinnedOf(load_pinned(on))) = on.json
<1>. DEFINE s == on.json
            K == {d \in ToSet(s) : d.c \in Pictures => d \in on.files}
            es == load_pinned(on)
<1>1. s \in Seq(SafeData)
  OBVIOUS
<1>2. \A i \in 1..Len(s) : s[i] \in K
  BY <1>1 DEF ToSet
<1>3. Filter(s, K) = s
  <2>. HIDE DEF K, s
  <2>. QED  BY <1>1, <1>2, FilterAll
<1>4. es = [i \in DOMAIN s |-> [d |-> s[i], pinned |-> TRUE]]
  BY <1>3 DEF load_pinned
<1>. HIDE DEF s, es
<1>5. \A x \in SafeData : [d |-> x, pinned |-> TRUE] \in SafeEntry
  BY DEF SafeEntry
<1>6. es \in Seq(SafeEntry) /\ Len(es) = Len(s)
  BY <1>1, <1>4, <1>5
<1>7. \A i \in 1..Len(es) : es[i].pinned /\ es[i].d = s[i]
  BY <1>1, <1>4, <1>6
<1>8. PinnedOf(es) = es
  <2>. DEFINE P == {x \in ToSet(es) : x.pinned}
  <2>1. \A i \in 1..Len(es) : es[i] \in P
    BY <1>6, <1>7 DEF ToSet
  <2>2. PinnedOf(es) = Filter(es, P)
    BY DEF PinnedOf
  <2>. HIDE DEF P
  <2>. QED  BY <1>6, <2>1, <2>2, FilterAll
<1>9. DataOf(es) = s
  <2>1. DataOf(es) = [i \in 1..Len(s) |-> s[i]]
    BY <1>6, <1>7 DEF DataOf
  <2>. QED  BY <1>1, <2>1
<1>. QED  BY <1>6, <1>8, <1>9 DEF es, s

\* The disk a crash leaves: a save that was under way has done nothing, has
\* only added images, or has written pinned.json.
LEMMA CrashDisk ==
  ASSUME Inv, NEW done \in 0..2, NEW wrote \in SUBSET PinnedImages, NEW ok \in BOOLEAN, crash(done, wrote, ok)
  PROVE  /\ disk' \in [json : Seq(SafeData), files : SUBSET SafeData]
         /\ failed' \in BOOLEAN
         /\ ~failed'
              => /\ \A d \in ToSet(disk'.json) : d.c \in Pictures => d \in disk'.files
                 /\ disk'.json \in {disk.json, Pins}
                 /\ ~save_id => disk'.json = disk.json
<1>1. /\ done > 0 => save_id
      /\ disk' = IF done = 0 THEN disk ELSE SaveSteps(wrote, ok)[done]
      /\ failed' = IF done < 2 THEN failed ELSE WriteFailed(ok)
  BY DEF crash
<1>2. CASE done = 0
  BY <1>1, <1>2 DEF Inv, HistoryOK, ImagesOnDisk
<1>3. CASE done = 1
  <2>1. disk' = SaveSteps(wrote, ok)[1] /\ failed' = failed /\ save_id
    BY <1>1, <1>3
  <2>2. /\ disk' \in [json : Seq(SafeData), files : SUBSET SafeData]
        /\ disk'.json = disk.json /\ disk.files \subseteq disk'.files
    <3>1. AfterStep(disk', ok, 1)
      BY <2>1, SaveStepsSafe, 1 \in 1..3, Zenon
    <3>. QED  BY <3>1 DEF AfterStep
  <2>. QED  BY <2>1, <2>2 DEF Inv, HistoryOK, ImagesOnDisk
<1>4. CASE done = 2
  <2>1. disk' = SaveSteps(wrote, ok)[2] /\ failed' = WriteFailed(ok) /\ save_id
    BY <1>1, <1>4
  <2>2. /\ disk' \in [json : Seq(SafeData), files : SUBSET SafeData]
        /\ ok => disk'.json = DataOf(PinnedOf(entries))
    <3>1. AfterStep(disk', ok, 2)
      BY <2>1, SaveStepsSafe, 2 \in 1..3, Zenon
    <3>. QED  BY <3>1 DEF AfterStep
  <2>3. failed' \in BOOLEAN
    BY <2>1 DEF WriteFailed
  <2>4. ~failed' => /\ disk'.json = Pins
                    /\ \A d \in ToSet(disk'.json) : d.c \in Pictures => d \in disk'.files
    BY <2>1, <2>2, SavedWhole DEF Pins
  <2>. QED  BY <2>1, <2>2, <2>3, <2>4
<1>. QED  BY <1>2, <1>3, <1>4

\* What is loaded has its type whatever is missing.
LEMMA LoadType ==
  ASSUME NEW on \in [json : Seq(SafeData), files : SUBSET SafeData]
  PROVE  load_pinned(on) \in Seq(SafeEntry)
<1>. DEFINE there == Filter(on.json, {d \in ToSet(on.json) : d.c \in Pictures => d \in on.files})
<1>1. there \in Seq(SafeData)
  BY FilterSub
<1>2. load_pinned(on) = [i \in DOMAIN there |-> [d |-> there[i], pinned |-> TRUE]]
  BY DEF load_pinned
<1>3. \A x \in SafeData : [d |-> x, pinned |-> TRUE] \in SafeEntry
  BY DEF SafeEntry
<1>. HIDE DEF there
<1>. QED  BY <1>1, <1>2, <1>3

\* The shell dies and starts again.
LEMMA Crash ==
  ASSUME Inv, NEW done \in 0..2, NEW wrote \in SUBSET PinnedImages, NEW ok \in BOOLEAN, crash(done, wrote, ok)
  PROVE  Inv'
<1>1. count' \in [copies : 0..MaxCopies, sets : 0..MaxSets, edits : 0..MaxEdits, crashes : 0..MaxCrashes]
      /\ count'.sets = count.sets
  BY Ticked DEF Inv, crash
<1>2. /\ failed' = IF done < 2 THEN failed ELSE WriteFailed(ok)
      /\ entries' = load_pinned(disk')
      /\ sel' = IF sel.by \in {"own", "gdk"} THEN NoSelection ELSE sel
      /\ evq' = <<>> /\ jobs' = <<>> /\ dev' = "none" /\ own' = NoSource
      /\ save_id' = FALSE /\ told' = NoData
      /\ UNCHANGED <<enabled, limit, chosen>>
  BY DEF crash
<1>3. disk' \in [json : Seq(SafeData), files : SUBSET SafeData] /\ failed' \in BOOLEAN
  BY CrashDisk
<1>4. entries' \in Seq(SafeEntry)
  BY <1>2, <1>3, LoadType
<1>5. sel' \in Offers(count.sets) \cup {NoSelection} /\ sel'.by # "own"
  BY <1>2 DEF Inv, SourcesOK, NoSelection
<1>6. SourcesOK'
  <2>1. evq' \in Seq(Events(count.sets, sel')) /\ jobs' \in Seq(SafeJob)
    <3>1. <<>> \in Seq(Events(count.sets, sel')) /\ <<>> \in Seq(SafeJob)
      OBVIOUS
    <3>. QED  BY <1>2, <3>1, Zenon
  <2>. QED  BY <1>1, <1>2, <1>5, <2>1 DEF SourcesOK
<1>7. SelectionServed'
  BY <1>2 DEF SelectionServed
<1>8. HistoryOK'
  BY <1>2, <1>3, <1>4 DEF Inv, HistoryOK
<1>9. CASE failed'
  BY <1>6, <1>7, <1>8, <1>9 DEF Inv, ImagesOnDisk, PinsSaved
<1>10. CASE ~failed'
  <2>1. \A d \in ToSet(disk'.json) : d.c \in Pictures => d \in disk'.files
    BY <1>10, CrashDisk
  <2>2. DataOf(PinnedOf(entries')) = disk'.json
    BY <1>2, <1>3, <2>1, LoadAll
  <2>. QED  BY <1>6, <1>7, <1>8, <2>1, <2>2 DEF Inv, ImagesOnDisk, PinsSaved, Pins
<1>. QED  BY <1>9, <1>10

------------------------------------------------------------------------------
(* The theorems.                                                            *)

\* The shell starts with nothing.
LEMMA InitInv == Init => Inv
<1>. SUFFICES ASSUME Init PROVE Inv
  OBVIOUS
<1>1. SourcesOK
  <2>1. evq \in Seq(Events(count.sets, sel)) /\ jobs \in Seq(SafeJob)
    <3>1. <<>> \in Seq(Events(count.sets, sel)) /\ <<>> \in Seq(SafeJob)
      OBVIOUS
    <3>. QED  BY <3>1, Zenon DEF Init
  <2>. QED  BY <2>1, BoundsAssumption DEF Init, SourcesOK, NoSelection
<1>2. disk \in [json : Seq(SafeData), files : SUBSET SafeData] /\ disk.json = <<>> /\ disk.files = {}
  BY DEF Init
<1>3. entries \in Seq(SafeEntry) /\ entries = <<>>
  BY DEF Init
<1>4. HistoryOK
  BY <1>2, <1>3 DEF Init, HistoryOK
<1>5. SelectionServed
  BY DEF Init, SelectionServed, NoSelection
<1>6. ToSet(disk.json) = {} /\ ImagesOnDisk
  BY <1>2 DEF ToSet, ImagesOnDisk
<1>7. PinsSaved
  <2>1. PinnedOf(entries) = entries
    <3>. DEFINE K == {x \in ToSet(entries) : x.pinned}
    <3>1. \A i \in 1..Len(entries) : entries[i] \in K
      BY <1>3
    <3>2. PinnedOf(entries) = Filter(entries, K)
      BY DEF PinnedOf
    <3>. HIDE DEF K
    <3>. QED  BY <1>3, <3>1, <3>2, FilterAll
  <2>2. DataOf(entries) = <<>>
    BY <1>3 DEF DataOf
  <2>. QED  BY <1>2, <2>1, <2>2 DEF PinsSaved, Pins
<1>. QED  BY <1>1, <1>4, <1>5, <1>6, <1>7 DEF Inv

\* Every step keeps the invariant.
LEMMA NextInv == Inv /\ [Next]_vars => Inv'
<1>. SUFFICES ASSUME Inv, [Next]_vars PROVE Inv'
  OBVIOUS
<1>1. CASE UNCHANGED vars
  BY <1>1, EventTaken DEF vars, world, service, Inv, SourcesOK
<1>2. \A d \in ToSet(DataOf(entries)) \cup {Full(c) : c \in Nearby} : d \in SafeData
  <2>1. DataOf(entries) \in Seq(SafeData)
    BY ListTypes DEF Inv, HistoryOK
  <2>2. \A d \in ToSet(DataOf(entries)) : d \in SafeData
    BY <2>1 DEF ToSet
  <2>3. \A c \in Nearby : Full(c) \in Data /\ Full(c).c = c /\ c \notin Secrets
    BY DataTypes, ClipsAssumption, NearbyAssumption DEF Full
  <2>. QED  BY <2>2, <2>3 DEF SafeData
<1>3. CASE Next
  BY <1>2, <1>3, AppCopy, SeatRemoved, WatchStart, DeviceSelection, ReadGdk, DeviceFinished,
     SourceSend, SourceCancelled, Copy, OnRead, ReadGdkDone, Edits, Save, Crash DEF Next, Restarts
<1>. QED  BY <1>1, <1>3

\* Safe data is in particular data: the invariant implies the types.
LEMMA InvTypes == Inv => TypeOK
<1>. SUFFICES ASSUME Inv PROVE TypeOK
  OBVIOUS
<1>. DEFINE n == count.sets
            B == {"none", "app", "own", "gdk"}
            S == 0..MaxSets
            D == Data \cup {NoData}
<1>1. SafeData \subseteq Data /\ SafeJob \subseteq Job /\ n \in 0..MaxSets /\ 1..n \subseteq S /\ 0 \in S
  <2>1. n \in 0..MaxSets
    BY DEF Inv, SourcesOK
  <2>2. 1..n \subseteq S /\ 0 \in S
    BY <2>1, BoundsAssumption
  <2>. QED  BY <2>1, <2>2 DEF SafeData, SafeJob
<1>2. SafeEntry \subseteq Entry
  BY <1>1 DEF SafeEntry, Entry
<1>3. sel \in [by : B, src : S, d : D]
  <2>1. SafeData \subseteq D /\ Data \subseteq D /\ NoData \in D
    BY <1>1
  <2>2. sel \in Offers(n) \cup {NoSelection}
    BY DEF Inv, SourcesOK
  <2>. HIDE DEF D, S, n
  <2>. QED  BY <1>1, <2>1, <2>2 DEF Offers, NoSelection
<1>4. own \in [src : S, d : D]
  BY <1>1 DEF Inv, SourcesOK, NoSource
<1>5. jobs \in Seq(Job) /\ entries \in Seq(Entry)
  BY <1>1, <1>2, SeqMono DEF Inv, SourcesOK, HistoryOK
<1>6. disk \in [json : Seq(Data), files : SUBSET Data]
  BY <1>1, SeqMono DEF Inv, HistoryOK
<1>. QED  BY <1>1, <1>3, <1>4, <1>5, <1>6 DEF Inv, SourcesOK, HistoryOK, TypeOK

\* The invariant holds throughout.
LEMMA Invariant == Spec => []Inv
BY InitInv, NextInv, PTL DEF Spec

\* Every variable has its type.
THEOREM TypeCorrect == Spec => []TypeOK
BY Invariant, InvTypes, PTL

\* For any clips and types: what is marked secret is never read, kept, saved or
\* announced, by clipboard_watch.c or by the GDK fallback.
THEOREM NoSecretKept == Spec => []SecretsNotKept
<1>1. Inv => SecretsNotKept
  <2>. SUFFICES ASSUME Inv PROVE SecretsNotKept
    OBVIOUS
  <2>1. \A i \in DOMAIN jobs : jobs[i].d.c \notin Secrets
    <3>1. \A i \in DOMAIN jobs : jobs[i] \in SafeJob
      BY DEF Inv, SourcesOK
    <3>. QED  BY <3>1 DEF SafeJob
  <2>2. \A i \in DOMAIN entries : entries[i].d.c \notin Secrets
    <3>1. \A i \in DOMAIN entries : entries[i] \in SafeEntry
      BY DEF Inv, HistoryOK
    <3>. QED  BY <3>1 DEF SafeEntry, SafeData
  <2>3. \A d \in {told} \cup ToSet(disk.json) \cup disk.files : d \in SafeData \cup {NoData}
    BY DEF Inv, HistoryOK, ToSet
  <2>4. NoData.c \notin Secrets
    BY ClipsAssumption DEF NoData, Secrets
  <2>. QED  BY <2>1, <2>2, <2>3, <2>4 DEF SecretsNotKept, SafeData
<1>. QED  BY <1>1, Invariant, PTL

\* For any order of copies, cancellations and reads: while the shell offers the
\* selection, singularity_clipboard_set() serves what was chosen last.
THEOREM ServesChosen == Spec => []SelectionServed
<1>1. Inv => SelectionServed
  BY DEF Inv
<1>. QED  BY <1>1, Invariant, PTL

\* At any crash in a save, at any pruning after it: pinned.json names no image
\* that is not there, once a save has gone well since the last write that failed.
THEOREM NoImageMissing == Spec => []ImagesOnDisk
<1>1. Inv => ImagesOnDisk
  BY DEF Inv
<1>. QED  BY <1>1, Invariant, PTL

\* A restart brings back the pins of the last save or those of the crash, and
\* exactly the latter when no save was due, unless a write failed.
LEMMA NextPinsSurvive ==
  ASSUME Inv, Restarts
  PROVE  failed' \/ (Pins' \in {disk.json, Pins} /\ (~save_id => Pins' = Pins))
<1>. SUFFICES ASSUME ~failed' PROVE Pins' \in {disk.json, Pins} /\ (~save_id => Pins' = Pins)
  OBVIOUS
<1>1. PICK done \in 0..2, wrote \in SUBSET PinnedImages, ok \in BOOLEAN : crash(done, wrote, ok)
  BY DEF Restarts
<1>2. /\ disk' \in [json : Seq(SafeData), files : SUBSET SafeData]
      /\ \A d \in ToSet(disk'.json) : d.c \in Pictures => d \in disk'.files
      /\ disk'.json \in {disk.json, Pins}
      /\ ~save_id => disk'.json = disk.json
  BY <1>1, CrashDisk
<1>3. entries' = load_pinned(disk')
  BY <1>1 DEF crash
<1>4. Pins' = disk'.json
  <2>1. DataOf(PinnedOf(entries')) = disk'.json
    BY <1>2, <1>3, LoadAll
  <2>. QED  BY <2>1 DEF Pins
<1>5. ~save_id => ~failed
  BY <1>1 DEF crash
<1>6. ~save_id => disk.json = Pins
  BY <1>5 DEF Inv, PinsSaved
<1>. QED  BY <1>2, <1>4, <1>6

\* For any clips, crashes and failed writes: a restart loses no pin but those
\* changed in the 500 ms before, or left behind by a write that failed.
THEOREM PinsSurviveRestart == Spec => PinsSurvive
<1>1. Inv /\ [Next]_vars => [Restarts => failed' \/ (Pins' \in {disk.json, Pins} /\ (~save_id => Pins' = Pins))]_vars
  BY NextPinsSurvive
<1>. QED  BY <1>1, Invariant, PTL DEF Spec, PinsSurvive
=============================================================================
