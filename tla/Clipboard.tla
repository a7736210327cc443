------------------------------ MODULE Clipboard ------------------------------
(***************************************************************************)
(* The clipboard history: src/src/wayland/clipboard_watch.c, which follows *)
(* the selection through ext-data-control-v1, with the list of             *)
(* clipboard_model.vala and the service of clipboard_history.vala on top.  *)
(*                                                                         *)
(* Every selection is read through a pipe of its own, asynchronously: the  *)
(* reads end in any order, an application may die while it sends, and the  *)
(* shell is also a client of its own selection when an entry is picked.    *)
(*                                                                         *)
(* Requests act on the compositor at once: nothing the shell does depends  *)
(* on how long they travel.  Events wait in evq.                           *)
(***************************************************************************)
EXTENDS Naturals, Sequences, FiniteSets, SequencesExt

CONSTANTS
  Clips,       \* what can be copied
  MimesOf,     \* Clips -> the types an application offers it as
  Chunks,      \* Clips -> its length, in reads of 64 KiB
  Nearby,      \* the texts a nearby device may send
  Blank,       \* the texts that are only white space
  TextLimit, ImageLimit,   \* MAX_TEXT and MAX_IMAGE, in reads
  Limits,      \* the values of history-limit
  MaxCopies, MaxSets, MaxEdits, MaxCrashes,   \* bounds on what happens
  MaxQueue     \* bound on the events under way when an application acts

\* The clips, and what of them arrives in one read or more.  A text is valid
\* UTF-8 without NUL: what is kept of it, ClipboardEntry.text, is the text.
MaxChunks == 3
ASSUME ClipsAssumption ==
  /\ "none" \notin Clips
  /\ Chunks \in [Clips -> 1..MaxChunks]
  /\ Nearby \subseteq Clips

\* A text from a nearby device comes as a string: it has no type, and no hint.
Hint == "x-kde-passwordManagerHint"
ASSUME NearbyAssumption == \A c \in Nearby : Hint \notin MimesOf[c]

ASSUME BoundsAssumption == {MaxCopies, MaxSets, MaxEdits, MaxCrashes, TextLimit, ImageLimit} \cup Limits \subseteq Nat

VARIABLES
  sel,         \* the selection: [by : who offers it, src : its source, d : the data]
  evq,         \* events on their way to the shell
  dev,         \* device: "none", "live" or "gone"; the GDK fallback is "gdk"
  own,         \* own_source and own_data; src = 0 is NULL
  jobs,        \* the ReadJobs that are under way
  chosen,      \* the data of the last copy()
  enabled, limit,   \* history-enabled and model.limit
  entries,     \* model.entries, newest first
  told,        \* the text that text_copied announced last
  save_id,     \* the save timer is armed
  disk,        \* pinned.json and the .img files beside it
  failed,      \* history: a write of the last save went wrong
  count        \* how often each bounded thing has happened

world == <<sel, evq>>
service == <<dev, own, jobs>>
history == <<enabled, limit, entries, told, save_id, disk, failed>>
vars == <<world, service, history, chosen, count>>

------------------------------------------------------------------------------
(* Types                                                                    *)

Texts == <<"text/plain;charset=utf-8", "UTF8_STRING", "text/plain", "STRING", "TEXT">>
Images == <<"image/png", "image/jpeg", "image/bmp">>

FirstOf(list, mimes) ==
  LET at == {i \in DOMAIN list : list[i] \in mimes}
  IN  IF at = {} THEN "none" ELSE list[CHOOSE i \in at : \A j \in at : i <= j]

\* An image wins over its text, unless it is the picture of a file.
pick_mime(mimes) ==
  IF FirstOf(Texts, mimes) # "none" /\ (FirstOf(Images, mimes) = "none" \/ "text/uri-list" \in mimes)
  THEN FirstOf(Texts, mimes) ELSE FirstOf(Images, mimes)

Mime == [c \in Clips |-> pick_mime(MimesOf[c])]
Pictures == {c \in Clips : Mime[c] \in ToSet(Images)}
Secrets == {c \in Clips : Hint \in MimesOf[c]}
LimitOf(c) == IF c \in Pictures THEN ImageLimit ELSE TextLimit

\* Data that arrived: of clip c, the first n reads.
Full(c) == [c |-> c, n |-> Chunks[c]]
Data == [c : Clips, n : 1..MaxChunks]
NoData == [c |-> "none", n |-> 0]
NoSource == [src |-> 0, d |-> NoData]
Nil(c) == [c |-> c, n |-> 0]   \* a pipe that is closed before anything comes
Job == [d : Data \cup {Nil(c) : c \in Clips}, got : 0..MaxChunks, wr : {"app", "wait", "own", "gdk"}, src : 0..MaxSets]
Entry == [d : Data, pinned : BOOLEAN]

TypeOK ==
  /\ sel \in [by : {"none", "app", "own", "gdk"}, src : 0..MaxSets, d : Data \cup {NoData}]
  /\ dev \in {"none", "live", "gone", "gdk"}
  /\ own \in [src : 0..MaxSets, d : Data \cup {NoData}]
  /\ jobs \in Seq(Job)
  /\ enabled \in BOOLEAN /\ save_id \in BOOLEAN /\ failed \in BOOLEAN /\ limit \in Limits
  /\ entries \in Seq(Entry)
  /\ told \in Data \cup {NoData}
  /\ disk \in [json : Seq(Data), files : SUBSET Data]
  /\ count \in [copies : 0..MaxCopies, sets : 0..MaxSets, edits : 0..MaxEdits, crashes : 0..MaxCrashes]

NoSelection == [by |-> "none", src |-> 0, d |-> NoData]
Selection(s) == [ev |-> "selection", of |-> s]

Init ==
  /\ sel = NoSelection
  /\ evq = <<>>
  /\ dev = "none" /\ own = NoSource /\ jobs = <<>>
  /\ chosen = NoData
  /\ enabled = TRUE /\ limit \in Limits
  /\ entries = <<>> /\ told = NoData
  /\ save_id = FALSE /\ failed = FALSE /\ disk = [json |-> <<>>, files |-> {}]
  /\ count = [copies |-> 0, sets |-> 0, edits |-> 0, crashes |-> 0]

Tick(what, max) == count[what] < max /\ count' = [count EXCEPT ![what] = @ + 1]

------------------------------------------------------------------------------
(* The list of clipboard_model.vala, as operators on it.                    *)

\* The members of s that are in K, in their order (SelectSeq, as a function).
Filter(s, K) ==
  LET kept[i \in 0..Len(s)] ==
        IF i = 0 THEN <<>> ELSE IF s[i] \in K THEN Append(kept[i - 1], s[i]) ELSE kept[i - 1]
  IN  kept[Len(s)]

PinnedOf(es) == Filter(es, {x \in ToSet(es) : x.pinned})
Unpinned(es) == {i \in DOMAIN es : ~es[i].pinned}
DataOf(es) == [i \in DOMAIN es |-> es[i].d]

trim(es, lim) ==
  LET keep == {es[i] : i \in {j \in DOMAIN es : es[j].pinned \/ Cardinality({k \in Unpinned(es) : k <= j}) <= lim}}
  IN  Filter(es, keep)

\* What is there already moves to the front.
add(es, d) ==
  LET same == Filter(es, {x \in ToSet(es) : x.d = d})
      rest == Filter(es, {x \in ToSet(es) : x.d # d})
  IN  IF same # <<>> THEN same \o rest
      ELSE trim(<<[d |-> d, pinned |-> FALSE]>> \o es, limit)

\* What pinned.json gives back: an image whose file is missing is dropped.
load_pinned(on) ==
  LET there == Filter(on.json, {d \in ToSet(on.json) : d.c \in Pictures => d \in on.files})
  IN  [i \in DOMAIN there |-> [d |-> there[i], pinned |-> TRUE]]

Changed_once(es) == entries' = es /\ save_id' = ~save_id

\* model.changed starts the save timer.
Changed(es) == entries' = es /\ save_id' = TRUE

------------------------------------------------------------------------------
(* Applications and the compositor.                                         *)

\* An application copies something; the source the shell offered is cancelled.
app_copy(c) ==
  /\ Tick("copies", MaxCopies) /\ Len(evq) < MaxQueue
  /\ sel' = [by |-> "app", src |-> 0, d |-> Full(c)]
  /\ evq' = evq \o (IF sel.by = "own" THEN <<[ev |-> "cancelled", src |-> sel.src]>> ELSE <<>>)
                \o (IF dev \in {"live", "gdk"} THEN <<Selection(sel')>> ELSE <<>>)
  /\ UNCHANGED <<service, history, chosen>>

\* The seat goes away, and the device with it.
seat_removed ==
  /\ dev = "live" /\ Tick("crashes", MaxCrashes)
  /\ evq' = Append(evq, [ev |-> "finished"])
  /\ UNCHANGED <<sel, service, history, chosen>>

------------------------------------------------------------------------------
(* clipboard_watch.c                                                        *)

\* The device is told the selection there is.  Without ext-data-control-v1 the
\* history follows the clipboard of GDK instead.
singularity_clipboard_watch_start(found) ==
  /\ dev = "none"
  /\ dev' = IF found THEN "live" ELSE "gdk"
  /\ evq' = evq \o (IF sel.by = "none" THEN <<>> ELSE <<Selection(sel)>>)
  /\ UNCHANGED <<sel, own, jobs, history, chosen, count>>

e == Head(evq)
Event(kind) == evq # <<>> /\ e.ev = kind

\* The types an offer lists: the shell offers a text under all its names.
Offered(s) == IF s.by # "own" THEN MimesOf[s.d.c] ELSE IF s.d.c \in Pictures THEN {Mime[s.d.c]} ELSE ToSet(Texts)

NewJob(d, wr) == [d |-> d, got |-> 0, wr |-> wr, src |-> e.of.src]

device_selection_unhinted(pipe) ==
  LET reads == pick_mime(Offered(e.of)) # "none" /\ pipe
      waits == reads /\ e.of.by = "own" /\ sel = e.of
  IN  /\ Event("selection") /\ dev = "live"
      /\ jobs' = IF reads THEN Append(jobs, NewJob(e.of.d, IF waits THEN "wait" ELSE "app")) ELSE jobs
      /\ evq' = Tail(evq) \o (IF waits THEN <<[ev |-> "send", src |-> sel.src]>> ELSE <<>>)
      /\ UNCHANGED <<sel, dev, own, history, chosen, count>>

\* An offer is announced, filled with its types and made the selection in one
\* go.  A secret is only counted; anything else is read through a new pipe (if
\* there is one).  The shell's own source is asked like any other, and when it
\* has been replaced by then, the pipe is just closed.
device_selection(pipe) ==
  LET reads == Hint \notin Offered(e.of) /\ pick_mime(Offered(e.of)) # "none" /\ pipe
      self  == e.of.by = "own"
      waits == reads /\ self /\ sel = e.of
  IN  /\ Event("selection") /\ dev = "live"
      /\ jobs' = IF ~reads THEN jobs
                 ELSE Append(jobs, IF waits THEN NewJob(e.of.d, "wait")
                                   ELSE NewJob(IF self THEN Nil(e.of.d.c) ELSE e.of.d, "app"))
      /\ evq' = Tail(evq) \o (IF waits THEN <<[ev |-> "send", src |-> sel.src]>> ELSE <<>>)
      /\ UNCHANGED <<sel, dev, own, history, chosen, count>>

\* The GDK fallback: one asynchronous call, and no limit (the type GDK prefers
\* is taken to be the one pick_mime() picks).
read_gdk ==
  /\ Event("selection") /\ dev = "gdk"
  /\ jobs' = IF Hint \in Offered(e.of) \/ pick_mime(Offered(e.of)) = "none" THEN jobs
             ELSE Append(jobs, NewJob(e.of.d, "gdk"))
  /\ evq' = Tail(evq)
  /\ UNCHANGED <<sel, dev, own, history, chosen, count>>

device_finished ==
  /\ Event("finished")
  /\ dev' = "gone"
  /\ evq' = Filter(Tail(evq), {x \in ToSet(evq) : x.ev # "selection"})
  /\ UNCHANGED <<sel, own, jobs, history, chosen, count>>

\* Somebody reads from the shell's source.  The job it concerns is the shell's
\* own; an application that pastes is served the same data.
source_send ==
  /\ Event("send")
  /\ LET d == IF e.src = own.src THEN own.d ELSE NoData
     IN  jobs' = [i \in DOMAIN jobs |->
                    IF jobs[i].wr = "wait" /\ jobs[i].src = e.src
                    THEN [jobs[i] EXCEPT !.wr = "own", !.d = IF d = NoData THEN Nil(@.c) ELSE d] ELSE jobs[i]]
  /\ evq' = Tail(evq)
  /\ UNCHANGED <<sel, dev, own, history, chosen, count>>

source_cancelled ==
  /\ Event("cancelled")
  /\ own' = IF e.src = own.src THEN NoSource ELSE own
  /\ evq' = Tail(evq)
  /\ UNCHANGED <<sel, dev, jobs, history, chosen, count>>

\* Events for a source that was destroyed are dropped, with the pipes in them.
Forget(src, q) == Filter(q, {x \in ToSet(q) : x.ev \notin {"send", "cancelled"} \/ x.src # src})
Shut(src) == [i \in DOMAIN jobs |-> IF jobs[i].wr = "wait" /\ jobs[i].src = src
                                    THEN [jobs[i] EXCEPT !.wr = "own", !.d = Nil(@.c)] ELSE jobs[i]]

singularity_clipboard_set_reuse(d) ==
  LET s == IF own.src # 0 THEN own ELSE [src |-> count.sets + 1, d |-> d]
  IN  /\ own' = s
      /\ sel' = [by |-> "own", src |-> s.src, d |-> s.d]
      /\ evq' = Append(evq, Selection(sel'))
      /\ jobs' = jobs

singularity_clipboard_set(d) ==
  LET s == count.sets + 1
  IN  /\ own' = [src |-> s, d |-> d]
      /\ sel' = [by |-> "own", src |-> s, d |-> d]
      /\ evq' = Append(Forget(own.src, evq), Selection(sel'))
      /\ jobs' = Shut(own.src)

\* An entry is picked, or a nearby device sends a text.  Without a device GDK
\* offers the data.
copy(d) ==
  /\ Tick("sets", MaxSets) /\ dev # "none"
  /\ chosen' = d
  /\ IF dev = "live"
     THEN singularity_clipboard_set(d)
     ELSE /\ sel' = [by |-> "gdk", src |-> 0, d |-> d]
          /\ evq' = evq \o (IF sel.by = "own" THEN <<[ev |-> "cancelled", src |-> sel.src]>> ELSE <<>>)
                        \o (IF dev = "gdk" THEN <<Selection(sel')>> ELSE <<>>)
          /\ UNCHANGED <<own, jobs>>
  /\ UNCHANGED <<dev, history>>

------------------------------------------------------------------------------
(* Reading, and the history.                                                *)

\* A selection has been read: its text is announced, and kept if the history
\* is on at that moment; a text of white space is neither.
on_selection(d) ==
  /\ told' = IF d.c \in Pictures \cup Blank THEN told ELSE d
  /\ IF enabled /\ d.c \notin Blank THEN Changed(add(entries, d)) ELSE UNCHANGED <<entries, save_id>>

Drop(i) == jobs' = RemoveAt(jobs, i)
Kept == UNCHANGED <<entries, told, save_id>>

\* Job i is woken: data, the end (also when the writer died), or an error.
on_read(i) ==
  LET j == jobs[i]
  IN  /\ i \in DOMAIN jobs /\ j.wr \in {"app", "own"}
      /\ \/ /\ j.got < j.d.n
            /\ Kept
            /\ IF j.got + 1 > LimitOf(j.d.c) THEN Drop(i) ELSE jobs' = [jobs EXCEPT ![i].got = @ + 1]
         \/ /\ j.got = j.d.n \/ j.wr = "app"
            /\ Drop(i)
            /\ IF j.got > 0 THEN on_selection([c |-> j.d.c, n |-> j.got]) ELSE Kept
         \/ Drop(i) /\ Kept
      /\ UNCHANGED <<world, dev, own, enabled, limit, disk, failed, chosen, count>>

\* read_text_async() or read_texture_async() returns.
read_gdk_done(i) ==
  /\ i \in DOMAIN jobs /\ jobs[i].wr = "gdk"
  /\ Drop(i)
  /\ on_selection(jobs[i].d) \/ Kept
  /\ UNCHANGED <<world, dev, own, enabled, limit, disk, failed, chosen, count>>

Edited == Tick("edits", MaxEdits) /\ UNCHANGED <<world, service, told, disk, failed, chosen>>

set_pinned(i) ==
  /\ Edited /\ i \in DOMAIN entries
  /\ Changed(trim([entries EXCEPT ![i].pinned = ~@], limit))
  /\ UNCHANGED <<enabled, limit>>

remove(i) ==
  /\ Edited /\ i \in DOMAIN entries
  /\ Changed(RemoveAt(entries, i))
  /\ UNCHANGED <<enabled, limit>>

clear ==
  /\ Edited
  /\ Changed(PinnedOf(entries))
  /\ UNCHANGED <<enabled, limit>>

\* The settings page: a smaller limit does not shorten the list at once.
set_enabled ==
  /\ Edited
  /\ enabled' = ~enabled
  /\ IF enabled THEN Changed(PinnedOf(entries)) ELSE UNCHANGED <<entries, save_id>>
  /\ UNCHANGED limit

set_limit(l) ==
  /\ Edited
  /\ limit' = l
  /\ UNCHANGED <<enabled, entries, save_id>>

------------------------------------------------------------------------------
(* The disk.                                                                *)

PinnedImages == {entries[i].d : i \in {j \in DOMAIN entries : entries[j].pinned /\ entries[j].d.c \in Pictures}}

\* The three things the save timer does, in order: pinned_to_json() writes the
\* images, of which wrote get there, pinned.json is written if ok, and
\* prune_images() runs whatever went wrong before it.  A file that is not
\* written is left as it was.
SaveSteps_pruned(wrote, ok) ==
  LET prune  == [disk EXCEPT !.files = (@ \cup wrote) \cap PinnedImages]
      json   == [prune EXCEPT !.json = IF ok THEN DataOf(PinnedOf(entries)) ELSE @]
  IN  <<prune, json, json>>

SaveSteps(wrote, ok) ==
  LET images == [disk EXCEPT !.files = @ \cup wrote]
      json   == [images EXCEPT !.json = IF ok THEN DataOf(PinnedOf(entries)) ELSE @]
      prune  == [json EXCEPT !.files = @ \cap PinnedImages]
  IN  <<images, json, prune>>

\* A failed write is a warning, no more: nothing tries it again.
WriteFailed(ok) == ~(ok /\ PinnedImages \subseteq disk'.files)

save ==
  /\ save_id
  /\ save_id' = FALSE
  /\ \E wrote \in SUBSET PinnedImages, ok \in BOOLEAN :
       disk' = SaveSteps(wrote, ok)[3] /\ failed' = WriteFailed(ok)
  /\ UNCHANGED <<world, service, enabled, limit, entries, told, chosen, count>>

\* The shell dies, maybe between two steps of the save, and starts again from
\* what is on the disk.  What it loads arms no timer.
crash(done, wrote, ok) ==
  /\ Tick("crashes", MaxCrashes)
  /\ done > 0 => save_id
  /\ disk' = IF done = 0 THEN disk ELSE SaveSteps(wrote, ok)[done]
  /\ failed' = IF done < 2 THEN failed ELSE WriteFailed(ok)
  /\ entries' = load_pinned(disk')
  /\ sel' = IF sel.by \in {"own", "gdk"} THEN NoSelection ELSE sel
  /\ evq' = <<>> /\ jobs' = <<>> /\ dev' = "none" /\ own' = NoSource
  /\ save_id' = FALSE /\ told' = NoData
  /\ UNCHANGED <<enabled, limit, chosen>>

Restarts == \E done \in 0..2, wrote \in SUBSET PinnedImages, ok \in BOOLEAN : crash(done, wrote, ok)

------------------------------------------------------------------------------
Next ==
  \/ \E c \in Clips : app_copy(c)
  \/ seat_removed
  \/ \E found \in BOOLEAN : singularity_clipboard_watch_start(found)
  \/ \E pipe \in BOOLEAN : device_selection(pipe)
  \/ read_gdk
  \/ device_finished
  \/ source_send
  \/ source_cancelled
  \/ \E d \in ToSet(DataOf(entries)) \cup {Full(c) : c \in Nearby} : copy(d)
  \/ \E i \in DOMAIN jobs : on_read(i) \/ read_gdk_done(i)
  \/ \E i \in DOMAIN entries : set_pinned(i) \/ remove(i)
  \/ clear
  \/ set_enabled
  \/ \E l \in Limits : set_limit(l)
  \/ save
  \/ Restarts

Spec == Init /\ [][Next]_vars

------------------------------------------------------------------------------
(* Properties                                                               *)

\* What a password manager marks as secret is in no pipe, in no list, not on
\* the disk and never announced to another device, whichever way the clipboard
\* is followed.
SecretsNotKept ==
  /\ \A i \in DOMAIN jobs : jobs[i].d.c \notin Secrets
  /\ \A i \in DOMAIN entries : entries[i].d.c \notin Secrets
  /\ \A d \in {told} \cup ToSet(disk.json) \cup disk.files : d.c \notin Secrets

\* While the shell offers the selection, it serves what was chosen last: a
\* cancellation that was under way takes nothing from the new source.
SelectionServed ==
  sel.by = "own" /\ dev = "live" => own = [src |-> sel.src, d |-> sel.d] /\ sel.d = chosen

\* pinned.json names no image that a crash in the middle of a save, or the
\* pruning, has taken away.  A write that fails breaks this until a save that
\* succeeds: an image that was not written is named all the same, and the
\* pruning runs after a pinned.json that was not written, which still names
\* images that are pinned no longer.
ImagesOnDisk == failed \/ \A d \in ToSet(disk.json) : d.c \in Pictures => d \in disk.files

Pins == DataOf(PinnedOf(entries))

\* A restart brings back the pins of the last save or those of the moment of
\* the crash, in their order and never a mixture, and exactly the latter when no
\* save was due: what is lost is what was changed in the 500 ms before, and
\* what a failed write left behind, which nothing but a later save mends.
PinsSurvive ==
  [][Restarts => failed' \/ (Pins' \in {disk.json, Pins} /\ (~save_id => Pins' = Pins))]_vars
=============================================================================
