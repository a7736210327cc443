------------------------------- MODULE Typing --------------------------------
(***************************************************************************)
(* What typing a text into the focused window promises: the texts arrive   *)
(* one after the other, each from its first character on, and no character *)
(* is lost, doubled or replaced.  A text may be given up, but only from    *)
(* some point to its end.                                                  *)
(***************************************************************************)
EXTENDS Naturals, Sequences

CONSTANT Texts       \* what can be asked for: non-empty sequences of characters

VARIABLES
  todo,              \* the texts that are not typed yet, the first one in part
  out                \* the characters the window has received

tvars == <<todo, out>>

Rest(texts, n) ==
  IF n = Len(Head(texts)) THEN Tail(texts)
  ELSE <<SubSeq(Head(texts), n + 1, Len(Head(texts)))>> \o Tail(texts)

\* Type the next n characters of the first of the texts.
Advance(texts, n) ==
  /\ out' = out \o SubSeq(Head(texts), 1, n)
  /\ todo' = Rest(texts, n)

TInit == todo = <<>> /\ out = <<>>

Submit(t) == todo' = Append(todo, t) /\ out' = out

Type == todo # <<>> /\ \E n \in 1..Len(Head(todo)) : Advance(todo, n)

\* A text can be typed within the call that asks for it if no other waits.
TypeAtOnce(t) == todo = <<>> /\ \E n \in 1..Len(t) : Advance(<<t>>, n)

GiveUp == todo # <<>> /\ todo' = Tail(todo) /\ out' = out

TNext ==
  \/ \E t \in Texts : Submit(t) \/ TypeAtOnce(t)
  \/ Type
  \/ GiveUp

TSpec == TInit /\ [][TNext]_tvars
==============================================================================
