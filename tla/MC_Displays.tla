---------------------------- MODULE MC_Displays -----------------------------
(* A laptop panel with two modes of one size, and an external display.      *)
EXTENDS Displays

MCSizeOf == [p60 |-> "p", p50 |-> "p", e60 |-> "e"]
\* The file does not know a display, wants the panel at 50 Hz, and the external
\* display off or in a mode it does not have.
MCSavedAtStart ==
  [eDP  |-> {Unsaved, [named |-> TRUE, on |-> TRUE, mode |-> "p50"]},
   HDMI |-> {Unsaved, [named |-> TRUE, on |-> FALSE, mode |-> "e60"],
             [named |-> TRUE, on |-> TRUE, mode |-> "p60"]}]
MCHeadModes == [eDP |-> <<"p60", "p50">>, HDMI |-> <<"e60">>]
=============================================================================
