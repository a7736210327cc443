--------------------------- MODULE MC_InputMethod ---------------------------
(* Two ordinary keys and one beyond KEY_COUNT.                              *)
EXTENDS InputMethod

MCKeys == {30, 48, 1024}
MCTracked == {30, 48}
==============================================================================
