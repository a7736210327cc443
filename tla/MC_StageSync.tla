--------------------------- MODULE MC_StageSync -----------------------------
EXTENDS StageSync

CONSTANTS w1, w2

\* Two windows of two applications on two monitors.
TwoWindows  == {w1, w2}
AppOf == [w \in Windows |-> IF w = w1 THEN "editor" ELSE "browser"]
TwoMonitors == {1, 2}
=============================================================================
