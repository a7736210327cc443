--------------------------- MODULE MC_XSettings ---------------------------
(* Bounded instances of XSettings. *)
EXTENDS XSettings

=============================================================================
