---------------------------- MODULE MC_Previews -----------------------------
(* Two callers that want the same window and one switcher item.            *)
EXTENDS Previews

MCKeyOf == [overview |-> "k1", dock |-> "k1"]
=============================================================================
