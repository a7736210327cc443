----------------------------- MODULE MC_Windows -----------------------------
(* Two monitors, each with a group of workspaces of its own.                 *)
EXTENDS Windows
ASSUME PerMonitor

MCOutsOf == [gA |-> {"A"}, gB |-> {"B"}]
MCSpacesOf == [gA |-> <<"a1", "a2">>, gB |-> <<"b1">>]
=============================================================================
