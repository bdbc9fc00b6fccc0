----------------------------- MODULE MCProStatus -----------------------------
(* Two handlers in one process; a key that lives one tick in either tier. *)
EXTENDS ProStatus

CONSTANTS p1, c1, c2

MCProcesses == {p1}
MCClients == {c1, c2}
MCProcessOf == [c \in MCClients |-> p1]
MCValues == BOOLEAN
==============================================================================
