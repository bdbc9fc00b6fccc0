-------------------------------- MODULE MCWeb --------------------------------
(* The programs over small sets: two accounts of the translation page and two *)
(* of the browser, one of which pays; two blocks of output, with ids of their *)
(* own, one shared or none; a class of two state keys and a property; one tab *)
(* beside the others, whose sessions reach it; two pages of history in two    *)
(* workspaces; two files, with scores on both sides of the threshold and one  *)
(* that rounds to it; three targets of the settings.                          *)
EXTENDS UserPrograms, TLC

(* Accounts are interchangeable; the other programs have one of their own.    *)
Symmetry == Permutations(Users)
==============================================================================
