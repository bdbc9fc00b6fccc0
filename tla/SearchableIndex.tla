---------------------------- MODULE SearchableIndex ----------------------------
(* What the indexing pipeline promises retrieval: one searchable index per    *)
(* repository import at a time, replaced as a whole by a run that completed,  *)
(* and by each run at most once.                                              *)
CONSTANT Runs

VARIABLES published,   \* runs that have ever been searchable
          current      \* the one that is

Init == published = {} /\ current = {}

Publish(r) ==
  /\ r \notin published
  /\ published' = published \cup {r}
  /\ current' = {r}

Next == \E r \in Runs : Publish(r)

Spec == Init /\ [][Next]_<<published, current>>
==============================================================================
