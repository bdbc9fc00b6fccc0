------------------------------- MODULE MCQuota -------------------------------
(* How much a user may translate, one part to a behaviour: the policy over a  *)
(* day of the platform, and the requests of one account that is held to it.   *)
EXTENDS TranslationQuota, PlatformDay, TLC

(* A daily limit of two, one of them used; RESTRICTED and EMERGENCY halve it, *)
(* so that both requests may be over it.  The platform's cap is reached.      *)
MCBase == [daily_limit |-> 2, char_limit |-> 4000, cooldown |-> 0]

(* Limits on both sides of every floor, cap and factor. *)
MCBases ==
  [daily_limit : {1, 5, 25}, char_limit : {100, 1499, 4000, 12000, 50000}, cooldown : {0, 5}]

(* Requests are interchangeable. *)
Symmetry == Permutations(Requests)

VARIABLE part

MCInit ==
  /\ Init
  /\ \/ part = "requests" /\ tier = Tier /\ base = Base /\ cap = PlatformCap /\ completed = 0
     \/ part = "day" /\ usage = Earlier /\ platform = Absent /\ DayInit

RequestsStep ==
  /\ part = "requests" /\ Next
  /\ UNCHANGED <<part, dayVars>>
DayStep ==
  /\ part = "day" /\ Complete
  /\ UNCHANGED <<part, vars>>

MCNext == RequestsStep \/ DayStep

MCSpec == MCInit /\ [][MCNext]_<<part, vars, dayVars>>
==============================================================================
