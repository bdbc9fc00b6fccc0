-------------------------- MODULE MCTranslationQuota --------------------------
(* Two requests of one account that may translate once a day. *)
EXTENDS TranslationQuota, TLC

MCBaseOne == [daily_limit |-> 1, char_limit |-> 4000, cooldown |-> 0]

(* Requests are interchangeable. *)
Symmetry == Permutations(Requests)
==============================================================================
