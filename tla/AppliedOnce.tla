----------------------------- MODULE AppliedOnce -----------------------------
(* What the billing webhooks promise the rest of the application: the table  *)
(* of subscriptions changes by whole events only, and no event id changes it *)
(* twice, however the provider delivers and whatever fails; only deliveries  *)
(* that nothing guards may repeat an event.                                  *)
CONSTANTS Events, KeyOf, EmptyTable, Effect(_, _)

VARIABLES done,       \* ids of the events that took effect under a claim
          unguarded,  \* ids of those that took effect without one
          table       \* the subscriptions

vars == <<done, unguarded, table>>

Init == done = {} /\ unguarded = {} /\ table = EmptyTable

Apply(e) ==
  /\ KeyOf[e] \notin done
  /\ done' = done \cup {KeyOf[e]}
  /\ table' = Effect(e, table)
  /\ UNCHANGED unguarded

ApplyUnguarded(e) ==
  /\ unguarded' = unguarded \cup {KeyOf[e]}
  /\ table' = Effect(e, table)
  /\ UNCHANGED done

Next == \E e \in Events : Apply(e) \/ ApplyUnguarded(e)

Spec == Init /\ [][Next]_vars
==============================================================================
