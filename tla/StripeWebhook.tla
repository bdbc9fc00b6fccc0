---------------------------- MODULE StripeWebhook ----------------------------
(* The Stripe webhook: the route claims the event id as the Razorpay route   *)
(* does (WebhookIntake) and then changes the subscription itself, inside the *)
(* request.  Events may arrive, and their handlers may finish, in any order. *)
EXTENDS WebhookIntake, UserSubscriptions, Naturals

CONSTANTS Kind, UserOf, SubOf

Kinds == {"activated",         \* checkout.session.completed, subscription.created
          "active",            \* subscription.updated, status active or trialing
          "inactive",          \* subscription.updated, any other status
          "ended",             \* subscription.deleted, subscription.paused
          "payment_succeeded",
          "payment_failed"}

ASSUME StripeAssumption ==
  /\ Kind \in [Events -> Kinds]
  /\ UserOf \in [Events -> Users \cup {NoUser}]
  /\ SubOf \in [Events -> SubIds \cup {NoSub}]

VARIABLES applied,     \* how often a delivery that claimed the id was applied
          reapplied,   \* how often one without a claim was
          subs         \* user_subscriptions

applyVars == <<applied, reapplied, subs>>
vars == <<pc, event, txn, cached, applied, reapplied, subs>>

TypeOK ==
  /\ IntakeTypeOK
  /\ applied \in [Keys -> Nat]
  /\ reapplied \in [Keys -> Nat]
  /\ subs \in Table

Init ==
  /\ IntakeInit
  /\ applied = [k \in Keys |-> 0]
  /\ reapplied = [k \in Keys |-> 0]
  /\ subs = EmptyTable

Effect(e, t) ==
  IF UserOf[e] = NoUser THEN t
  ELSE CASE Kind[e] \in {"activated", "active", "payment_succeeded"} ->
              UpsertProSub(t, UserOf[e], TRUE, SubOf[e])
         [] Kind[e] = "inactive" -> UpsertProSub(t, UserOf[e], FALSE, SubOf[e])
         [] Kind[e] = "ended" -> UpsertPro(t, UserOf[e], FALSE)
         [] OTHER -> t

(* Mutant: the event is handled in memory only, the upsert is missing. *)
ProcessForgets(d) ==
  /\ pc[d] \in {"accepted", "unguarded"}
  /\ Go(d, "received")
  /\ UNCHANGED <<event, txn, cached, applyVars>>

(* The upsert, and the answer "received". *)
Process(d) ==
  /\ pc[d] \in {"accepted", "unguarded"}
  /\ IF pc[d] = "accepted"
       THEN applied' = [applied EXCEPT ![Key(d)] = @ + 1] /\ UNCHANGED reapplied
       ELSE reapplied' = [reapplied EXCEPT ![Key(d)] = @ + 1] /\ UNCHANGED applied
  /\ subs' = Effect(event[d], subs)
  /\ Go(d, "received")
  /\ UNCHANGED <<event, txn, cached>>

(* The customer could not be retrieved from Stripe, or the upsert returned *)
(* False; the handler ignores either and answers "received", unapplied.    *)
ProcessFails(d) ==
  /\ MayFail
  /\ pc[d] \in {"accepted", "unguarded"}
  /\ Go(d, "unapplied")
  /\ UNCHANGED <<event, txn, cached, applyVars>>

Intake(d) ==
  /\ Receive(d) \/ Reject(d) \/ IntakeStep(d) \/ IntakeFault(d)
  /\ UNCHANGED applyVars

Next ==
  \/ \E d \in Deliveries : Intake(d) \/ Process(d) \/ ProcessFails(d)
  \/ CacheLoss /\ UNCHANGED applyVars

Spec == Init /\ [][Next]_vars

(* The server runs the handlers of the requests it received. *)
Fairness ==
  \A d \in Deliveries :
    /\ WF_vars(IntakeStep(d) /\ UNCHANGED applyVars)
    /\ WF_vars(Process(d))

FairSpec == Spec /\ Fairness

-----------------------------------------------------------------------------
(* Of all the deliveries of an event that get past both layers with a claim  *)
(* only one changes the subscription, through crashes, lost cache keys and   *)
(* concurrent deliveries; an event is applied again only where the database  *)
(* lookup itself failed.                                                     *)
ClaimedAppliedOnce == \A k \in Keys : applied[k] <= 1

(* The table is changed by whole events only, none of them twice unless the  *)
(* lookup that guards it failed.                                             *)
Once == INSTANCE AppliedOnce
          WITH done <- {k \in Keys : applied[k] > 0},
               unguarded <- {k \in Keys : reapplied[k] > 0},
               table <- subs
AppliesOnce == Once!Spec

(* A delivery that passed the signature check has its event applied, by its  *)
(* own handler or by the concurrent one whose claim made it a duplicate,     *)
(* unless the process died, or a call failed, under a handler of that event. *)
Applied(k) == applied[k] + reapplied[k] > 0
Broken(k) ==
  \E d \in Deliveries : Key(d) = k /\ pc[d] \in {"crashed", "mistaken", "unapplied"}
VerifiedIsApplied ==
  \A d \in Deliveries : pc[d] = "verified" ~> Applied(Key(d)) \/ Broken(Key(d))
==============================================================================
