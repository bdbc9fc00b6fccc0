---------------------------- MODULE Subscriptions ----------------------------
(* A subscription as the Stripe webhook writes it and as get_user_pro_status  *)
(* answers it from the cache.  The two models share no state, so a behaviour  *)
(* is one of either: of the deliveries, or of the readers in one of the       *)
(* deployments, each of which places the handlers in processes of its own.    *)
EXTENDS StripeWebhook

CONSTANTS
  Processes, Clients, Ttl, L1Ttl, MaxChanges, DatabaseMayFail,   \* of ProStatus
  RedisMayFail,   \* its MayFail
  Deployments     \* the values of its ProcessOf

VARIABLES deployed, redis, l1, fallback, up, ticked, reader, seen, pro, age, payment, changes

statusVars == <<redis, l1, fallback, up, ticked, reader, seen, pro, age, payment, changes>>

Status(of) == INSTANCE ProStatus WITH
  ProcessOf <- of, Values <- BOOLEAN, MayFail <- RedisMayFail, pc <- reader, paid <- payment

ASSUME SubscriptionsAssumption ==
  \A of \in Deployments : Status(of)!ProStatusAssumption

Off == "off"
StatusOff ==
  /\ redis = Off /\ l1 = Off /\ fallback = Off /\ up = Off /\ ticked = Off
  /\ reader = Off /\ seen = Off /\ pro = Off /\ age = Off /\ payment = Off /\ changes = Off

(* Nothing is delivered while the readers run.                                *)
SubscriptionsInit ==
  /\ Init
  /\ \/ deployed = {} /\ StatusOff
     \/ \E of \in Deployments :
          /\ deployed = {of} /\ Status(of)!Init
          /\ event = [d \in Deliveries |-> CHOOSE e \in Events : TRUE]

WebhookStep ==
  /\ deployed = {} /\ Next
  /\ UNCHANGED <<deployed, statusVars>>
StatusStep ==
  /\ \E of \in deployed : Status(of)!Next
  /\ UNCHANGED <<deployed, vars>>

SubscriptionsNext == WebhookStep \/ StatusStep

SubscriptionsSpec ==
  /\ SubscriptionsInit
  /\ [][SubscriptionsNext]_<<deployed, vars, statusVars>>
  /\ Fairness

-----------------------------------------------------------------------------
(* However reads, payments, webhooks and outages of Redis interleave, no      *)
(* process answers with a status that ended longer ago than both times to     *)
(* live; a database error can only make a Pro user look like a free one,      *)
(* never the reverse (get_user_pro_status).                                   *)
AnswersCatchUp == \A of \in deployed : Status(of)!AnswersCatchUp
==============================================================================
