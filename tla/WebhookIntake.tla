---------------------------- MODULE WebhookIntake ----------------------------
(* What the Razorpay and the Stripe webhook routes of app/routers/billing.py  *)
(* do alike with one delivery of an event: the two idempotency layers (a      *)
(* cache key, then a row of payment_transactions whose event_id is unique),   *)
(* one action per round trip.  A delivery is one HTTP request; the provider   *)
(* may deliver an event any number of times, concurrently, and a request may  *)
(* die at any await.  RazorpayWebhook and StripeWebhook extend this module    *)
(* with what follows an accepted delivery.                                    *)

CONSTANTS Deliveries,   \* HTTP requests carrying an event
          Events,       \* events of the payment provider
          Keys,         \* values of event_id, NoKey among them
          NoKey,        \* the empty event_id of a delivery without the header
          KeyOf,        \* the event_id of each event
          MayFail,      \* whether a call to the database or the provider may fail
          MayCrash      \* whether a process may die

ASSUME IntakeAssumption ==
  /\ NoKey \in Keys
  /\ KeyOf \in [Events -> Keys]
  /\ MayFail \in BOOLEAN /\ MayCrash \in BOOLEAN

VARIABLES pc,      \* where each request stands
          event,   \* the event each request carries
          txn,     \* payment_transactions: the status of the row of each id
          cached   \* ids whose webhook:idempotency key is in the cache

intakeVars == <<pc, event, txn, cached>>

Pending == {"verified", "inserting", "marking", "accepted", "unguarded"}
Answered == {"received", "duplicate", "mistaken", "unapplied", "rejected", "error", "crashed"}
PC == {"idle"} \cup Pending \cup Answered
TxnStatus == {"none", "queued", "pending"}

IntakeTypeOK ==
  /\ pc \in [Deliveries -> PC]
  /\ event \in [Deliveries -> Events]
  /\ txn \in [Keys -> TxnStatus]
  /\ cached \subseteq Keys

IntakeInit ==
  /\ pc = [d \in Deliveries |-> "idle"]
  /\ event \in [Deliveries -> Events]
  /\ txn = [k \in Keys |-> "none"]
  /\ cached = {}

Key(d) == KeyOf[event[d]]
Go(d, label) == pc' = [pc EXCEPT ![d] = label]

CacheHit(d) == Key(d) # NoKey /\ Key(d) \in cached

(* Layer 1, and a signature that verifies. *)
Receive(d) ==
  /\ pc[d] = "idle"
  /\ Go(d, IF CacheHit(d) THEN "duplicate" ELSE "verified")
  /\ UNCHANGED <<event, txn, cached>>

(* The signature or the JSON is bad: 400, the provider will try again. *)
Reject(d) ==
  /\ pc[d] = "idle"
  /\ Go(d, "rejected")
  /\ UNCHANGED <<event, txn, cached>>

(* Layer 2, the lookup.  A delivery without an id skips both layers. *)
SelectTxn(d) ==
  /\ pc[d] = "verified"
  /\ Go(d, IF Key(d) = NoKey THEN "unguarded"
           ELSE IF txn[Key(d)] # "none" THEN "duplicate" ELSE "inserting")
  /\ UNCHANGED <<event, txn, cached>>

(* The lookup raised: the outer except logs it and the delivery goes on *)
(* without a row ("falling back to cache-only").                        *)
SelectTxnFails(d) ==
  /\ MayFail
  /\ pc[d] = "verified" /\ Key(d) # NoKey
  /\ Go(d, "unguarded")
  /\ UNCHANGED <<event, txn, cached>>

(* Mutant: an INSERT that overwrites the row of the id. *)
InsertTxnBlind(d) ==
  /\ pc[d] = "inserting"
  /\ txn' = [txn EXCEPT ![Key(d)] = "queued"]
  /\ Go(d, "marking")
  /\ UNCHANGED <<event, cached>>

(* Layer 2, the claim: INSERT and commit against the unique event_id. *)
InsertTxn(d) ==
  /\ pc[d] = "inserting"
  /\ IF txn[Key(d)] = "none"
       THEN txn' = [txn EXCEPT ![Key(d)] = "queued"] /\ Go(d, "marking")
       ELSE UNCHANGED txn /\ Go(d, "duplicate")
  /\ UNCHANGED <<event, cached>>

(* The commit raised for another reason than the constraint, before or after *)
(* it took effect; the handler answers "duplicate" all the same, which is    *)
(* mistaken.                                                                 *)
InsertTxnFails(d) ==
  /\ MayFail
  /\ pc[d] = "inserting"
  /\ \/ UNCHANGED txn
     \/ txn[Key(d)] = "none" /\ txn' = [txn EXCEPT ![Key(d)] = "queued"]
  /\ Go(d, "mistaken")
  /\ UNCHANGED <<event, cached>>

PutCache(d) ==
  /\ pc[d] = "marking"
  /\ cached' = cached \cup {Key(d)}
  /\ Go(d, "accepted")
  /\ UNCHANGED <<event, txn>>

(* The key expires after 24 h, Redis is flushed, or another worker without *)
(* Redis holds it.                                                         *)
CacheLoss ==
  /\ \E k \in cached : cached' = cached \ {k}
  /\ UNCHANGED <<pc, event, txn>>

(* The API process dies under the request. *)
Crash(d) ==
  /\ MayCrash
  /\ pc[d] \in Pending
  /\ Go(d, "crashed")
  /\ UNCHANGED <<event, txn, cached>>

IntakeStep(d) == SelectTxn(d) \/ InsertTxn(d) \/ PutCache(d)
IntakeFault(d) == SelectTxnFails(d) \/ InsertTxnFails(d) \/ Crash(d)
==============================================================================
