--------------------------- MODULE RazorpayWebhook ---------------------------
(* The Razorpay webhook: the route claims the event id and hands the event to *)
(* the task process_billing_webhook, which claims the id once more, in the    *)
(* same payment_transactions table, before it changes the subscription.       *)
(* The task runs on a Celery worker (acks_late, autoretry) or, without        *)
(* Celery, in a thread of the API process, where nothing retries it.          *)
EXTENDS WebhookIntake, UserSubscriptions, Naturals

CONSTANTS Kind,         \* what each event says
          UserOf,       \* the e-mail it names
          SubOf,        \* the subscription it names
          UseCelery,    \* config.USE_CELERY
          MaxRetries    \* max_retries of the task (5 in the code)

Kinds == {"activated", "charged", "ended", "payment_failed", "unhandled"}

ASSUME RazorpayAssumption ==
  /\ Kind \in [Events -> Kinds]
  /\ UserOf \in [Events -> Users \cup {NoUser}]
  /\ SubOf \in [Events -> SubIds \cup {NoSub}]
  /\ UseCelery \in BOOLEAN
  /\ MaxRetries \in Nat

VARIABLES task,      \* the task each delivery has dispatched
          retries,   \* attempts of it that a database error has ended
          applied,   \* how often an event of each id changed the table
          subs       \* user_subscriptions

taskVars == <<task, retries, applied, subs>>
vars == <<pc, event, txn, cached, task, retries, applied, subs>>

TaskState == {"none", "queued", "claimed", "unacked", "done", "lost"}

TypeOK ==
  /\ IntakeTypeOK
  /\ task \in [Deliveries -> TaskState]
  /\ retries \in [Deliveries -> 0..MaxRetries]
  /\ applied \in [Keys -> Nat]
  /\ subs \in Table

Init ==
  /\ IntakeInit
  /\ task = [d \in Deliveries |-> "none"]
  /\ retries = [d \in Deliveries |-> 0]
  /\ applied = [k \in Keys |-> 0]
  /\ subs = EmptyTable

(* What the task writes for event e when its database calls succeed. *)
Effect(e, t) ==
  CASE Kind[e] = "activated" /\ UserOf[e] # NoUser ->
         UpsertProSub(t, UserOf[e], TRUE, SubOf[e])
    [] Kind[e] = "charged" /\ SubOf[e] # NoSub -> UpdateBySub(t, SubOf[e], TRUE)
    [] Kind[e] = "ended" -> UpdateBySub(t, SubOf[e], FALSE)
    [] Kind[e] = "payment_failed" /\ UserOf[e] # NoUser ->
         UpsertPro(t, UserOf[e], FALSE)
    [] OTHER -> t

SetTask(d, s) == task' = [task EXCEPT ![d] = s]

(* Mutants: the forms a plausible mistake would give these actions. *)

(* The retry limit is not looked at. *)
TaskClaimFailsForEver(d) ==
  /\ MayFail
  /\ task[d] = "queued"
  /\ retries' = [retries EXCEPT ![d] = @ + 1]
  /\ UNCHANGED <<pc, event, txn, cached, task, applied, subs>>

(* The task does not notice that the id has a row. *)
TaskClaimBlind(d) ==
  /\ task[d] = "queued"
  /\ SetTask(d, "claimed")
  /\ txn' = [txn EXCEPT ![Key(d)] = IF @ = "none" THEN "pending" ELSE @]
  /\ UNCHANGED <<pc, event, cached, retries, applied, subs>>

(* Claim and write are one transaction only until the write: a crash before *)
(* the acknowledgement takes the row back.                                  *)
TaskCrashReleases(d) ==
  /\ MayCrash
  /\ task[d] \in {"claimed", "unacked"}
  /\ SetTask(d, "queued")
  /\ txn' = [txn EXCEPT ![Key(d)] = "none"]
  /\ UNCHANGED <<pc, event, cached, retries, applied, subs>>

(* HybridTask.delay, then the answer to the provider. *)
Dispatch(d) ==
  /\ pc[d] \in {"accepted", "unguarded"}
  /\ SetTask(d, "queued")
  /\ Go(d, "received")
  /\ UNCHANGED <<event, txn, cached, retries, applied, subs>>

(* Publishing to the Celery broker raised: the request ends in a 500. *)
DispatchFails(d) ==
  /\ UseCelery
  /\ pc[d] \in {"accepted", "unguarded"}
  /\ Go(d, "error")
  /\ UNCHANGED <<event, txn, cached, taskVars>>

(* The task inserts its own row for the id; IntegrityError means "already *)
(* processed".                                                            *)
TaskClaim(d) ==
  /\ task[d] = "queued"
  /\ IF txn[Key(d)] = "none"
       THEN txn' = [txn EXCEPT ![Key(d)] = "pending"] /\ SetTask(d, "claimed")
       ELSE UNCHANGED txn /\ SetTask(d, "done")
  /\ UNCHANGED <<pc, event, cached, retries, applied, subs>>

(* Another database error, of a commit that may have taken effect all the *)
(* same: Celery retries the task, in process it is over.                  *)
TaskClaimFails(d) ==
  /\ MayFail
  /\ task[d] = "queued"
  /\ IF UseCelery /\ retries[d] < MaxRetries
       THEN retries' = [retries EXCEPT ![d] = @ + 1] /\ UNCHANGED task
       ELSE SetTask(d, "lost") /\ UNCHANGED retries
  /\ \/ UNCHANGED txn
     \/ txn[Key(d)] = "none" /\ txn' = [txn EXCEPT ![Key(d)] = "pending"]
  /\ UNCHANGED <<pc, event, cached, applied, subs>>

TaskApply(d) ==
  /\ task[d] = "claimed"
  /\ subs' = Effect(event[d], subs)
  /\ applied' = [applied EXCEPT ![Key(d)] = @ + 1]
  /\ SetTask(d, "unacked")
  /\ UNCHANGED <<pc, event, txn, cached, retries>>

(* The repository function caught the error and returned False, which the *)
(* task ignores.                                                          *)
TaskApplyFails(d) ==
  /\ MayFail
  /\ task[d] = "claimed"
  /\ SetTask(d, "done")
  /\ UNCHANGED <<pc, event, txn, cached, retries, applied, subs>>

TaskAck(d) ==
  /\ task[d] = "unacked"
  /\ SetTask(d, "done")
  /\ UNCHANGED <<pc, event, txn, cached, retries, applied, subs>>

(* The worker dies with the task: the broker delivers the unacknowledged *)
(* message again, or Celery acknowledges it as lost with the child that  *)
(* ran it.  In process the task dies with the API, whatever it had done. *)
TaskCrash(d) ==
  /\ MayCrash
  /\ task[d] \in {"claimed", "unacked"} \cup (IF UseCelery THEN {} ELSE {"queued"})
  /\ \E s \in {"lost"} \cup (IF UseCelery THEN {"queued"} ELSE {}) : SetTask(d, s)
  /\ UNCHANGED <<pc, event, txn, cached, retries, applied, subs>>

TaskStep(d) == TaskClaim(d) \/ TaskApply(d) \/ TaskAck(d)
TaskFault(d) == TaskClaimFails(d) \/ TaskApplyFails(d) \/ TaskCrash(d)

(* A cached id is answered before the signature is looked at. *)
Arrive(d) == Receive(d) \/ (~CacheHit(d) /\ Reject(d))
Intake(d) ==
  (Arrive(d) \/ IntakeStep(d) \/ IntakeFault(d)) /\ UNCHANGED taskVars

Next ==
  \/ \E d \in Deliveries :
       \/ Intake(d) \/ Dispatch(d) \/ DispatchFails(d)
       \/ TaskStep(d) \/ TaskFault(d)
  \/ CacheLoss /\ UNCHANGED taskVars

Spec == Init /\ [][Next]_vars

(* An API process answers the requests it received, a worker runs the tasks *)
(* it is given; no request has to arrive and nothing has to fail.           *)
Fairness ==
  \A d \in Deliveries :
    /\ WF_vars(IntakeStep(d) /\ UNCHANGED taskVars)
    /\ WF_vars(Dispatch(d))
    /\ WF_vars(TaskStep(d))

FairSpec == Spec /\ Fairness

-----------------------------------------------------------------------------
(* An event is applied at most once, however often it is delivered, whichever *)
(* of the two layers is out of order and wherever a handler or a worker dies  *)
(* ("we never double-activate a subscription", billing.py).                   *)
AppliedAtMostOnce == \A k \in Keys : applied[k] <= 1

(* The route's row and the task's row exclude each other: once the route has *)
(* claimed an id no task ever applies its event, so an event takes effect    *)
(* only when the route's database layer failed or the delivery had no id.    *)
QueuedNeverApplied == \A k \in Keys : txn[k] = "queued" => applied[k] = 0

(* Why: a task that holds the claim has its own row and has not applied yet,  *)
(* no two tasks hold the claim of one id, and an applied id keeps its row.    *)
ClaimInv ==
  /\ \A k \in Keys : applied[k] > 0 => txn[k] = "pending"
  /\ \A d \in Deliveries :
       task[d] = "claimed" => txn[Key(d)] = "pending" /\ applied[Key(d)] = 0
  /\ \A c, d \in Deliveries :
       task[c] = "claimed" /\ task[d] = "claimed" /\ Key(c) = Key(d) => c = d

(* A claim is never given up or changed: payment_transactions only grows. *)
ClaimsAreFinal ==
  [][\A k \in Keys : txn[k] # "none" => txn'[k] = txn[k]]_txn

(* "This guarantees delivery even if the API pod dies" (tasks.py): an event *)
(* whose delivery was answered "received" is applied in the end.            *)
ReceivedIsApplied ==
  \A d \in Deliveries : pc[d] = "received" ~> applied[Key(d)] > 0

(* The abstract promise: a sequence of effects, at most one per event id and *)
(* none unguarded.                                                           *)
Once == INSTANCE AppliedOnce
          WITH done <- {k \in Keys : applied[k] > 0}, unguarded <- {}, table <- subs
AppliesOnce == Once!Spec
==============================================================================
