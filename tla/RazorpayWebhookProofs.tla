------------------------ MODULE RazorpayWebhookProofs ------------------------
(* Theorems about RazorpayWebhook, for any number of deliveries, events and   *)
(* event ids, any retry bound, with or without Celery and with every fault    *)
(* the model knows.  Each action is taken apart once, in the lemma that says  *)
(* which part of the invariant it can disturb.                                *)
EXTENDS RazorpayWebhook, TLAPS

USE DEF Pending, Answered, PC, TxnStatus, TaskState

(* The writers of user_subscriptions keep the shape of the table. *)
LEMMA EffectType ==
  ASSUME NEW e \in Events, NEW t \in Table
  PROVE  Effect(e, t) \in Table
<1>. /\ UserOf[e] \in Users \cup {NoUser}
     /\ SubOf[e] \in SubIds \cup {NoSub}
  BY RazorpayAssumption
<1>1. ASSUME NEW u \in Users, NEW p \in BOOLEAN, NEW s \in SubIds \cup {NoSub}
      PROVE  UpsertProSub(t, u, p, s) \in Table
  BY <1>1 DEF Table, Row, UpsertProSub
<1>2. ASSUME NEW u \in Users, NEW p \in BOOLEAN
      PROVE  UpsertPro(t, u, p) \in Table
  BY <1>2 DEF Table, Row, UpsertPro
<1>3. ASSUME NEW p \in BOOLEAN, NEW s \in SubIds \cup {NoSub}
      PROVE  UpdateBySub(t, s, p) \in Table
  BY <1>3 DEF Table, Row, UpdateBySub
<1>4. CASE Kind[e] = "activated" /\ UserOf[e] # NoUser
  BY <1>1, <1>4 DEF Effect
<1>5. CASE Kind[e] = "charged" /\ SubOf[e] # NoSub
  BY <1>3, <1>5 DEF Effect
<1>6. CASE Kind[e] = "ended"
  BY <1>3, <1>6 DEF Effect
<1>7. CASE Kind[e] = "payment_failed" /\ UserOf[e] # NoUser
  BY <1>2, <1>7 DEF Effect
<1>8. CASE /\ ~(Kind[e] = "activated" /\ UserOf[e] # NoUser)
           /\ ~(Kind[e] = "charged" /\ SubOf[e] # NoSub) /\ Kind[e] # "ended"
           /\ ~(Kind[e] = "payment_failed" /\ UserOf[e] # NoUser)
  BY <1>8 DEF Effect
<1>. QED  BY <1>4, <1>5, <1>6, <1>7, <1>8

LEMMA KeyType ==
  ASSUME TypeOK, NEW d \in Deliveries
  PROVE  Key(d) \in Keys
BY IntakeAssumption DEF TypeOK, IntakeTypeOK, Key

LEMMA InitInv == Init => TypeOK /\ ClaimInv
<1>. SUFFICES ASSUME Init PROVE TypeOK /\ ClaimInv
  OBVIOUS
<1>1. IntakeTypeOK
  BY DEF Init, IntakeInit, IntakeTypeOK
<1>2. /\ task \in [Deliveries -> TaskState]
      /\ retries \in [Deliveries -> 0..MaxRetries]
      /\ applied \in [Keys -> Nat]
  BY RazorpayAssumption DEF Init
<1>3. subs \in Table
  BY DEF Init, EmptyTable, Table, Row
<1>4. ClaimInv
  BY IntakeAssumption DEF Init, IntakeInit, ClaimInv, Key
<1>. QED  BY <1>1, <1>2, <1>3, <1>4 DEF TypeOK

(* Every step keeps the types. *)
LEMMA StepType == TypeOK /\ [Next]_vars => TypeOK'
<1>. SUFFICES ASSUME TypeOK, [Next]_vars PROVE TypeOK'
  OBVIOUS
<1>. USE DEF TypeOK, IntakeTypeOK, Go, SetTask
<1>1. ASSUME NEW d \in Deliveries, Intake(d)
      PROVE  TypeOK'
  <2>0. Key(d) \in Keys  BY KeyType
  <2>1. CASE Receive(d)
    BY <1>1, <2>1 DEF Intake, Receive, taskVars
  <2>2. CASE Reject(d)
    BY <1>1, <2>2 DEF Intake, Reject, taskVars
  <2>3. CASE SelectTxn(d)
    BY <1>1, <2>3 DEF Intake, SelectTxn, taskVars
  <2>4. CASE InsertTxn(d)
    BY <1>1, <2>0, <2>4 DEF Intake, InsertTxn, taskVars
  <2>5. CASE PutCache(d)
    BY <1>1, <2>0, <2>5 DEF Intake, PutCache, taskVars
  <2>6. CASE SelectTxnFails(d)
    BY <1>1, <2>6 DEF Intake, SelectTxnFails, taskVars
  <2>7. CASE InsertTxnFails(d)
    BY <1>1, <2>0, <2>7 DEF Intake, InsertTxnFails, taskVars
  <2>8. CASE Crash(d)
    BY <1>1, <2>8 DEF Intake, Crash, taskVars
  <2>. QED  BY <1>1, <2>1, <2>2, <2>3, <2>4, <2>5, <2>6, <2>7, <2>8
            DEF Intake, Arrive, IntakeStep, IntakeFault
<1>2. ASSUME NEW d \in Deliveries, Dispatch(d) PROVE TypeOK'
  BY <1>2 DEF Dispatch
<1>3. ASSUME NEW d \in Deliveries, DispatchFails(d) PROVE TypeOK'
  BY <1>3 DEF DispatchFails, taskVars
<1>4. ASSUME NEW d \in Deliveries, TaskClaim(d) PROVE TypeOK'
  BY <1>4, KeyType DEF TaskClaim
<1>5. ASSUME NEW d \in Deliveries, TaskApply(d) PROVE TypeOK'
  <2>1. event[d] \in Events /\ Key(d) \in Keys
    BY KeyType
  <2>2. subs' \in Table
    BY <1>5, <2>1, EffectType DEF TaskApply
  <2>. QED  BY <1>5, <2>1, <2>2 DEF TaskApply
<1>6. ASSUME NEW d \in Deliveries, TaskAck(d) PROVE TypeOK'
  BY <1>6 DEF TaskAck
<1>7. ASSUME NEW d \in Deliveries, TaskClaimFails(d) PROVE TypeOK'
  BY <1>7, KeyType, RazorpayAssumption DEF TaskClaimFails
<1>8. ASSUME NEW d \in Deliveries, TaskApplyFails(d) PROVE TypeOK'
  BY <1>8 DEF TaskApplyFails
<1>9. ASSUME NEW d \in Deliveries, TaskCrash(d) PROVE TypeOK'
  BY <1>9 DEF TaskCrash
<1>10. CASE CacheLoss /\ UNCHANGED taskVars
  BY <1>10 DEF CacheLoss, taskVars
<1>11. CASE UNCHANGED vars
  BY <1>11 DEF vars
<1>. QED  BY <1>1, <1>2, <1>3, <1>4, <1>5, <1>6, <1>7, <1>8, <1>9, <1>10, <1>11
          DEF Next, TaskStep, TaskFault

(* A step that leaves the events, the tasks and the counts alone, and fills  *)
(* at most an empty row, keeps ClaimInv: the route's own steps are of that   *)
(* kind, whatever fault they meet.                                           *)
LEMMA QuietStep ==
  ASSUME TypeOK, ClaimInv, UNCHANGED <<event, task, applied>>,
         \A k \in Keys : txn[k] # "none" => txn'[k] = txn[k]
  PROVE  ClaimInv'
BY KeyType DEF ClaimInv, Key

LEMMA StepClaim == TypeOK /\ ClaimInv /\ [Next]_vars => ClaimInv'
<1>. SUFFICES ASSUME TypeOK, ClaimInv, [Next]_vars PROVE ClaimInv'
  OBVIOUS
<1>. USE DEF Go, SetTask
<1>1. ASSUME NEW d \in Deliveries, Intake(d)
      PROVE  ClaimInv'
  <2>0. Key(d) \in Keys /\ txn \in [Keys -> TxnStatus]
    BY KeyType DEF TypeOK, IntakeTypeOK
  <2>1. UNCHANGED <<event, task, applied>>
    BY <1>1 DEF Intake, Arrive, IntakeStep, IntakeFault, Receive, Reject,
                SelectTxn, InsertTxn, PutCache, SelectTxnFails,
                InsertTxnFails, Crash, taskVars
  <2>2. \A k \in Keys : txn[k] # "none" => txn'[k] = txn[k]
    BY <1>1, <2>0 DEF Intake, Arrive, IntakeStep, IntakeFault, Receive, Reject,
                SelectTxn, InsertTxn, PutCache, SelectTxnFails,
                InsertTxnFails, Crash
  <2>. QED  BY <2>1, <2>2, QuietStep
<1>2. ASSUME NEW d \in Deliveries, Dispatch(d) PROVE ClaimInv'
  BY <1>2 DEF Dispatch, ClaimInv, Key, TypeOK
<1>3. ASSUME NEW d \in Deliveries, DispatchFails(d) PROVE ClaimInv'
  BY <1>3, QuietStep DEF DispatchFails, taskVars
<1>4. ASSUME NEW d \in Deliveries, TaskClaim(d) PROVE ClaimInv'
  <2>1. Key(d) \in Keys /\ \A c \in Deliveries : Key(c)' = Key(c) /\ Key(c) \in Keys
    BY <1>4, KeyType DEF TaskClaim, Key
  <2>2. CASE txn[Key(d)] = "none"
    BY <1>4, <2>1, <2>2 DEF TaskClaim, ClaimInv, TypeOK, IntakeTypeOK
  <2>3. CASE txn[Key(d)] # "none"
    BY <1>4, <2>1, <2>3 DEF TaskClaim, ClaimInv, TypeOK, IntakeTypeOK
  <2>. QED  BY <2>2, <2>3
<1>5. ASSUME NEW d \in Deliveries, TaskApply(d) PROVE ClaimInv'
  <2>1. Key(d) \in Keys /\ \A c \in Deliveries : Key(c)' = Key(c) /\ Key(c) \in Keys
    BY <1>5, KeyType DEF TaskApply, Key
  <2>. QED  BY <1>5, <2>1 DEF TaskApply, ClaimInv, TypeOK, IntakeTypeOK
<1>6. ASSUME NEW d \in Deliveries, TaskAck(d) PROVE ClaimInv'
  BY <1>6 DEF TaskAck, ClaimInv, Key, TypeOK
<1>7. ASSUME NEW d \in Deliveries, TaskClaimFails(d) PROVE ClaimInv'
  <2>1. Key(d) \in Keys /\ \A c \in Deliveries : Key(c)' = Key(c) /\ Key(c) \in Keys
    BY <1>7, KeyType DEF TaskClaimFails, Key
  <2>2. \A c \in Deliveries : task'[c] = "claimed" => task[c] = "claimed"
    BY <1>7 DEF TaskClaimFails, TypeOK
  <2>3. \A k \in Keys : txn[k] # "none" => txn'[k] = txn[k]
    BY <1>7, <2>1 DEF TaskClaimFails, TypeOK, IntakeTypeOK
  <2>4. applied' = applied
    BY <1>7 DEF TaskClaimFails
  <2>. QED  BY <2>1, <2>2, <2>3, <2>4 DEF ClaimInv, TypeOK
<1>8. ASSUME NEW d \in Deliveries, TaskApplyFails(d) PROVE ClaimInv'
  BY <1>8 DEF TaskApplyFails, ClaimInv, Key, TypeOK
<1>9. ASSUME NEW d \in Deliveries, TaskCrash(d) PROVE ClaimInv'
  BY <1>9 DEF TaskCrash, ClaimInv, Key, TypeOK
<1>10. CASE CacheLoss /\ UNCHANGED taskVars
  BY <1>10, QuietStep DEF CacheLoss, taskVars
<1>11. CASE UNCHANGED vars
  BY <1>11, QuietStep DEF vars
<1>. QED  BY <1>1, <1>2, <1>3, <1>4, <1>5, <1>6, <1>7, <1>8, <1>9, <1>10, <1>11
          DEF Next, TaskStep, TaskFault

(* An application needs the claim, and the claim is worth one application. *)
LEMMA StepOnce ==
  TypeOK /\ ClaimInv /\ AppliedAtMostOnce /\ [Next]_vars => AppliedAtMostOnce'
<1>. SUFFICES ASSUME TypeOK, ClaimInv, AppliedAtMostOnce, [Next]_vars
              PROVE  AppliedAtMostOnce'
  OBVIOUS
<1>1. ASSUME NEW d \in Deliveries, TaskApply(d) PROVE AppliedAtMostOnce'
  <2>1. Key(d) \in Keys /\ applied[Key(d)] = 0 /\ applied \in [Keys -> Nat]
    BY <1>1, KeyType DEF TaskApply, ClaimInv, TypeOK
  <2>2. applied' = [applied EXCEPT ![Key(d)] = applied[Key(d)] + 1]
    BY <1>1 DEF TaskApply
  <2>. QED  BY <2>1, <2>2 DEF AppliedAtMostOnce
<1>2. CASE UNCHANGED applied
  BY <1>2 DEF AppliedAtMostOnce
<1>. QED
  BY <1>1, <1>2 DEF Next, Intake, Dispatch, DispatchFails, TaskStep, TaskFault,
     TaskClaim, TaskAck, TaskClaimFails, TaskApplyFails, TaskCrash, taskVars, vars

(* The module's variables always have their types. *)
THEOREM TypeCorrect == Spec => []TypeOK
<1>1. Init => TypeOK  BY InitInv
<1>. QED  BY <1>1, StepType, PTL DEF Spec

(* The strengthening that carries the two theorems after it. *)
THEOREM ClaimsHold == Spec => []ClaimInv
<1>1. Init => ClaimInv  BY InitInv
<1>. QED  BY <1>1, StepClaim, TypeCorrect, PTL DEF Spec

(* No event is applied twice, for any number of deliveries and any faults. *)
THEOREM AtMostOnce == Spec => []AppliedAtMostOnce
<1>1. Init => AppliedAtMostOnce
  BY DEF Init, AppliedAtMostOnce
<1>. QED  BY <1>1, StepOnce, ClaimsHold, TypeCorrect, PTL DEF Spec

(* An event whose id the route has claimed is never applied. *)
THEOREM QueuedIsNeverApplied == Spec => []QueuedNeverApplied
<1>1. TypeOK /\ ClaimInv => QueuedNeverApplied
  <2>. SUFFICES ASSUME TypeOK, ClaimInv, NEW k \in Keys, txn[k] = "queued"
                PROVE  applied[k] = 0
    BY DEF QueuedNeverApplied
  <2>1. applied[k] \in Nat /\ ~(applied[k] > 0)
    BY DEF ClaimInv, TypeOK
  <2>. QED  BY <2>1
<1>. QED  BY <1>1, ClaimsHold, TypeCorrect, PTL

(* payment_transactions only grows: no step changes a row it has. *)
THEOREM ClaimsStay == Spec => ClaimsAreFinal
<1>1. TypeOK /\ [Next]_vars
        => [\A k \in Keys : txn[k] # "none" => txn'[k] = txn[k]]_txn
  <2>. SUFFICES ASSUME TypeOK, [Next]_vars, NEW k \in Keys, txn[k] # "none"
                PROVE  txn'[k] = txn[k]
    OBVIOUS
  <2>1. txn \in [Keys -> TxnStatus]
    BY DEF TypeOK, IntakeTypeOK
  <2>2. ASSUME NEW d \in Deliveries,
               \/ InsertTxn(d) \/ InsertTxnFails(d)
               \/ TaskClaim(d) \/ TaskClaimFails(d)
        PROVE  txn'[k] = txn[k]
    BY <2>1, <2>2 DEF InsertTxn, InsertTxnFails, TaskClaim, TaskClaimFails
  <2>3. CASE UNCHANGED txn
    BY <2>3
  <2>. QED
    BY <2>2, <2>3 DEF Next, Intake, Arrive, IntakeStep, IntakeFault, Receive,
       Reject, SelectTxn, PutCache, SelectTxnFails, Crash, CacheLoss, Dispatch,
       DispatchFails, TaskStep, TaskFault, TaskApply, TaskAck,
       TaskApplyFails, TaskCrash, taskVars, vars
<1>. QED  BY <1>1, TypeCorrect, PTL DEF Spec, ClaimsAreFinal

(* The webhook implements the abstract promise: TaskApply is one Apply of an *)
(* event whose id is not done, every other step leaves the abstract state.   *)
THEOREM Implements == Spec => AppliesOnce
<1>1. Init => Once!Init
  BY DEF Init, Once!Init
<1>2. TypeOK /\ ClaimInv /\ [Next]_vars
        => [Once!Next]_<<{k \in Keys : applied[k] > 0}, {}, subs>>
  <2>. SUFFICES ASSUME TypeOK, ClaimInv, [Next]_vars
                PROVE  [Once!Next]_<<{k \in Keys : applied[k] > 0}, {}, subs>>
    OBVIOUS
  <2>1. ASSUME NEW d \in Deliveries, TaskApply(d)
        PROVE  Once!Next
    <3>1. /\ event[d] \in Events /\ Key(d) \in Keys
          /\ applied \in [Keys -> Nat] /\ applied[Key(d)] = 0
      BY <2>1, KeyType DEF TaskApply, ClaimInv, TypeOK, IntakeTypeOK
    <3>2. /\ applied' = [applied EXCEPT ![Key(d)] = applied[Key(d)] + 1]
          /\ subs' = Effect(event[d], subs)
      BY <2>1 DEF TaskApply
    <3>3. {k \in Keys : applied'[k] > 0}
            = {k \in Keys : applied[k] > 0} \cup {Key(d)}
      BY <3>1, <3>2
    <3>4. KeyOf[event[d]] \notin {k \in Keys : applied[k] > 0}
      BY <3>1 DEF Key
    <3>. QED  BY <3>1, <3>2, <3>3, <3>4 DEF Once!Next, Once!Apply, Key
  <2>2. (\E d \in Deliveries : TaskApply(d)) \/ UNCHANGED <<applied, subs>>
    BY DEF Next, Intake, Dispatch, DispatchFails, TaskStep, TaskFault, TaskClaim,
       TaskAck, TaskClaimFails, TaskApplyFails, TaskCrash, taskVars, vars
  <2>3. CASE \E d \in Deliveries : TaskApply(d)
    BY <2>1, <2>3
  <2>4. CASE UNCHANGED <<applied, subs>>
    BY <2>4
  <2>. QED  BY <2>2, <2>3, <2>4
<1>. QED
  BY <1>1, <1>2, TypeCorrect, ClaimsHold, PTL
  DEF Spec, AppliesOnce, Once!Spec, Once!vars
==============================================================================
