------------------------- MODULE SubscriptionsProofs -------------------------
(* Theorems about the Stripe webhook, for any deliveries, events and ids, and *)
(* about the answers of get_user_pro_status, for any clients, processes and   *)
(* times to live: a claim is held by one delivery and spent by its upsert,    *)
(* and a copy of a status that ended is the older the less it has to live.    *)
EXTENDS Subscriptions, TLAPS

-----------------------------------------------------------------------------
(* The webhook.                                                               *)
Claims(d) == pc[d] \in {"marking", "accepted"}

ClaimInv ==
  /\ \A d \in Deliveries : Claims(d) => txn[Key(d)] # "none" /\ applied[Key(d)] = 0
  /\ \A d, c \in Deliveries : Claims(d) /\ Claims(c) /\ Key(d) = Key(c) => d = c
  /\ \A k \in Keys : applied[k] > 0 => txn[k] # "none"

WebhookInv == TypeOK /\ ClaimInv /\ ClaimedAppliedOnce

LEMMA KeyType ==
  ASSUME TypeOK, NEW d \in Deliveries
  PROVE  Key(d) \in Keys
BY IntakeAssumption DEF TypeOK, IntakeTypeOK, Key

LEMMA EffectType ==
  ASSUME NEW e \in Events, NEW t \in Table
  PROVE  Effect(e, t) \in Table
<1>. /\ UserOf[e] \in Users \cup {NoUser} /\ SubOf[e] \in SubIds \cup {NoSub}
  BY StripeAssumption
<1>1. ASSUME NEW u \in Users, NEW p \in BOOLEAN, NEW s \in SubIds \cup {NoSub}
      PROVE  UpsertProSub(t, u, p, s) \in Table
  BY <1>1 DEF Table, Row, UpsertProSub
<1>2. ASSUME NEW u \in Users, NEW p \in BOOLEAN
      PROVE  UpsertPro(t, u, p) \in Table
  BY <1>2 DEF Table, Row, UpsertPro
<1>3. CASE UserOf[e] = NoUser
  <2>1. ASSUME NEW p \in BOOLEAN, NEW s
        PROVE  UpsertProSub(t, NoUser, p, s) \in Table /\ UpsertPro(t, NoUser, p) \in Table
    BY UserAssumption DEF Table, UpsertProSub, UpsertPro
  <2>2. CASE Kind[e] \in {"activated", "active", "payment_succeeded"}
    BY <1>3, <2>1, <2>2 DEF Effect
  <2>3. CASE Kind[e] = "inactive"
    BY <1>3, <2>1, <2>3 DEF Effect
  <2>4. CASE Kind[e] = "ended"
    BY <1>3, <2>1, <2>4 DEF Effect
  <2>5. CASE Kind[e] \notin {"activated", "active", "payment_succeeded", "inactive", "ended"}
    BY <1>3, <2>5 DEF Effect
  <2>. QED  BY <2>2, <2>3, <2>4, <2>5
<1>4. CASE UserOf[e] # NoUser /\ Kind[e] \in {"activated", "active", "payment_succeeded"}
  BY <1>1, <1>4 DEF Effect
<1>5. CASE UserOf[e] # NoUser /\ Kind[e] = "inactive"
  BY <1>1, <1>5 DEF Effect
<1>6. CASE UserOf[e] # NoUser /\ Kind[e] = "ended"
  BY <1>2, <1>6 DEF Effect
<1>7. CASE /\ UserOf[e] # NoUser
           /\ Kind[e] \notin {"activated", "active", "payment_succeeded", "inactive", "ended"}
  BY <1>7 DEF Effect
<1>. QED  BY <1>3, <1>4, <1>5, <1>6, <1>7

LEMMA WebhookInit == Init => WebhookInv
<1>. SUFFICES ASSUME Init PROVE WebhookInv
  OBVIOUS
<1>1. TypeOK
  BY DEF Init, IntakeInit, TypeOK, IntakeTypeOK, PC, TxnStatus, EmptyTable, Table, Row
<1>2. ClaimInv /\ ClaimedAppliedOnce
  BY DEF Init, IntakeInit, ClaimInv, Claims, ClaimedAppliedOnce
<1>. QED  BY <1>1, <1>2 DEF WebhookInv

(* The steps of the intake leave the upserts alone.                           *)
LEMMA IntakeType ==
  ASSUME TypeOK, NEW d \in Deliveries, Intake(d)
  PROVE  TypeOK'
<1>. USE DEF TypeOK, IntakeTypeOK, Go, applyVars, PC, Pending, Answered, TxnStatus
<1>0. Key(d) \in Keys
  BY KeyType
<1>1. CASE Receive(d) \/ Reject(d)
  BY <1>1 DEF Intake, Receive, Reject
<1>2. CASE SelectTxn(d)
  BY <1>2 DEF Intake, SelectTxn
<1>3. CASE InsertTxn(d)
  BY <1>0, <1>3 DEF Intake, InsertTxn
<1>4. CASE PutCache(d)
  BY <1>0, <1>4 DEF Intake, PutCache
<1>5. CASE SelectTxnFails(d) \/ Crash(d)
  BY <1>5 DEF Intake, SelectTxnFails, Crash
<1>6. CASE InsertTxnFails(d)
  BY <1>0, <1>6 DEF Intake, InsertTxnFails
<1>. QED  BY <1>1, <1>2, <1>3, <1>4, <1>5, <1>6 DEF Intake, IntakeStep, IntakeFault

LEMMA ProcessType ==
  ASSUME TypeOK, NEW d \in Deliveries, Process(d)
  PROVE  TypeOK'
<1>1. event[d] \in Events /\ Key(d) \in Keys /\ subs \in Table
  BY KeyType DEF TypeOK, IntakeTypeOK
<1>2. subs' \in Table
  BY <1>1, EffectType DEF Process
<1>3. applied' \in [Keys -> Nat] /\ reapplied' \in [Keys -> Nat]
  BY <1>1 DEF Process, TypeOK
<1>. QED  BY <1>2, <1>3 DEF Process, TypeOK, IntakeTypeOK, Go, PC, Answered

LEMMA WebhookType == TypeOK /\ [Next]_vars => TypeOK'
<1>. SUFFICES ASSUME TypeOK, [Next]_vars PROVE TypeOK'
  OBVIOUS
<1>1. ASSUME NEW d \in Deliveries, ProcessFails(d) PROVE TypeOK'
  BY <1>1 DEF ProcessFails, TypeOK, IntakeTypeOK, Go, PC, Answered, applyVars
<1>2. CASE CacheLoss /\ UNCHANGED applyVars
  BY <1>2 DEF CacheLoss, TypeOK, IntakeTypeOK, applyVars
<1>3. CASE UNCHANGED vars
  BY <1>3 DEF vars, TypeOK, IntakeTypeOK
<1>. QED  BY <1>1, <1>2, <1>3, IntakeType, ProcessType DEF Next

(* A step after which no more deliveries have a claim, and the rows are those *)
(* of before or more.                                                         *)
LEMMA ClaimsKept ==
  ASSUME TypeOK, ClaimInv, UNCHANGED <<event, applied>>,
         \A c \in Deliveries : Claims(c)' => Claims(c),
         \A k \in Keys : txn[k] # "none" => txn'[k] # "none"
  PROVE  ClaimInv'
<1>1. \A c \in Deliveries : Key(c) \in Keys /\ Key(c)' = Key(c)
  BY KeyType DEF Key
<1>. QED  BY <1>1 DEF ClaimInv

LEMMA IntakeClaims ==
  ASSUME TypeOK, ClaimInv, NEW d \in Deliveries, Intake(d)
  PROVE  ClaimInv'
<1>. USE DEF Go, TypeOK, IntakeTypeOK, applyVars
<1>0. Key(d) \in Keys /\ UNCHANGED <<event, applied>>
  BY KeyType DEF Intake, IntakeStep, IntakeFault, Receive, Reject, SelectTxn, InsertTxn,
                 PutCache, SelectTxnFails, InsertTxnFails, Crash
<1>1. CASE InsertTxn(d) /\ txn[Key(d)] = "none"
  <2>1. /\ pc' = [pc EXCEPT ![d] = "marking"]
        /\ txn' = [txn EXCEPT ![Key(d)] = "queued"]
    BY <1>1 DEF InsertTxn
  <2>2. \A c \in Deliveries : Key(c) \in Keys /\ Key(c)' = Key(c)
    BY <1>0, KeyType DEF Key
  <2>3. \A c \in Deliveries \ {d} : (Claims(c)' <=> Claims(c)) /\ (Claims(c) => Key(c) # Key(d))
    BY <1>1, <2>1 DEF Claims, ClaimInv
  <2>4. applied[Key(d)] = 0
    <3>1. applied[Key(d)] \in Nat /\ ~(applied[Key(d)] > 0)
      BY <1>0, <1>1 DEF ClaimInv
    <3>. QED  BY <3>1
  <2>5. \A k \in Keys : txn'[k] # "none" <=> txn[k] # "none" \/ k = Key(d)
    BY <1>0, <2>1
  <2>. QED  BY <1>0, <2>2, <2>3, <2>4, <2>5 DEF ClaimInv
<1>2. CASE InsertTxn(d) /\ txn[Key(d)] # "none"
  BY <1>0, <1>2, ClaimsKept DEF InsertTxn, Claims
<1>3. CASE Receive(d) \/ Reject(d) \/ SelectTxn(d) \/ PutCache(d) \/ SelectTxnFails(d)
           \/ Crash(d)
  BY <1>0, <1>3, ClaimsKept
  DEF Receive, Reject, SelectTxn, PutCache, SelectTxnFails, Crash, Claims
<1>4. CASE InsertTxnFails(d)
  <2>1. \A k \in Keys : txn[k] # "none" => txn'[k] # "none"
    BY <1>0, <1>4 DEF InsertTxnFails
  <2>. QED  BY <1>0, <1>4, <2>1, ClaimsKept DEF InsertTxnFails, Claims
<1>. QED  BY <1>1, <1>2, <1>3, <1>4 DEF Intake, IntakeStep, IntakeFault

(* The upsert of a claim spends it.                                           *)
LEMMA ProcessOnce ==
  ASSUME WebhookInv, NEW d \in Deliveries, Process(d)
  PROVE  /\ ClaimInv' /\ ClaimedAppliedOnce'
         /\ Key(d) \in Keys /\ event[d] \in Events
         /\ \/ /\ applied[Key(d)] = 0 /\ applied' = [applied EXCEPT ![Key(d)] = 1]
               /\ reapplied' = reapplied
            \/ /\ reapplied' = [reapplied EXCEPT ![Key(d)] = reapplied[Key(d)] + 1]
               /\ applied' = applied
<1>. USE DEF Go, WebhookInv, TypeOK, IntakeTypeOK
<1>0. Key(d) \in Keys /\ event[d] \in Events
  BY KeyType
<1>1. \A c \in Deliveries : Key(c) \in Keys /\ Key(c)' = Key(c)
  BY KeyType DEF Key, Process
<1>2. ~Claims(d)' /\ txn' = txn /\ \A c \in Deliveries \ {d} : Claims(c)' <=> Claims(c)
  BY DEF Process, Claims
<1>3. CASE pc[d] = "accepted"
  <2>1. applied[Key(d)] = 0 /\ txn[Key(d)] # "none"
    BY <1>3 DEF ClaimInv, Claims
  <2>2. applied' = [applied EXCEPT ![Key(d)] = 1] /\ reapplied' = reapplied
    BY <1>3, <2>1 DEF Process
  <2>3. \A c \in Deliveries \ {d} : Claims(c) => Key(c) # Key(d)
    BY <1>3 DEF ClaimInv, Claims
  <2>4. ClaimInv'
    BY <1>0, <1>1, <1>2, <2>1, <2>2, <2>3 DEF ClaimInv
  <2>5. ClaimedAppliedOnce'
    BY <1>0, <2>2 DEF ClaimedAppliedOnce
  <2>. QED  BY <1>0, <2>1, <2>2, <2>4, <2>5
<1>4. CASE pc[d] = "unguarded"
  <2>1. applied' = applied /\ reapplied' = [reapplied EXCEPT ![Key(d)] = reapplied[Key(d)] + 1]
    BY <1>4 DEF Process
  <2>2. ClaimInv' /\ ClaimedAppliedOnce'
    BY <1>1, <1>2, <2>1 DEF ClaimInv, ClaimedAppliedOnce
  <2>. QED  BY <1>0, <2>1, <2>2
<1>. QED  BY <1>3, <1>4 DEF Process

(* What is not an upsert leaves the counts and the table alone.               *)
LEMMA QuietSteps ==
  ASSUME [Next]_vars, \A d \in Deliveries : ~Process(d)
  PROVE  UNCHANGED <<applied, reapplied, subs>>
BY DEF Next, Intake, ProcessFails, applyVars, vars

LEMMA WebhookStepInv == WebhookInv /\ [Next]_vars => WebhookInv'
<1>. SUFFICES ASSUME WebhookInv, [Next]_vars PROVE WebhookInv'
  OBVIOUS
<1>0. TypeOK /\ ClaimInv /\ ClaimedAppliedOnce /\ TypeOK'
  BY WebhookType DEF WebhookInv
<1>1. ASSUME NEW d \in Deliveries, Process(d) PROVE WebhookInv'
  BY <1>0, <1>1, ProcessOnce DEF WebhookInv
<1>2. CASE \A d \in Deliveries : ~Process(d)
  <2>1. ClaimedAppliedOnce'
    BY <1>0, <1>2, QuietSteps DEF ClaimedAppliedOnce
  <2>2. ASSUME NEW d \in Deliveries, ProcessFails(d) PROVE ClaimInv'
    BY <1>0, <2>2, ClaimsKept DEF ProcessFails, Claims, applyVars, Go, TypeOK, IntakeTypeOK
  <2>3. ASSUME UNCHANGED <<pc, event, txn, applied>> PROVE ClaimInv'
    <3>1. \A c \in Deliveries : Claims(c)' => Claims(c)
      BY <2>3 DEF Claims
    <3>2. \A k \in Keys : txn[k] # "none" => txn'[k] # "none"
      BY <2>3
    <3>. QED  BY <1>0, <2>3, <3>1, <3>2, ClaimsKept
  <2>4. (CacheLoss /\ UNCHANGED applyVars) \/ UNCHANGED vars
          => UNCHANGED <<pc, event, txn, applied>>
    BY DEF CacheLoss, applyVars, vars
  <2>5. \/ \E d \in Deliveries : Intake(d) \/ ProcessFails(d)
        \/ (CacheLoss /\ UNCHANGED applyVars) \/ UNCHANGED vars
    BY <1>2 DEF Next
  <2>6. ClaimInv'
    BY <1>0, <2>2, <2>3, <2>4, <2>5, IntakeClaims
  <2>. QED  BY <1>0, <2>1, <2>6 DEF WebhookInv
<1>. QED  BY <1>1, <1>2

LEMMA WebhookHolds == Spec => []WebhookInv
BY WebhookInit, WebhookStepInv, PTL DEF Spec

(* The variables of the webhook keep their types.                             *)
THEOREM TypeCorrect == Spec => []TypeOK
<1>1. WebhookInv => TypeOK
  BY DEF WebhookInv
<1>. QED  BY <1>1, WebhookHolds, PTL

(* Through crashes, lost cache keys and concurrent deliveries, the claims of  *)
(* an id change the subscription once (stripe_webhook).                       *)
THEOREM ClaimsApplyOnce == Spec => []ClaimedAppliedOnce
<1>1. WebhookInv => ClaimedAppliedOnce
  BY DEF WebhookInv
<1>. QED  BY <1>1, WebhookHolds, PTL

(* The webhook implements AppliedOnce: an upsert under a claim is one Apply   *)
(* of an id that is not done, one without is an ApplyUnguarded, and every     *)
(* other step leaves the table alone.                                         *)
THEOREM Implements == Spec => AppliesOnce
<1>. DEFINE done == {k \in Keys : applied[k] > 0}
            repeated == {k \in Keys : reapplied[k] > 0}
<1>1. Init => Once!Init
  BY DEF Init, Once!Init
<1>2. WebhookInv /\ [Next]_vars => [Once!Next]_<<done, repeated, subs>>
  <2>. SUFFICES ASSUME WebhookInv, [Next]_vars
                PROVE  [Once!Next]_<<done, repeated, subs>>
    OBVIOUS
  <2>0. applied \in [Keys -> Nat] /\ reapplied \in [Keys -> Nat]
    BY DEF WebhookInv, TypeOK
  <2>1. ASSUME NEW d \in Deliveries, Process(d) PROVE Once!Next
    <3>1. Key(d) \in Keys /\ event[d] \in Events /\ subs' = Effect(event[d], subs)
      BY <2>1, ProcessOnce DEF Process
    <3>2. CASE /\ applied[Key(d)] = 0 /\ applied' = [applied EXCEPT ![Key(d)] = 1]
               /\ reapplied' = reapplied
      <4>1. done' = done \cup {Key(d)} /\ Key(d) \notin done /\ repeated' = repeated
        BY <2>0, <3>1, <3>2
      <4>. QED  BY <3>1, <4>1 DEF Once!Next, Once!Apply, Key
    <3>3. CASE /\ reapplied' = [reapplied EXCEPT ![Key(d)] = reapplied[Key(d)] + 1]
               /\ applied' = applied
      <4>1. repeated' = repeated \cup {Key(d)} /\ done' = done
        BY <2>0, <3>1, <3>3
      <4>. QED  BY <3>1, <4>1 DEF Once!Next, Once!ApplyUnguarded, Key
    <3>. QED  BY <2>1, <3>2, <3>3, ProcessOnce
  <2>2. CASE \A d \in Deliveries : ~Process(d)
    BY <2>2, QuietSteps
  <2>. QED  BY <2>1, <2>2
<1>. QED  BY <1>1, <1>2, WebhookHolds, PTL DEF Spec, AppliesOnce, Once!Spec, Once!vars

-----------------------------------------------------------------------------
(* The answers of get_user_pro_status.  A copy of an ended status (one that a *)
(* database error did not excuse) is the older the less it has to live; one   *)
(* that a reader carries is as old as the clock let it become on the way.     *)
Wrong(v) == v # pro /\ (DatabaseMayFail => v)
Within(e, n) == e.left > 0 /\ Wrong(e.value) => age + e.left <= n
Late(c) == IF c \in ticked THEN 1 ELSE 0

LagInv ==
  /\ \A c \in Clients :
       /\ reader[c] \in {"putting", "storing"} /\ Wrong(seen[c]) => age <= Late(c)
       /\ reader[c] = "populating" /\ Wrong(seen[c]) => age <= Ttl + Late(c)
  /\ Within(redis, Ttl + 1)
  /\ \A p \in Processes : Within(fallback[p], Ttl + 1) /\ Within(l1[p], Ttl + L1Ttl + 1)

(* What the assumption says of the constants.                                 *)
LEMMA StatusConstants ==
  ASSUME NEW of \in Deployments
  PROVE  /\ of \in [Clients -> Processes]
         /\ Ttl \in Nat \ {0} /\ L1Ttl \in Nat \ {0}
         /\ MaxChanges \in Nat /\ DatabaseMayFail \in BOOLEAN
BY SubscriptionsAssumption DEF Status!ProStatusAssumption, Status!CacheAssumption


(* A call that only carries its value on.                                     *)
LEMMA ReadStep ==
  ASSUME NEW of \in Deployments, Status(of)!TypeOK, LagInv, NEW c \in Clients,
         \/ Status(of)!MissL1(c) \/ Status(of)!Ask(c) \/ Status(of)!Query(c)
  PROVE  Status(of)!TypeOK' /\ LagInv'
<1>. USE StatusConstants DEF Status!TypeOK, Status!CacheTypeOK, Status!subVars, Status!cacheVars,
       Status!Steps
<1>1. CASE Status(of)!MissL1(c)
  <2>1. Status(of)!TypeOK'
    BY <1>1 DEF Status!MissL1, Status!Step, Status!Go
  <2>2. LagInv'
    BY <1>1 DEF Status!MissL1, Status!Step, Status!Go, LagInv, Wrong, Late, Within
  <2>. QED  BY <2>1, <2>2
<1>2. CASE Status(of)!Ask(c)
  <2>. USE DEF Status!Ask, Status!Step, Status!Go, Status!Carry
  <2>0. /\ Status(of)!SecondTier(c) \in Status(of)!Entry(Ttl)
        /\ Within(Status(of)!SecondTier(c), Ttl + 1)
    BY DEF LagInv, Status!SecondTier, Status!FallbackOf
  <2>1. Status(of)!TypeOK'
    BY <1>2, <2>0 DEF Status!Entry
  <2>2. LagInv'
    <3>1. /\ reader'[c] = "populating" /\ seen'[c] = Status(of)!SecondTier(c).value
          /\ Status(of)!SecondTier(c).left > 0
          \/ reader'[c] = "querying"
      BY <1>2 DEF Status!Live
    <3>2. reader'[c] = "populating" /\ Wrong(seen'[c]) => age <= Ttl
      BY <2>0, <3>1 DEF Within, Status!Entry
    <3>3. \A b \in Clients \ {c} : reader'[b] = reader[b] /\ seen'[b] = seen[b]
      BY <1>2
    <3>4. UNCHANGED <<age, pro, ticked, redis, l1, fallback>>
      BY <1>2
    <3>5. reader'[c] \notin {"putting", "storing"}
      BY <3>1
    <3>. QED  BY <3>2, <3>3, <3>4, <3>5 DEF LagInv, Within, Wrong, Late
  <2>. QED  BY <2>1, <2>2
<1>3. CASE Status(of)!Query(c)
  <2>. USE DEF Status!Query, Status!Step, Status!Go, Status!Carry
  <2>1. Status(of)!TypeOK'
    BY <1>3
  <2>2. ~Wrong(seen'[c])
    BY <1>3 DEF Wrong
  <2>3. /\ \A b \in Clients \ {c} : reader'[b] = reader[b] /\ seen'[b] = seen[b]
        /\ UNCHANGED <<age, pro, ticked, redis, l1, fallback>>
    BY <1>3
  <2>4. LagInv'
    BY <2>2, <2>3 DEF LagInv, Within, Wrong, Late
  <2>. QED  BY <2>1, <2>4
<1>. QED  BY <1>1, <1>2, <1>3



(* A call that stores the value it carries, in its process's L1 or in the     *)
(* second tier; where it finishes it carries nothing on.                      *)
LEMMA StoreStep ==
  ASSUME NEW of \in Deployments, Status(of)!TypeOK, LagInv, NEW c \in Clients,
         \/ Status(of)!PopulateL1(c) \/ Status(of)!Put(c) \/ Status(of)!Store(c)
  PROVE  Status(of)!TypeOK' /\ LagInv'
<1>0. /\ of[c] \in Processes /\ Ttl \in Nat \ {0} /\ L1Ttl \in Nat \ {0} /\ age \in Nat
      /\ \A b \in Clients : Late(b) \in {0, 1}
  BY StatusConstants DEF Late, Status!TypeOK
<1>1. UNCHANGED <<age, pro>> /\ \A b \in Clients \ {c} :
        reader'[b] = reader[b] /\ seen'[b] = seen[b] /\ Late(b)' = Late(b)
  BY DEF Status!PopulateL1, Status!Put, Status!Store, Late, Status!TypeOK, Status!CacheTypeOK,
         Status!subVars, Status!Step, Status!Go, Status!Finish, Status!Carry
<1>. USE DEF Status!Step, Status!Go, Status!Finish, Status!Carry, Status!SetL1
<1>2. CASE Status(of)!PopulateL1(c)
  <2>. USE DEF Status!PopulateL1, Status!Populate
  <2>1. Status(of)!TypeOK'
    BY <1>0, <1>2 DEF Status!TypeOK, Status!CacheTypeOK, Status!Steps, Status!Entry, Status!subVars
  <2>2. Within([value |-> seen[c], left |-> L1Ttl], Ttl + L1Ttl + 1)
    <3>1. Wrong(seen[c]) => age <= Ttl + Late(c)
      BY <1>2 DEF LagInv
    <3>. QED  BY <1>0, <3>1 DEF Within
  <2>3. /\ \A p \in Processes : l1'[p] \in {l1[p], [value |-> seen[c], left |-> L1Ttl]}
        /\ UNCHANGED <<redis, fallback>> /\ reader'[c] = "idle"
    BY <1>2 DEF Status!TypeOK, Status!CacheTypeOK
  <2>4. LagInv'
    BY <1>1, <2>2, <2>3 DEF LagInv, Within, Wrong
  <2>. QED  BY <2>1, <2>4
<1>3. CASE Status(of)!Put(c)
  <2>. DEFINE kept == [value |-> seen[c], left |-> Status(of)!Shorter(Ttl, L1Ttl)]
  <2>. USE DEF Status!Put, Status!PutL1
  <2>0. Status(of)!Shorter(Ttl, L1Ttl) \in 0..L1Ttl
    BY <1>0 DEF Status!Shorter
  <2>1. Status(of)!TypeOK'
    BY <1>0, <1>3, <2>0
    DEF Status!TypeOK, Status!CacheTypeOK, Status!Steps, Status!Entry, Status!subVars
  <2>2. Within(kept, Ttl + L1Ttl + 1)
    <3>1. Wrong(seen[c]) => age <= Late(c)
      BY <1>3 DEF LagInv
    <3>. QED  BY <1>0, <2>0, <3>1 DEF Within
  <2>3. /\ \A p \in Processes : l1'[p] \in {l1[p], kept}
        /\ UNCHANGED <<redis, fallback, seen, ticked>>
        /\ reader[c] = "putting" /\ reader'[c] = "storing"
    BY <1>3 DEF Status!TypeOK, Status!CacheTypeOK
  <2>4. LagInv'
    <3>. HIDE DEF kept
    <3>. QED  BY <1>1, <2>2, <2>3 DEF LagInv, Within, Wrong, Late
  <2>. QED  BY <2>1, <2>4
<1>4. CASE Status(of)!Store(c)
  <2>. DEFINE kept == [value |-> seen[c], left |-> Ttl]
  <2>. USE DEF Status!Store, Status!PutSecond
  <2>1. Status(of)!TypeOK'
    <3>1. kept \in Status(of)!Entry(Ttl)
      BY <1>0 DEF Status!Entry, Status!TypeOK
    <3>2. redis' \in {redis, kept}
      BY <1>4
    <3>3. fallback' \in {fallback, [fallback EXCEPT ![of[c]] = kept]}
      BY <1>4
    <3>. QED
      BY <1>0, <1>4, <3>1, <3>2, <3>3
      DEF Status!TypeOK, Status!CacheTypeOK, Status!Steps, Status!subVars
  <2>2. Within(kept, Ttl + 1)
    <3>1. Wrong(seen[c]) => age <= Late(c)
      BY <1>4 DEF LagInv
    <3>. QED  BY <1>0, <3>1 DEF Within
  <2>3. /\ UNCHANGED l1 /\ reader'[c] = "idle" /\ redis' \in {redis, kept}
        /\ \A p \in Processes : fallback'[p] \in {fallback[p], kept}
    BY <1>4 DEF Status!TypeOK, Status!CacheTypeOK
  <2>4. LagInv'
    <3>. HIDE DEF kept
    <3>. QED  BY <1>1, <2>2, <2>3 DEF LagInv, Within, Wrong
  <2>. QED  BY <2>1, <2>4
<1>. QED  BY <1>2, <1>3, <1>4

(* A payment or a webhook changes the table, which starts the age of every    *)
(* copy anew; the payment then deletes what its process can reach.            *)
LEMMA ChangeStep ==
  ASSUME NEW of \in Deployments, Status(of)!TypeOK, LagInv, NEW v \in BOOLEAN,
         Status(of)!Change(v), UNCHANGED <<redis, l1, fallback, ticked, seen>>,
         \A c \in Clients : reader'[c] \in {reader[c], "upgraded"}
  PROVE  /\ LagInv' /\ age' \in 0..Status(of)!Lag + 1 /\ pro' \in BOOLEAN
         /\ changes' \in 0..MaxChanges
<1>. USE StatusConstants
     DEF Status!TypeOK, Status!CacheTypeOK, Status!Steps, Status!Entry, Status!Change
<1>1. age' \in 0..Status(of)!Lag + 1 /\ pro' \in BOOLEAN /\ changes' \in 0..MaxChanges
  BY DEF Status!Lag
<1>2. CASE v = pro
  BY <1>2 DEF LagInv, Within, Wrong, Late
<1>3. CASE v # pro
  <2>1. age' = 0
    BY <1>3
  <2>2. ASSUME NEW c \in Clients
        PROVE  Late(c)' \in {0, 1} /\ age' <= Late(c)' /\ age' <= Ttl + Late(c)'
    BY <2>1 DEF Late
  <2>3. /\ age' + redis'.left <= Ttl + 1
        /\ \A p \in Processes : /\ age' + fallback'[p].left <= Ttl + 1
                               /\ age' + l1'[p].left <= Ttl + L1Ttl + 1
    BY <2>1
  <2>4. LagInv'
    <3>. HIDE DEF Status!TypeOK, Status!CacheTypeOK, Status!Steps, Status!Entry, Status!Change
    <3>. QED  BY <2>2, <2>3 DEF LagInv, Within
  <2>. QED  BY <1>1, <2>4
<1>. QED  BY <1>1, <1>2, <1>3

(* What a deletion leaves.                                                    *)
LEMMA EmptyEntry ==
  ASSUME NEW of \in Deployments, NEW limit \in Nat
  PROVE  /\ Status(of)!NoEntry \in Status(of)!Entry(limit) /\ Status(of)!NoEntry.left = 0
<1>1. (CHOOSE v \in BOOLEAN : TRUE) \in BOOLEAN
  OBVIOUS
<1>. QED  BY <1>1 DEF Status!NoEntry, Status!Entry

(* The steps of verify_subscription_payment.                                  *)
LEMMA PaymentStep ==
  ASSUME NEW of \in Deployments, Status(of)!TypeOK, LagInv, NEW c \in Clients,
         \/ Status(of)!Pay(c) \/ Status(of)!Invalidate(c) \/ Status(of)!FinishPayment(c)
  PROVE  Status(of)!TypeOK' /\ LagInv'
<1>. USE StatusConstants DEF Status!TypeOK, Status!CacheTypeOK, Status!Steps, Status!subVars,
       Status!cacheVars, Status!Step, Status!Go, Status!Finish, Status!Carry
<1>1. CASE Status(of)!Pay(c)
  BY <1>1, ChangeStep DEF Status!Pay
<1>2. CASE Status(of)!Invalidate(c)
  <2>1. Status(of)!TypeOK'
    BY <1>2, EmptyEntry DEF Status!Invalidate, Status!DeleteL1
  <2>2. \A p \in Processes : l1'[p] \in {l1[p], Status(of)!NoEntry}
    BY <1>2 DEF Status!Invalidate, Status!DeleteL1
  <2>3. /\ UNCHANGED <<redis, fallback, ticked, seen, age, pro>> /\ reader'[c] = "deleting"
        /\ \A b \in Clients \ {c} : reader'[b] = reader[b]
    BY <1>2 DEF Status!Invalidate
  <2>4. LagInv'
    BY <2>2, <2>3, EmptyEntry DEF LagInv, Within, Wrong, Late
  <2>. QED  BY <2>1, <2>4
<1>3. CASE Status(of)!FinishPayment(c)
  <2>1. Status(of)!TypeOK'
    BY <1>3, EmptyEntry DEF Status!FinishPayment, Status!DeleteSecond
  <2>2. /\ redis' \in {redis, Status(of)!NoEntry}
        /\ \A p \in Processes : fallback'[p] \in {fallback[p], Status(of)!NoEntry}
    BY <1>3 DEF Status!FinishPayment, Status!DeleteSecond
  <2>3. /\ UNCHANGED <<l1, age, pro>> /\ reader'[c] = "idle"
        /\ \A b \in Clients \ {c} : 
             reader'[b] = reader[b] /\ seen'[b] = seen[b] /\ Late(b)' = Late(b)
    BY <1>3 DEF Status!FinishPayment, Late
  <2>4. LagInv'
    BY <2>2, <2>3, EmptyEntry DEF LagInv, Within, Wrong
  <2>. QED  BY <2>1, <2>4
<1>. QED  BY <1>1, <1>2, <1>3

(* The webhook changes the table and leaves every copy.                       *)
LEMMA WebhookChange ==
  ASSUME NEW of \in Deployments, Status(of)!TypeOK, LagInv, NEW v \in BOOLEAN,
         Status(of)!Webhook(v)
  PROVE  Status(of)!TypeOK' /\ LagInv'
BY ChangeStep DEF Status!Webhook, Status!TypeOK, Status!CacheTypeOK, Status!cacheVars, Status!Steps

(* An entry that a tick leaves has a tick less to live.                       *)
LEMMA Ageing ==
  ASSUME NEW of \in Deployments, NEW limit \in Nat, NEW e \in Status(of)!Entry(limit)
  PROVE  /\ Status(of)!Older(e) \in Status(of)!Entry(limit)
         /\ \/ Status(of)!Older(e).left = 0
            \/ Status(of)!Older(e).value = e.value /\ Status(of)!Older(e).left = e.left - 1
<1>1. CASE e.left > 1
  BY <1>1 DEF Status!Older, Status!Entry
<1>2. CASE ~(e.left > 1)
  BY <1>2, EmptyEntry DEF Status!Older
<1>. QED  BY <1>1, <1>2

(* A tick: no entry outlives its bound, and no call is ticked twice.          *)
LEMMA ClockStep ==
  ASSUME NEW of \in Deployments, Status(of)!TypeOK, LagInv, Status(of)!Clock
  PROVE  Status(of)!TypeOK' /\ LagInv'
<1>. USE StatusConstants DEF Status!TypeOK, Status!CacheTypeOK, Status!Clock, Status!Tick
<1>1. /\ redis' = Status(of)!Older(redis)
      /\ \A p \in Processes : /\ l1'[p] = Status(of)!Older(l1[p])
                             /\ fallback'[p] = Status(of)!Older(fallback[p])
      /\ age' \in {age, age + 1} /\ UNCHANGED <<reader, seen, pro>>
  OBVIOUS
<1>2. Status(of)!TypeOK'
  BY Ageing DEF Status!Busy, Status!Lag
<1>3. ASSUME NEW limit \in Nat, NEW e \in Status(of)!Entry(limit), NEW n \in Nat, Within(e, n)
      PROVE  LET o == Status(of)!Older(e) IN o.left > 0 /\ Wrong(o.value) => age' + o.left <= n
  <2>1. age \in Nat /\ e.left \in Nat
    BY DEF Status!Entry
  <2>. QED  BY <1>1, <1>3, <2>1, Ageing DEF Within, Wrong
<1>4. ASSUME NEW c \in Clients, reader[c] # "idle"
      PROVE  Late(c) = 0 /\ Late(c)' = 1
  BY <1>4 DEF Late, Status!Busy
<1>5. LagInv'
  <2>1. \A c \in Clients :
          /\ reader'[c] \in {"putting", "storing"} /\ Wrong(seen'[c]) => age' <= Late(c)'
          /\ reader'[c] = "populating" /\ Wrong(seen'[c]) => age' <= Ttl + Late(c)'
    BY <1>1, <1>4 DEF LagInv
  <2>2. Within(redis, Ttl + 1)'
    BY <1>1, <1>3 DEF LagInv, Within, Wrong
  <2>3. \A p \in Processes : Within(fallback[p], Ttl + 1)' /\ Within(l1[p], Ttl + L1Ttl + 1)'
    BY <1>1, <1>3 DEF LagInv, Within, Wrong
  <2>. QED  BY <1>1, <2>1, <2>2, <2>3 DEF LagInv, Wrong
<1>. QED  BY <1>2, <1>5

(* Losing Redis hides its entry, and what comes back is as it was.            *)
LEMMA RedisStep ==
  ASSUME NEW of \in Deployments, Status(of)!TypeOK, LagInv, Status(of)!RedisChanges
  PROVE  Status(of)!TypeOK' /\ LagInv'
BY DEF Status!RedisChanges, Status!RedisFails, Status!RedisReturns, Status!TypeOK, Status!CacheTypeOK,
       Status!subVars, LagInv, Within, Wrong, Late


(* The invariant leaves no live wrong copy once the age exceeds Lag.          *)
LEMMA CatchUp ==
  ASSUME NEW of \in Deployments, Status(of)!TypeOK, LagInv
  PROVE  Status(of)!AnswersCatchUp
<1>1. Ttl \in Nat /\ L1Ttl \in Nat /\ age \in Nat /\ pro \in BOOLEAN
  BY StatusConstants DEF Status!TypeOK
<1>2. ASSUME NEW n \in Nat, n <= Ttl + L1Ttl + 1, age > Status(of)!Lag,
             NEW limit \in Nat, NEW e \in Status(of)!Entry(limit), Within(e, n), e.left > 0
      PROVE  ~Wrong(e.value)
  BY <1>1, <1>2 DEF Within, Status!Lag, Status!Entry
<1>. QED
  BY <1>1, <1>2, StatusConstants
  DEF Status!AnswersCatchUp, Status!AnswerIn, Status!Second, Status!Live, Status!TypeOK,
      Status!CacheTypeOK, LagInv, Wrong

(* Every step of the readers keeps the types and the bounds.                  *)
LEMMA StatusNext ==
  ASSUME NEW of \in Deployments, Status(of)!TypeOK, LagInv, Status(of)!Next
  PROVE  Status(of)!TypeOK' /\ LagInv'
BY ReadStep, StoreStep, PaymentStep, WebhookChange, ClockStep, RedisStep DEF Status!Next

(* Nothing is stored or carried at the start.                                 *)
LEMMA StatusInit ==
  ASSUME NEW of \in Deployments, Status(of)!Init
  PROVE  Status(of)!TypeOK /\ LagInv
<1>1. Status(of)!TypeOK
  <2>1. \A limit \in {Ttl, L1Ttl} : Status(of)!NoEntry \in Status(of)!Entry(limit)
    BY StatusConstants, EmptyEntry
  <2>2. age \in 0..Status(of)!Lag + 1 /\ changes \in 0..MaxChanges
    BY StatusConstants DEF Status!Init, Status!Lag
  <2>. QED
    BY <2>1, <2>2
    DEF Status!Init, Status!CacheInit, Status!TypeOK, Status!CacheTypeOK, Status!Steps
<1>2. LagInv
  BY StatusConstants, EmptyEntry DEF Status!Init, Status!CacheInit, LagInv, Within
<1>. QED  BY <1>1, <1>2

StatusInv ==
  /\ deployed \subseteq Deployments
  /\ \A of \in deployed : Status(of)!TypeOK /\ LagInv

allVars == <<deployed, vars, statusVars>>

LEMMA StatusStepInv == StatusInv /\ [SubscriptionsNext]_allVars => StatusInv'
<1>. SUFFICES ASSUME StatusInv, [SubscriptionsNext]_allVars PROVE StatusInv'
  OBVIOUS
<1>1. deployed' = deployed
  BY DEF SubscriptionsNext, WebhookStep, StatusStep, allVars
<1>2. CASE StatusStep
  <2>1. PICK from \in deployed : Status(from)!Next
    BY <1>2 DEF StatusStep
  <2>2. Status(from)!TypeOK' /\ LagInv'
    BY <2>1, StatusNext DEF StatusInv
  <2>3. \A of \in deployed : Status(of)!TypeOK'
    BY <2>2 DEF Status!TypeOK, Status!CacheTypeOK, Status!Entry, Status!Steps, Status!Lag
  <2>. QED  BY <1>1, <2>2, <2>3 DEF StatusInv
<1>3. CASE UNCHANGED statusVars
  BY <1>1, <1>3
  DEF StatusInv, statusVars, LagInv, Within, Wrong, Late, Status!TypeOK, Status!CacheTypeOK
<1>. QED  BY <1>2, <1>3 DEF SubscriptionsNext, WebhookStep, allVars

LEMMA Starts == SubscriptionsInit => StatusInv
BY StatusInit DEF SubscriptionsInit, StatusInv

LEMMA StatusHolds == SubscriptionsSpec => []StatusInv
BY Starts, StatusStepInv, PTL DEF SubscriptionsSpec, allVars

(* Every behaviour of the composition is one of the webhook: the readers      *)
(* leave its variables alone.                                                 *)
LEMMA WebhookPart == SubscriptionsSpec => Spec
<1>1. SubscriptionsInit => Init
  BY DEF SubscriptionsInit
<1>2. [SubscriptionsNext]_allVars => [Next]_vars
  BY DEF SubscriptionsNext, WebhookStep, StatusStep, allVars
<1>. QED  BY <1>1, <1>2, PTL DEF SubscriptionsSpec, Spec, allVars

(* However reads, payments, webhooks, ticks and outages of Redis interleave,  *)
(* in any deployment of any number of processes and with any times to live,   *)
(* no answer is a status that ended longer ago than both (get_user_pro_status,*)
(* RedisCache).                                                               *)
THEOREM StatusCatchesUp == SubscriptionsSpec => []AnswersCatchUp
<1>1. StatusInv => AnswersCatchUp
  BY CatchUp DEF StatusInv, AnswersCatchUp
<1>. QED  BY <1>1, StatusHolds, PTL

(* The same of the webhook where the readers run beside it.                   *)
COROLLARY WebhookBesideReaders ==
  SubscriptionsSpec => []ClaimedAppliedOnce /\ AppliesOnce
BY WebhookPart, ClaimsApplyOnce, Implements
==============================================================================
