------------------------------ MODULE ProStatus ------------------------------
(* Whether a user is Pro, as get_user_pro_status answers it from the cache,  *)
(* while payments (verify_subscription_payment, which deletes the cached     *)
(* answer) and webhooks (which do not) change the subscription.              *)
EXTENDS TwoTierCache

CONSTANTS
  MaxChanges,       \* bound: how often the subscription changes
  DatabaseMayFail   \* get_subscription may fail, which reads as "not Pro"

ProStatusAssumption ==
  /\ CacheAssumption
  /\ Values = BOOLEAN
  /\ MaxChanges \in Nat
  /\ DatabaseMayFail \in BOOLEAN

VARIABLES
  pc,         \* what each client does
  seen,       \* the value it carries from one await to the next
  pro,        \* user_subscriptions.is_pro
  age,        \* ticks since pro changed, as far as Lag tells them apart
  paid,       \* a payment has completed and nothing revoked it
  changes     \* number of changes

vars == <<cacheVars, pc, seen, pro, age, paid, changes>>
subVars == <<pro, age, paid, changes>>

Steps == {"idle", "asking", "populating", "querying", "putting", "storing",
          "upgraded", "deleting"}
Busy == {c \in Clients : pc[c] # "idle"}

(* How long a copy may lag behind the table: a reader carries the value to   *)
(* the cache past one tick, it lives there for Ttl ticks, before the last of *)
(* which another reader takes it to its L1, where it lives for L1Ttl.        *)
Lag == Ttl + L1Ttl

TypeOK ==
  /\ CacheTypeOK
  /\ pc \in [Clients -> Steps]
  /\ seen \in [Clients -> BOOLEAN]
  /\ pro \in BOOLEAN /\ paid \in BOOLEAN
  /\ age \in 0..Lag + 1
  /\ changes \in 0..MaxChanges

Init ==
  /\ CacheInit
  /\ pc = [c \in Clients |-> "idle"]
  /\ seen = [c \in Clients |-> FALSE]
  /\ pro \in BOOLEAN /\ paid = FALSE
  /\ age = Lag + 1 /\ changes = 0

Go(c, s) == pc' = [pc EXCEPT ![c] = s]
Step(c, s, t) == pc[c] = s /\ Go(c, t)
Carry(c, v) == seen' = [seen EXCEPT ![c] = v]

(* The last step of a call; nothing is carried on from it. *)
Finish(c) == Go(c, "idle") /\ ticked' = ticked \ {c} /\ Carry(c, FALSE)

(* cache.get; a hit in L1 is answered at once and changes nothing. *)
MissL1(c) ==
  /\ ~Live(L1Of(c))
  /\ Step(c, "idle", "asking")
  /\ UNCHANGED <<cacheVars, seen, subVars>>

Ask(c) ==
  /\ Step(c, "asking", IF Live(SecondTier(c)) THEN "populating" ELSE "querying")
  /\ Carry(c, IF Live(SecondTier(c)) THEN SecondTier(c).value ELSE seen[c])
  /\ UNCHANGED <<cacheVars, subVars>>

PopulateL1(c) ==
  /\ pc[c] = "populating"
  /\ Populate(c, seen[c])
  /\ Finish(c)
  /\ UNCHANGED <<redis, fallback, up, subVars>>

(* subscription_repo.get_subscription *)
Query(c) ==
  /\ Step(c, "querying", "putting")
  /\ \E v \in {pro} \cup (IF DatabaseMayFail THEN {FALSE} ELSE {}) : Carry(c, v)
  /\ UNCHANGED <<cacheVars, subVars>>

(* cache.put *)
Put(c) ==
  /\ Step(c, "putting", "storing")
  /\ PutL1(c, seen[c])
  /\ UNCHANGED <<redis, fallback, up, ticked, seen, subVars>>

Store(c) ==
  /\ pc[c] = "storing"
  /\ PutSecond(c, seen[c])
  /\ Finish(c)
  /\ UNCHANGED <<l1, up, subVars>>

Change(v) ==
  /\ pro' = v
  /\ IF v = pro THEN UNCHANGED <<age, changes>>
     ELSE changes < MaxChanges /\ changes' = changes + 1 /\ age' = 0

(* verify_subscription_payment: the row, then cache.delete. *)
Pay(c) ==
  /\ Step(c, "idle", "upgraded")
  /\ Change(TRUE)
  /\ UNCHANGED <<cacheVars, seen, paid>>

Invalidate(c) ==
  /\ Step(c, "upgraded", "deleting")
  /\ DeleteL1(c)
  /\ UNCHANGED <<redis, fallback, up, ticked, seen, subVars>>

FinishPayment(c) ==
  /\ pc[c] = "deleting"
  /\ DeleteSecond(c)
  /\ Finish(c)
  /\ paid' = pro
  /\ UNCHANGED <<l1, up, pro, age, changes>>

(* A webhook activates or ends the subscription; the cache is left alone. *)
Webhook(v) ==
  /\ v # pro
  /\ Change(v)
  /\ paid' = (paid /\ v)
  /\ UNCHANGED <<cacheVars, pc, seen>>

Clock ==
  /\ Tick(Busy)
  /\ age' = IF age <= Lag THEN age + 1 ELSE age
  /\ UNCHANGED <<pc, seen, pro, paid, changes>>

RedisChanges == (RedisFails \/ RedisReturns) /\ UNCHANGED <<pc, seen, subVars>>

Next ==
  \/ \E c \in Clients :
       \/ MissL1(c) \/ Ask(c) \/ PopulateL1(c) \/ Query(c) \/ Put(c) \/ Store(c)
       \/ Pay(c) \/ Invalidate(c) \/ FinishPayment(c)
  \/ \E v \in BOOLEAN : Webhook(v)
  \/ Clock \/ RedisChanges

Spec == Init /\ [][Next]_vars

-----------------------------------------------------------------------------
(* The answer a client of process p would get from its cache now, or from the *)
(* table when nothing is cached.                                              *)
Second(p) == IF up /\ Live(redis) THEN redis ELSE fallback[p]
AnswerIn(p) ==
  IF Live(l1[p]) THEN l1[p].value
  ELSE IF Live(Second(p)) THEN Second(p).value ELSE pro

(* However reads, payments, webhooks and outages of Redis interleave, no      *)
(* process answers with a status that ended more than Lag ago; a database     *)
(* error can only make a Pro user look like a free one, never the reverse.    *)
AnswersCatchUp ==
  age > Lag => \A p \in Processes :
                 AnswerIn(p) = pro \/ (DatabaseMayFail /\ AnswerIn(p) = FALSE)

(* "Invalidate Pro status cache so the upgrade is visible immediately"        *)
(* (FRONT-08, domain/billing/service.py): once a payment has been verified    *)
(* every process answers Pro.                                                 *)
UpgradeIsVisible == paid => \A p \in Processes : AnswerIn(p)
==============================================================================
