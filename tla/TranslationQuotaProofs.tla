------------------------ MODULE TranslationQuotaProofs ------------------------
(* Theorems about TranslationQuota, for any number of concurrent requests,    *)
(* every tier and limit, any platform cap and any number of purchases.        *)
EXTENDS TranslationQuota, FiniteSetTheorems, TLAPS

USE DEF Absent

(* A policy is a policy, and no mode lifts a guest's or a free user's daily   *)
(* limit above the configured one or takes their last translation away.       *)
LEMMA PolicyBounds ==
  ASSUME NEW m \in Modes
  PROVE  /\ Policy(Tier, Base, m) \in Policies
         /\ Tier \in {"guest", "free"} =>
              Policy(Tier, Base, m).daily_limit \in 1..Base.daily_limit
<1>0. /\ Base.daily_limit \in Int /\ Base.char_limit \in Int /\ Base.cooldown \in Nat
      /\ Base = [daily_limit |-> Base.daily_limit, char_limit |-> Base.char_limit,
                 cooldown |-> Base.cooldown]
  BY QuotaAssumption DEF BaseLimits
<1>1. CASE Tier = "admin"
  BY <1>1 DEF Policy, AdminPolicy, Policies, BaseLimits, Unlimited
<1>2. CASE Tier = "pro"
  <2>1. Policy(Tier, Base, m) = ProPolicy(Base, m)
    BY <1>2 DEF Policy
  <2>2. ProPolicy(Base, m) \in Policies
    BY <1>0 DEF ProPolicy, ProCharCap, ProCooldown, AtMost, Policies, BaseLimits
  <2>. QED  BY <1>2, <2>1, <2>2
<1>3. CASE Tier \in {"guest", "free"}
  <2>0. Base.daily_limit \in Nat /\ Base.daily_limit >= 1
    BY <1>0, <1>3, QuotaAssumption
  <2>1. Policy(Tier, Base, m) = FreePolicy(Base, m)
    BY <1>3 DEF Policy
  <2>2. CASE m = "NORMAL"
    BY <1>0, <2>0, <2>1, <2>2, QuotaAssumption DEF FreePolicy, Policies
  <2>3. CASE m # "NORMAL"
    <3>. DEFINE s == Scaled(Base.daily_limit, m)
                t == Scaled(Base.char_limit, m)
    <3>1. s \in 0..Base.daily_limit
      BY <2>0, <2>3 DEF Scaled, Factor, Modes
    <3>2. t \in Int
      BY <1>0, <2>3 DEF Scaled, Factor, Modes
    <3>. HIDE DEF s, t
    <3>3. FreePolicy(Base, m) =
            [daily_limit |-> AtLeast(1, s),
             char_limit |-> IF m = "EMERGENCY" THEN AtMost(300, AtLeast(100, t))
                            ELSE AtLeast(100, t),
             cooldown |-> FreeCooldown[m]]
      BY <2>3 DEF FreePolicy, EmergencyCharCap, s, t
    <3>4. AtLeast(1, s) \in 1..Base.daily_limit
      BY <2>0, <3>1 DEF AtLeast
    <3>5. AtLeast(100, t) \in Int /\ AtMost(300, AtLeast(100, t)) \in Int
      BY <3>2 DEF AtLeast, AtMost
    <3>6. FreeCooldown[m] \in Nat
      BY <2>3 DEF FreeCooldown, Modes
    <3>. QED  BY <2>1, <3>3, <3>4, <3>5, <3>6 DEF Policies, BaseLimits
  <2>. QED  BY <2>2, <2>3
<1>. QED  BY <1>1, <1>2, <1>3, QuotaAssumption DEF Tiers

LEMMA CurrentPolicyBounds ==
  /\ CurrentPolicy \in Policies
  /\ Tier \in {"guest", "free"} => CurrentPolicy.daily_limit \in 1..Base.daily_limit
<1>1. CurrentMode \in Modes
  BY DEF CurrentMode, ProtectionMode, Modes
<1>. QED  BY <1>1, PolicyBounds DEF CurrentPolicy

LEMMA InitType == Init => TypeOK
<1>. SUFFICES ASSUME Init PROVE TypeOK
  OBVIOUS
<1>1. /\ pc \in [Requests -> States] /\ counted \in [Requests -> Nat]
      /\ flagged \in [Requests -> BOOLEAN]
  BY DEF Init, States
<1>2. policy \in [Requests -> Policies]
  <2>1. Policy(Tier, Base, "NORMAL") \in Policies
    BY PolicyBounds DEF Modes
  <2>. QED  BY <2>1 DEF Init
<1>3. /\ usage \in Nat \cup {Absent}
      /\ platform \in Nat \cup {Absent} /\ platformL1 \in Nat \cup {Absent}
  BY QuotaAssumption DEF Init
<1>4. /\ usageInL1 \in BOOLEAN /\ cooling \in BOOLEAN /\ unsaved \subseteq Requests
      /\ own \subseteq Requests /\ again \subseteq Requests /\ charged \subseteq Requests \X BOOLEAN
  BY DEF Init
<1>5. credits \in Nat /\ history \in Nat /\ repeated \in 0..Redeliveries
  BY QuotaAssumption DEF Init
<1>6. bought \in 0..Purchases
  <2>1. Purchases \in Nat
    BY QuotaAssumption
  <2>2. bought = 0
    BY DEF Init
  <2>. QED  BY <2>1, <2>2
<1>7. cold \in BOOLEAN /\ dbErrors \in BOOLEAN
  BY DEF Init
<1>. QED  BY <1>1, <1>2, <1>3, <1>4, <1>5, <1>6, <1>7 DEF TypeOK

(* Every step keeps the types. *)
LEMMA StepType == TypeOK /\ [Next]_vars => TypeOK'
<1>. SUFFICES ASSUME TypeOK, [Next]_vars PROVE TypeOK'
  OBVIOUS
<1>. USE DEF TypeOK, Step, Go, States, requestVars, cacheVars, tableVars, pastVars
<1>1. ASSUME NEW r \in Requests, Enforce(r) PROVE TypeOK'
  <2>1. PlatformSeen \in Nat \cup {Absent}
    BY DEF PlatformSeen
  <2>. QED  BY <1>1, <2>1, CurrentPolicyBounds DEF Enforce
<1>2. ASSUME NEW r \in Requests, CheckCooldown(r) PROVE TypeOK'
  BY <1>2 DEF CheckCooldown
<1>3. ASSUME NEW r \in Requests, ReadCounter(r) PROVE TypeOK'
  BY <1>3 DEF ReadCounter
<1>4. ASSUME NEW r \in Requests, CountHistory(r) PROVE TypeOK'
  BY <1>4 DEF CountHistory
<1>5. ASSUME NEW r \in Requests, SeedCounter(r) PROVE TypeOK'
  BY <1>5 DEF SeedCounter
<1>6. ASSUME NEW r \in Requests, IncrementCounter(r) PROVE TypeOK'
  <2>1. Incr(usage) \in Nat
    BY DEF Incr
  <2>2. (Tier = "free" /\ OverLimit(r)) \in BOOLEAN
    OBVIOUS
  <2>. QED  BY <1>6, <2>1, <2>2 DEF IncrementCounter
<1>7. ASSUME NEW r \in Requests, CheckCredits(r) PROVE TypeOK'
  BY <1>7 DEF CheckCredits
<1>8. ASSUME NEW r \in Requests, Translate(r) PROVE TypeOK'
  BY <1>8 DEF Translate
<1>9. ASSUME NEW r \in Requests, RecordPlatform(r) PROVE TypeOK'
  <2>1. Incr(platform) \in Nat
    BY DEF Incr
  <2>. QED  BY <1>9, <2>1 DEF RecordPlatform
<1>10. ASSUME NEW r \in Requests, Deduct(r) PROVE TypeOK'
  <2>1. dbErrors' \in BOOLEAN
    <3>1. CASE UNCHANGED dbErrors
      BY <3>1
    <3>2. CASE dbErrors' = (dbErrors \/ credits > 0)
      BY <3>2
    <3>. QED  BY <1>10, <3>1, <3>2 DEF Deduct
  <2>2. credits' \in Nat /\ charged' \subseteq Requests \X BOOLEAN
    <3>1. Charge(r) \in Requests \X BOOLEAN
      <4>1. (r \in again) \in BOOLEAN
        OBVIOUS
      <4>. QED  BY <4>1 DEF Charge
    <3>. QED  BY <1>10, <3>1 DEF Deduct
  <2>. QED  BY <1>10, <2>1, <2>2 DEF Deduct
<1>11. ASSUME NEW r \in Requests, Serve(r) PROVE TypeOK'
  <2>1. (cooling \/ policy[r].cooldown > 0) \in BOOLEAN
    OBVIOUS
  <2>. QED  BY <1>11, <2>1 DEF Serve
<1>12. ASSUME NEW r \in Requests, SaveHistory(r) \/ SaveHistoryAndDie(r) PROVE TypeOK'
  BY <1>12, QuotaAssumption DEF SaveHistory, SaveHistoryAndDie
<1>17. ASSUME NEW r \in Requests, GoOn(r) PROVE TypeOK'
  <2>1. (cooling \/ policy[r].cooldown > 0) \in BOOLEAN
    OBVIOUS
  <2>. QED  BY <1>17, <2>1 DEF GoOn
<1>13. CASE BuyCredit
  BY <1>13, QuotaAssumption DEF BuyCredit
<1>14. CASE Expire
  BY <1>14 DEF Expire
<1>15. CASE Forget
  BY <1>15 DEF Forget
<1>16. CASE UNCHANGED vars
  BY <1>16 DEF vars
<1>. QED
  BY <1>1, <1>2, <1>3, <1>4, <1>5, <1>6, <1>7, <1>8, <1>9, <1>10, <1>11, <1>12,
     <1>13, <1>14, <1>15, <1>16, <1>17 DEF Next, RequestStep

(* Every reachable state of the admission and of its caches is well typed. *)
THEOREM TypeCorrect == Spec => []TypeOK
BY InitType, StepType, PTL DEF Spec

-----------------------------------------------------------------------------
(* Credits.  A request deducts once each time it comes by: the charge it is   *)
(* about to make is not made yet, since it is past the one it could make      *)
(* until its stream goes on.                                                  *)
CreditInv ==
  /\ CreditsConserved
  /\ \A r \in Requests : Charge(r) \in charged => pc[r] \in {"pausing", "served"}
  /\ \A r \in Requests : pc[r] = "deducting" => flagged[r] /\ r \notin own
  /\ \A c \in charged : pc[c[1]] \in InTranslation \cup {"served", "failed"}

LEMMA ChargedFinite ==
  ASSUME TypeOK
  PROVE  IsFiniteSet(charged) /\ Cardinality(charged) \in Nat
<1>1. IsFiniteSet(BOOLEAN)
  <2>1. BOOLEAN = {TRUE} \cup {FALSE}
    OBVIOUS
  <2>2. IsFiniteSet({TRUE})
    BY FS_Singleton
  <2>. QED  BY <2>1, <2>2, FS_AddElement
<1>2. IsFiniteSet(Requests \X BOOLEAN)
  BY <1>1, QuotaAssumption, FS_Product
<1>. QED  BY <1>2, FS_Subset, FS_CardinalityType DEF TypeOK

Charged == InTranslation \cup {"served", "failed"}

(* Steps that take no credit: a request that is not past its deduction may    *)
(* go on, and only one that is not admitted yet may change its flag.          *)
LEMMA CreditFrame ==
  ASSUME TypeOK, TypeOK', CreditInv, NEW r \in Requests, NEW s \in States,
         credits' = credits, bought' = bought, charged' = charged, again' = again,
         pc' = [pc EXCEPT ![r] = s],
         \A q \in Requests \ {r} : flagged'[q] = flagged[q] /\ (q \in own' <=> q \in own),
         s = "deducting" => flagged'[r] /\ r \notin own',
         \/ pc[r] \notin Charged
         \/ /\ flagged' = flagged /\ own' = own /\ s \in Charged
            /\ pc[r] \notin {"pausing", "served"} \/ s = "served"
  PROVE  CreditInv'
<1>1. \A c \in charged : c[1] \in Requests /\ (pc[r] \notin Charged => c[1] # r)
  BY DEF CreditInv, Charged, TypeOK
<1>2. \A c \in charged' : flagged'[c[1]] /\ c[1] \notin own' /\ (c[2] => c[1] \in again')
  BY <1>1 DEF CreditInv, CreditsConserved
<1>3. \A c \in charged' : pc'[c[1]] \in Charged
  BY <1>1 DEF CreditInv, Charged, TypeOK
<1>4. \A q \in Requests : Charge(q)' \in charged' => pc'[q] \in {"pausing", "served"}
  <2>. SUFFICES ASSUME NEW q \in Requests, Charge(q) \in charged PROVE pc'[q] \in {"pausing", "served"}
    BY DEF Charge
  <2>1. pc[q] \in {"pausing", "served"}
    BY DEF CreditInv
  <2>. QED  BY <2>1 DEF Charged, InTranslation, TypeOK
<1>5. \A q \in Requests : pc'[q] = "deducting" => flagged'[q] /\ q \notin own'
  BY DEF CreditInv, TypeOK
<1>6. credits' + Cardinality(charged') = bought'
  BY DEF CreditInv, CreditsConserved
<1>. QED  BY <1>2, <1>3, <1>4, <1>5, <1>6 DEF CreditInv, CreditsConserved, Charged

LEMMA CreditStep == TypeOK /\ CreditInv /\ [Next]_vars => CreditInv'
<1>. SUFFICES ASSUME TypeOK, CreditInv, [Next]_vars PROVE CreditInv'
  OBVIOUS
<1>0. TypeOK'
  BY StepType
<1>. USE DEF Step, Go, requestVars, cacheVars, tableVars, pastVars
<1>1. ASSUME NEW r \in Requests, Enforce(r) \/ CheckCooldown(r) PROVE CreditInv'
  BY <1>0, <1>1, CreditFrame DEF Enforce, CheckCooldown, States, Charged, InTranslation
<1>2. ASSUME NEW r \in Requests, ReadCounter(r) \/ CountHistory(r) \/ SeedCounter(r)
      PROVE  CreditInv'
  BY <1>0, <1>2, CreditFrame DEF ReadCounter, CountHistory, SeedCounter, States, Charged, InTranslation
<1>3. ASSUME NEW r \in Requests, IncrementCounter(r) PROVE CreditInv'
  <2>1. \A q \in Requests \ {r} : flagged'[q] = flagged[q]
    BY <1>0, <1>3 DEF IncrementCounter, TypeOK
  <2>. QED  BY <1>0, <1>3, <2>1, CreditFrame DEF IncrementCounter, States, Charged, InTranslation
<1>4. ASSUME NEW r \in Requests, CheckCredits(r) PROVE CreditInv'
  <2>1. \A q \in Requests \ {r} : q \in own' <=> q \in own
    BY <1>4 DEF CheckCredits
  <2>. QED  BY <1>0, <1>4, <2>1, CreditFrame DEF CheckCredits, States, Charged, InTranslation
<1>12. ASSUME NEW r \in Requests, Translate(r) PROVE CreditInv'
  BY <1>0, <1>12, CreditFrame DEF Translate, States, Charged, InTranslation
<1>5. ASSUME NEW r \in Requests, RecordPlatform(r) PROVE CreditInv'
  BY <1>0, <1>5, CreditFrame DEF RecordPlatform, States, Charged, InTranslation
<1>6. ASSUME NEW r \in Requests, Deduct(r) PROVE CreditInv'
  <2>1. CASE UNCHANGED <<credits, charged>>
    BY <1>0, <1>6, <2>1, CreditFrame DEF Deduct, States, Charged, InTranslation
  <2>2. CASE credits > 0 /\ credits' = credits - 1 /\ charged' = charged \cup {Charge(r)}
    <3>1. Charge(r) \notin charged /\ flagged[r] /\ r \notin own
      BY <1>6 DEF Deduct, CreditInv
    <3>2. /\ Cardinality(charged') = Cardinality(charged) + 1
          /\ Cardinality(charged) \in Nat
      BY <2>2, <3>1, ChargedFinite, FS_AddElement
    <3>3. credits' + Cardinality(charged') = bought'
      BY <1>6, <2>2, <3>2 DEF Deduct, CreditInv, CreditsConserved, TypeOK
    <3>4. \A c \in charged' : flagged'[c[1]] /\ c[1] \notin own' /\ (c[2] => c[1] \in again')
      <4>1. \A c \in charged : flagged[c[1]] /\ c[1] \notin own /\ (c[2] => c[1] \in again)
        BY DEF CreditInv, CreditsConserved
      <4>2. Charge(r)[1] = r /\ Charge(r)[2] = (r \in again)
        BY DEF Charge
      <4>. QED  BY <1>6, <2>2, <3>1, <4>1, <4>2 DEF Deduct
    <3>5. \A c \in charged' : pc'[c[1]] \in InTranslation \cup {"served", "failed"}
      BY <1>6, <2>2 DEF Deduct, CreditInv, Charge, InTranslation, TypeOK
    <3>6. \A q \in Requests : Charge(q)' \in charged' => pc'[q] \in {"pausing", "served"}
      <4>. SUFFICES ASSUME NEW q \in Requests, Charge(q) \in charged'
                    PROVE  pc'[q] \in {"pausing", "served"}
        BY <1>6 DEF Deduct, Charge
      <4>1. CASE q = r
        BY <1>6, <4>1 DEF Deduct, TypeOK
      <4>2. CASE q # r
        BY <1>6, <2>2, <4>2 DEF Deduct, Charge, CreditInv, TypeOK
      <4>. QED  BY <4>1, <4>2
    <3>7. \A q \in Requests : pc'[q] = "deducting" => flagged'[q] /\ q \notin own'
      BY <1>6 DEF Deduct, CreditInv, TypeOK
    <3>. QED  BY <3>3, <3>4, <3>5, <3>6, <3>7 DEF CreditInv, CreditsConserved
  <2>. QED  BY <1>6, <2>1, <2>2 DEF Deduct
<1>7. ASSUME NEW r \in Requests, Serve(r) PROVE CreditInv'
  BY <1>0, <1>7, CreditFrame DEF Serve, States, Charged, InTranslation
<1>13. ASSUME NEW r \in Requests, GoOn(r) PROVE CreditInv'
  <2>1. /\ UNCHANGED <<credits, bought, charged, flagged, own>> /\ again' = again \cup {r} /\ r \notin again
        /\ pc[r] = "pausing" /\ pc' = [pc EXCEPT ![r] = "admitted"]
    BY <1>13 DEF GoOn
  <2>2. CreditsConserved'
    BY <2>1 DEF CreditInv, CreditsConserved
  <2>3. \A q \in Requests : Charge(q)' \in charged' => pc'[q] \in {"pausing", "served"}
    <3>1. \A c \in charged : c[2] => c[1] \in again
      BY DEF CreditInv, CreditsConserved
    <3>2. <<r, r \in again'>> \notin charged
      <4>. DEFINE c == <<r, r \in again'>>
      <4>1. c[1] = r /\ c[2]
        BY <2>1
      <4>. QED  BY <2>1, <3>1, <4>1
    <3>3. \A q \in Requests \ {r} : (q \in again') = (q \in again)
      BY <2>1
    <3>4. \A q \in Requests \ {r} : Charge(q) \in charged => pc'[q] \in {"pausing", "served"}
      BY <2>1 DEF CreditInv, TypeOK
    <3>. QED  BY <2>1, <3>2, <3>3, <3>4 DEF Charge
  <2>4. \A q \in Requests : pc'[q] = "deducting" => flagged'[q] /\ q \notin own'
    BY <2>1 DEF CreditInv, TypeOK
  <2>5. \A c \in charged' : pc'[c[1]] \in InTranslation \cup {"served", "failed"}
    BY <2>1 DEF CreditInv, InTranslation, TypeOK
  <2>. QED  BY <2>2, <2>3, <2>4, <2>5 DEF CreditInv
<1>14. ASSUME UNCHANGED <<pc, flagged, own, again, charged>>, credits' + Cardinality(charged') = bought'
       PROVE  CreditInv'
  BY <1>14 DEF CreditInv, CreditsConserved, Charge
<1>15. credits + Cardinality(charged) = bought
  BY DEF CreditInv, CreditsConserved
<1>8. ASSUME NEW r \in Requests, SaveHistory(r) \/ SaveHistoryAndDie(r) PROVE CreditInv'
  BY <1>8, <1>14, <1>15 DEF SaveHistory, SaveHistoryAndDie
<1>9. CASE BuyCredit
  <2>1. credits' + Cardinality(charged') = bought'
    BY <1>9, <1>15, ChargedFinite DEF BuyCredit, TypeOK
  <2>. QED  BY <1>9, <1>14, <2>1 DEF BuyCredit
<1>10. CASE Expire \/ Forget
  BY <1>10, <1>14, <1>15 DEF Expire, Forget
<1>11. CASE UNCHANGED vars
  BY <1>11, <1>14, <1>15 DEF vars
<1>. QED
  BY <1>1, <1>2, <1>3, <1>4, <1>5, <1>6, <1>7, <1>8, <1>9, <1>10, <1>11, <1>12, <1>13
     DEF Next, RequestStep

(* No interleaving of requests, purchases and failures loses a credit, takes  *)
(* one that is not there or charges a request that brought its own key, and a *)
(* request is charged twice only if its stream went on after the broker       *)
(* refused its task (deduct_credit, add_credits, stream_code_to_english).     *)
THEOREM CreditsAreConserved == Spec => []CreditsConserved
<1>1. Init => CreditInv
  BY FS_EmptySet DEF Init, CreditInv, CreditsConserved
<1>2. CreditInv => CreditsConserved
  BY DEF CreditInv
<1>. QED  BY <1>1, <1>2, TypeCorrect, CreditStep, PTL DEF Spec
-----------------------------------------------------------------------------
(* The daily limit, while the counter exists and is kept: every request       *)
(* admitted free has its own increment, the last of which was within the      *)
(* policy of the request that made it, and so within the configured limit.    *)
Limited == Tier \in {"guest", "free"}

Increments == IF usage = Absent THEN 0 ELSE usage

PathInv ==
  /\ \A r \in Requests : policy[r].daily_limit \in 1..Base.daily_limit
  /\ \A r \in Requests : pc[r] \notin {"cold", "seeding"}
  /\ \A r \in Requests : pc[r] = "paying" => flagged[r]
  /\ Tier = "guest" => \A r \in Requests : pc[r] \notin {"cooldown", "reading"}

FreeInv ==
  /\ PathInv
  /\ Earlier + Cardinality(Free) <= Increments
  /\ Earlier + Cardinality(Free) <= Base.daily_limit

LEMMA FreeFinite == IsFiniteSet(Free) /\ Cardinality(Free) \in Nat
<1>1. Free \in SUBSET Requests
  BY DEF Free, Admitted
<1>. QED  BY <1>1, QuotaAssumption, FS_Subset, FS_CardinalityType

(* Steps that admit nobody new for free and count nobody. *)
LEMMA FreeFrame ==
  ASSUME FreeInv, PathInv', usage' = usage, Free' = Free
  PROVE  FreeInv'
BY DEF FreeInv, Increments

LEMMA FreeSame ==
  ASSUME TypeOK, NEW r \in Requests, NEW s \in States,
         pc' = [pc EXCEPT ![r] = s], flagged' = flagged,
         \/ flagged[r]
         \/ pc[r] \in InTranslation
              /\ s \in InTranslation \cup {"failed", "served"}
         \/ pc[r] \in {"idle", "cooldown", "reading"}
              /\ s \in {"cooldown", "counting", "reading", "refused"}
  PROVE  Free' = Free
BY DEF TypeOK, Free, Admitted, InTranslation

(* A counter that was missing or lost stays so for the day. *)
LEMMA ColdStays == TypeOK /\ [Next]_vars => (cold => cold')
BY DEF Next, RequestStep, Enforce, CheckCooldown, ReadCounter, CountHistory, SeedCounter,
   IncrementCounter, CheckCredits, Translate, RecordPlatform, Deduct, Serve, GoOn, SaveHistory,
   SaveHistoryAndDie, BuyCredit, Expire, Forget, pastVars, vars

LEMMA FreeStep == TypeOK /\ Limited /\ ~cold' /\ FreeInv /\ [Next]_vars => FreeInv'
<1>. SUFFICES ASSUME TypeOK, Limited, ~cold', FreeInv, [Next]_vars PROVE FreeInv'
  OBVIOUS
<1>0. PathInv /\ TypeOK'
  BY StepType DEF FreeInv
<1>. USE DEF Step, Go, requestVars, cacheVars, tableVars, pastVars
<1>1. ASSUME NEW r \in Requests, Enforce(r) PROVE FreeInv'
  <2>1. CurrentPolicy.daily_limit \in 1..Base.daily_limit
    BY CurrentPolicyBounds DEF Limited
  <2>2. PathInv'
    BY <1>0, <1>1, <2>1 DEF Enforce, PathInv, TypeOK
  <2>3. Free' = Free
    BY <1>1, FreeSame DEF Enforce, States
  <2>. QED  BY <1>1, <2>2, <2>3, FreeFrame DEF Enforce
<1>2. ASSUME NEW r \in Requests, CheckCooldown(r) PROVE FreeInv'
  <2>1. Tier = "free" /\ policy[r].daily_limit # Unlimited
    BY <1>0, <1>2 DEF CheckCooldown, PathInv, Limited, Unlimited
  <2>2. PathInv'
    BY <1>0, <1>2, <2>1 DEF CheckCooldown, PathInv, TypeOK
  <2>3. Free' = Free
    BY <1>2, <2>1, FreeSame DEF CheckCooldown, States
  <2>. QED  BY <1>2, <2>2, <2>3, FreeFrame DEF CheckCooldown
<1>3. ASSUME NEW r \in Requests, ReadCounter(r) PROVE FreeInv'
  <2>1. usageInL1 \/ usage # Absent
    BY <1>3 DEF ReadCounter
  <2>2. PathInv'
    BY <1>0, <1>3, <2>1 DEF ReadCounter, PathInv, TypeOK
  <2>3. Free' = Free
    BY <1>3, <2>1, FreeSame DEF ReadCounter, States
  <2>. QED  BY <1>3, <2>2, <2>3, FreeFrame DEF ReadCounter
<1>4. ASSUME NEW r \in Requests, CountHistory(r) \/ SeedCounter(r) PROVE FreeInv'
  BY <1>0, <1>4 DEF CountHistory, SeedCounter, PathInv
<1>5. ASSUME NEW r \in Requests, IncrementCounter(r) PROVE FreeInv'
  <2>1. Incr(usage) = Increments + 1 /\ Increments \in Nat /\ usage' = Increments + 1
    BY <1>5 DEF IncrementCounter, Incr, Increments, TypeOK
  <2>2. PathInv'
    <3>1. CASE OverLimit(r) /\ Tier = "guest"
      <4>1. pc' = [pc EXCEPT ![r] = "refused"] /\ policy' = policy
        BY <1>5, <3>1 DEF IncrementCounter
      <4>2. \A q \in Requests \ {r} : flagged'[q] = flagged[q]
        BY <1>5 DEF IncrementCounter, TypeOK
      <4>. QED  BY <1>0, <3>1, <4>1, <4>2 DEF PathInv, TypeOK
    <3>2. CASE OverLimit(r) /\ Tier = "free"
      <4>1. pc' = [pc EXCEPT ![r] = "paying"] /\ policy' = policy /\ usage' # Absent
        BY <1>5, <2>1, <3>2 DEF IncrementCounter
      <4>2. flagged' = [flagged EXCEPT ![r] = TRUE]
        BY <1>5, <3>2 DEF IncrementCounter
      <4>. QED  BY <1>0, <3>2, <4>1, <4>2 DEF PathInv, TypeOK
    <3>3. CASE ~OverLimit(r)
      <4>1. pc' = [pc EXCEPT ![r] = "admitted"] /\ policy' = policy /\ usage' # Absent
        BY <1>5, <2>1, <3>3 DEF IncrementCounter
      <4>2. \A q \in Requests \ {r} : flagged'[q] = flagged[q]
        BY <1>5 DEF IncrementCounter, TypeOK
      <4>. QED  BY <1>0, <4>1, <4>2 DEF PathInv, TypeOK
    <3>. QED  BY <3>1, <3>2, <3>3 DEF Limited
  <2>3. r \notin Free
    BY <1>5 DEF IncrementCounter, Free, Admitted, InTranslation
  <2>4. CASE OverLimit(r)
    <3>1. pc'[r] \in {"refused", "paying"}
      BY <1>5, <2>4 DEF IncrementCounter, TypeOK
    <3>2. Free' = Free
      BY <1>5, <2>3, <3>1 DEF IncrementCounter, Free, Admitted, InTranslation, TypeOK
    <3>. QED  BY <2>1, <2>2, <3>2, FreeFinite, QuotaAssumption DEF FreeInv, Increments
  <2>5. CASE ~OverLimit(r)
    <3>1. Increments + 1 <= Base.daily_limit
      BY <1>0, <2>1, <2>5, QuotaAssumption DEF OverLimit, PathInv, BaseLimits
    <3>2. Free' = Free \cup {r}
      BY <1>5, <2>5 DEF IncrementCounter, Free, Admitted, InTranslation, TypeOK
    <3>3. Cardinality(Free') = Cardinality(Free) + 1 /\ Cardinality(Free) \in Nat
      BY <2>3, <3>2, FreeFinite, FS_AddElement
    <3>4. Increments' = Increments + 1
      BY <2>1 DEF Increments
    <3>5. Base.daily_limit \in Int
      BY QuotaAssumption DEF BaseLimits
    <3>6. Earlier \in Nat
      BY QuotaAssumption
    <3>. QED  BY <2>1, <2>2, <3>1, <3>3, <3>4, <3>5, <3>6 DEF FreeInv
  <2>. QED  BY <2>4, <2>5
<1>6. ASSUME NEW r \in Requests, CheckCredits(r) PROVE FreeInv'
  <2>1. flagged[r]
    BY <1>0, <1>6 DEF CheckCredits, PathInv
  <2>2. PathInv'
    BY <1>0, <1>6 DEF CheckCredits, PathInv, TypeOK
  <2>3. Free' = Free
    BY <1>6, <2>1, FreeSame DEF CheckCredits, States
  <2>. QED  BY <1>6, <2>2, <2>3, FreeFrame DEF CheckCredits
<1>7. ASSUME NEW r \in Requests, Translate(r) PROVE FreeInv'
  <2>1. PathInv'
    BY <1>0, <1>7 DEF Translate, PathInv, TypeOK
  <2>2. Free' = Free
    BY <1>7, FreeSame DEF Translate, States, InTranslation
  <2>. QED  BY <1>7, <2>1, <2>2, FreeFrame DEF Translate
<1>8. ASSUME NEW r \in Requests, RecordPlatform(r) PROVE FreeInv'
  <2>1. PathInv'
    BY <1>0, <1>8 DEF RecordPlatform, PathInv, TypeOK
  <2>2. Free' = Free
    BY <1>8, FreeSame DEF RecordPlatform, States, InTranslation
  <2>. QED  BY <1>8, <2>1, <2>2, FreeFrame DEF RecordPlatform
<1>9. ASSUME NEW r \in Requests, Deduct(r) PROVE FreeInv'
  <2>1. PathInv'
    BY <1>0, <1>9 DEF Deduct, PathInv, TypeOK
  <2>2. Free' = Free
    BY <1>9, FreeSame DEF Deduct, States, InTranslation
  <2>. QED  BY <1>9, <2>1, <2>2, FreeFrame DEF Deduct
<1>10. ASSUME NEW r \in Requests, Serve(r) PROVE FreeInv'
  <2>1. PathInv'
    BY <1>0, <1>10 DEF Serve, PathInv, TypeOK
  <2>2. Free' = Free
    BY <1>10, FreeSame DEF Serve, States, InTranslation
  <2>. QED  BY <1>10, <2>1, <2>2, FreeFrame DEF Serve
<1>15. ASSUME NEW r \in Requests, GoOn(r) PROVE FreeInv'
  <2>1. PathInv'
    BY <1>0, <1>15 DEF GoOn, PathInv, TypeOK
  <2>2. Free' = Free
    BY <1>15, FreeSame DEF GoOn, States, InTranslation
  <2>. QED  BY <1>15, <2>1, <2>2, FreeFrame DEF GoOn
<1>11. ASSUME UNCHANGED <<pc, policy, flagged, usage>> PROVE FreeInv'
  BY <1>11 DEF FreeInv, PathInv, Free, Admitted, Increments
<1>12. ASSUME NEW r \in Requests, SaveHistory(r) \/ SaveHistoryAndDie(r) PROVE FreeInv'
  BY <1>11, <1>12 DEF SaveHistory, SaveHistoryAndDie
<1>13. CASE BuyCredit \/ Expire \/ UNCHANGED vars
  BY <1>11, <1>13 DEF BuyCredit, Expire, vars
<1>14. CASE Forget
  BY <1>14 DEF Forget
<1>. QED
  BY <1>1, <1>2, <1>3, <1>4, <1>5, <1>6, <1>7, <1>8, <1>9, <1>10, <1>12, <1>13, <1>14, <1>15
     DEF Next, RequestStep

LEMMA FreeInit == Init /\ Limited => FreeInv
<1>. SUFFICES ASSUME Init, Limited PROVE FreeInv
  OBVIOUS
<1>1. Policy(Tier, Base, "NORMAL").daily_limit \in 1..Base.daily_limit
  BY PolicyBounds DEF Modes, Limited
<1>2. PathInv
  BY <1>1 DEF Init, PathInv, Limited
<1>3. Free = {}
  BY DEF Init, Free, Admitted, InTranslation
<1>4. Cardinality(Free) = 0
  BY <1>3, FS_EmptySet
<1>5. Increments = Earlier
  BY QuotaAssumption DEF Init, Increments
<1>6. Earlier <= Base.daily_limit /\ Base.daily_limit \in Int /\ Earlier \in Nat
  BY QuotaAssumption DEF Limited, BaseLimits
<1>. QED  BY <1>2, <1>4, <1>5, <1>6 DEF FreeInv

(* However many requests interleave and however often the protection mode     *)
(* changes, a counter that is neither missing nor lost admits no more than    *)
(* the configured daily limit for free (enforce_quotas_and_protection).       *)
THEOREM DailyLimitHolds == Spec => []FreeWithinLimit
<1>. DEFINE Inv == Limited /\ ~cold => FreeInv
<1>1. Init => Inv
  BY FreeInit
<1>2. Inv => FreeWithinLimit
  BY DEF FreeInv, FreeWithinLimit, Limited
<1>3. Inv /\ TypeOK /\ [Next]_vars => Inv'
  <2>. SUFFICES ASSUME Inv, TypeOK, [Next]_vars, Limited, ~cold'
                PROVE  FreeInv'
    BY DEF Limited
  <2>1. FreeInv
    BY ColdStays
  <2>. QED  BY <2>1, FreeStep
<1>. HIDE DEF Inv
<1>. QED  BY <1>1, <1>2, <1>3, TypeCorrect, PTL DEF Spec
-----------------------------------------------------------------------------
(* Unpaid translations.  Only a free user's request is flagged, it is let on  *)
(* when there is a credit, and so a credit has been bought: with none left    *)
(* when it comes to pay, as it does without a key of its own, one has been    *)
(* charged.                                                                   *)
UnpaidInv ==
  /\ \A r \in Requests : flagged[r] => Tier = "free"
  /\ \A r \in Requests : pc[r] \in {"idle", "cooldown"} => ~flagged[r]
  /\ \A r \in Requests : flagged[r] /\ pc[r] \in InTranslation \cup {"served"} => bought > 0
  /\ \A r \in Requests :
       flagged[r] /\ r \notin own /\ pc[r] \in {"pausing", "served"} => charged # {} \/ dbErrors

(* Steps of one request that neither charge nor buy. *)
LEMMA UnpaidFrame ==
  ASSUME TypeOK, TypeOK', UnpaidInv, NEW r \in Requests, NEW s \in States,
         bought' = bought, charged' = charged, dbErrors' = dbErrors,
         pc' = [pc EXCEPT ![r] = s],
         \A q \in Requests \ {r} : flagged'[q] = flagged[q] /\ (q \in own' <=> q \in own),
         flagged'[r] => Tier = "free",
         s \in {"idle", "cooldown"} => ~flagged'[r],
         flagged'[r] /\ s \in InTranslation \cup {"served"} => bought > 0,
         flagged'[r] /\ r \notin own' /\ s \in {"pausing", "served"} => charged # {} \/ dbErrors
  PROVE  UnpaidInv'
BY DEF UnpaidInv, TypeOK

LEMMA UnpaidStep == TypeOK /\ CreditInv /\ UnpaidInv /\ [Next]_vars => UnpaidInv'
<1>. SUFFICES ASSUME TypeOK, CreditInv, UnpaidInv, [Next]_vars PROVE UnpaidInv'
  OBVIOUS
<1>0. TypeOK'
  BY StepType
<1>. USE DEF Step, Go, requestVars, cacheVars, tableVars, pastVars
<1>1. ASSUME NEW r \in Requests, Enforce(r) \/ CheckCooldown(r) PROVE UnpaidInv'
  <2>1. ~flagged[r]
    BY <1>1 DEF Enforce, CheckCooldown, UnpaidInv
  <2>. QED  BY <1>0, <1>1, <2>1, UnpaidFrame DEF Enforce, CheckCooldown, States
<1>2. ASSUME NEW r \in Requests, ReadCounter(r) \/ CountHistory(r) \/ SeedCounter(r)
      PROVE  UnpaidInv'
  <2>1. flagged[r] => Tier = "free"
    BY DEF UnpaidInv
  <2>. QED  BY <1>0, <1>2, <2>1, UnpaidFrame
            DEF ReadCounter, CountHistory, SeedCounter, States, InTranslation
<1>3. ASSUME NEW r \in Requests, IncrementCounter(r) PROVE UnpaidInv'
  <2>1. /\ \A q \in Requests \ {r} : flagged'[q] = flagged[q]
        /\ flagged'[r] <=> (Tier = "free" /\ OverLimit(r))
    BY <1>0, <1>3 DEF IncrementCounter, TypeOK
  <2>2. CASE OverLimit(r)
    <3>1. PICK s \in {"refused", "paying"} : pc' = [pc EXCEPT ![r] = s]
      BY <1>3, <2>2 DEF IncrementCounter
    <3>. QED  BY <1>0, <1>3, <2>1, <3>1, UnpaidFrame
              DEF IncrementCounter, States, InTranslation
  <2>3. CASE ~OverLimit(r)
    BY <1>0, <1>3, <2>1, <2>3, UnpaidFrame DEF IncrementCounter, States
  <2>. QED  BY <2>2, <2>3
<1>4. ASSUME NEW r \in Requests, CheckCredits(r) PROVE UnpaidInv'
  <2>1. pc' = [pc EXCEPT ![r] = "refused"]
          \/ (pc' = [pc EXCEPT ![r] = "admitted"] /\ credits > 0)
    BY <1>4 DEF CheckCredits, TypeOK
  <2>2. credits > 0 => bought > 0
    BY ChargedFinite DEF CreditInv, CreditsConserved, TypeOK
  <2>3. flagged[r] => Tier = "free"
    BY DEF UnpaidInv
  <2>. QED  BY <1>0, <1>4, <2>1, <2>2, <2>3, UnpaidFrame
            DEF CheckCredits, States, InTranslation
<1>5. ASSUME NEW r \in Requests, Translate(r) \/ RecordPlatform(r) PROVE UnpaidInv'
  <2>1. flagged[r] => Tier = "free" /\ bought > 0
    BY <1>5 DEF Translate, RecordPlatform, UnpaidInv, InTranslation
  <2>2. CASE Translate(r)
    BY <1>0, <2>1, <2>2, UnpaidFrame DEF Translate, States, InTranslation
  <2>3. CASE RecordPlatform(r)
    <3>1. UNCHANGED <<flagged, bought, charged, dbErrors>>
      BY <2>3 DEF RecordPlatform
    <3>2. CASE Tier = "guest"
      BY <1>0, <2>1, <2>3, <3>1, <3>2, UnpaidFrame DEF RecordPlatform, States
    <3>3. CASE Tier # "guest" /\ flagged[r] /\ r \notin own
      BY <1>0, <2>1, <2>3, <3>1, <3>3, UnpaidFrame DEF RecordPlatform, States
    <3>4. CASE Tier # "guest" /\ (~flagged[r] \/ r \in own)
      <4>1. UNCHANGED own /\ pc' = [pc EXCEPT ![r] = "pausing"]
        BY <2>3, <3>4 DEF RecordPlatform
      <4>. QED  BY <1>0, <2>1, <3>1, <3>4, <4>1, UnpaidFrame DEF States
    <3>. QED  BY <3>2, <3>3, <3>4
  <2>. QED  BY <1>5, <2>2, <2>3
<1>6. ASSUME NEW r \in Requests, Deduct(r) PROVE UnpaidInv'
  <2>1. flagged[r] /\ Tier = "free" /\ bought > 0
    BY <1>6 DEF Deduct, CreditInv, UnpaidInv, InTranslation
  <2>2. charged' # {} \/ dbErrors'
    <3>1. credits = 0 => charged # {}
      <4>1. credits = 0 => Cardinality(charged) = bought
        BY ChargedFinite DEF CreditInv, CreditsConserved, TypeOK
      <4>2. Cardinality({}) = 0
        BY FS_EmptySet
      <4>3. bought # 0
        BY <2>1
      <4>. QED  BY <4>1, <4>2, <4>3
    <3>2. CASE charged' = charged \cup {Charge(r)}
      BY <3>2
    <3>3. CASE dbErrors' = (dbErrors \/ credits > 0) /\ charged' = charged
      <4>1. credits = 0 \/ credits > 0
        BY DEF TypeOK
      <4>. DEFINE left == credits > 0
      <4>2. dbErrors' = (dbErrors \/ left)
        BY <3>3
      <4>3. ~left => credits = 0
        BY <4>1
      <4>. HIDE DEF left
      <4>. QED  BY <3>1, <3>3, <4>2, <4>3
    <3>. QED  BY <1>6, <3>2, <3>3 DEF Deduct
  <2>3. /\ flagged' = flagged /\ bought' = bought
        /\ pc' = [pc EXCEPT ![r] = "pausing"]
    BY <1>6 DEF Deduct
  <2>. QED  BY <2>1, <2>2, <2>3 DEF UnpaidInv, TypeOK
<1>7. ASSUME NEW r \in Requests, Serve(r) PROVE UnpaidInv'
  <2>1. flagged[r] => Tier = "free" /\ bought > 0 /\ (r \in own \/ charged # {} \/ dbErrors)
    BY <1>7 DEF Serve, UnpaidInv, InTranslation
  <2>. QED  BY <1>0, <1>7, <2>1, UnpaidFrame DEF Serve, States
<1>10. ASSUME NEW r \in Requests, GoOn(r) PROVE UnpaidInv'
  <2>1. flagged[r] => Tier = "free" /\ bought > 0
    BY <1>10 DEF GoOn, UnpaidInv, InTranslation
  <2>. QED  BY <1>0, <1>10, <2>1, UnpaidFrame DEF GoOn, States
<1>8. CASE BuyCredit
  BY <1>8 DEF BuyCredit, UnpaidInv, TypeOK
<1>9. CASE UNCHANGED <<pc, flagged, own, bought, charged, dbErrors>>
  BY <1>9 DEF UnpaidInv
<1>. QED
  BY <1>1, <1>2, <1>3, <1>4, <1>5, <1>6, <1>7, <1>8, <1>9, <1>10
     DEF Next, RequestStep, SaveHistory, SaveHistoryAndDie, Expire, Forget, vars

(* A translation over the limit is never simply unpaid: whoever is served     *)
(* without a charge and without a key of their own lost the credit they were  *)
(* admitted for to another charge, or the charge itself failed                *)
(* (record_successful_completion).                                            *)
THEOREM UnpaidLostTheRace == Spec => []UnpaidLostARace
<1>1. Init => CreditInv /\ UnpaidInv
  BY FS_EmptySet DEF Init, CreditInv, CreditsConserved, UnpaidInv, InTranslation
<1>2. UnpaidInv => UnpaidLostARace
  BY DEF UnpaidInv, UnpaidLostARace, IsCharged
<1>. QED  BY <1>1, <1>2, TypeCorrect, CreditStep, UnpaidStep, PTL DEF Spec
-----------------------------------------------------------------------------
(* The counter and the history.  A request that was counted and has no row    *)
(* yet is on its way to one, or its row is still to be written: the counter   *)
(* stands for all of these besides the rows there are.                        *)
Underway == unsaved \cup {r \in Requests : pc[r] \in InTranslation \cup {"paying"}}

CoverInv ==
  /\ \A r \in unsaved : pc[r] = "served"
  /\ history + Cardinality(Underway) <= Increments + repeated

LEMMA UnderwayFinite ==
  ASSUME TypeOK
  PROVE  IsFiniteSet(Underway) /\ Cardinality(Underway) \in Nat
<1>1. Underway \in SUBSET Requests
  BY DEF Underway, TypeOK
<1>. QED  BY <1>1, QuotaAssumption, FS_Subset, FS_CardinalityType

(* Steps that count nobody, write nothing and put nobody on the way. *)
LEMMA CoverFrame ==
  ASSUME TypeOK, CoverInv, usage' = usage, history' = history, repeated' = repeated,
         Underway' \subseteq Underway, \A r \in unsaved' : pc'[r] = "served"
  PROVE  CoverInv'
<1>1. Cardinality(Underway') <= Cardinality(Underway) /\ Cardinality(Underway') \in Nat
  BY UnderwayFinite, FS_Subset, FS_CardinalityType
<1>2. Increments' = Increments
  BY DEF Increments
<1>. QED  BY <1>1, <1>2, UnderwayFinite DEF CoverInv, TypeOK, Increments

LEMMA CoverStep ==
  TypeOK /\ Tier = "free" /\ ~cold' /\ PathInv /\ CoverInv /\ [Next]_vars => CoverInv'
<1>. SUFFICES ASSUME TypeOK, Tier = "free", ~cold', PathInv, CoverInv, [Next]_vars
              PROVE  CoverInv'
  OBVIOUS
<1>. USE DEF Step, Go, requestVars, cacheVars, tableVars, pastVars
(* A request that moves on its way to a row, or aside from it. *)
<1>0. ASSUME NEW r \in Requests, NEW s \in States, pc' = [pc EXCEPT ![r] = s],
             UNCHANGED <<usage, history, repeated, unsaved>>, pc[r] # "served",
             s \in InTranslation \cup {"paying"} => pc[r] \in InTranslation \cup {"paying"}
      PROVE  CoverInv'
  <2>1. Underway' \subseteq Underway
    BY <1>0 DEF Underway, TypeOK
  <2>2. \A q \in unsaved' : pc'[q] = "served"
    BY <1>0 DEF CoverInv, TypeOK
  <2>. QED  BY <1>0, <2>1, <2>2, CoverFrame
<1>1. ASSUME NEW r \in Requests, Enforce(r) PROVE CoverInv'
  BY <1>0, <1>1 DEF Enforce, States, InTranslation
<1>2. ASSUME NEW r \in Requests, CheckCooldown(r) PROVE CoverInv'
  <2>1. policy[r].daily_limit # Unlimited
    BY QuotaAssumption DEF PathInv, Unlimited, BaseLimits
  <2>. QED  BY <1>0, <1>2, <2>1 DEF CheckCooldown, States, InTranslation
<1>3. ASSUME NEW r \in Requests, ReadCounter(r) PROVE CoverInv'
  BY <1>0, <1>3 DEF ReadCounter, States, InTranslation
<1>4. ASSUME NEW r \in Requests, CountHistory(r) \/ SeedCounter(r) PROVE CoverInv'
  BY <1>4 DEF CountHistory, SeedCounter, PathInv
<1>5. ASSUME NEW r \in Requests, IncrementCounter(r) PROVE CoverInv'
  <2>1. PICK s \in {"admitted", "paying"} : pc' = [pc EXCEPT ![r] = s]
    BY <1>5 DEF IncrementCounter
  <2>2. UNCHANGED <<unsaved, history, repeated>> /\ pc[r] = "counting"
    BY <1>5 DEF IncrementCounter
  <2>3. Underway' = Underway \cup {r} /\ r \notin Underway
    BY <2>1, <2>2 DEF Underway, InTranslation, CoverInv, TypeOK
  <2>4. Cardinality(Underway') = Cardinality(Underway) + 1
    BY <2>3, UnderwayFinite, FS_AddElement
  <2>5. Increments' = Increments + 1 /\ Increments \in Nat
    BY <1>5 DEF IncrementCounter, Incr, Increments, TypeOK
  <2>6. \A q \in unsaved' : pc'[q] = "served"
    BY <2>1, <2>2 DEF CoverInv, TypeOK
  <2>. QED  BY <2>2, <2>4, <2>5, <2>6, UnderwayFinite DEF CoverInv, TypeOK
<1>6. ASSUME NEW r \in Requests, CheckCredits(r) \/ Translate(r) PROVE CoverInv'
  BY <1>0, <1>6 DEF CheckCredits, Translate, States, InTranslation
<1>7. ASSUME NEW r \in Requests, RecordPlatform(r) \/ Deduct(r) PROVE CoverInv'
  BY <1>0, <1>7 DEF RecordPlatform, Deduct, States, InTranslation
<1>8. ASSUME NEW r \in Requests, Serve(r) PROVE CoverInv'
  <2>1. Underway' \subseteq Underway
    BY <1>8 DEF Serve, Underway, InTranslation, TypeOK
  <2>2. \A q \in unsaved' : pc'[q] = "served"
    BY <1>8 DEF Serve, CoverInv, TypeOK
  <2>. QED  BY <1>8, <2>1, <2>2, CoverFrame DEF Serve
<1>9. ASSUME NEW r \in Requests, SaveHistory(r) PROVE CoverInv'
  <2>1. Underway' = Underway \ {r} /\ r \in Underway
    BY <1>9 DEF SaveHistory, Underway, InTranslation, CoverInv
  <2>2. Cardinality(Underway') = Cardinality(Underway) - 1
    BY <2>1, UnderwayFinite, FS_RemoveElement
  <2>3. /\ history' <= history + 1 /\ history' \in Nat /\ Increments' = Increments
        /\ Increments \in Nat /\ repeated' = repeated
    BY <1>9 DEF SaveHistory, Increments, TypeOK
  <2>4. \A q \in unsaved' : pc'[q] = "served"
    BY <1>9 DEF SaveHistory, CoverInv
  <2>. QED  BY <2>2, <2>3, <2>4, UnderwayFinite DEF CoverInv, TypeOK
<1>12. ASSUME NEW r \in Requests, SaveHistoryAndDie(r) PROVE CoverInv'
  <2>1. /\ history' = history + 1 /\ repeated' = repeated + 1
        /\ Increments' = Increments /\ Increments \in Nat /\ Underway' = Underway
    BY <1>12 DEF SaveHistoryAndDie, Increments, Underway, TypeOK
  <2>2. \A q \in unsaved' : pc'[q] = "served"
    BY <1>12 DEF SaveHistoryAndDie, CoverInv
  <2>. QED  BY <2>1, <2>2, UnderwayFinite DEF CoverInv, TypeOK
<1>13. ASSUME NEW r \in Requests, GoOn(r) PROVE CoverInv'
  BY <1>0, <1>13 DEF GoOn, States, InTranslation
<1>10. CASE BuyCredit \/ Expire \/ UNCHANGED vars
  <2>1. UNCHANGED <<pc, unsaved, usage, history, repeated>>
    BY <1>10 DEF BuyCredit, Expire, vars
  <2>. QED  BY <2>1 DEF CoverInv, Underway, Increments
<1>11. CASE Forget
  BY <1>11 DEF Forget
<1>. QED
  BY <1>1, <1>2, <1>3, <1>4, <1>5, <1>6, <1>7, <1>8, <1>9, <1>10, <1>11, <1>12, <1>13
     DEF Next, RequestStep

(* The day's counter never falls behind the rows of the history and those     *)
(* still to be written, but for the rows that redelivered tasks wrote again:  *)
(* counting the rows after it was lost favours the user except for these      *)
(* (increment_today_usage_count, save_translation_history_task).              *)
THEOREM CounterCovers == Spec => []CounterCoversHistory
<1>. DEFINE Inv == Tier = "free" /\ ~cold => FreeInv /\ CoverInv
<1>1. Init => Inv
  <2>. SUFFICES ASSUME Init, Tier = "free" PROVE FreeInv /\ CoverInv
    OBVIOUS
  <2>1. FreeInv
    BY FreeInit DEF Limited
  <2>2. Underway = {}
    BY DEF Init, Underway, InTranslation
  <2>3. /\ Cardinality(Underway) = 0 /\ history = Earlier /\ Increments = Earlier
        /\ repeated = 0 /\ unsaved = {} /\ Earlier \in Nat
    BY <2>2, FS_EmptySet, QuotaAssumption DEF Init, Increments
  <2>. QED  BY <2>1, <2>3 DEF CoverInv
<1>2. Inv /\ TypeOK => CounterCoversHistory
  <2>. SUFFICES ASSUME CoverInv, TypeOK
                PROVE  history + Cardinality(unsaved) <= Increments + repeated
    BY DEF CounterCoversHistory, Increments
  <2>1. unsaved \subseteq Underway
    BY DEF Underway
  <2>2. Cardinality(unsaved) <= Cardinality(Underway) /\ Cardinality(unsaved) \in Nat
    BY <2>1, UnderwayFinite, FS_Subset, FS_CardinalityType
  <2>. QED  BY <2>2, UnderwayFinite DEF CoverInv, TypeOK, Increments
<1>3. Inv /\ TypeOK /\ [Next]_vars => Inv'
  <2>. SUFFICES ASSUME Inv, TypeOK, [Next]_vars, Tier = "free", ~cold'
                PROVE  FreeInv' /\ CoverInv'
    OBVIOUS
  <2>1. FreeInv /\ CoverInv
    BY ColdStays
  <2>. QED  BY <2>1, FreeStep, CoverStep DEF FreeInv, Limited
<1>. HIDE DEF Inv
<1>. QED  BY <1>1, <1>2, <1>3, TypeCorrect, PTL DEF Spec
==============================================================================
