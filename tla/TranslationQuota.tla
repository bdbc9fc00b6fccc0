-------------------------- MODULE TranslationQuota --------------------------
(* One account's translations of one day.  Each request passes the checks of *)
(* enforce_quotas_and_protection, is translated, and on success is recorded  *)
(* by record_successful_completion and saved to the history by a task.  The  *)
(* requests interleave at every await; nothing but Redis' INCR and the       *)
(* database's conditional UPDATE is atomic between them.  A broker that      *)
(* refuses the task makes the stream record its request a second time, and   *)
(* the task, acknowledged late, may write its row more than once.            *)
EXTENDS Integers, FiniteSets, QuotaPolicy

CONSTANTS
  Requests,
  Tier,           \* "guest", "free", "pro" or "admin"
  Base,           \* the environment's limits of that tier
  Earlier,        \* how often the account has translated today before these requests
  PlatformCap,    \* PLATFORM_DAILY_CAP_TRANSLATIONS, NoCap when unset
  Purchases,      \* bound: how many credits the account buys
  Refusals,       \* bound: how many requests the broker makes go on
  Redeliveries,   \* bound: how often a task that has saved its row runs again
  MayForget,      \* Redis may lose the day's counter
  MayFail         \* a database call may fail

ASSUME QuotaAssumption ==
  /\ IsFiniteSet(Requests)
  /\ Tier \in Tiers
  /\ Base \in BaseLimits
  /\ Earlier \in Nat
  /\ IF Tier \in {"guest", "free"} THEN Base.daily_limit >= 1 /\ Earlier <= Base.daily_limit ELSE Earlier = 0
  /\ PlatformCap \in Nat
  /\ Purchases \in Nat
  /\ Refusals \in Nat /\ Redeliveries \in Nat
  /\ MayForget \in BOOLEAN /\ MayFail \in BOOLEAN

Absent == -1     \* a cache key that does not exist

VARIABLES
  pc,          \* where each request is
  policy,      \* the policy it was held to
  counted,     \* the history rows it counted for a cold counter
  flagged,     \* deduct_credit_flag
  own,         \* requests over the limit that use the user's own provider key
  again,       \* requests whose history task the broker refused, after which the stream went on
  charged,     \* the charges: of a request, before (FALSE) or after (TRUE) it went on again
  usage,       \* user_daily_usage in Redis (guest_daily_usage for a guest)
  usageInL1,   \* the process holds some value of it in its own L1 cache
  platform,    \* platform_daily_usage in Redis
  platformL1,  \* the process's L1 copy of it
  cooling,     \* the key cooldown:{email} exists
  credits,     \* user_subscriptions.credits
  bought,      \* credits added today
  history,     \* today's rows of translation_history
  repeated,    \* how many of them a redelivered task wrote
  unsaved,     \* requests whose history task is not acknowledged
  cold,        \* a request has found no counter, or Redis has lost it
  dbErrors     \* a charge has failed although there was a credit

requestVars == <<policy, counted, flagged, own, again, charged>>
cacheVars == <<usage, usageInL1, platform, platformL1, cooling>>
tableVars == <<credits, bought, history, repeated>>
pastVars == <<cold, dbErrors>>
vars == <<pc, requestVars, cacheVars, tableVars, unsaved, pastVars>>

States ==
  {"idle", "cooldown", "reading", "cold", "seeding", "counting", "paying", "admitted",
   "translated", "deducting", "pausing", "served", "refused", "failed"}

Policies == BaseLimits

TypeOK ==
  /\ pc \in [Requests -> States]
  /\ policy \in [Requests -> Policies]
  /\ counted \in [Requests -> Nat]
  /\ flagged \in [Requests -> BOOLEAN]
  /\ own \subseteq Requests /\ again \subseteq Requests
  /\ charged \subseteq Requests \X BOOLEAN
  /\ usage \in Nat \cup {Absent} /\ usageInL1 \in BOOLEAN
  /\ platform \in Nat \cup {Absent} /\ platformL1 \in Nat \cup {Absent}
  /\ cooling \in BOOLEAN
  /\ credits \in Nat /\ bought \in 0..Purchases
  /\ history \in Nat /\ repeated \in 0..Redeliveries
  /\ unsaved \subseteq Requests
  /\ cold \in BOOLEAN /\ dbErrors \in BOOLEAN

Init ==
  /\ pc = [r \in Requests |-> "idle"]
  /\ policy = [r \in Requests |-> Policy(Tier, Base, "NORMAL")]
  /\ counted = [r \in Requests |-> 0]
  /\ flagged = [r \in Requests |-> FALSE]
  /\ own = {} /\ again = {} /\ charged = {}
  /\ usage \in (IF Earlier = 0 THEN {Absent, 0} ELSE {Earlier}) /\ usageInL1 = FALSE
  /\ platform \in {Absent, Earlier} /\ platformL1 = Absent
  /\ cooling = FALSE
  /\ credits = 0 /\ bought = 0 /\ history = Earlier /\ repeated = 0 /\ unsaved = {}
  /\ cold = FALSE /\ dbErrors = FALSE

Go(r, s) == pc' = [pc EXCEPT ![r] = s]
Step(r, s, t) == pc[r] = s /\ Go(r, t)

(* Redis INCR: an absent counter starts at 0. *)
Incr(n) == IF n = Absent THEN 1 ELSE n + 1

(* cache.get of the platform's counter: an L1 copy hides Redis' value. *)
PlatformSeen == IF platformL1 # Absent THEN platformL1 ELSE platform
CurrentMode == ProtectionMode(IF PlatformSeen = Absent THEN 0 ELSE PlatformSeen, PlatformCap)
CurrentPolicy == Policy(Tier, Base, CurrentMode)

(* A request's charge, told from the one after it went on again. *)
Charge(r) == <<r, r \in again>>

(* Mutants: the forms a plausible mistake would give these definitions. *)

(* The counter is compared before it is incremented. *)
OverLimitBefore(r) == usage > policy[r].daily_limit

(* A balance of 0 passes. *)
CheckCreditsLate(r) ==
  /\ Step(r, "paying", IF credits < 0 THEN "refused" ELSE "admitted")
  /\ UNCHANGED <<requestVars, cacheVars, tableVars, unsaved, pastVars>>

(* The UPDATE lacks its WHERE credits > 0. *)
DeductUnguarded(r) ==
  /\ Step(r, "deducting", "pausing")
  /\ credits' = credits - 1 /\ charged' = charged \cup {Charge(r)}
  /\ UNCHANGED <<policy, counted, flagged, own, again, cacheVars, bought, history, repeated, unsaved, pastVars>>

(* ... or floors the balance at 0 in its place. *)
DeductFloors(r) ==
  /\ Step(r, "deducting", "pausing")
  /\ credits' = (IF credits > 0 THEN credits - 1 ELSE 0) /\ charged' = charged \cup {Charge(r)}
  /\ UNCHANGED <<policy, counted, flagged, own, again, cacheVars, bought, history, repeated, unsaved, pastVars>>

(* The stream goes on although the broker has taken the history task. *)
GoOnDispatched(r) ==
  /\ r \notin again /\ Cardinality(again) < Refusals
  /\ Step(r, "pausing", "admitted")
  /\ again' = again \cup {r}
  /\ unsaved' = unsaved \cup {r}
  /\ cooling' = (cooling \/ policy[r].cooldown > 0)
  /\ UNCHANGED <<policy, counted, flagged, own, charged, usage, usageInL1, platform, platformL1, tableVars, pastVars>>

(* The protection mode and the policy that follows from it. *)
Enforce(r) ==
  /\ Step(r, "idle", IF Tier = "guest" THEN "counting" ELSE "cooldown")
  /\ platformL1' = IF PlatformCap = NoCap THEN platformL1 ELSE PlatformSeen
  /\ policy' = [policy EXCEPT ![r] = CurrentPolicy]
  /\ UNCHANGED <<counted, flagged, own, again, charged, usage, usageInL1, platform, cooling, tableVars, unsaved, pastVars>>

(* Pro users and administrators are not counted. *)
CheckCooldown(r) ==
  /\ Step(r, "cooldown",
          IF policy[r].cooldown > 0 /\ cooling THEN "refused"
          ELSE IF Tier = "free" /\ policy[r].daily_limit # Unlimited THEN "reading"
          ELSE "admitted")
  /\ UNCHANGED <<requestVars, cacheVars, tableVars, unsaved, pastVars>>

(* increment_today_usage_count: is there a counter? *)
ReadCounter(r) ==
  /\ Step(r, "reading", IF usageInL1 \/ usage # Absent THEN "counting" ELSE "cold")
  /\ usageInL1' = (usageInL1 \/ usage # Absent)
  /\ cold' = (cold \/ ~(usageInL1 \/ usage # Absent))
  /\ UNCHANGED <<requestVars, usage, platform, platformL1, cooling, tableVars, unsaved, dbErrors>>

(* get_count_since answers 0 when the database fails. *)
CountHistory(r) ==
  /\ Step(r, "cold", "seeding")
  /\ \E n \in {history} \cup (IF MayFail THEN {0} ELSE {}) :
       counted' = [counted EXCEPT ![r] = n]
  /\ UNCHANGED <<policy, flagged, own, again, charged, cacheVars, tableVars, unsaved, pastVars>>

SeedCounter(r) ==
  /\ Step(r, "seeding", "counting")
  /\ usage' = counted[r] /\ usageInL1' = TRUE
  /\ UNCHANGED <<requestVars, platform, platformL1, cooling, tableVars, unsaved, pastVars>>

OverLimit(r) == Incr(usage) > policy[r].daily_limit

(* INCR and compare; a guest has no credits to pay with. *)
IncrementCounter(r) ==
  /\ Step(r, "counting",
          IF ~OverLimit(r) THEN "admitted" ELSE IF Tier = "guest" THEN "refused" ELSE "paying")
  /\ usage' = Incr(usage)
  /\ flagged' = [flagged EXCEPT ![r] = Tier = "free" /\ OverLimit(r)]
  /\ UNCHANGED <<policy, counted, own, again, charged, usageInL1, platform, platformL1, cooling, tableVars, unsaved, pastVars>>

(* get_credits answers 0 when the database fails.  A request that brings the *)
(* user's own provider key is held to the balance too, though it will not be *)
(* charged.                                                                  *)
CheckCredits(r) ==
  /\ \/ Step(r, "paying", IF credits <= 0 THEN "refused" ELSE "admitted")
     \/ MayFail /\ Step(r, "paying", "refused")
  /\ own' \in {own, own \cup {r}}
  /\ UNCHANGED <<policy, counted, flagged, again, charged, cacheVars, tableVars, unsaved, pastVars>>

(* An answer, from a cache or from the providers; or every provider's failure, *)
(* or a client that left: nothing is recorded and the day's counter is not     *)
(* given back.                                                                 *)
Translate(r) ==
  /\ \E s \in {"translated", "failed"} : Step(r, "admitted", s)
  /\ UNCHANGED <<requestVars, cacheVars, tableVars, unsaved, pastVars>>

(* record_successful_completion; a guest's translation is not recorded, and  *)
(* the user's own key has cleared deduct_credit_flag.                        *)
RecordPlatform(r) ==
  /\ pc[r] = "translated"
  /\ IF Tier = "guest" THEN Go(r, "served") /\ UNCHANGED platform
     ELSE Go(r, IF flagged[r] /\ r \notin own THEN "deducting" ELSE "pausing") /\ platform' = Incr(platform)
  /\ UNCHANGED <<requestVars, usage, usageInL1, platformL1, cooling, tableVars, unsaved, pastVars>>

(* deduct_credit's UPDATE ... WHERE credits > 0; that it updated nothing, or *)
(* failed, is not looked at.                                                 *)
Deduct(r) ==
  /\ Step(r, "deducting", "pausing")
  /\ \/ credits > 0 /\ credits' = credits - 1 /\ charged' = charged \cup {Charge(r)} /\ UNCHANGED dbErrors
     \/ (credits = 0 \/ MayFail) /\ dbErrors' = (dbErrors \/ credits > 0) /\ UNCHANGED <<credits, charged>>
  /\ UNCHANGED <<policy, counted, flagged, own, again, cacheVars, bought, history, repeated, unsaved, cold>>

(* The cooldown starts and the history task is dispatched; in privacy mode it *)
(* is not, and a broker that refuses it after the answer only ends the stream. *)
Serve(r) ==
  /\ Step(r, "pausing", "served")
  /\ cooling' = (cooling \/ policy[r].cooldown > 0)
  /\ unsaved' \in {unsaved, unsaved \cup {r}}
  /\ UNCHANGED <<requestVars, usage, usageInL1, platform, platformL1, tableVars, pastVars>>

(* A broker that refuses the task of an answer from the AST cache: the except *)
(* around that cache's use takes it for a failed lookup, and the stream goes  *)
(* on to the response cache and the providers, where it is recorded again.    *)
GoOn(r) ==
  /\ r \notin again /\ Cardinality(again) < Refusals
  /\ Step(r, "pausing", "admitted")
  /\ again' = again \cup {r}
  /\ cooling' = (cooling \/ policy[r].cooldown > 0)
  /\ UNCHANGED <<policy, counted, flagged, own, charged, usage, usageInL1, platform, platformL1, tableVars, unsaved, pastVars>>

(* save_translation_background: errors are logged and the row is lost. *)
SaveHistory(r) ==
  /\ r \in unsaved
  /\ unsaved' = unsaved \ {r}
  /\ history' \in {history, history + 1}
  /\ UNCHANGED <<pc, requestVars, cacheVars, credits, bought, repeated, pastVars>>

(* The worker dies between the commit and the late acknowledgement: the task *)
(* is delivered again, and nothing tells it that its row is there.           *)
SaveHistoryAndDie(r) ==
  /\ r \in unsaved
  /\ repeated < Redeliveries
  /\ history' = history + 1 /\ repeated' = repeated + 1
  /\ UNCHANGED <<pc, requestVars, cacheVars, credits, bought, unsaved, pastVars>>

(* add_credits on the account's existing row. *)
BuyCredit ==
  /\ bought < Purchases
  /\ bought' = bought + 1 /\ credits' = credits + 1
  /\ UNCHANGED <<pc, requestVars, cacheVars, history, repeated, unsaved, pastVars>>

(* Entries expire: the L1 copies after 600 s, the cooldown after its seconds. *)
Expire ==
  /\ \/ usageInL1 /\ usageInL1' = FALSE /\ UNCHANGED <<platformL1, cooling>>
     \/ platformL1 # Absent /\ platformL1' = Absent /\ UNCHANGED <<usageInL1, cooling>>
     \/ cooling /\ cooling' = FALSE /\ UNCHANGED <<usageInL1, platformL1>>
  /\ UNCHANGED <<pc, requestVars, usage, platform, tableVars, unsaved, pastVars>>

(* Redis restarts empty; L1 copies stay (the cooldown is in L1 too). *)
Forget ==
  /\ MayForget
  /\ usage # Absent \/ platform # Absent
  /\ usage' = Absent /\ platform' = Absent /\ cold' = TRUE
  /\ UNCHANGED <<pc, requestVars, usageInL1, platformL1, cooling, tableVars, unsaved, dbErrors>>

RequestStep(r) ==
  \/ CheckCooldown(r) \/ ReadCounter(r) \/ CountHistory(r) \/ SeedCounter(r) \/ IncrementCounter(r)
  \/ CheckCredits(r) \/ Translate(r) \/ RecordPlatform(r) \/ Deduct(r) \/ Serve(r) \/ GoOn(r)

Next ==
  \/ \E r \in Requests :
       Enforce(r) \/ RequestStep(r) \/ SaveHistory(r) \/ SaveHistoryAndDie(r)
  \/ BuyCredit \/ Expire \/ Forget

Spec == Init /\ [][Next]_vars

-----------------------------------------------------------------------------
InTranslation == {"admitted", "translated", "deducting", "pausing"}
Admitted == {r \in Requests : pc[r] \in InTranslation \cup {"served", "failed"}}
Free == {r \in Admitted : ~flagged[r]}

(* "Maximum translations per UTC day" (policy.py): while the day's counter is *)
(* neither missing nor lost, no more translations than the daily limit are    *)
(* admitted without a credit, however they interleave and however the         *)
(* protection mode moves in between.                                          *)
FreeWithinLimit ==
  Tier \in {"guest", "free"} /\ ~cold => Earlier + Cardinality(Free) <= Base.daily_limit

(* "Atomically increment daily usage count. Prevents TOCTOU race"             *)
(* (increment_today_usage_count): the same for a counter that is missing.     *)
CountedAtomically ==
  Tier \in {"guest", "free"} => Earlier + Cardinality(Free) <= Base.daily_limit

(* Credits are neither lost nor owed, whatever requests, purchases and        *)
(* failures run side by side (deduct_credit, add_credits): every credit gone  *)
(* is the charge of a request over the limit without a key of the user's own. *)
(* One request is charged at most once before and once after its stream went  *)
(* on; only a refused broker makes the second charge possible.                *)
CreditsConserved ==
  /\ credits + Cardinality(charged) = bought
  /\ \A c \in charged : flagged[c[1]] /\ c[1] \notin own /\ (c[2] => c[1] \in again)

IsCharged(r) == \E second \in BOOLEAN : <<r, second>> \in charged

(* A translation over the limit that is served without a credit used the      *)
(* user's own key, lost a race for the credit it had been admitted for to     *)
(* another charge, or its charge failed.                                      *)
UnpaidLostARace ==
  \A r \in Requests \ own :
    (flagged[r] /\ pc[r] = "served" /\ ~IsCharged(r)) => charged # {} \/ dbErrors

(* The counter is never behind the history it stands for by more than the     *)
(* rows that redelivered tasks wrote again: counting the rows (a cold         *)
(* counter) favours the user but for these.                                   *)
CounterCoversHistory ==
  Tier = "free" /\ ~cold =>
    history + Cardinality(unsaved) <= (IF usage = Absent THEN 0 ELSE usage) + repeated
==============================================================================
