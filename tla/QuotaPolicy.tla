----------------------------- MODULE QuotaPolicy -----------------------------
(* Which limits a request is held to: the protection mode follows from the   *)
(* day's platform usage, the policy from the mode and the caller's tier.     *)
(* Factors are percentages, sizes are characters, cooldowns seconds.         *)
EXTENDS Integers

Unlimited == -1
Tiers == {"guest", "free", "pro", "admin"}
Modes == {"NORMAL", "CAUTION", "RESTRICTED", "EMERGENCY"}

(* The environment's limits of a tier (LIMIT_FREE_DAILY and its siblings). *)
BaseLimits == [daily_limit : Int, char_limit : Int, cooldown : Nat]

NoCap == 0

(* usage / cap against 0.95, 0.80 and 0.60. *)
ProtectionMode(usage, cap) ==
  LET Reaches(percent) == cap > NoCap /\ 100 * usage >= percent * cap
  IN IF Reaches(95) THEN "EMERGENCY"
     ELSE IF Reaches(80) THEN "RESTRICTED"
     ELSE IF Reaches(60) THEN "CAUTION" ELSE "NORMAL"

AtLeast(floor, n) == IF n < floor THEN floor ELSE n
AtMost(ceiling, n) == IF n > ceiling THEN ceiling ELSE n

Factor == [CAUTION |-> 80, RESTRICTED |-> 50, EMERGENCY |-> 20]
FreeCooldown == [CAUTION |-> 10, RESTRICTED |-> 20, EMERGENCY |-> 30]
ProCharCap == [RESTRICTED |-> 25000, EMERGENCY |-> 10000]
ProCooldown == [RESTRICTED |-> 2, EMERGENCY |-> 5]
EmergencyCharCap == 300

(* int(limit * factor) truncates towards zero. *)
Scaled(n, mode) ==
  IF n >= 0 THEN (n * Factor[mode]) \div 100 ELSE -((-n * Factor[mode]) \div 100)

(* Mutants: the forms a plausible mistake would give these definitions. *)

(* The floor of 300 characters that AUDIT-FIX-01 replaced. *)
FreePolicyFloor(base, mode) ==
  IF mode = "NORMAL" THEN base
  ELSE LET chars == AtLeast(100, Scaled(base.char_limit, mode))
       IN [daily_limit |-> AtLeast(1, Scaled(base.daily_limit, mode)),
           char_limit |-> IF mode = "EMERGENCY"
                            THEN AtLeast(EmergencyCharCap, chars) ELSE chars,
           cooldown |-> FreeCooldown[mode]]

(* The cap replaces the configured limit instead of bounding it. *)
ProPolicyReplaces(base, mode) ==
  [daily_limit |-> base.daily_limit,
   char_limit |-> IF mode \in DOMAIN ProCharCap
                    THEN ProCharCap[mode] ELSE base.char_limit,
   cooldown |-> IF mode \in DOMAIN ProCooldown THEN ProCooldown[mode] ELSE 0]

FreePolicy(base, mode) ==
  IF mode = "NORMAL" THEN base
  ELSE LET chars == AtLeast(100, Scaled(base.char_limit, mode))
       IN [daily_limit |-> AtLeast(1, Scaled(base.daily_limit, mode)),
           char_limit |-> IF mode = "EMERGENCY"
                            THEN AtMost(EmergencyCharCap, chars) ELSE chars,
           cooldown |-> FreeCooldown[mode]]

ProPolicy(base, mode) ==
  [daily_limit |-> base.daily_limit,
   char_limit |-> IF mode \in DOMAIN ProCharCap
                    THEN AtMost(ProCharCap[mode], base.char_limit) ELSE base.char_limit,
   cooldown |-> IF mode \in DOMAIN ProCooldown THEN ProCooldown[mode] ELSE 0]

AdminPolicy == [daily_limit |-> Unlimited, char_limit |-> Unlimited, cooldown |-> 0]

(* compute_quota_policy; guests and free users differ in their base only. *)
Policy(tier, base, mode) ==
  CASE tier = "admin" -> AdminPolicy
    [] tier = "pro" -> ProPolicy(base, mode)
    [] OTHER -> FreePolicy(base, mode)

(* A policy that lets a request be no larger, and come no sooner or more      *)
(* often, than another does.                                                 *)
NoLooserLimit(a, b) == IF b = Unlimited THEN TRUE ELSE a # Unlimited /\ a <= b
NoLooser(p, q) ==
  /\ NoLooserLimit(p.daily_limit, q.daily_limit)
  /\ NoLooserLimit(p.char_limit, q.char_limit)
  /\ p.cooldown >= q.cooldown
==============================================================================
