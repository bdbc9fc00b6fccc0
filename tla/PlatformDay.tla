----------------------------- MODULE PlatformDay -----------------------------
(* One day of the platform: the policy a tier is held to while completed      *)
(* translations use up PLATFORM_DAILY_CAP_TRANSLATIONS.                       *)
EXTENDS QuotaPolicy

CONSTANTS Bases,      \* configured limits
          Caps,       \* configured caps, NoCap for none
          MaxUsage    \* bound: translations of the day

(* Limits below the floors that protection guarantees, or a cooldown above    *)
(* its shortest, would be loosened by it.                                     *)
ASSUME BasesAssumption ==
  /\ Bases \subseteq BaseLimits
  /\ \A b \in Bases : b.daily_limit >= 1 /\ b.char_limit >= 100 /\ b.cooldown <= 10
  /\ Caps \subseteq Nat
  /\ MaxUsage \in Nat

VARIABLES tier, base, cap, completed

dayVars == <<tier, base, cap, completed>>

DayInit ==
  /\ tier \in Tiers
  /\ base \in Bases
  /\ cap \in Caps
  /\ completed = 0

(* increment_platform_daily_usage *)
Complete ==
  /\ completed < MaxUsage
  /\ completed' = completed + 1
  /\ UNCHANGED <<tier, base, cap>>

DaySpec == DayInit /\ [][Complete]_dayVars

Limits == Policy(tier, base, ProtectionMode(completed, cap))

(* Protection only ever tightens as the day's usage grows: no completed       *)
(* translation gives anyone a larger request, a higher daily limit or a       *)
(* shorter cooldown (get_active_protection_mode with compute_quota_policy).   *)
Tightens == [][NoLooser(Limits', Limits)]_dayVars

(* "a hard ceiling of 300 chars in EMERGENCY mode" (AUDIT-FIX-01, policy.py)  *)
(* that still leaves guests and free users one translation of 100 characters. *)
EmergencyBounds ==
  (tier \in {"guest", "free"} /\ ProtectionMode(completed, cap) = "EMERGENCY") =>
     Limits.char_limit \in 100..300 /\ Limits.daily_limit >= 1
==============================================================================
