--------------------------- MODULE PlatformDayProofs ---------------------------
(* Theorems about PlatformDay: for every configured limit above the floors,   *)
(* every cap and every amount of usage.                                       *)
EXTENDS PlatformDay, TLAPS

(* How strict a mode is. *)
Rank == [NORMAL |-> 0, CAUTION |-> 1, RESTRICTED |-> 2, EMERGENCY |-> 3]

LEMMA ModeType ==
  ASSUME NEW u \in Int, NEW c \in Int
  PROVE  ProtectionMode(u, c) \in Modes
BY DEF ProtectionMode, Modes

(* More usage never relaxes the mode. *)
LEMMA ModeTightens ==
  ASSUME NEW u \in Nat, NEW c \in Nat
  PROVE  Rank[ProtectionMode(u, c)] <= Rank[ProtectionMode(u + 1, c)]
BY DEF ProtectionMode, Rank

(* A smaller factor never gives more, and no factor gives more than all. *)
LEMMA ScaledOrder ==
  ASSUME NEW n \in Nat
  PROVE  /\ \A m \in {"CAUTION", "RESTRICTED", "EMERGENCY"} : Scaled(n, m) \in 0..n
         /\ Scaled(n, "EMERGENCY") <= Scaled(n, "RESTRICTED")
         /\ Scaled(n, "RESTRICTED") <= Scaled(n, "CAUTION")
<1>1. /\ Scaled(n, "CAUTION") = (n * 80) \div 100
      /\ Scaled(n, "RESTRICTED") = (n * 50) \div 100
      /\ Scaled(n, "EMERGENCY") = (n * 20) \div 100
  BY DEF Scaled, Factor
<1>2. /\ (n * 20) \div 100 \in 0..n
      /\ (n * 50) \div 100 \in 0..n
      /\ (n * 80) \div 100 \in 0..n
      /\ (n * 20) \div 100 <= (n * 50) \div 100
      /\ (n * 50) \div 100 <= (n * 80) \div 100
  OBVIOUS
<1>. QED  BY <1>1, <1>2

Sensible == {b \in BaseLimits : b.daily_limit >= 1 /\ b.char_limit >= 100 /\ b.cooldown <= 10}

(* A stricter mode is no looser for guests and free users. *)
LEMMA FreeTightens ==
  ASSUME NEW b \in Sensible, NEW m \in Modes, NEW n \in Modes, Rank[m] <= Rank[n]
  PROVE  NoLooser(FreePolicy(b, n), FreePolicy(b, m))
<1>. DEFINE d(x) == AtLeast(1, Scaled(b.daily_limit, x))
            c(x) == AtLeast(100, Scaled(b.char_limit, x))
<1>0. /\ b.daily_limit \in Nat /\ b.daily_limit >= 1
      /\ b.char_limit \in Nat /\ b.char_limit >= 100
      /\ b.cooldown \in Nat /\ b.cooldown <= 10
  BY DEF Sensible, BaseLimits
<1>1. /\ \A x \in {"CAUTION", "RESTRICTED", "EMERGENCY"} : d(x) \in 1..b.daily_limit
      /\ d("EMERGENCY") <= d("RESTRICTED") /\ d("RESTRICTED") <= d("CAUTION")
  BY <1>0, ScaledOrder DEF AtLeast
<1>2. /\ \A x \in {"CAUTION", "RESTRICTED", "EMERGENCY"} : c(x) \in 100..b.char_limit
      /\ c("EMERGENCY") <= c("RESTRICTED") /\ c("RESTRICTED") <= c("CAUTION")
  BY <1>0, ScaledOrder DEF AtLeast
<1>3. /\ FreePolicy(b, "NORMAL") = b
      /\ FreePolicy(b, "CAUTION") =
           [daily_limit |-> d("CAUTION"), char_limit |-> c("CAUTION"), cooldown |-> 10]
      /\ FreePolicy(b, "RESTRICTED") =
           [daily_limit |-> d("RESTRICTED"), char_limit |-> c("RESTRICTED"), cooldown |-> 20]
      /\ FreePolicy(b, "EMERGENCY") =
           [daily_limit |-> d("EMERGENCY"), char_limit |-> AtMost(300, c("EMERGENCY")),
            cooldown |-> 30]
  BY DEF FreePolicy, FreeCooldown, EmergencyCharCap
<1>4. AtMost(300, c("EMERGENCY")) \in 100..c("EMERGENCY")
  BY <1>2 DEF AtMost
<1>. HIDE DEF d, c
<1>5. CASE m = n
  <2>1. FreePolicy(b, m).daily_limit \in Int /\ FreePolicy(b, m).char_limit \in Int
        /\ FreePolicy(b, m).cooldown \in Int
    BY <1>0, <1>1, <1>2, <1>3, <1>4 DEF Modes
  <2>. QED  BY <1>5, <2>1 DEF NoLooser, NoLooserLimit
<1>6. CASE m = "NORMAL" /\ n # "NORMAL"
  BY <1>0, <1>1, <1>2, <1>3, <1>4, <1>6 DEF NoLooser, NoLooserLimit, Unlimited, Modes
<1>7. CASE m = "CAUTION" /\ n \in {"RESTRICTED", "EMERGENCY"}
  BY <1>0, <1>1, <1>2, <1>3, <1>4, <1>7 DEF NoLooser, NoLooserLimit, Unlimited, Modes
<1>8. CASE m = "RESTRICTED" /\ n = "EMERGENCY"
  BY <1>0, <1>1, <1>2, <1>3, <1>4, <1>8 DEF NoLooser, NoLooserLimit, Unlimited, Modes
<1>. QED  BY <1>5, <1>6, <1>7, <1>8 DEF Modes, Rank

(* The same for Pro users. *)
LEMMA ProTightens ==
  ASSUME NEW b \in Sensible, NEW m \in Modes, NEW n \in Modes, Rank[m] <= Rank[n]
  PROVE  NoLooser(ProPolicy(b, n), ProPolicy(b, m))
<1>0. b.daily_limit \in Nat /\ b.char_limit \in Nat /\ b.char_limit >= 100
  BY DEF Sensible, BaseLimits
<1>1. /\ ProPolicy(b, "NORMAL") =
           [daily_limit |-> b.daily_limit, char_limit |-> b.char_limit, cooldown |-> 0]
      /\ ProPolicy(b, "CAUTION") =
           [daily_limit |-> b.daily_limit, char_limit |-> b.char_limit, cooldown |-> 0]
      /\ ProPolicy(b, "RESTRICTED") =
           [daily_limit |-> b.daily_limit, char_limit |-> AtMost(25000, b.char_limit),
            cooldown |-> 2]
      /\ ProPolicy(b, "EMERGENCY") =
           [daily_limit |-> b.daily_limit, char_limit |-> AtMost(10000, b.char_limit),
            cooldown |-> 5]
  BY DEF ProPolicy, ProCharCap, ProCooldown
<1>2. /\ AtMost(25000, b.char_limit) \in 100..b.char_limit
      /\ AtMost(10000, b.char_limit) \in 100..AtMost(25000, b.char_limit)
  BY <1>0 DEF AtMost
<1>3. CASE m \in {"NORMAL", "CAUTION"}
  BY <1>0, <1>1, <1>2, <1>3 DEF NoLooser, NoLooserLimit, Unlimited, Modes
<1>4. CASE m = "RESTRICTED"
  BY <1>0, <1>1, <1>2, <1>4 DEF NoLooser, NoLooserLimit, Unlimited, Modes, Rank
<1>5. CASE m = "EMERGENCY"
  BY <1>0, <1>1, <1>2, <1>5 DEF NoLooser, NoLooserLimit, Unlimited, Modes, Rank
<1>. QED  BY <1>3, <1>4, <1>5 DEF Modes

DayInv == tier \in Tiers /\ base \in Sensible /\ cap \in Nat /\ completed \in Nat

LEMMA DayInvHolds == DaySpec => []DayInv
<1>1. DayInit => DayInv
  BY BasesAssumption DEF DayInit, DayInv, Sensible
<1>2. DayInv /\ [Complete]_dayVars => DayInv'
  BY DEF DayInv, Complete, dayVars
<1>. QED  BY <1>1, <1>2, PTL DEF DaySpec

(* No completed translation loosens anyone's limits, for every configuration  *)
(* above the floors (get_active_protection_mode with compute_quota_policy).   *)
THEOREM ProtectionTightens == DaySpec => Tightens
<1>1. DayInv /\ [Complete]_dayVars => [NoLooser(Limits', Limits)]_dayVars
  <2>. SUFFICES ASSUME DayInv, Complete PROVE NoLooser(Limits', Limits)
    BY DEF dayVars
  <2>. DEFINE m == ProtectionMode(completed, cap)
              n == ProtectionMode(completed + 1, cap)
  <2>1. /\ m \in Modes /\ n \in Modes
        /\ Rank[m] <= Rank[n]
    BY ModeType, ModeTightens DEF DayInv
  <2>2. Limits = Policy(tier, base, m) /\ Limits' = Policy(tier, base, n)
    BY DEF Limits, Complete
  <2>. HIDE DEF m, n
  <2>3. CASE tier = "admin"
    BY <2>2, <2>3 DEF Policy, AdminPolicy, NoLooser, NoLooserLimit
  <2>4. CASE tier = "pro"
    <3>1. NoLooser(ProPolicy(base, n), ProPolicy(base, m))
      BY <2>1, ProTightens DEF DayInv
    <3>. QED  BY <2>2, <2>4, <3>1 DEF Policy
  <2>5. CASE tier \in {"guest", "free"}
    <3>1. NoLooser(FreePolicy(base, n), FreePolicy(base, m))
      BY <2>1, FreeTightens DEF DayInv
    <3>2. tier # "admin" /\ tier # "pro"
      BY <2>5
    <3>. QED  BY <2>2, <3>1, <3>2 DEF Policy
  <2>. QED  BY <2>3, <2>4, <2>5 DEF DayInv, Tiers
<1>. QED  BY <1>1, DayInvHolds, PTL DEF Tightens, DaySpec

(* In EMERGENCY a guest or free user may send between 100 and 300 characters  *)
(* and translate at least once, whatever is configured (policy.py).           *)
THEOREM EmergencyIsBounded == DaySpec => []EmergencyBounds
<1>1. DayInv => EmergencyBounds
  <2>. SUFFICES ASSUME DayInv, tier \in {"guest", "free"},
                       ProtectionMode(completed, cap) = "EMERGENCY"
                PROVE  Limits.char_limit \in 100..300 /\ Limits.daily_limit >= 1
    BY DEF EmergencyBounds
  <2>. DEFINE s == Scaled(base.daily_limit, "EMERGENCY")
              t == Scaled(base.char_limit, "EMERGENCY")
  <2>1. s \in Nat /\ t \in Nat
    BY ScaledOrder DEF DayInv, Sensible, BaseLimits
  <2>. HIDE DEF s, t
  <2>2. tier # "admin" /\ tier # "pro"
    OBVIOUS
  <2>3. Limits = FreePolicy(base, "EMERGENCY")
    BY <2>2 DEF Limits, Policy
  <2>4. FreePolicy(base, "EMERGENCY").daily_limit = AtLeast(1, s)
        /\ FreePolicy(base, "EMERGENCY").char_limit = AtMost(300, AtLeast(100, t))
    BY DEF FreePolicy, EmergencyCharCap, s, t
  <2>. QED  BY <2>1, <2>3, <2>4 DEF AtLeast, AtMost
<1>. QED  BY <1>1, DayInvHolds, PTL
==============================================================================
