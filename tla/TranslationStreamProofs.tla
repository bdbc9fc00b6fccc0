----------------------- MODULE TranslationStreamProofs -----------------------
(* Theorems about TranslationStream, for any number of streams, slots and     *)
(* providers.  Only three variables matter to the slots; each action is first *)
(* reduced to what it does to those.                                          *)
EXTENDS TranslationStream, FiniteSetTheorems, WellFoundedInduction, TLAPS

Holders(p) == {s \in Streams : p[s] \in Holding}
Waits(l) == l \in {"waiting", "granted"}

(* The queue holds every stream that waits or was handed a slot, once. *)
QueueFor(q, p) ==
  /\ q \in Seq(Streams)
  /\ \A i, j \in DOMAIN q : q[i] = q[j] => i = j
  /\ \A s \in Streams : Waits(p[s]) <=> \E i \in DOMAIN q : q[i] = s

Wakes(p, f) ==
  (f > 0 /\ \E s \in Streams : p[s] = "waiting") => \E s \in Streams : p[s] = "granted"

SlotInv ==
  /\ pc \in [Streams -> States]
  /\ free \in Nat
  /\ QueueFor(queue, pc)
  /\ free + Cardinality(Holders(pc)) = Slots
  /\ Wakes(pc, free)

LEMMA HoldersFinite ==
  ASSUME NEW p
  PROVE  IsFiniteSet(Holders(p)) /\ Cardinality(Holders(p)) \in Nat
<1>1. Holders(p) \subseteq Streams
  BY DEF Holders
<1>. QED  BY <1>1, StreamAssumption, FS_Subset, FS_CardinalityType

(* One stream that comes to a slot, or leaves one, changes the count by one. *)
LEMMA HoldersMore ==
  ASSUME NEW p \in [Streams -> States], NEW s \in Streams, NEW l \in States,
         p[s] \notin Holding, l \in Holding
  PROVE  Cardinality(Holders([p EXCEPT ![s] = l])) = Cardinality(Holders(p)) + 1
<1>1. Holders([p EXCEPT ![s] = l]) = Holders(p) \cup {s} /\ s \notin Holders(p)
  BY DEF Holders
<1>. QED  BY <1>1, HoldersFinite, FS_AddElement

LEMMA HoldersLess ==
  ASSUME NEW p \in [Streams -> States], NEW s \in Streams, NEW l \in States,
         p[s] \in Holding, l \notin Holding
  PROVE  Cardinality(Holders([p EXCEPT ![s] = l])) = Cardinality(Holders(p)) - 1
<1>1. Holders([p EXCEPT ![s] = l]) = Holders(p) \ {s} /\ s \in Holders(p)
  BY DEF Holders
<1>. QED  BY <1>1, HoldersFinite, FS_RemoveElement

LEMMA HoldersSame ==
  ASSUME NEW p \in [Streams -> States], NEW s \in Streams, NEW l \in States,
         p[s] \in Holding <=> l \in Holding
  PROVE  Holders([p EXCEPT ![s] = l]) = Holders(p)
BY DEF Holders

(* A waiter that leaves the queue leaves the others in their order. *)
LEMMA WithoutQueue ==
  ASSUME NEW p \in [Streams -> States], NEW q, QueueFor(q, p),
         NEW s \in Streams, Waits(p[s]), NEW l \in States, ~Waits(l)
  PROVE  QueueFor(Without(q, s), [p EXCEPT ![s] = l])
<1>. DEFINE n == CHOOSE i \in DOMAIN q : q[i] = s
            r == [i \in 1..(Len(q) - 1) |-> IF i < n THEN q[i] ELSE q[i + 1]]
            pp == [p EXCEPT ![s] = l]
<1>0. q \in Seq(Streams) /\ Len(q) \in Nat /\ DOMAIN q = 1..Len(q)
  BY DEF QueueFor
<1>1. n \in 1..Len(q) /\ q[n] = s
  BY <1>0 DEF QueueFor
<1>2. Without(q, s) = r
  BY DEF Without
<1>. HIDE DEF n
<1>3. r \in Seq(Streams) /\ DOMAIN r = 1..(Len(q) - 1)
  BY <1>0, <1>1
<1>4. \A i, j \in 1..Len(q) : q[i] = q[j] => i = j
  BY <1>0 DEF QueueFor
<1>5. \A i \in 1..(Len(q) - 1) : r[i] = IF i < n THEN q[i] ELSE q[i + 1]
  OBVIOUS
<1>. HIDE DEF r
<1>6. \A i, j \in DOMAIN r : r[i] = r[j] => i = j
  BY <1>0, <1>1, <1>3, <1>4, <1>5
<1>7. \A i \in DOMAIN r : r[i] # s
  BY <1>0, <1>1, <1>3, <1>4, <1>5
<1>8. \A t \in Streams \ {s} : (\E i \in DOMAIN q : q[i] = t) <=> \E i \in DOMAIN r : r[i] = t
  <2>. SUFFICES ASSUME NEW t \in Streams, t # s
                PROVE  (\E i \in DOMAIN q : q[i] = t) <=> \E i \in DOMAIN r : r[i] = t
    OBVIOUS
  <2>1. ASSUME NEW i \in DOMAIN r, r[i] = t PROVE \E j \in DOMAIN q : q[j] = t
    BY <2>1, <1>0, <1>1, <1>3, <1>5
  <2>2. ASSUME NEW i \in DOMAIN q, q[i] = t PROVE \E j \in DOMAIN r : r[j] = t
    <3>1. i # n
      BY <2>2, <1>1
    <3>2. CASE i < n
      <4>1. i \in DOMAIN r /\ r[i] = t
        BY <3>2, <2>2, <1>0, <1>1, <1>3, <1>5
      <4>. QED  BY <4>1
    <3>3. CASE i > n
      <4>1. i - 1 \in DOMAIN r /\ r[i - 1] = t
        BY <3>3, <2>2, <1>0, <1>1, <1>3, <1>5
      <4>. QED  BY <4>1
    <3>. QED  BY <3>1, <3>2, <3>3, <1>0, <1>1
  <2>. QED  BY <2>1, <2>2
<1>9. \A t \in Streams : Waits(pp[t]) <=> \E i \in DOMAIN r : r[i] = t
  <2>. TAKE t \in Streams
  <2>1. CASE t = s
    BY <2>1, <1>7
  <2>2. CASE t # s
    BY <2>2, <1>8 DEF QueueFor
  <2>. QED  BY <2>1, <2>2
<1>. QED  BY <1>2, <1>3, <1>6, <1>9 DEF QueueFor

(* A set of numbers has a least one. *)
Below == {r \in Nat \X Nat : r[1] < r[2]}
LEMMA Least ==
  ASSUME NEW W, W \subseteq Nat, W # {}
  PROVE  \E n \in W : \A i \in W : n <= i
<1>1. IsWellFoundedOn(Below, Nat)
  BY NatLessThanWellFounded DEF OpToRel, Below
<1>2. PICK n \in W : \A i \in W : <<i, n>> \notin Below
  BY <1>1, WFMin
<1>3. \A i, j \in Nat : <<i, j>> \notin Below => j <= i
  BY DEF Below
<1>. QED  BY <1>2, <1>3

(* At most one waiter is first, and there is one as long as somebody waits. *)
LEMMA FirstIsOne ==
  ASSUME NEW p \in [Streams -> States], NEW q, QueueFor(q, p),
         \E s \in Streams : p[s] = "waiting"
  PROVE  \E t \in Streams : p[t] = "waiting" /\ FirstWaiting(p, q) = {t}
<1>. DEFINE W == {i \in DOMAIN q : p[q[i]] = "waiting"}
<1>0. q \in Seq(Streams) /\ Len(q) \in Nat /\ DOMAIN q = 1..Len(q)
      /\ \A i \in DOMAIN q : q[i] \in Streams
  BY DEF QueueFor
<1>1. W # {} /\ W \subseteq Nat
  BY <1>0 DEF QueueFor, Waits
<1>3. PICK n \in W : \A i \in W : n <= i
  BY <1>1, Least
<1>4. \A j \in 1..(n - 1) : p[q[j]] # "waiting"
  BY <1>0, <1>3
<1>5. q[n] \in FirstWaiting(p, q) /\ p[q[n]] = "waiting"
  BY <1>0, <1>4 DEF FirstWaiting
<1>6. ASSUME NEW t \in FirstWaiting(p, q) PROVE t = q[n]
  <2>1. PICK i \in DOMAIN q : q[i] = t /\ p[t] = "waiting" /\ \A j \in 1..(i - 1) : p[q[j]] # "waiting"
    BY DEF FirstWaiting
  <2>2. n <= i
    BY <2>1, <1>3
  <2>3. ~(n < i)
    BY <2>1, <1>0, <1>5
  <2>. QED  BY <2>1, <2>2, <2>3, <1>0
<1>. QED  BY <1>0, <1>5, <1>6

LEMMA NoneIsFirst ==
  ASSUME NEW p, NEW q, ~ \E s \in Streams : p[s] = "waiting"
  PROVE  FirstWaiting(p, q) = {}
BY DEF FirstWaiting

(* What a stream does when it takes, gives back or passes on a slot: whoever  *)
(* is woken takes the slot, and if a slot is left nobody waits or one is      *)
(* woken.                                                                     *)
LEMMA WakeNextKeeps ==
  ASSUME pc \in [Streams -> States],
         NEW s \in Streams, NEW l \in States, NEW q, NEW f \in Nat,
         QueueFor(q, [pc EXCEPT ![s] = l]),
         f + Cardinality(Holders([pc EXCEPT ![s] = l])) = Slots,
         WakeNext(s, l, q, f)
  PROVE  SlotInv'
<1>. DEFINE p == [pc EXCEPT ![s] = l]
            next == IF f > 0 THEN FirstWaiting(p, q) ELSE {}
<1>1. p \in [Streams -> States]
  OBVIOUS
<1>2. /\ pc' = [t \in Streams |-> IF t \in next THEN "granted" ELSE p[t]]
      /\ free' = f - Cardinality(next)
      /\ queue' = q
  BY DEF WakeNext
<1>3. CASE next = {}
  <2>. HIDE DEF p, next
  <2>1. pc' = p /\ free' = f
    BY <1>1, <1>2, <1>3, FS_EmptySet
  <2>. USE DEF p, next
  <2>2. ~(f > 0 /\ \E t \in Streams : p[t] = "waiting")
    BY <1>1, <1>3, FirstIsOne
  <2>. QED  BY <1>1, <1>2, <2>1, <2>2 DEF SlotInv, Wakes
<1>4. CASE next # {}
  <2>1. f > 0 /\ next = FirstWaiting(p, q)
    BY <1>4
  <2>2. \E t \in Streams : p[t] = "waiting"
    BY <1>4, <2>1, NoneIsFirst
  <2>3. PICK t \in Streams : p[t] = "waiting" /\ FirstWaiting(p, q) = {t}
    BY <1>1, <2>2, FirstIsOne
  <2>. HIDE DEF p
  <2>4. pc' = [p EXCEPT ![t] = "granted"] /\ free' = f - 1
    BY <1>1, <1>2, <2>1, <2>3, FS_Singleton
  <2>5. Cardinality(Holders(pc')) = Cardinality(Holders(p)) + 1
    BY <1>1, <2>3, <2>4, HoldersMore DEF Holding, States
  <2>6. free' + Cardinality(Holders(pc')) = Slots
    <3>1. f + Cardinality(Holders(p)) = Slots
      BY DEF p
    <3>. QED  BY <2>4, <2>5, <3>1, HoldersFinite
  <2>7. QueueFor(q, pc')
    <3>1. QueueFor(q, p)
      BY DEF p
    <3>2. \A r \in Streams : Waits(pc'[r]) <=> Waits(p[r])
      BY <1>1, <2>3, <2>4 DEF Waits
    <3>. QED  BY <3>1, <3>2 DEF QueueFor
  <2>8. pc' \in [Streams -> States] /\ pc'[t] = "granted"
    BY <1>1, <2>4 DEF States
  <2>9. free' \in Nat
    BY <2>1, <2>4
  <2>. QED  BY <1>2, <2>6, <2>7, <2>8, <2>9 DEF SlotInv, Wakes
<1>. QED  BY <1>3, <1>4

(* A step that neither takes nor leaves a slot or the queue. *)
LEMMA MovedKeeps ==
  ASSUME SlotInv, NEW s \in Streams, NEW l \in States, pc' = [pc EXCEPT ![s] = l],
         ~Waits(pc[s]), ~Waits(l), pc[s] \in Holding <=> l \in Holding, UNCHANGED slotVars
  PROVE  SlotInv'
<1>1. Holders(pc') = Holders(pc)
  BY HoldersSame DEF SlotInv
<1>2. \A t \in Streams : Waits(pc'[t]) <=> Waits(pc[t])
  BY DEF SlotInv
<1>3. QueueFor(queue', pc')
  BY <1>2 DEF SlotInv, QueueFor, slotVars
<1>4. Wakes(pc', free')
  BY DEF SlotInv, Wakes, Waits, slotVars
<1>. QED  BY <1>1, <1>3, <1>4 DEF SlotInv, slotVars

LEMMA ReleaseKeeps ==
  ASSUME SlotInv, NEW s \in Streams, NEW l \in States, pc[s] \in {"next", "streaming"},
         l \notin Holding, ~Waits(l), Release(s, l)
  PROVE  SlotInv'
<1>. DEFINE p == [pc EXCEPT ![s] = l]
<1>0. pc \in [Streams -> States] /\ free \in Nat /\ pc[s] \in Holding
  BY DEF SlotInv, Holding
<1>1. free + 1 + Cardinality(Holders(p)) = Slots
  <2>1. Cardinality(Holders(p)) = Cardinality(Holders(pc)) - 1
    BY <1>0, HoldersLess
  <2>2. free + Cardinality(Holders(pc)) = Slots
    BY DEF SlotInv
  <2>3. Cardinality(Holders(pc)) \in Nat
    BY HoldersFinite
  <2>. HIDE DEF p
  <2>. QED  BY <1>0, <2>1, <2>2, <2>3
<1>2. QueueFor(queue, p)
  <2>1. \A t \in Streams : Waits(p[t]) <=> Waits(pc[t])
    BY DEF SlotInv, Waits
  <2>. QED  BY <2>1 DEF SlotInv, QueueFor
<1>3. WakeNext(s, l, queue, free + 1) /\ free + 1 \in Nat
  BY <1>0 DEF Release
<1>. QED  BY <1>0, <1>1, <1>2, <1>3, WakeNextKeeps

LEMMA GiveUpKeeps ==
  ASSUME SlotInv, NEW s \in Streams, NEW l \in States,
         l \notin Holding, ~Waits(l), GiveUp(s, l)
  PROVE  SlotInv'
<1>. DEFINE p == [pc EXCEPT ![s] = l]
<1>0. Waits(pc[s])
  BY DEF GiveUp, Waits
<1>1. QueueFor(Without(queue, s), p)
  BY <1>0, WithoutQueue DEF SlotInv
<1>2. CASE pc[s] = "waiting" /\ pc' = p /\ queue' = Without(queue, s) /\ free' = free
  <2>1. Holders(p) = Holders(pc)
    BY <1>2, HoldersSame DEF SlotInv, Holding
  <2>2. Wakes(p, free)
    BY <1>2 DEF SlotInv, Wakes, Waits
  <2>3. p \in [Streams -> States]
    BY DEF SlotInv
  <2>. QED  BY <1>1, <1>2, <2>1, <2>2, <2>3 DEF SlotInv
<1>3. CASE pc[s] = "granted" /\ WakeNext(s, l, Without(queue, s), free + 1)
  <2>0. pc \in [Streams -> States] /\ free \in Nat /\ pc[s] \in Holding
    BY <1>3 DEF SlotInv, Holding
  <2>1. free + 1 + Cardinality(Holders(p)) = Slots
    <3>1. Cardinality(Holders(p)) = Cardinality(Holders(pc)) - 1
      BY <2>0, HoldersLess
    <3>2. free + Cardinality(Holders(pc)) = Slots
      BY DEF SlotInv
    <3>3. Cardinality(Holders(pc)) \in Nat
      BY HoldersFinite
    <3>. HIDE DEF p
    <3>. QED  BY <2>0, <3>1, <3>2, <3>3
  <2>2. free + 1 \in Nat
    BY <2>0
  <2>. QED  BY <1>1, <1>3, <2>0, <2>1, <2>2, WakeNextKeeps
<1>. QED  BY <1>2, <1>3 DEF GiveUp, Go

LEMMA AcquireKeeps ==
  ASSUME SlotInv, NEW s \in Streams, Acquire(s)
  PROVE  SlotInv'
<1>0. pc[s] = "limits" /\ pc \in [Streams -> States] /\ free \in Nat
  BY DEF Acquire, SlotInv
<1>1. CASE free > 0 /\ queue = <<>>
  <2>1. pc' = [pc EXCEPT ![s] = "next"] /\ free' = free - 1 /\ queue' = queue
    BY <1>1 DEF Acquire, Go
  <2>2. Cardinality(Holders(pc')) = Cardinality(Holders(pc)) + 1
    BY <1>0, <2>1, HoldersMore DEF Holding, States
  <2>3. free' + Cardinality(Holders(pc')) = Slots
    BY <1>0, <2>1, <2>2, HoldersFinite DEF SlotInv
  <2>4. \A t \in Streams : Waits(pc'[t]) <=> Waits(pc[t])
    BY <1>0, <2>1 DEF Waits
  <2>5. QueueFor(queue', pc')
    BY <2>1, <2>4 DEF SlotInv, QueueFor
  <2>6. \A t \in Streams : ~Waits(pc'[t])
    BY <1>1, <2>4 DEF SlotInv, QueueFor
  <2>7. Wakes(pc', free')
    BY <2>6 DEF Wakes, Waits
  <2>8. pc' \in [Streams -> States]
    BY <1>0, <2>1 DEF States
  <2>9. free' \in Nat
    BY <1>0, <1>1, <2>1
  <2>. QED  BY <2>3, <2>5, <2>7, <2>8, <2>9 DEF SlotInv
<1>2. CASE ~(free > 0 /\ queue = <<>>)
  <2>1. pc' = [pc EXCEPT ![s] = "waiting"] /\ free' = free /\ queue' = Append(queue, s)
    BY <1>2 DEF Acquire, Go
  <2>2. Holders(pc') = Holders(pc)
    BY <1>0, <2>1, HoldersSame DEF Holding, States
  <2>3. QueueFor(queue', pc')
    <3>1. queue \in Seq(Streams) /\ Len(queue) \in Nat /\ DOMAIN queue = 1..Len(queue)
      BY DEF SlotInv, QueueFor
    <3>2. /\ queue' \in Seq(Streams) /\ DOMAIN queue' = 1..(Len(queue) + 1)
          /\ \A i \in 1..Len(queue) : queue'[i] = queue[i]
          /\ queue'[Len(queue) + 1] = s
      BY <2>1, <3>1
    <3>3. \A i \in DOMAIN queue : queue[i] # s
      BY <1>0 DEF SlotInv, QueueFor, Waits
    <3>4. \A i, j \in DOMAIN queue : queue[i] = queue[j] => i = j
      BY DEF SlotInv, QueueFor
    <3>5. \A i, j \in DOMAIN queue' : queue'[i] = queue'[j] => i = j
      BY <3>1, <3>2, <3>3, <3>4
    <3>6. \A t \in Streams : Waits(pc'[t]) <=> \E i \in DOMAIN queue' : queue'[i] = t
      <4>. TAKE t \in Streams
      <4>1. CASE t = s
        BY <4>1, <1>0, <2>1, <3>1, <3>2 DEF Waits
      <4>2. CASE t # s
        <5>1. Waits(pc'[t]) <=> Waits(pc[t])
          BY <4>2, <1>0, <2>1
        <5>2. Waits(pc[t]) <=> \E i \in DOMAIN queue : queue[i] = t
          BY DEF SlotInv, QueueFor
        <5>3. (\E i \in DOMAIN queue : queue[i] = t) <=> \E i \in DOMAIN queue' : queue'[i] = t
          BY <4>2, <3>1, <3>2
        <5>. QED  BY <5>1, <5>2, <5>3
      <4>. QED  BY <4>1, <4>2
    <3>. QED  BY <3>2, <3>5, <3>6 DEF QueueFor
  <2>4. Wakes(pc', free')
    <3>1. CASE free = 0
      BY <3>1, <2>1 DEF Wakes
    <3>2. CASE free > 0
      <4>1. queue \in Seq(Streams) /\ queue # <<>>
        BY <1>2, <3>2 DEF SlotInv, QueueFor
      <4>2. 1 \in DOMAIN queue /\ queue[1] \in Streams
        BY <4>1
      <4>3. Waits(pc[queue[1]])
        BY <4>2 DEF SlotInv, QueueFor
      <4>4. PICK t \in Streams : pc[t] = "granted"
        BY <3>2, <4>2, <4>3 DEF SlotInv, Wakes, Waits
      <4>5. pc'[t] = "granted"
        BY <4>4, <1>0, <2>1
      <4>. QED  BY <4>5 DEF Wakes
    <3>. QED  BY <3>1, <3>2, <1>0
  <2>5. pc' \in [Streams -> States]
    BY <1>0, <2>1 DEF States
  <2>. QED  BY <1>0, <2>1, <2>2, <2>3, <2>4, <2>5 DEF SlotInv
<1>. QED  BY <1>1, <1>2

------------------------------------------------------------------------------
LEMMA SlotInit == Init => SlotInv
<1>. SUFFICES ASSUME Init PROVE SlotInv
  OBVIOUS
<1>1. pc \in [Streams -> States] /\ \A s \in Streams : pc[s] \in {"limits", "cache", "ast"}
  BY DEF Init, States
<1>2. Holders(pc) = {}
  BY <1>1 DEF Holders, Holding
<1>3. QueueFor(queue, pc) /\ Wakes(pc, free)
  BY <1>1 DEF Init, QueueFor, Wakes, Waits
<1>4. free = Slots /\ Slots \in Nat
  BY StreamAssumption DEF Init
<1>. QED  BY <1>1, <1>2, <1>3, <1>4, FS_EmptySet DEF SlotInv

(* Every action, reduced to what it does to the slots. *)
LEMMA SlotStep == SlotInv /\ [Next]_vars => SlotInv'
<1>. SUFFICES ASSUME SlotInv, [Next]_vars PROVE SlotInv'
  OBVIOUS
<1>. USE DEF Holding, States
<1>1. CASE UNCHANGED vars
  BY <1>1 DEF SlotInv, vars, slotVars
<1>2. ASSUME NEW s \in Streams, Lookup(s) PROVE SlotInv'
  <2>1. PICK l \in {"cache", "limits", "ended", "count", "count AST"} :
          pc' = [pc EXCEPT ![s] = l] /\ pc[s] \in {"ast", "cache"} /\ UNCHANGED slotVars
    BY <1>2 DEF Lookup, HitAst, HitCache, Miss, SendDone, Go
  <2>. QED  BY <2>1, MovedKeeps DEF Waits
<1>3. ASSUME NEW s \in Streams, Slot(s) PROVE SlotInv'
  <2>1. CASE Limit(s)
    BY <2>1, MovedKeeps DEF Limit, Go, Waits
  <2>2. CASE Acquire(s)
    BY <2>2, AcquireKeeps
  <2>3. CASE Resume(s)
    <3>. DEFINE p == [pc EXCEPT ![s] = "next"]
    <3>1. pc \in [Streams -> States] /\ free \in Nat /\ pc[s] = "granted"
          /\ WakeNext(s, "next", Without(queue, s), free)
      BY <2>3 DEF SlotInv, Resume
    <3>2. QueueFor(Without(queue, s), p)
      BY <3>1, WithoutQueue DEF SlotInv, Waits
    <3>3. free + Cardinality(Holders(p)) = Slots
      BY <3>1, HoldersSame DEF SlotInv
    <3>. QED  BY <3>1, <3>2, <3>3, WakeNextKeeps
  <2>4. CASE AcquireTimeout(s)
    BY <2>4, GiveUpKeeps DEF AcquireTimeout, Waits
  <2>. QED  BY <1>3, <2>1, <2>2, <2>3, <2>4 DEF Slot
<1>4. ASSUME NEW s \in Streams, Provide(s) PROVE SlotInv'
  <2>1. CASE Open(s) \/ ProviderFails(s)
    <3>1. PICK l \in {"next", "streaming"} :
            pc' = [pc EXCEPT ![s] = l] /\ pc[s] \in {"next", "streaming"} /\ UNCHANGED slotVars
      BY <2>1 DEF Open, ProviderFails, Go
    <3>. QED  BY <3>1, MovedKeeps DEF Waits
  <2>2. CASE Chunk(s)
    BY <2>2 DEF Chunk, SlotInv, slotVars
  <2>3. CASE ProviderEnds(s)
    <3>1. CASE content[s] = {}
      BY <2>3, <3>1, MovedKeeps DEF ProviderEnds, Go, Waits
    <3>2. CASE content[s] # {}
      BY <2>3, <3>2, ReleaseKeeps DEF ProviderEnds, Waits
    <3>. QED  BY <3>1, <3>2
  <2>4. CASE Exhausted(s)
    <3>1. PICK l \in {"stale", "parse"} : Release(s, l) /\ pc[s] = "next"
      BY <2>4 DEF Exhausted
    <3>. QED  BY <3>1, ReleaseKeeps DEF Waits
  <2>. QED  BY <1>4, <2>1, <2>2, <2>3, <2>4 DEF Provide
<1>5. ASSUME NEW s \in Streams, Finish(s) PROVE SlotInv'
  <2>1. PICK l \in {"ended", "count", "store", "send", "dispatch", "dispatch AST", "cache"} :
          /\ pc' = [pc EXCEPT ![s] = l] /\ UNCHANGED slotVars
          /\ pc[s] \in {"stale", "parse", "store", "send", "count", "count AST",
                        "dispatch", "dispatch AST"}
    BY <1>5 DEF Finish, FindStale, NoStale, Parse, NotParsed, Store, Send, Count,
                Dispatch, DispatchFails, SendDone, Fail, Go
  <2>. QED  BY <2>1, MovedKeeps DEF Waits
<1>6. ASSUME NEW s \in Streams, Disconnect(s) PROVE SlotInv'
  <2>1. CASE GiveUp(s, "cut")
    BY <2>1, GiveUpKeeps DEF Waits
  <2>2. CASE pc[s] \in {"next", "streaming"} /\ Release(s, "cut")
    BY <2>2, ReleaseKeeps DEF Waits
  <2>3. CASE pc[s] \notin Over \cup Holding \cup {"waiting"} /\ Go(s, "cut") /\ UNCHANGED slotVars
    BY <2>3, MovedKeeps DEF Go, Waits
  <2>. QED  BY <1>6, <2>1, <2>2, <2>3 DEF Disconnect
<1>. QED  BY <1>1, <1>2, <1>3, <1>4, <1>5, <1>6 DEF Next

(* Every slot is free or held by exactly one stream, through every timeout,   *)
(* failure and disconnect (get_stream_semaphore and its users).               *)
THEOREM SlotsAreConserved == Spec => []SlotsConserved
<1>1. SlotInv => SlotsConserved
  BY DEF SlotInv, SlotsConserved, Holders
<1>. QED  BY <1>1, SlotInit, SlotStep, PTL DEF Spec

(* A slot is not left free while a stream waits with nobody about to wake it. *)
THEOREM NoWakeupIsLost == Spec => []NoLostWakeup
<1>1. SlotInv => NoLostWakeup
  BY DEF SlotInv, NoLostWakeup, Wakes
<1>. QED  BY <1>1, SlotInit, SlotStep, PTL DEF Spec

------------------------------------------------------------------------------
(* The types of what is not the slots'. *)
RestType ==
  /\ at \in [Streams -> 0..Providers]
  /\ content \in [Streams -> SUBSET (1..Providers)]
  /\ model \in [Streams -> 0..Providers]
  /\ result \in [Streams -> Results \cup {NoResult}]
  /\ cached \in [Endpoints -> Results \cup {NoResult}]
  /\ astCached \in [Depths -> Results \cup {NoResult}]
  /\ answers \in [Streams -> Seq({"done", "error"})]
  /\ counted \in [Streams -> Nat]
  /\ saved \in [Streams -> Nat]
  /\ refused \in [Streams -> 0..BrokerFailures]

(* The text of a stream is that of the provider it listens to, and of nobody  *)
(* else's before it.                                                          *)
TextInv ==
  \A s \in Streams :
    /\ pc[s] \in {"waiting", "granted", "next"} => content[s] = {}
    /\ pc[s] = "streaming" => at[s] \in 1..Providers /\ content[s] \subseteq {at[s]}
    /\ pc[s] = "parse" => content[s] = {model[s]}

LEMMA EarlierType ==
  ASSUME NEW d \in Depths, NEW v \in BOOLEAN
  PROVE  Earlier(d) \in Results /\ [Earlier(d) EXCEPT !.valid = v] \in Results
BY DEF Earlier, Results, Elsewhere

LEMMA TypesSuffice == SlotInv /\ RestType => TypeOK
<1>. SUFFICES ASSUME SlotInv, RestType PROVE TypeOK
  OBVIOUS
<1>1. free \in 0..Slots
  <2>1. free \in Nat /\ free + Cardinality(Holders(pc)) = Slots
    BY DEF SlotInv
  <2>. QED  BY <2>1, HoldersFinite, StreamAssumption
<1>2. queue \in Seq(Streams)
  BY DEF SlotInv, QueueFor
<1>. QED  BY <1>1, <1>2 DEF TypeOK, SlotInv, RestType

LEMMA RestInit == Init => RestType
<1>. SUFFICES ASSUME Init PROVE RestType
  OBVIOUS
<1>1. \A d \in EarlierDepths : Earlier(d) \in Results
  BY EarlierType, StreamAssumption
<1>2. /\ cached \in [Endpoints -> Results \cup {NoResult}]
      /\ astCached \in [Depths -> Results \cup {NoResult}]
  BY <1>1 DEF Init
<1>3. /\ at \in [Streams -> 0..Providers]
      /\ model \in [Streams -> 0..Providers]
      /\ counted \in [Streams -> Nat]
      /\ saved \in [Streams -> Nat]
      /\ refused \in [Streams -> 0..BrokerFailures]
  BY StreamAssumption DEF Init
<1>4. /\ content \in [Streams -> SUBSET (1..Providers)]
      /\ result \in [Streams -> Results \cup {NoResult}]
      /\ answers \in [Streams -> Seq({"done", "error"})]
  BY DEF Init
<1>. QED  BY <1>2, <1>3, <1>4 DEF RestType

LEMMA AnswerType ==
  ASSUME RestType, NEW s \in Streams, NEW a \in {"done", "error"}, Answer(s, a)
  PROVE  answers' \in [Streams -> Seq({"done", "error"})]
BY DEF RestType, Answer

LEMMA RestStep == RestType /\ TextInv /\ [Next]_vars => RestType'
<1>. SUFFICES ASSUME RestType, TextInv, [Next]_vars PROVE RestType'
  OBVIOUS
<1>. USE DEF vars, textVars, cacheVars, countVars
<1>1. CASE UNCHANGED vars
  BY <1>1 DEF RestType
<1>2. ASSUME NEW s \in Streams, Lookup(s) PROVE RestType'
  <2>0. Endpoint(s) \in Endpoints /\ DepthOf[s] \in Depths
    BY StreamAssumption DEF Endpoint, Endpoints
  <2>1. CASE HitAst(s)
    <3>1. result' \in [Streams -> Results \cup {NoResult}]
      BY <2>0, <2>1 DEF HitAst, RestType
    <3>. QED  BY <2>1, <3>1, AnswerType DEF HitAst, SendDone, RestType
  <2>2. CASE HitCache(s)
    <3>1. result' \in [Streams -> Results \cup {NoResult}]
      BY <2>0, <2>2 DEF HitCache, RestType
    <3>. QED  BY <2>2, <3>1, AnswerType DEF HitCache, SendDone, RestType
  <2>3. CASE Miss(s)
    BY <2>3 DEF Miss, RestType
  <2>. QED  BY <1>2, <2>1, <2>2, <2>3 DEF Lookup
<1>3. ASSUME NEW s \in Streams, Slot(s) PROVE RestType'
  <2>1. CASE Limit(s) \/ Resume(s)
    BY <2>1 DEF Limit, Resume, RestType
  <2>2. CASE Acquire(s)
    <3>1. 0 \in 0..Providers
      BY StreamAssumption
    <3>. QED  BY <2>2, <3>1 DEF Acquire, RestType
  <2>3. CASE AcquireTimeout(s)
    BY <2>3, AnswerType DEF AcquireTimeout, RestType
  <2>. QED  BY <1>3, <2>1, <2>2, <2>3 DEF Slot
<1>4. ASSUME NEW s \in Streams, Provide(s) PROVE RestType'
  <2>0. /\ Providers \in Nat /\ at[s] \in 0..Providers
        /\ at[s] < Providers => at[s] + 1 \in 0..Providers
    BY StreamAssumption DEF RestType
  <2>1. CASE Open(s)
    BY <2>0, <2>1 DEF Open, RestType
  <2>2. CASE Chunk(s)
    <3>1. content' \in [Streams -> SUBSET (1..Providers)]
      <4>1. content[s] \cup {at[s]} \in SUBSET (1..Providers)
        BY <2>2, <2>0 DEF Chunk, RestType, TextInv
      <4>. QED  BY <2>2, <4>1 DEF Chunk, RestType
    <3>. QED  BY <2>2, <3>1 DEF Chunk, RestType
  <2>3. CASE ProviderFails(s)
    BY <2>0, <2>3 DEF ProviderFails, RestType
  <2>4. CASE ProviderEnds(s)
    BY <2>0, <2>4 DEF ProviderEnds, RestType
  <2>5. CASE Exhausted(s)
    BY <2>5 DEF Exhausted, RestType
  <2>. QED  BY <1>4, <2>1, <2>2, <2>3, <2>4, <2>5 DEF Provide
<1>5. ASSUME NEW s \in Streams, Finish(s) PROVE RestType'
  <2>1. CASE FindStale(s)
    <3>1. PICK d \in Depths, v \in BOOLEAN :
            result' \in {result, [result EXCEPT ![s] = [Earlier(d) EXCEPT !.valid = v]]}
      BY <2>1 DEF FindStale, Validity
    <3>2. result' \in [Streams -> Results \cup {NoResult}]
      BY <3>1, EarlierType DEF RestType
    <3>3. PICK a \in {"done", "error"} : Answer(s, a)
      BY <2>1 DEF FindStale, SendDone, Fail
    <3>4. answers' \in [Streams -> Seq({"done", "error"})]
      BY <3>3, AnswerType
    <3>. QED  BY <2>1, <3>2, <3>4 DEF FindStale, RestType
  <2>2. CASE NoStale(s) \/ NotParsed(s)
    BY <2>2, AnswerType DEF NoStale, NotParsed, Fail, RestType
  <2>3. CASE Parse(s)
    <3>0. /\ content[s] \in SUBSET Nat /\ model[s] \in Nat
          /\ DepthOf[s] \in Depths
      BY StreamAssumption DEF RestType
    <3>1. PICK v \in BOOLEAN :
            result' = [result EXCEPT ![s] =
              [of |-> s, by |-> content[s], model |-> model[s], depth |-> DepthOf[s], valid |-> v]]
      BY <2>3 DEF Parse, Validity
    <3>2. [of |-> s, by |-> content[s], model |-> model[s], depth |-> DepthOf[s], valid |-> v]
            \in Results
      BY <3>0 DEF Results
    <3>3. result' \in [Streams -> Results \cup {NoResult}]
      BY <3>1, <3>2 DEF RestType
    <3>4. answers' \in [Streams -> Seq({"done", "error"})]
      BY <2>3, AnswerType DEF Parse, Fail, RestType
    <3>. QED  BY <2>3, <3>3, <3>4 DEF Parse, RestType
  <2>4. CASE Store(s)
    <3>1. /\ cached' \in [Endpoints -> Results \cup {NoResult}]
          /\ astCached' \in [Depths -> Results \cup {NoResult}]
      BY <2>4 DEF Store, RestType
    <3>. QED  BY <2>4, <3>1 DEF Store, RestType
  <2>5. CASE Send(s)
    BY <2>5, AnswerType DEF Send, SendDone, RestType
  <2>6. CASE Count(s) \/ Dispatch(s)
    <3>1. /\ counted' \in {counted, [counted EXCEPT ![s] = @ + 1]}
          /\ saved' \in {saved, [saved EXCEPT ![s] = @ + 1]}
          /\ UNCHANGED <<textVars, result, cacheVars, answers, refused>>
      BY <2>6 DEF Count, Dispatch
    <3>2. counted' \in [Streams -> Nat] /\ saved' \in [Streams -> Nat]
      <4>1. counted \in [Streams -> Nat] /\ saved \in [Streams -> Nat]
        BY DEF RestType
      <4>2. [counted EXCEPT ![s] = @ + 1] \in [Streams -> Nat]
        BY <4>1
      <4>3. [saved EXCEPT ![s] = @ + 1] \in [Streams -> Nat]
        BY <4>1
      <4>. QED  BY <3>1, <4>1, <4>2, <4>3
    <3>. QED  BY <3>1, <3>2 DEF RestType
  <2>7. CASE DispatchFails(s)
    <3>1. answers' \in [Streams -> Seq({"done", "error"})]
      BY <2>7, AnswerType DEF DispatchFails, Fail, RestType
    <3>2. refused' \in [Streams -> 0..BrokerFailures]
      <4>1. /\ refused \in [Streams -> 0..BrokerFailures] /\ BrokerFailures \in Nat
            /\ refused[s] < BrokerFailures /\ refused' = [refused EXCEPT ![s] = @ + 1]
        BY <2>7, StreamAssumption DEF DispatchFails, RestType
      <4>. QED  BY <4>1
    <3>. QED  BY <2>7, <3>1, <3>2 DEF DispatchFails, RestType
  <2>. QED  BY <1>5, <2>1, <2>2, <2>3, <2>4, <2>5, <2>6, <2>7 DEF Finish
<1>6. ASSUME NEW s \in Streams, Disconnect(s) PROVE RestType'
  BY <1>6 DEF Disconnect, RestType
<1>. QED  BY <1>1, <1>2, <1>3, <1>4, <1>5, <1>6 DEF Next

(* Where a step takes the streams: s goes to l, and one that waits may be     *)
(* handed a slot.                                                             *)
Moves(s, l) ==
  /\ pc'[s] = l
  /\ \A t \in Streams \ {s} : pc'[t] = pc[t] \/ (pc[t] = "waiting" /\ pc'[t] = "granted")

LEMMA GoMoves ==
  ASSUME pc \in [Streams -> States], NEW s \in Streams, NEW l, Go(s, l)
  PROVE  Moves(s, l)
BY DEF Go, Moves

LEMMA WakeNextMoves ==
  ASSUME pc \in [Streams -> States], NEW s \in Streams, NEW l, l # "waiting",
         NEW q, NEW f, WakeNext(s, l, q, f)
  PROVE  Moves(s, l)
<1>. DEFINE p == [pc EXCEPT ![s] = l]
            next == IF f > 0 THEN FirstWaiting(p, q) ELSE {}
<1>1. pc' = [t \in Streams |-> IF t \in next THEN "granted" ELSE p[t]]
  BY DEF WakeNext
<1>2. \A t \in next : p[t] = "waiting"
  BY DEF FirstWaiting
<1>3. s \notin next
  BY <1>2
<1>. QED  BY <1>1, <1>2, <1>3 DEF Moves

LEMMA GiveUpMoves ==
  ASSUME pc \in [Streams -> States], NEW s \in Streams, NEW l, l # "waiting", GiveUp(s, l)
  PROVE  Moves(s, l)
BY GoMoves, WakeNextMoves DEF GiveUp

(* A stream that leaves its text alone may go where the text does not matter. *)
LEMMA TextKept ==
  ASSUME TextInv, NEW s \in Streams, NEW l, Moves(s, l), UNCHANGED textVars,
         l \notin {"waiting", "granted", "next", "streaming", "parse"}
  PROVE  TextInv'
BY DEF TextInv, Moves, textVars

LEMMA TextStep ==
  ASSUME pc \in [Streams -> States], RestType, TextInv, [Next]_vars
  PROVE  TextInv'
<1>1. CASE UNCHANGED vars
  BY <1>1 DEF TextInv, vars, textVars
<1>2. ASSUME NEW s \in Streams, Lookup(s) PROVE TextInv'
  <2>1. PICK l \in {"cache", "limits", "ended", "count", "count AST"} : Go(s, l) /\ UNCHANGED textVars
    BY <1>2 DEF Lookup, HitAst, HitCache, Miss, SendDone
  <2>. QED  BY <2>1, GoMoves, TextKept
<1>3. ASSUME NEW s \in Streams, Slot(s) PROVE TextInv'
  <2>1. CASE Limit(s)
    BY <2>1, GoMoves, TextKept DEF Limit
  <2>2. CASE Acquire(s)
    <3>1. PICK l \in {"next", "waiting"} : Go(s, l)
      BY <2>2 DEF Acquire
    <3>2. Moves(s, l)
      BY <3>1, GoMoves
    <3>3. content' = [content EXCEPT ![s] = {}] /\ \A t \in Streams \ {s} : at'[t] = at[t] /\ model'[t] = model[t]
      BY <2>2 DEF Acquire, RestType
    <3>. QED  BY <3>1, <3>2, <3>3 DEF TextInv, Moves, RestType
  <2>3. CASE Resume(s)
    <3>1. Moves(s, "next") /\ UNCHANGED textVars /\ pc[s] = "granted"
      BY <2>3, WakeNextMoves DEF Resume
    <3>. QED  BY <3>1 DEF TextInv, Moves, textVars
  <2>4. CASE AcquireTimeout(s)
    BY <2>4, GiveUpMoves, TextKept DEF AcquireTimeout
  <2>. QED  BY <1>3, <2>1, <2>2, <2>3, <2>4 DEF Slot
<1>4. ASSUME NEW s \in Streams, Provide(s) PROVE TextInv'
  <2>0. Providers \in Nat /\ at[s] \in 0..Providers
    BY StreamAssumption DEF RestType
  <2>1. CASE Open(s)
    <3>1. Moves(s, "streaming")
      BY <2>1, GoMoves DEF Open
    <3>2. /\ at'[s] \in 1..Providers /\ content'[s] = {} /\ model' = model
          /\ \A t \in Streams \ {s} : at'[t] = at[t] /\ content'[t] = content[t]
      BY <2>0, <2>1 DEF Open, RestType
    <3>. QED  BY <3>1, <3>2 DEF TextInv, Moves
  <2>2. CASE Chunk(s)
    <3>1. /\ pc[s] = "streaming" /\ pc' = pc /\ at' = at /\ model' = model
          /\ content' = [content EXCEPT ![s] = @ \cup {at[s]}]
      BY <2>2 DEF Chunk
    <3>2. /\ content'[s] = content[s] \cup {at[s]}
          /\ \A t \in Streams \ {s} : content'[t] = content[t]
      BY <3>1 DEF RestType
    <3>3. content'[s] \subseteq {at[s]}
      BY <3>1, <3>2 DEF TextInv
    <3>. QED  BY <3>1, <3>2, <3>3 DEF TextInv
  <2>3. CASE ProviderFails(s)
    <3>1. Moves(s, "next")
      BY <2>3, GoMoves DEF ProviderFails
    <3>2. /\ content'[s] = {} /\ model' = model
          /\ \A t \in Streams \ {s} : at'[t] = at[t] /\ content'[t] = content[t]
      BY <2>3 DEF ProviderFails, RestType
    <3>. QED  BY <3>1, <3>2 DEF TextInv, Moves
  <2>4. CASE ProviderEnds(s)
    <3>1. CASE content[s] = {}
      <4>1. Moves(s, "next") /\ UNCHANGED textVars
        BY <2>4, <3>1, GoMoves DEF ProviderEnds, textVars
      <4>. QED  BY <3>1, <4>1 DEF TextInv, Moves, textVars
    <3>2. CASE content[s] # {}
      <4>1. Moves(s, "parse")
        BY <2>4, <3>2, WakeNextMoves DEF ProviderEnds, Release
      <4>2. /\ at' = at /\ content' = content /\ model'[s] = at[s]
            /\ \A t \in Streams \ {s} : model'[t] = model[t]
        BY <2>4, <3>2 DEF ProviderEnds, RestType
      <4>3. content[s] = {at[s]}
        BY <2>4, <3>2 DEF ProviderEnds, TextInv
      <4>. QED  BY <4>1, <4>2, <4>3 DEF TextInv, Moves
    <3>. QED  BY <3>1, <3>2
  <2>5. CASE Exhausted(s)
    <3>1. content[s] = {}
      BY <2>5 DEF Exhausted, TextInv
    <3>2. Moves(s, "stale")
      BY <2>5, <3>1, WakeNextMoves DEF Exhausted, Release
    <3>. QED  BY <2>5, <3>2, TextKept DEF Exhausted
  <2>. QED  BY <1>4, <2>1, <2>2, <2>3, <2>4, <2>5 DEF Provide
<1>5. ASSUME NEW s \in Streams, Finish(s) PROVE TextInv'
  <2>1. PICK l \in {"ended", "count", "store", "send", "dispatch", "dispatch AST", "cache"} :
          Go(s, l) /\ UNCHANGED textVars
    BY <1>5 DEF Finish, FindStale, NoStale, Parse, NotParsed, Store, Send, Count,
                Dispatch, DispatchFails, SendDone, Fail
  <2>. QED  BY <2>1, GoMoves, TextKept
<1>6. ASSUME NEW s \in Streams, Disconnect(s) PROVE TextInv'
  <2>1. Moves(s, "cut")
    BY <1>6, GoMoves, GiveUpMoves, WakeNextMoves DEF Disconnect, Release
  <2>. QED  BY <1>6, <2>1, TextKept DEF Disconnect
<1>. QED  BY <1>1, <1>2, <1>3, <1>4, <1>5, <1>6 DEF Next

Inv == SlotInv /\ RestType /\ TextInv

LEMMA InvHolds == Spec => []Inv
<1>1. Init => Inv
  <2>1. Init => TextInv
    BY DEF Init, TextInv
  <2>. QED  BY <2>1, SlotInit, RestInit DEF Inv
<1>2. Inv /\ [Next]_vars => Inv'
  BY SlotStep, RestStep, TextStep DEF Inv, SlotInv
<1>. QED  BY <1>1, <1>2, PTL DEF Spec

(* The variables keep their types. *)
THEOREM TypeCorrect == Spec => []TypeOK
<1>1. Inv => TypeOK
  BY TypesSuffice DEF Inv
<1>. QED  BY <1>1, InvHolds, PTL

------------------------------------------------------------------------------
(* What is answered, and what is kept. *)
Whole(r) == r # NoResult => r.by = {r.model}
WholeInv ==
  /\ \A s \in Streams : Whole(result[s])
  /\ \A e \in Endpoints : Whole(cached[e])
  /\ \A d \in Depths : Whole(astCached[d])

LEMMA EarlierWhole ==
  ASSUME NEW d, NEW v
  PROVE  Whole(Earlier(d)) /\ Whole([Earlier(d) EXCEPT !.valid = v])
BY DEF Whole, Earlier

LEMMA FirstEntries ==
  ASSUME Init
  PROVE  /\ \A s \in Streams : result[s] = NoResult /\ saved[s] = 0
         /\ \A e \in Endpoints : cached[e] = NoResult \/ \E d \in Depths : cached[e] = Earlier(d)
         /\ \A k \in Depths : astCached[k] = NoResult \/ \E d \in Depths : astCached[k] = Earlier(d)
<1>1. cached \in [Endpoints -> {NoResult} \cup {Earlier(d) : d \in EarlierDepths}]
  BY DEF Init
<1>2. astCached \in [Depths -> {NoResult} \cup {Earlier(d) : d \in EarlierDepths}]
  BY DEF Init
<1>3. \A s \in Streams : result[s] = NoResult /\ saved[s] = 0
  BY DEF Init
<1>. QED  BY <1>1, <1>2, <1>3, StreamAssumption

LEMMA WholeStep ==
  ASSUME RestType, TextInv, WholeInv, [Next]_vars
  PROVE  WholeInv'
<1>1. CASE UNCHANGED <<result, cached, astCached>>
  BY <1>1 DEF WholeInv
<1>2. ASSUME NEW s \in Streams, NEW r, Whole(r), result' = [result EXCEPT ![s] = r],
             UNCHANGED <<cached, astCached>>
      PROVE  WholeInv'
  BY <1>2 DEF WholeInv, RestType
<1>3. ASSUME NEW s \in Streams, HitAst(s) \/ HitCache(s) PROVE WholeInv'
  <2>1. Whole(astCached[DepthOf[s]]) /\ Whole(cached[Endpoint(s)])
    BY StreamAssumption DEF WholeInv, Endpoint, Endpoints
  <2>. QED  BY <1>2, <1>3, <2>1 DEF HitAst, HitCache, cacheVars
<1>4. ASSUME NEW s \in Streams, FindStale(s) PROVE WholeInv'
  <2>1. PICK d \in Depths, v \in BOOLEAN :
          /\ \/ result' = result
             \/ result' = [result EXCEPT ![s] = [Earlier(d) EXCEPT !.valid = v]]
          /\ UNCHANGED <<cached, astCached>>
    BY <1>4 DEF FindStale, Validity, cacheVars
  <2>. QED  BY <1>1, <1>2, <2>1, EarlierWhole
<1>5. ASSUME NEW s \in Streams, Parse(s) PROVE WholeInv'
  <2>1. PICK v \in BOOLEAN :
          /\ result' = [result EXCEPT ![s] =
               [of |-> s, by |-> content[s], model |-> model[s], depth |-> DepthOf[s], valid |-> v]]
          /\ UNCHANGED <<cached, astCached>>
    BY <1>5 DEF Parse, Validity, cacheVars
  <2>2. content[s] = {model[s]}
    BY <1>5 DEF Parse, TextInv
  <2>3. Whole([of |-> s, by |-> content[s], model |-> model[s], depth |-> DepthOf[s], valid |-> v])
    BY <2>2 DEF Whole
  <2>. QED  BY <1>2, <2>1, <2>3
<1>6. ASSUME NEW s \in Streams, Store(s) PROVE WholeInv'
  BY <1>6 DEF Store, WholeInv, RestType
<1>7. ASSUME NEW s \in Streams,
             \/ Miss(s) \/ Slot(s) \/ Provide(s) \/ Disconnect(s)
             \/ NoStale(s) \/ NotParsed(s) \/ Send(s) \/ Count(s) \/ Dispatch(s) \/ DispatchFails(s)
      PROVE  UNCHANGED <<result, cached, astCached>>
  BY <1>7 DEF Miss, Slot, Provide, Disconnect, NoStale, NotParsed, Send, Count, Dispatch,
              DispatchFails, Limit, Acquire, Resume, AcquireTimeout, Open, Chunk, ProviderFails,
              ProviderEnds, Exhausted, cacheVars
<1>8. CASE UNCHANGED vars
  BY <1>1, <1>8 DEF vars, cacheVars
<1>. QED  BY <1>1, <1>3, <1>4, <1>5, <1>6, <1>7, <1>8 DEF Next, Lookup, Finish

(* Every answer and every cache entry is the text of one provider that        *)
(* delivered to its end.                                                      *)
THEOREM AnswersAreWhole == Spec => []ResultsAreWhole
<1>1. Init => WholeInv
  BY FirstEntries, EarlierWhole DEF WholeInv, Whole
<1>2. Inv /\ WholeInv /\ [Next]_vars => WholeInv'
  BY WholeStep DEF Inv
<1>3. WholeInv => ResultsAreWhole
  BY DEF WholeInv, Whole, ResultsAreWhole, Given, Kept
<1>. QED  BY <1>1, <1>2, <1>3, InvHolds, PTL DEF Spec

------------------------------------------------------------------------------
(* Where a stream in privacy mode never is, and whose results others see. *)
PrivateInv ==
  /\ \A s \in Ephemeral :
       /\ pc[s] \notin {"ast", "cache", "store", "dispatch", "count AST", "dispatch AST"}
       /\ saved[s] = 0
  /\ \A s \in Streams : result[s] # NoResult => result[s].of \notin Ephemeral \ {s}
  /\ \A e \in Endpoints : cached[e] # NoResult => cached[e].of \notin Ephemeral
  /\ \A d \in Depths : astCached[d] # NoResult => astCached[d].of \notin Ephemeral

LEMMA ElsewhereIsNobody ==
  ASSUME NEW d, NEW v
  PROVE  /\ Earlier(d).of \notin Ephemeral
         /\ [Earlier(d) EXCEPT !.valid = v].of \notin Ephemeral
BY StreamAssumption DEF Earlier

LEMMA PrivateMoved ==
  ASSUME PrivateInv, NEW s \in Streams, NEW l, Moves(s, l),
         s \in Ephemeral => l \notin {"ast", "cache", "store", "dispatch", "count AST", "dispatch AST"},
         UNCHANGED <<result, cached, astCached, saved>>
  PROVE  PrivateInv'
BY StreamAssumption DEF PrivateInv, Moves

LEMMA PrivateResult ==
  ASSUME PrivateInv, RestType, NEW s \in Streams, NEW l, Moves(s, l),
         s \in Ephemeral => l \notin {"ast", "cache", "store", "dispatch", "count AST", "dispatch AST"},
         NEW r, r # NoResult => r.of \notin Ephemeral \ {s},
         result' = [result EXCEPT ![s] = r], UNCHANGED <<cached, astCached, saved>>
  PROVE  PrivateInv'
<1>1. \A t \in Ephemeral :
        /\ pc'[t] \notin {"ast", "cache", "store", "dispatch", "count AST", "dispatch AST"}
        /\ saved'[t] = 0
  BY StreamAssumption DEF PrivateInv, Moves
<1>2. \A t \in Streams : result'[t] # NoResult => result'[t].of \notin Ephemeral \ {t}
  BY DEF PrivateInv, RestType
<1>. QED  BY <1>1, <1>2 DEF PrivateInv

LEMMA PrivateStep ==
  ASSUME pc \in [Streams -> States], RestType, PrivateInv, [Next]_vars
  PROVE  PrivateInv'
<1>. USE DEF cacheVars, countVars
<1>1. CASE UNCHANGED vars
  BY <1>1 DEF PrivateInv, vars
<1>2. ASSUME NEW s \in Streams, Lookup(s) PROVE PrivateInv'
  <2>0. s \notin Ephemeral
    BY <1>2 DEF Lookup, HitAst, HitCache, Miss, PrivateInv
  <2>1. CASE HitAst(s) \/ HitCache(s)
    <3>1. PICK l : Go(s, l)
      BY <2>1 DEF HitAst, HitCache, SendDone
    <3>0. Endpoint(s) \in Endpoints /\ DepthOf[s] \in Depths
      BY StreamAssumption DEF Endpoint, Endpoints
    <3>2. PICK r \in {astCached[DepthOf[s]], cached[Endpoint(s)]} :
            /\ result' = [result EXCEPT ![s] = r]
            /\ r # NoResult => r.of \notin Ephemeral
      <4>1. CASE HitAst(s)
        BY <3>0, <4>1 DEF HitAst, PrivateInv
      <4>2. CASE HitCache(s)
        BY <3>0, <4>2 DEF HitCache, PrivateInv
      <4>. QED  BY <2>1, <4>1, <4>2
    <3>3. UNCHANGED <<cached, astCached, saved>>
      BY <2>1 DEF HitAst, HitCache
    <3>. QED  BY <2>0, <3>1, <3>2, <3>3, GoMoves, PrivateResult
  <2>2. CASE Miss(s)
    BY <2>0, <2>2, GoMoves, PrivateMoved DEF Miss
  <2>. QED  BY <1>2, <2>1, <2>2 DEF Lookup
<1>3. ASSUME NEW s \in Streams, Slot(s) \/ Disconnect(s) PROVE PrivateInv'
  <2>1. PICK l \in {"broken", "next", "waiting", "ended", "cut"} : Moves(s, l)
    BY <1>3, GoMoves, GiveUpMoves, WakeNextMoves
    DEF Slot, Limit, Acquire, Resume, AcquireTimeout, Disconnect, Release
  <2>2. UNCHANGED <<result, cached, astCached, saved>>
    BY <1>3 DEF Slot, Limit, Acquire, Resume, AcquireTimeout, Disconnect
  <2>. QED  BY <2>1, <2>2, PrivateMoved
<1>4. ASSUME NEW s \in Streams, Provide(s) PROVE PrivateInv'
  <2>1. UNCHANGED <<result, cached, astCached, saved>>
    BY <1>4 DEF Provide, Open, Chunk, ProviderFails, ProviderEnds, Exhausted
  <2>2. CASE Chunk(s)
    BY <2>1, <2>2 DEF Chunk, PrivateInv
  <2>3. CASE Open(s) \/ ProviderFails(s) \/ ProviderEnds(s) \/ Exhausted(s)
    <3>1. PICK l \in {"streaming", "next", "parse", "stale"} : Moves(s, l)
      BY <2>3, GoMoves, WakeNextMoves DEF Open, ProviderFails, ProviderEnds, Exhausted, Release
    <3>. QED  BY <2>1, <3>1, PrivateMoved
  <2>. QED  BY <1>4, <2>2, <2>3 DEF Provide
<1>5. ASSUME NEW s \in Streams, FindStale(s) PROVE PrivateInv'
  <2>1. PICK d \in Depths, v \in BOOLEAN :
          /\ result' \in {result, [result EXCEPT ![s] = [Earlier(d) EXCEPT !.valid = v]]}
          /\ UNCHANGED <<cached, astCached, saved>>
    BY <1>5 DEF FindStale, Validity
  <2>2. PICK l \in {"ended", "count"} : Moves(s, l)
    BY <1>5, GoMoves DEF FindStale, Fail, SendDone
  <2>3. CASE result' = result
    BY <2>1, <2>2, <2>3, PrivateMoved
  <2>4. CASE result' = [result EXCEPT ![s] = [Earlier(d) EXCEPT !.valid = v]]
    BY <2>1, <2>2, <2>4, PrivateResult, ElsewhereIsNobody
  <2>. QED  BY <2>1, <2>3, <2>4
<1>6. ASSUME NEW s \in Streams, Parse(s) PROVE PrivateInv'
  <2>1. PICK l : Moves(s, l) /\ l \in (IF s \in Ephemeral THEN {"ended", "send"} ELSE {"ended", "store"})
    BY <1>6, GoMoves DEF Parse, Fail
  <2>2. \E r : result' = [result EXCEPT ![s] = r] /\ r.of = s
    <3>1. PICK v \in BOOLEAN :
            result' = [result EXCEPT ![s] =
              [of |-> s, by |-> content[s], model |-> model[s], depth |-> DepthOf[s], valid |-> v]]
      BY <1>6 DEF Parse, Validity
    <3>. DEFINE r == [of |-> s, by |-> content[s], model |-> model[s], depth |-> DepthOf[s], valid |-> v]
    <3>2. r.of = s
      OBVIOUS
    <3>. HIDE DEF r
    <3>3. result' = [result EXCEPT ![s] = r]
      BY <3>1 DEF r
    <3>. QED  BY <3>2, <3>3
  <2>3. UNCHANGED <<cached, astCached, saved>>
    BY <1>6 DEF Parse
  <2>4. PICK r : result' = [result EXCEPT ![s] = r] /\ r.of = s
    BY <2>2
  <2>. QED  BY <2>1, <2>3, <2>4, PrivateResult
<1>7. ASSUME NEW s \in Streams, Store(s) PROVE PrivateInv'
  <2>1. s \notin Ephemeral /\ (result[s] # NoResult => result[s].of \notin Ephemeral)
    BY <1>7 DEF Store, PrivateInv
  <2>2. Moves(s, "send")
    BY <1>7, GoMoves DEF Store
  <2>3. /\ \A e \in Endpoints : cached'[e] # NoResult => cached'[e].of \notin Ephemeral
        /\ \A d \in Depths : astCached'[d] # NoResult => astCached'[d].of \notin Ephemeral
    BY <1>7, <2>1 DEF Store, PrivateInv, RestType
  <2>4. result' = result /\ saved' = saved
    BY <1>7 DEF Store
  <2>. QED  BY <2>2, <2>3, <2>4, StreamAssumption DEF PrivateInv, Moves
<1>8. ASSUME NEW s \in Streams, NoStale(s) \/ NotParsed(s) \/ Send(s) \/ Count(s) \/ DispatchFails(s)
      PROVE  PrivateInv'
  <2>1. UNCHANGED <<result, cached, astCached, saved>>
    BY <1>8 DEF NoStale, NotParsed, Send, Count, DispatchFails
  <2>2. PICK l : Go(s, l) /\ (s \in Ephemeral => l \in {"ended", "count"})
    BY <1>8 DEF NoStale, NotParsed, Send, Count, DispatchFails, Fail, SendDone, PrivateInv
  <2>. QED  BY <2>1, <2>2, GoMoves, PrivateMoved
<1>9. ASSUME NEW s \in Streams, Dispatch(s) PROVE PrivateInv'
  <2>1. s \notin Ephemeral /\ Moves(s, "ended")
    BY <1>9, GoMoves DEF Dispatch, PrivateInv
  <2>2. \A t \in Ephemeral : saved'[t] = saved[t]
    BY <1>9, <2>1, StreamAssumption DEF Dispatch, RestType
  <2>3. UNCHANGED <<result, cached, astCached>>
    BY <1>9 DEF Dispatch
  <2>. QED  BY <2>1, <2>2, <2>3, StreamAssumption DEF PrivateInv, Moves
<1>. QED  BY <1>1, <1>2, <1>3, <1>4, <1>5, <1>6, <1>7, <1>8, <1>9 DEF Next, Finish

(* Nothing of a stream in privacy mode is cached, saved or answered to        *)
(* another.                                                                   *)
THEOREM EphemeralStaysPrivate == Spec => []EphemeralLeavesNothing
<1>1. Init => PrivateInv
  <2>. SUFFICES ASSUME Init PROVE PrivateInv
    OBVIOUS
  <2>1. \A s \in Ephemeral : pc[s] = "limits"
    BY StreamAssumption DEF Init
  <2>. QED  BY <2>1, FirstEntries, ElsewhereIsNobody, StreamAssumption DEF PrivateInv
<1>2. Inv /\ PrivateInv /\ [Next]_vars => PrivateInv'
  BY PrivateStep DEF Inv, SlotInv
<1>3. PrivateInv => EphemeralLeavesNothing
  BY DEF PrivateInv, EphemeralLeavesNothing, Kept
<1>. QED  BY <1>1, <1>2, <1>3, InvHolds, PTL DEF Spec

------------------------------------------------------------------------------
(* Translated code.  From its validation on a stream's result is valid code;  *)
(* what the cache of code-to-code holds was valid when it was put there.      *)
Delivered(s) == \E i \in DOMAIN answers[s] : answers[s][i] = "done"

ValidCode(s) ==
  /\ pc[s] \notin {"ast", "count AST", "dispatch AST"}
  /\ pc[s] \in {"store", "send"} => result[s].valid
  /\ Delivered(s) =>
       result[s].valid /\ pc[s] \in {"count", "dispatch", "ended", "cut"}

ValidInv ==
  /\ \A s \in CodeToCode : ValidCode(s)
  /\ cached["code-to-code"] # NoResult => cached["code-to-code"].valid

LEMMA DeliveredAppend ==
  ASSUME RestType, NEW s \in Streams, NEW a \in {"done", "error"}, Answer(s, a)
  PROVE  /\ Delivered(s)' <=> Delivered(s) \/ a = "done"
         /\ \A t \in Streams \ {s} : Delivered(t)' <=> Delivered(t)
<1>. DEFINE q == answers[s]
<1>0. q \in Seq({"done", "error"}) /\ Len(q) \in Nat /\ DOMAIN q = 1..Len(q)
  BY DEF RestType
<1>1. answers'[s] = Append(q, a) /\ \A t \in Streams \ {s} : answers'[t] = answers[t]
  BY DEF Answer, RestType
<1>. HIDE DEF q
<1>2. /\ DOMAIN Append(q, a) = 1..(Len(q) + 1)
      /\ \A i \in 1..Len(q) : Append(q, a)[i] = q[i]
      /\ Append(q, a)[Len(q) + 1] = a
  BY <1>0
<1>3. (\E i \in DOMAIN Append(q, a) : Append(q, a)[i] = "done")
        <=> (\E i \in DOMAIN q : q[i] = "done") \/ a = "done"
  BY <1>0, <1>2
<1>. QED  BY <1>1, <1>3 DEF Delivered, q

(* The other streams, while one moves: at most they are handed a slot. *)
LEMMA ValidMoved ==
  ASSUME ValidInv, NEW s \in Streams, NEW l, Moves(s, l),
         \A t \in Streams \ {s} : result'[t] = result[t] /\ (Delivered(t)' <=> Delivered(t)),
         s \in CodeToCode => ValidCode(s)',
         cached'["code-to-code"] # NoResult => cached'["code-to-code"].valid
  PROVE  ValidInv'
<1>1. ASSUME NEW t \in CodeToCode, t # s PROVE ValidCode(t)'
  BY <1>1, StreamAssumption DEF ValidInv, ValidCode, Moves
<1>. QED  BY <1>1 DEF ValidInv

LEMMA ValidStep ==
  ASSUME pc \in [Streams -> States], RestType, ValidInv, [Next]_vars
  PROVE  ValidInv'
<1>. USE DEF cacheVars, countVars
<1>0. ASSUME NEW s \in Streams, NEW l, Moves(s, l), UNCHANGED <<result, cacheVars, answers>>,
             s \in CodeToCode =>
               /\ l \notin {"ast", "count AST", "dispatch AST", "store", "send"}
               /\ Delivered(s) => l \in {"count", "dispatch", "ended", "cut"}
      PROVE  ValidInv'
  <2>1. s \in CodeToCode => ValidCode(s)'
    BY <1>0 DEF ValidInv, ValidCode, Delivered, Moves
  <2>. QED  BY <1>0, <2>1, ValidMoved DEF ValidInv, Delivered
(* A stream that fails is one that has not delivered, or whose history is    *)
(* refused.                                                                  *)
<1>1. ASSUME NEW s \in Streams, NEW l \in {"ended"}, Moves(s, l), Answer(s, "error"),
             UNCHANGED cacheVars, \A t \in Streams \ {s} : result'[t] = result[t],
             s \in CodeToCode /\ Delivered(s) => result'[s].valid
      PROVE  ValidInv'
  <2>1. s \in CodeToCode => ValidCode(s)'
    BY <1>1, DeliveredAppend DEF ValidInv, ValidCode, Moves
  <2>. QED  BY <1>1, <2>1, ValidMoved, DeliveredAppend DEF ValidInv
<1>2. ASSUME NEW s \in Streams, NEW l \in {"count", "ended"}, Moves(s, l), Answer(s, "done"),
             UNCHANGED cacheVars, \A t \in Streams \ {s} : result'[t] = result[t],
             s \in CodeToCode => result'[s].valid
      PROVE  ValidInv'
  <2>1. s \in CodeToCode => ValidCode(s)'
    BY <1>2, DeliveredAppend DEF ValidInv, ValidCode, Moves
  <2>. QED  BY <1>2, <2>1, ValidMoved, DeliveredAppend DEF ValidInv
<1>3. CASE UNCHANGED vars
  BY <1>3 DEF ValidInv, ValidCode, Delivered, vars
<1>4. ASSUME NEW s \in Streams, HitAst(s) PROVE ValidInv'
  <2>1. s \notin CodeToCode
    BY <1>4 DEF HitAst, ValidInv, ValidCode
  <2>2. PICK l : Moves(s, l) /\ Answer(s, "done")
    BY <1>4, GoMoves DEF HitAst, SendDone
  <2>3. UNCHANGED cacheVars /\ \A t \in Streams \ {s} : result'[t] = result[t]
    BY <1>4 DEF HitAst, RestType
  <2>. QED  BY <2>1, <2>2, <2>3, ValidMoved, DeliveredAppend DEF ValidInv
<1>5. ASSUME NEW s \in Streams, HitCache(s) PROVE ValidInv'
  <2>1. PICK l \in {"count", "ended"} : Moves(s, l) /\ Answer(s, "done")
    BY <1>5, GoMoves DEF HitCache, SendDone
  <2>2. UNCHANGED cacheVars /\ \A t \in Streams \ {s} : result'[t] = result[t]
    BY <1>5 DEF HitCache, RestType
  <2>3. s \in CodeToCode => result'[s].valid
    BY <1>5 DEF HitCache, Endpoint, ValidInv, RestType
  <2>. QED  BY <1>2, <2>1, <2>2, <2>3
<1>6. ASSUME NEW s \in Streams, Miss(s) \/ Limit(s) \/ Acquire(s) \/ Resume(s)
                                \/ Open(s) \/ ProviderFails(s) \/ ProviderEnds(s) \/ Exhausted(s)
      PROVE  ValidInv'
  <2>1. PICK l \in {"cache", "limits", "broken", "next", "waiting", "streaming", "parse", "stale"} :
          Moves(s, l)
    BY <1>6, GoMoves, WakeNextMoves
    DEF Miss, Limit, Acquire, Resume, Open, ProviderFails, ProviderEnds, Exhausted, Release
  <2>2. s \in CodeToCode => ~Delivered(s)
    BY <1>6 DEF Miss, Limit, Acquire, Resume, Open, ProviderFails, ProviderEnds, Exhausted,
                ValidInv, ValidCode
  <2>3. UNCHANGED <<result, cacheVars, answers>>
    BY <1>6 DEF Miss, Limit, Acquire, Resume, Open, ProviderFails, ProviderEnds, Exhausted
  <2>. QED  BY <1>0, <2>1, <2>2, <2>3
<1>7. ASSUME NEW s \in Streams, AcquireTimeout(s) \/ NoStale(s) \/ NotParsed(s) PROVE ValidInv'
  <2>1. Moves(s, "ended") /\ Answer(s, "error")
    BY <1>7, GoMoves, GiveUpMoves DEF AcquireTimeout, NoStale, NotParsed, Fail
  <2>2. s \in CodeToCode => ~Delivered(s)
    BY <1>7 DEF AcquireTimeout, GiveUp, NoStale, NotParsed, ValidInv, ValidCode
  <2>3. UNCHANGED <<result, cacheVars>>
    BY <1>7 DEF AcquireTimeout, NoStale, NotParsed
  <2>. QED  BY <1>1, <2>1, <2>2, <2>3
<1>8. ASSUME NEW s \in Streams, Chunk(s) PROVE ValidInv'
  BY <1>8 DEF Chunk, ValidInv, ValidCode, Delivered
<1>9. ASSUME NEW s \in Streams, FindStale(s) PROVE ValidInv'
  <2>0. UNCHANGED cacheVars /\ (s \in CodeToCode => ~Delivered(s))
    BY <1>9 DEF FindStale, ValidInv, ValidCode
  <2>1. PICK d \in Depths, v \in Validity(s) :
          IF s \in CodeToCode /\ ~v
            THEN Fail(s) /\ result' = result
            ELSE SendDone(s, "count") /\ result' = [result EXCEPT ![s] = [Earlier(d) EXCEPT !.valid = v]]
    BY <1>9 DEF FindStale
  <2>2. CASE s \in CodeToCode /\ ~v
    BY <1>1, <2>0, <2>1, <2>2, GoMoves DEF Fail
  <2>3. CASE ~(s \in CodeToCode /\ ~v)
    <3>. DEFINE r == [Earlier(d) EXCEPT !.valid = v]
    <3>1. r.valid = v
      BY DEF Earlier
    <3>. HIDE DEF r
    <3>2. result' = [result EXCEPT ![s] = r]
      BY <2>1, <2>3 DEF r
    <3>3. /\ result'[s] = r
          /\ \A t \in Streams \ {s} : result'[t] = result[t]
      BY <3>2 DEF RestType
    <3>4. PICK l \in {"count", "ended"} : Moves(s, l) /\ Answer(s, "done")
      BY <2>1, <2>3, GoMoves DEF SendDone
    <3>. QED  BY <1>2, <2>0, <2>3, <3>1, <3>3, <3>4
  <2>. QED  BY <2>2, <2>3
<1>10. ASSUME NEW s \in Streams, Parse(s) PROVE ValidInv'
  <2>0. UNCHANGED cacheVars /\ (s \in CodeToCode => ~Delivered(s))
    BY <1>10 DEF Parse, ValidInv, ValidCode
  <2>1. PICK v \in Validity(s) :
          /\ result' = [result EXCEPT ![s] =
               [of |-> s, by |-> content[s], model |-> model[s], depth |-> DepthOf[s], valid |-> v]]
          /\ IF s \in CodeToCode /\ ~v
               THEN Fail(s)
               ELSE Go(s, IF s \in Ephemeral THEN "send" ELSE "store") /\ answers' = answers
    BY <1>10 DEF Parse
  <2>2. result'[s].valid = v /\ \A t \in Streams \ {s} : result'[t] = result[t]
    BY <2>1 DEF RestType
  <2>3. CASE s \in CodeToCode /\ ~v
    BY <1>1, <2>0, <2>1, <2>2, <2>3, GoMoves DEF Fail
  <2>4. CASE ~(s \in CodeToCode /\ ~v)
    <3>1. PICK l \in {"send", "store"} : Moves(s, l)
      BY <2>1, <2>4, GoMoves
    <3>2. answers' = answers
      BY <2>1, <2>4
    <3>3. s \in CodeToCode => ValidCode(s)'
      BY <2>0, <2>2, <2>4, <3>1, <3>2 DEF ValidCode, Delivered, Moves
    <3>4. \A t \in Streams \ {s} : Delivered(t)' <=> Delivered(t)
      BY <3>2 DEF Delivered
    <3>. QED  BY <2>0, <2>2, <3>1, <3>3, <3>4, ValidMoved DEF ValidInv
  <2>. QED  BY <2>3, <2>4
<1>11. ASSUME NEW s \in Streams, Store(s) PROVE ValidInv'
  <2>1. Moves(s, "send") /\ UNCHANGED <<result, answers>>
    BY <1>11, GoMoves DEF Store
  <2>2. s \in CodeToCode => result[s].valid /\ ~Delivered(s)
    BY <1>11 DEF Store, ValidInv, ValidCode
  <2>3. cached'["code-to-code"] = IF s \in CodeToCode THEN result[s] ELSE cached["code-to-code"]
    BY <1>11 DEF Store, Endpoint, Endpoints, RestType
  <2>4. s \in CodeToCode => ValidCode(s)'
    BY <2>1, <2>2 DEF ValidCode, Delivered, Moves
  <2>5. \A t \in Streams \ {s} : result'[t] = result[t] /\ (Delivered(t)' <=> Delivered(t))
    BY <2>1 DEF Delivered
  <2>. QED  BY <2>1, <2>2, <2>3, <2>4, <2>5, ValidMoved DEF ValidInv
<1>12. ASSUME NEW s \in Streams, Send(s) PROVE ValidInv'
  <2>1. PICK l \in {"count", "ended"} : Moves(s, l) /\ Answer(s, "done")
    BY <1>12, GoMoves DEF Send, SendDone
  <2>2. UNCHANGED <<result, cacheVars>> /\ (s \in CodeToCode => result[s].valid)
    BY <1>12 DEF Send, ValidInv, ValidCode
  <2>. QED  BY <1>2, <2>1, <2>2
<1>13. ASSUME NEW s \in Streams, Count(s) \/ Dispatch(s) PROVE ValidInv'
  <2>1. PICK l : Moves(s, l) /\ (s \in CodeToCode => l \in {"dispatch", "ended"})
    BY <1>13, GoMoves DEF Count, Dispatch, ValidInv, ValidCode
  <2>2. UNCHANGED <<result, cacheVars, answers>>
    BY <1>13 DEF Count, Dispatch
  <2>. QED  BY <1>0, <2>1, <2>2
<1>14. ASSUME NEW s \in Streams, DispatchFails(s) PROVE ValidInv'
  <2>1. UNCHANGED <<result, cacheVars>>
    BY <1>14 DEF DispatchFails
  <2>2. CASE pc[s] = "dispatch" /\ Fail(s)
    <3>1. Moves(s, "ended") /\ Answer(s, "error")
      BY <2>2, GoMoves DEF Fail
    <3>2. s \in CodeToCode /\ Delivered(s) => result[s].valid
      BY DEF ValidInv, ValidCode
    <3>. QED  BY <1>1, <2>1, <3>1, <3>2
  <2>3. CASE pc[s] = "dispatch AST" /\ Go(s, "cache") /\ answers' = answers
    <3>1. s \notin CodeToCode
      BY <2>3 DEF ValidInv, ValidCode
    <3>. QED  BY <1>0, <2>1, <2>3, <3>1, GoMoves
  <2>. QED  BY <1>14, <2>2, <2>3 DEF DispatchFails
<1>15. ASSUME NEW s \in Streams, Disconnect(s) PROVE ValidInv'
  <2>1. Moves(s, "cut")
    BY <1>15, GoMoves, GiveUpMoves, WakeNextMoves DEF Disconnect, Release
  <2>2. UNCHANGED <<result, cacheVars, answers>>
    BY <1>15 DEF Disconnect
  <2>. QED  BY <1>0, <2>1, <2>2
<1>. QED
  BY <1>3, <1>4, <1>5, <1>6, <1>7, <1>8, <1>9, <1>10, <1>11, <1>12, <1>13, <1>14, <1>15
  DEF Next, Lookup, Slot, Provide, Finish

(* Code is not answered before its syntax was validated, from wherever it     *)
(* comes: a provider, the cache or an earlier translation.                    *)
THEOREM AnsweredCodeIsValid == Spec => []OnlyValidCode
<1>1. Init => ValidInv
  <2>. SUFFICES ASSUME Init PROVE ValidInv
    OBVIOUS
  <2>1. ASSUME NEW s \in CodeToCode PROVE ValidCode(s)
    <3>1. s \in Streams /\ pc[s] \in {"limits", "cache"} /\ answers[s] = <<>>
      BY StreamAssumption DEF Init
    <3>2. DOMAIN answers[s] = {}
      BY <3>1
    <3>3. ~Delivered(s)
      BY <3>2, Zenon DEF Delivered
    <3>. QED  BY <3>1, <3>3 DEF ValidCode
  <2>2. cached["code-to-code"] = NoResult \/ \E d \in Depths : cached["code-to-code"] = Earlier(d)
    BY FirstEntries DEF Endpoints
  <2>3. \A d \in Depths : Earlier(d).valid
    BY DEF Earlier
  <2>. QED  BY <2>1, <2>2, <2>3 DEF ValidInv
<1>2. Inv /\ ValidInv /\ [Next]_vars => ValidInv'
  BY ValidStep DEF Inv, SlotInv
<1>3. ValidInv => OnlyValidCode
  BY DEF ValidInv, ValidCode, Delivered, OnlyValidCode
<1>. QED  BY <1>1, <1>2, <1>3, InvHolds, PTL DEF Spec

------------------------------------------------------------------------------
(* The last events of a stream, what it counted and what it saved, by where   *)
(* it is: a dispatch that the broker refuses takes it back, or ends it with a *)
(* second event.                                                              *)
Unanswered == {"ast", "cache", "limits", "waiting", "granted", "next", "streaming",
               "stale", "parse", "store", "send"}
Uncounted == {"count", "count AST"}
Unsaved == {"dispatch", "dispatch AST"}

Accounts(l, events, done, usages, tasks, failed) ==
  /\ l \in Unanswered => events = failed /\ done = failed /\ usages = failed /\ tasks = 0
  /\ l \in Uncounted => events = failed + 1 /\ done = failed + 1 /\ usages = failed /\ tasks = 0
  /\ l \in Unsaved => events = failed + 1 /\ done = failed + 1 /\ usages = failed + 1 /\ tasks = 0
  /\ events <= failed + 1 /\ usages <= done /\ tasks <= 1 /\ tasks + failed <= usages
  /\ l = "ended" => events > 0

Accounted(s) ==
  Accounts(pc[s], Len(answers[s]), Done(s), counted[s], saved[s], refused[s])

AccountInv == \A s \in Streams : Accounted(s)

(* What a stream does next agrees with its account. *)
LEMMA Accountable ==
  ASSUME NEW l, NEW events \in Nat, NEW done \in Nat, NEW usages \in Nat, NEW tasks \in Nat,
         NEW failed \in Nat, Accounts(l, events, done, usages, tasks, failed)
  PROVE  /\ l \in Unanswered =>
              /\ \A m \in Uncounted \cup {"ended"} :
                   Accounts(m, events + 1, done + 1, usages, tasks, failed)
              /\ Accounts("ended", events + 1, done, usages, tasks, failed)
         /\ l \in Uncounted => \A m \in Unsaved \cup {"ended"} :
              Accounts(m, events, done, usages + 1, tasks, failed)
         /\ l \in Unsaved =>
              /\ Accounts("ended", events, done, usages, tasks + 1, failed)
              /\ Accounts("ended", events + 1, done, usages, tasks, failed + 1)
              /\ Accounts("cache", events, done, usages, tasks, failed + 1)
<1>0. /\ \A m \in Uncounted : m \notin Unanswered \cup Unsaved \cup {"ended"}
      /\ \A m \in Unsaved : m \notin Unanswered \cup Uncounted \cup {"ended"}
      /\ "ended" \notin Unanswered \cup Uncounted \cup Unsaved
      /\ "cache" \in Unanswered /\ "cache" \notin Uncounted \cup Unsaved \cup {"ended"}
  BY DEF Unanswered, Uncounted, Unsaved
<1>1. CASE l \in Unanswered
  <2>1. events = failed /\ done = failed /\ usages = failed /\ tasks = 0
    BY <1>1 DEF Accounts
  <2>. QED  BY <1>0, <1>1, <2>1 DEF Accounts
<1>2. CASE l \in Uncounted
  <2>1. events = failed + 1 /\ done = failed + 1 /\ usages = failed /\ tasks = 0
    BY <1>2 DEF Accounts
  <2>. QED  BY <1>0, <1>2, <2>1 DEF Accounts
<1>3. CASE l \in Unsaved
  <2>1. events = failed + 1 /\ done = failed + 1 /\ usages = failed + 1 /\ tasks = 0
    BY <1>3 DEF Accounts
  <2>. QED  BY <1>0, <1>3, <2>1 DEF Accounts
<1>. QED  BY <1>1, <1>2, <1>3

LEMMA DoneType ==
  ASSUME RestType, NEW s \in Streams
  PROVE  Len(answers[s]) \in Nat /\ Done(s) \in Nat
         /\ counted[s] \in Nat /\ saved[s] \in Nat /\ refused[s] \in Nat
<1>1. answers[s] \in Seq({"done", "error"})
  BY DEF RestType
<1>2. Len(answers[s]) \in Nat /\ DOMAIN answers[s] = 1..Len(answers[s])
  BY <1>1
<1>3. IsFiniteSet({i \in DOMAIN answers[s] : answers[s][i] = "done"})
  <2>1. IsFiniteSet(1..Len(answers[s]))
    BY <1>2, FS_Interval
  <2>. QED  BY <1>2, <2>1, FS_Subset
<1>4. Done(s) \in Nat
  BY <1>3, FS_CardinalityType DEF Done
<1>. QED  BY <1>2, <1>4, StreamAssumption DEF RestType

LEMMA DoneAppend ==
  ASSUME RestType, NEW s \in Streams, NEW a \in {"done", "error"}, Answer(s, a)
  PROVE  /\ Len(answers'[s]) = Len(answers[s]) + 1
         /\ Done(s)' = IF a = "done" THEN Done(s) + 1 ELSE Done(s)
         /\ \A t \in Streams \ {s} : answers'[t] = answers[t]
<1>. DEFINE q == answers[s]
            r == Append(q, a)
            At(x) == {i \in DOMAIN x : x[i] = "done"}
<1>0. q \in Seq({"done", "error"}) /\ Len(q) \in Nat /\ DOMAIN q = 1..Len(q)
  BY DEF RestType
<1>1. answers'[s] = r /\ \A t \in Streams \ {s} : answers'[t] = answers[t]
  BY DEF Answer, RestType
<1>2. Done(s) = Cardinality(At(q)) /\ Done(s)' = Cardinality(At(r))
  BY <1>1 DEF Done
<1>. HIDE DEF q
<1>3. /\ DOMAIN r = 1..(Len(q) + 1) /\ Len(r) = Len(q) + 1
      /\ \A i \in 1..Len(q) : r[i] = q[i]
      /\ r[Len(q) + 1] = a
  BY <1>0
<1>. HIDE DEF r
<1>4. IsFiniteSet(At(q))
  <2>1. IsFiniteSet(1..Len(q))
    BY <1>0, FS_Interval
  <2>. QED  BY <1>0, <2>1, FS_Subset
<1>5. CASE a = "done"
  <2>1. At(r) = At(q) \cup {Len(q) + 1} /\ Len(q) + 1 \notin At(q)
    BY <1>0, <1>3, <1>5
  <2>2. Cardinality(At(r)) = Cardinality(At(q)) + 1
    BY <2>1, <1>4, FS_AddElement
  <2>. QED  BY <2>2, <1>1, <1>2, <1>3, <1>5 DEF q
<1>6. CASE a # "done"
  <2>1. At(r) = At(q)
    BY <1>0, <1>3, <1>6
  <2>. QED  BY <2>1, <1>1, <1>2, <1>3, <1>6 DEF q
<1>. QED  BY <1>5, <1>6

(* The other streams, while one moves.                                        *)
LEMMA AccountMoved ==
  ASSUME AccountInv, NEW s \in Streams, NEW l, Moves(s, l),
         \A t \in Streams \ {s} : /\ answers'[t] = answers[t] /\ counted'[t] = counted[t]
                                  /\ saved'[t] = saved[t] /\ refused'[t] = refused[t],
         Accounted(s)'
  PROVE  AccountInv'
<1>1. ASSUME NEW t \in Streams, t # s PROVE Accounted(t)'
  <2>1. Accounted(t)
    BY DEF AccountInv
  <2>2. Done(t)' = Done(t)
    BY <1>1 DEF Done
  <2>3. pc'[t] = pc[t] \/ (pc[t] = "waiting" /\ pc'[t] = "granted")
    BY <1>1 DEF Moves
  <2>4. CASE pc'[t] = pc[t]
    BY <1>1, <2>1, <2>2, <2>4 DEF Accounted
  <2>5. CASE pc[t] = "waiting" /\ pc'[t] = "granted"
    <3>1. Accounts("granted", Len(answers[t]), Done(t), counted[t], saved[t], refused[t])
      BY <2>1, <2>5 DEF Accounted, Accounts, Unanswered, Uncounted, Unsaved
    <3>. QED  BY <1>1, <2>2, <2>5, <3>1 DEF Accounted
  <2>. QED  BY <2>3, <2>4, <2>5
<1>. QED  BY <1>1 DEF AccountInv

(* A step that leaves the accounts alone: on the way to an answer, or away.   *)
LEMMA AccountKept ==
  ASSUME RestType, AccountInv, NEW s \in Streams, NEW l, Moves(s, l),
         UNCHANGED <<answers, countVars>>,
         l \in {"cut", "broken"} \/ (pc[s] \in Unanswered /\ l \in Unanswered)
  PROVE  AccountInv'
<1>1. Accounted(s) /\ pc'[s] = l
  BY DEF AccountInv, Moves
<1>2. Done(s)' = Done(s)
  BY DEF Done
<1>3. Accounts(l, Len(answers[s]), Done(s), counted[s], saved[s], refused[s])
  BY <1>1 DEF Accounted, Accounts, Unanswered, Uncounted, Unsaved
<1>. QED  BY <1>1, <1>2, <1>3, AccountMoved DEF Accounted, countVars

(* A stream that answers, with a result or with an error.                     *)
LEMMA AccountDone ==
  ASSUME pc \in [Streams -> States], RestType, AccountInv, NEW s \in Streams,
         NEW l \in Uncounted, SendDone(s, l), pc[s] \in Unanswered, UNCHANGED countVars
  PROVE  AccountInv'
<1>1. Answer(s, "done")
  BY DEF SendDone
<1>2. PICK m \in Uncounted \cup {"ended"} : Moves(s, m)
  BY GoMoves DEF SendDone
<1>3. Accounted(s) /\ pc'[s] = m
  BY <1>2 DEF AccountInv, Moves
<1>4. Accounts(m, Len(answers[s]) + 1, Done(s) + 1, counted[s], saved[s], refused[s])
  BY <1>2, <1>3, DoneType, Accountable DEF Accounted
<1>5. Accounted(s)'
  BY <1>1, <1>3, <1>4, DoneAppend DEF Accounted, countVars
<1>. QED  BY <1>1, <1>2, <1>5, DoneAppend, AccountMoved DEF countVars

LEMMA AccountFail ==
  ASSUME RestType, AccountInv, NEW s \in Streams,
         Moves(s, "ended"), Answer(s, "error"), pc[s] \in Unanswered, UNCHANGED countVars
  PROVE  AccountInv'
<1>1. Accounted(s) /\ pc'[s] = "ended"
  BY DEF AccountInv, Moves
<1>2. Accounts("ended", Len(answers[s]) + 1, Done(s), counted[s], saved[s], refused[s])
  BY <1>1, DoneType, Accountable DEF Accounted
<1>3. Accounted(s)'
  BY <1>1, <1>2, DoneAppend DEF Accounted, countVars
<1>. QED  BY <1>3, DoneAppend, AccountMoved DEF countVars

LEMMA AccountStep ==
  ASSUME pc \in [Streams -> States], RestType, AccountInv, [Next]_vars
  PROVE  AccountInv'
<1>1. CASE UNCHANGED vars
  BY <1>1 DEF AccountInv, Accounted, Done, vars, countVars
<1>2. ASSUME NEW s \in Streams, HitAst(s) \/ HitCache(s) \/ Send(s) PROVE AccountInv'
  <2>1. PICK l \in Uncounted : SendDone(s, l)
    BY <1>2 DEF HitAst, HitCache, Send, Uncounted
  <2>2. pc[s] \in Unanswered /\ UNCHANGED countVars
    BY <1>2 DEF HitAst, HitCache, Send, Unanswered
  <2>. QED  BY <2>1, <2>2, AccountDone
<1>3. ASSUME NEW s \in Streams, Miss(s) \/ Acquire(s) \/ Resume(s)
                                \/ Open(s) \/ ProviderFails(s) \/ ProviderEnds(s) \/ Exhausted(s)
                                \/ Store(s)
      PROVE  AccountInv'
  <2>1. PICK l \in Unanswered : Moves(s, l)
    BY <1>3, GoMoves, WakeNextMoves
    DEF Miss, Acquire, Resume, Open, ProviderFails, ProviderEnds, Exhausted, Release, Store,
        Unanswered
  <2>2. pc[s] \in Unanswered
    BY <1>3 DEF Miss, Acquire, Resume, Open, ProviderFails, ProviderEnds, Exhausted, Store,
                Unanswered
  <2>3. UNCHANGED <<answers, countVars>>
    BY <1>3 DEF Miss, Acquire, Resume, Open, ProviderFails, ProviderEnds, Exhausted, Store
  <2>. QED  BY <2>1, <2>2, <2>3, AccountKept
<1>4. ASSUME NEW s \in Streams, Limit(s) \/ Disconnect(s) PROVE AccountInv'
  <2>1. PICK l \in {"cut", "broken"} : Moves(s, l)
    BY <1>4, GoMoves, GiveUpMoves, WakeNextMoves DEF Limit, Disconnect, Release
  <2>2. UNCHANGED <<answers, countVars>>
    BY <1>4 DEF Limit, Disconnect
  <2>. QED  BY <2>1, <2>2, AccountKept
<1>5. ASSUME NEW s \in Streams, AcquireTimeout(s) \/ NoStale(s) \/ NotParsed(s) PROVE AccountInv'
  <2>1. Moves(s, "ended") /\ Answer(s, "error")
    BY <1>5, GoMoves, GiveUpMoves DEF AcquireTimeout, NoStale, NotParsed, Fail
  <2>2. pc[s] \in Unanswered /\ UNCHANGED countVars
    BY <1>5 DEF AcquireTimeout, GiveUp, NoStale, NotParsed, Unanswered
  <2>. QED  BY <2>1, <2>2, AccountFail
<1>6. ASSUME NEW s \in Streams, Chunk(s) PROVE AccountInv'
  BY <1>6 DEF Chunk, AccountInv, Accounted, Done, countVars
<1>7. ASSUME NEW s \in Streams, FindStale(s) PROVE AccountInv'
  <2>1. Fail(s) \/ SendDone(s, "count")
    BY <1>7 DEF FindStale
  <2>2. pc[s] \in Unanswered /\ UNCHANGED countVars
    BY <1>7 DEF FindStale, Unanswered
  <2>3. CASE Fail(s)
    BY <2>2, <2>3, GoMoves, AccountFail DEF Fail
  <2>4. CASE SendDone(s, "count")
    <3>1. "count" \in Uncounted
      BY DEF Uncounted
    <3>. QED  BY <2>2, <2>4, <3>1, AccountDone
  <2>. QED  BY <2>1, <2>3, <2>4
<1>8. ASSUME NEW s \in Streams, Parse(s) PROVE AccountInv'
  <2>1. Fail(s) \/ (Go(s, IF s \in Ephemeral THEN "send" ELSE "store") /\ answers' = answers)
    BY <1>8 DEF Parse
  <2>2. pc[s] \in Unanswered /\ UNCHANGED countVars
    BY <1>8 DEF Parse, Unanswered
  <2>3. CASE Fail(s)
    BY <2>2, <2>3, GoMoves, AccountFail DEF Fail
  <2>4. CASE Go(s, IF s \in Ephemeral THEN "send" ELSE "store") /\ answers' = answers
    <3>1. PICK l \in Unanswered : Moves(s, l)
      BY <2>4, GoMoves DEF Unanswered
    <3>. QED  BY <2>2, <2>4, <3>1, AccountKept
  <2>. QED  BY <2>1, <2>3, <2>4
<1>9. ASSUME NEW s \in Streams, Count(s) PROVE AccountInv'
  <2>1. PICK l \in Unsaved \cup {"ended"} : Moves(s, l) /\ pc[s] \in Uncounted
    BY <1>9, GoMoves DEF Count, Unsaved, Uncounted
  <2>2. /\ counted'[s] = counted[s] + 1
        /\ \A t \in Streams \ {s} : counted'[t] = counted[t]
        /\ UNCHANGED <<answers, saved, refused>>
    BY <1>9 DEF Count, RestType
  <2>3. Accounted(s) /\ pc'[s] = l /\ Done(s)' = Done(s)
    BY <2>1, <2>2 DEF AccountInv, Moves, Done
  <2>4. Accounts(l, Len(answers[s]), Done(s), counted[s] + 1, saved[s], refused[s])
    BY <2>1, <2>3, DoneType, Accountable DEF Accounted
  <2>5. Accounted(s)'
    BY <2>2, <2>3, <2>4 DEF Accounted
  <2>. QED  BY <2>1, <2>2, <2>5, AccountMoved
<1>10. ASSUME NEW s \in Streams, Dispatch(s) PROVE AccountInv'
  <2>1. Moves(s, "ended") /\ pc[s] \in Unsaved
    BY <1>10, GoMoves DEF Dispatch, Unsaved
  <2>2. /\ saved'[s] = saved[s] + 1
        /\ \A t \in Streams \ {s} : saved'[t] = saved[t]
        /\ UNCHANGED <<answers, counted, refused>>
    BY <1>10 DEF Dispatch, RestType
  <2>3. Accounted(s) /\ pc'[s] = "ended" /\ Done(s)' = Done(s)
    BY <2>1, <2>2 DEF AccountInv, Moves, Done
  <2>4. Accounts("ended", Len(answers[s]), Done(s), counted[s], saved[s] + 1, refused[s])
    BY <2>1, <2>3, DoneType, Accountable DEF Accounted
  <2>5. Accounted(s)'
    BY <2>2, <2>3, <2>4 DEF Accounted
  <2>. QED  BY <2>1, <2>2, <2>5, AccountMoved
<1>11. ASSUME NEW s \in Streams, DispatchFails(s) PROVE AccountInv'
  <2>1. /\ refused'[s] = refused[s] + 1
        /\ \A t \in Streams \ {s} : refused'[t] = refused[t]
        /\ UNCHANGED <<counted, saved>>
    BY <1>11 DEF DispatchFails, RestType
  <2>2. Accounted(s)
    BY DEF AccountInv
  <2>3. CASE pc[s] = "dispatch" /\ Fail(s)
    <3>1. Moves(s, "ended") /\ Answer(s, "error")
      BY <2>3, GoMoves DEF Fail
    <3>2. Accounts("ended", Len(answers[s]) + 1, Done(s), counted[s], saved[s], refused[s] + 1)
      BY <2>2, <2>3, DoneType, Accountable DEF Accounted, Unsaved
    <3>3. Accounted(s)'
      BY <2>1, <3>1, <3>2, DoneAppend DEF Accounted, Moves
    <3>. QED  BY <2>1, <3>1, <3>3, DoneAppend, AccountMoved
  <2>4. CASE pc[s] = "dispatch AST" /\ Go(s, "cache") /\ answers' = answers
    <3>1. Moves(s, "cache") /\ Done(s)' = Done(s)
      BY <2>4, GoMoves DEF Done
    <3>2. Accounts("cache", Len(answers[s]), Done(s), counted[s], saved[s], refused[s] + 1)
      BY <2>2, <2>4, DoneType, Accountable DEF Accounted, Unsaved
    <3>3. Accounted(s)'
      BY <2>1, <2>4, <3>1, <3>2 DEF Accounted, Moves
    <3>. QED  BY <2>1, <2>4, <3>1, <3>3, AccountMoved
  <2>. QED  BY <1>11, <2>3, <2>4 DEF DispatchFails
<1>. QED
  BY <1>1, <1>2, <1>3, <1>4, <1>5, <1>6, <1>7, <1>8, <1>9, <1>10, <1>11
  DEF Next, Lookup, Slot, Provide, Finish

(* A stream ends with one event and counts once, but for the histories the    *)
(* broker refused; nothing is counted unanswered, or saved uncounted.         *)
THEOREM StreamsAnswerOnce == Spec => []AnsweredOnce
<1>1. Init => AccountInv
  <2>. SUFFICES ASSUME Init, NEW s \in Streams PROVE Accounted(s)
    BY DEF AccountInv
  <2>1. /\ pc[s] \in {"limits", "cache", "ast"} /\ answers[s] = <<>>
        /\ counted[s] = 0 /\ saved[s] = 0 /\ refused[s] = 0
    BY DEF Init
  <2>2. {i \in DOMAIN answers[s] : answers[s][i] = "done"} = {}
    BY <2>1
  <2>3. Done(s) = 0 /\ Len(answers[s]) = 0
    BY <2>1, <2>2, FS_EmptySet DEF Done
  <2>4. pc[s] \in Unanswered
    BY <2>1 DEF Unanswered
  <2>5. pc[s] \notin Uncounted \cup Unsaved \cup {"ended"}
    BY <2>1 DEF Uncounted, Unsaved
  <2>6. Accounts(pc[s], 0, 0, 0, 0, 0)
    BY <2>4, <2>5 DEF Accounts
  <2>. QED  BY <2>1, <2>3, <2>6 DEF Accounted
<1>2. Inv /\ AccountInv /\ [Next]_vars => AccountInv'
  BY AccountStep DEF Inv, SlotInv
<1>3. Inv /\ AccountInv => AnsweredOnce
  <2>. SUFFICES ASSUME Inv, AccountInv, NEW s \in Streams
                PROVE  /\ Len(answers[s]) <= 1 + refused[s]
                       /\ counted[s] <= Done(s)
                       /\ saved[s] <= 1 /\ saved[s] + refused[s] <= counted[s]
                       /\ pc[s] = "ended" => answers[s] # <<>>
    BY DEF AnsweredOnce
  <2>1. Accounted(s)
    BY DEF AccountInv
  <2>2. Len(<<>>) = 0
    OBVIOUS
  <2>. QED  BY <2>1, <2>2, DoneType DEF Inv, Accounted, Accounts
<1>. QED  BY <1>1, <1>2, <1>3, InvHolds, PTL DEF Spec
=============================================================================
