---------------------------- MODULE TwoTierCache ----------------------------
(* One key of RedisCache as several API processes see it: an L1 copy in each *)
(* process, the entry in Redis they share, and each process's fallback for   *)
(* the time Redis is down.  Each client runs one cache call at a time; a     *)
(* call touches the tiers one after the other, with awaits in between.       *)
EXTENDS Naturals

CONSTANTS
  Processes,    \* API processes
  Clients,      \* handlers that use the key
  ProcessOf,    \* the process each runs in
  Values,       \* what may be stored
  Ttl,          \* the key's time to live, in ticks
  L1Ttl,        \* the L1 cache's (600 s)
  MayFail       \* Redis may be down

CacheAssumption ==
  /\ ProcessOf \in [Clients -> Processes]
  /\ Ttl \in Nat \ {0} /\ L1Ttl \in Nat \ {0}
  /\ MayFail \in BOOLEAN

VARIABLES
  redis,       \* the entry in Redis
  l1,          \* each process's L1 entry
  fallback,    \* each process's LRU entry
  up,          \* Redis answers
  ticked       \* clients whose call the clock has already overtaken

cacheVars == <<redis, l1, fallback, up, ticked>>

(* An entry and the ticks it has left; with none left it is gone. *)
Entry(limit) == [value : Values, left : 0..limit]
NoEntry == [value |-> CHOOSE v \in Values : TRUE, left |-> 0]
Live(e) == e.left > 0

(* Mutant: an entry in its last tick stays. *)
OlderKeeps(e) == IF e.left > 1 THEN [e EXCEPT !.left = @ - 1] ELSE e

Older(e) == IF e.left > 1 THEN [e EXCEPT !.left = @ - 1] ELSE NoEntry

Shorter(m, n) == IF m < n THEN m ELSE n

CacheTypeOK ==
  /\ redis \in Entry(Ttl)
  /\ l1 \in [Processes -> Entry(L1Ttl)]
  /\ fallback \in [Processes -> Entry(Ttl)]
  /\ up \in BOOLEAN
  /\ ticked \subseteq Clients

CacheInit ==
  /\ redis = NoEntry
  /\ l1 = [p \in Processes |-> NoEntry]
  /\ fallback = [p \in Processes |-> NoEntry]
  /\ up = TRUE
  /\ ticked = {}

L1Of(c) == l1[ProcessOf[c]]
FallbackOf(c) == fallback[ProcessOf[c]]

(* What the second tier gives on an L1 miss: Redis' entry or, without one, *)
(* the fallback's.                                                         *)
SecondTier(c) == IF up /\ Live(redis) THEN redis ELSE FallbackOf(c)

SetL1(c, v, ttl) == l1' = [l1 EXCEPT ![ProcessOf[c]] = [value |-> v, left |-> ttl]]

(* get: a value of the second tier is kept in L1, for the L1's lifetime. *)
Populate(c, v) == SetL1(c, v, L1Ttl)

(* put: the L1 first, *)
PutL1(c, v) == SetL1(c, v, Shorter(Ttl, L1Ttl))

(* then Redis or, when it is down, the fallback. *)
PutSecond(c, v) ==
  IF up
    THEN redis' = [value |-> v, left |-> Ttl] /\ UNCHANGED fallback
    ELSE fallback' = [fallback EXCEPT ![ProcessOf[c]] = [value |-> v, left |-> Ttl]]
         /\ UNCHANGED redis

(* delete: the process's own L1, Redis if it answers, its own fallback. *)
DeleteL1(c) == l1' = [l1 EXCEPT ![ProcessOf[c]] = NoEntry]
DeleteSecond(c) ==
  /\ redis' = IF up THEN NoEntry ELSE redis
  /\ fallback' = [fallback EXCEPT ![ProcessOf[c]] = NoEntry]

(* A tick of the clock ages every entry.  No cache call takes so long that *)
(* two ticks overtake it (the sockets time out after half a second).       *)
Tick(busy) ==
  /\ busy \cap ticked = {}
  /\ redis' = Older(redis)
  /\ l1' = [p \in Processes |-> Older(l1[p])]
  /\ fallback' = [p \in Processes |-> Older(fallback[p])]
  /\ ticked' = busy
  /\ UNCHANGED up

RedisFails == MayFail /\ up /\ up' = FALSE /\ UNCHANGED <<redis, l1, fallback, ticked>>
RedisReturns == ~up /\ up' = TRUE /\ UNCHANGED <<redis, l1, fallback, ticked>>
==============================================================================
