-------------------------- MODULE TranslationStream --------------------------
(* stream_code_to_english and stream_code_to_code: the streams one process    *)
(* serves for one piece of code.  A stream answers from a cache or, holding   *)
(* one of the process's slots, from the first provider that delivers.         *)
EXTENDS Integers, Sequences, FiniteSets

CONSTANTS
  Streams,         \* requests for the same code
  CodeToCode,      \* those served by stream_code_to_code
  Ephemeral,       \* those in ephemeral privacy mode
  Guests,          \* those without an e-mail
  Depths,          \* depths of an explanation
  DepthOf,         \* the depth each stream asks for
  EarlierDepths,   \* depths that earlier streams may have left in the caches
  Providers,       \* providers are tried in the order 1..Providers
  Slots,           \* config.WORKER_CONCURRENT_STREAMS
  BrokerFailures   \* bound: dispatches that fail

Elsewhere == "elsewhere"   \* a request served before, or by the sync endpoint

ASSUME StreamAssumption ==
  /\ IsFiniteSet(Streams) /\ Elsewhere \notin Streams
  /\ CodeToCode \subseteq Streams
  /\ Ephemeral \subseteq Streams
  /\ Guests \subseteq Streams
  /\ DepthOf \in [Streams -> Depths]
  /\ EarlierDepths \subseteq Depths
  /\ Providers \in Nat
  /\ Slots \in Nat \ {0}
  /\ BrokerFailures \in Nat

VARIABLES
  pc,         \* where each stream is
  free,       \* the semaphore's value
  queue,      \* its waiters, in order
  at,         \* the last provider each stream tried
  content,    \* full_content: the providers whose text it holds
  model,      \* used_model, 0 until a provider has delivered
  result,     \* the blocks of each stream
  cached,     \* the response cache, one entry per endpoint
  astCached,  \* the AST cache, one entry per depth
  answers,    \* the final events each stream sent
  counted,    \* calls of record_successful_completion
  saved,      \* history tasks dispatched
  refused     \* dispatches of each stream that failed

slotVars == <<free, queue>>
textVars == <<at, content, model>>
cacheVars == <<cached, astCached>>
countVars == <<counted, saved, refused>>
vars == <<pc, slotVars, textVars, result, cacheVars, answers, countVars>>

------------------------------------------------------------------------------
NoResult == [of |-> "nobody"]
Earlier(d) == [of |-> Elsewhere, by |-> {1}, model |-> 1, depth |-> d, valid |-> TRUE]
Results ==
  [of : Streams \cup {Elsewhere}, by : SUBSET Nat, model : Nat, depth : Depths,
   valid : BOOLEAN]
Endpoints == {"code-to-english", "code-to-code"}
Endpoint(s) == IF s \in CodeToCode THEN "code-to-code" ELSE "code-to-english"

States ==
  {"ast", "cache", "limits", "waiting", "granted", "next", "streaming", "stale",
   "parse", "store", "send", "count", "dispatch",
   "count AST", "dispatch AST", "ended", "cut", "broken"}
Over == {"ended", "cut", "broken"}
Holding == {"granted", "next", "streaming"}   \* where a stream has a slot

TypeOK ==
  /\ pc \in [Streams -> States]
  /\ free \in 0..Slots
  /\ queue \in Seq(Streams)
  /\ at \in [Streams -> 0..Providers]
  /\ content \in [Streams -> SUBSET (1..Providers)]
  /\ model \in [Streams -> 0..Providers]
  /\ result \in [Streams -> Results \cup {NoResult}]
  /\ cached \in [Endpoints -> Results \cup {NoResult}]
  /\ astCached \in [Depths -> Results \cup {NoResult}]
  /\ answers \in [Streams -> Seq({"done", "error"})]
  /\ counted \in [Streams -> Nat]
  /\ saved \in [Streams -> Nat]
  /\ refused \in [Streams -> 0..BrokerFailures]

(* Both caches may hold what earlier requests put there; only the AST cache   *)
(* is keyed by depth.                                                         *)
Init ==
  /\ pc = [s \in Streams |-> IF s \in Ephemeral THEN "limits"
                             ELSE IF s \in CodeToCode THEN "cache" ELSE "ast"]
  /\ free = Slots
  /\ queue = <<>>
  /\ at = [s \in Streams |-> 0]
  /\ content = [s \in Streams |-> {}]
  /\ model = [s \in Streams |-> 0]
  /\ result = [s \in Streams |-> NoResult]
  /\ cached \in [Endpoints -> {NoResult} \cup {Earlier(d) : d \in EarlierDepths}]
  /\ astCached \in {a \in [Depths -> {NoResult} \cup {Earlier(d) : d \in EarlierDepths}] :
                      \A d \in Depths : a[d] \in {NoResult, Earlier(d)}}
  /\ answers = [s \in Streams |-> <<>>]
  /\ counted = [s \in Streams |-> 0]
  /\ saved = [s \in Streams |-> 0]
  /\ refused = [s \in Streams |-> 0]

------------------------------------------------------------------------------
(* asyncio.Semaphore: a release hands the slot to the first waiter that has   *)
(* not been handed one; that waiter takes it when the event loop resumes it.  *)
Go(s, l) == pc' = [pc EXCEPT ![s] = l]
Without(q, s) ==
  LET p == CHOOSE i \in DOMAIN q : q[i] = s
  IN  [i \in 1..(Len(q) - 1) |-> IF i < p THEN q[i] ELSE q[i + 1]]
FirstWaiting(p, q) == {t \in Streams :
  \E i \in DOMAIN q : q[i] = t /\ p[t] = "waiting" /\ \A j \in 1..(i - 1) : p[q[j]] # "waiting"}

(* s goes on at l with the slots f and the waiters q, and wakes the next      *)
(* waiter if a slot is left.                                                  *)
WakeNext(s, l, q, f) ==
  LET p == [pc EXCEPT ![s] = l]
      next == IF f > 0 THEN FirstWaiting(p, q) ELSE {}
  IN  /\ pc' = [t \in Streams |-> IF t \in next THEN "granted" ELSE p[t]]
      /\ free' = f - Cardinality(next)
      /\ queue' = q

(* Mutant: a slot that is given back is counted, but nobody is told.          *)
ReleaseSilently(s, l) == Go(s, l) /\ free' = free + 1 /\ UNCHANGED queue

Release(s, l) == WakeNext(s, l, queue, free + 1)

(* An answer ends with one event; a stream may also send an error.            *)
Answer(s, a) == answers' = [answers EXCEPT ![s] = Append(@, a)]

(* The blocks go out in the last event; a stream without e-mail is over.      *)
SendDone(s, l) ==
  /\ Answer(s, "done")
  /\ Go(s, IF s \in Guests THEN "ended" ELSE l)

Fail(s) ==
  /\ Answer(s, "error")
  /\ Go(s, "ended")

------------------------------------------------------------------------------
(* An entry that is found may have expired before, so a lookup may also miss. *)
HitAst(s) ==
  /\ pc[s] = "ast"
  /\ astCached[DepthOf[s]] # NoResult
  /\ result' = [result EXCEPT ![s] = astCached[DepthOf[s]]]
  /\ SendDone(s, "count AST")
  /\ UNCHANGED <<slotVars, textVars, cacheVars, countVars>>

HitCache(s) ==
  /\ pc[s] = "cache"
  /\ cached[Endpoint(s)] # NoResult
  /\ result' = [result EXCEPT ![s] = cached[Endpoint(s)]]
  /\ SendDone(s, "count")
  /\ UNCHANGED <<slotVars, textVars, cacheVars, countVars>>

Miss(s) ==
  /\ \/ pc[s] = "ast" /\ Go(s, "cache")
     \/ pc[s] = "cache" /\ Go(s, "limits")
  /\ UNCHANGED <<slotVars, textVars, result, cacheVars, answers, countVars>>

(* check_and_track_groq_limits raises HTTPException, which is raised again:   *)
(* the response ends without a last event.                                    *)
Limit(s) ==
  /\ pc[s] = "limits"
  /\ Go(s, "broken")
  /\ UNCHANGED <<slotVars, textVars, result, cacheVars, answers, countVars>>

Acquire(s) ==
  /\ pc[s] = "limits"
  /\ at' = [at EXCEPT ![s] = 0]
  /\ content' = [content EXCEPT ![s] = {}]
  /\ model' = [model EXCEPT ![s] = 0]
  /\ IF free > 0 /\ queue = <<>>
       THEN Go(s, "next") /\ free' = free - 1 /\ queue' = queue
       ELSE Go(s, "waiting") /\ free' = free /\ queue' = Append(queue, s)
  /\ UNCHANGED <<result, cacheVars, answers, countVars>>

Resume(s) ==
  /\ pc[s] = "granted"
  /\ WakeNext(s, "next", Without(queue, s), free)
  /\ UNCHANGED <<textVars, result, cacheVars, answers, countVars>>

(* wait_for gives up; a waiter that was handed a slot gives it back.          *)
GiveUp(s, l) ==
  \/ /\ pc[s] = "waiting"
     /\ Go(s, l)
     /\ queue' = Without(queue, s)
     /\ free' = free
  \/ /\ pc[s] = "granted"
     /\ WakeNext(s, l, Without(queue, s), free + 1)

(* Mutant: waiting without a limit.                                           *)
AcquireTimeoutNever(s) ==
  /\ pc[s] = "granted"
  /\ GiveUp(s, "ended")
  /\ Answer(s, "error")
  /\ UNCHANGED <<textVars, result, cacheVars, countVars>>

AcquireTimeout(s) ==
  /\ GiveUp(s, "ended")
  /\ Answer(s, "error")
  /\ UNCHANGED <<textVars, result, cacheVars, countVars>>

------------------------------------------------------------------------------
(* The loop over the providers.  What a provider sends may be blank: its text *)
(* then is stripped to nothing and the next one is asked.                     *)
Open(s) ==
  /\ pc[s] = "next"
  /\ at[s] < Providers
  /\ at' = [at EXCEPT ![s] = @ + 1]
  /\ content' = [content EXCEPT ![s] = {}]
  /\ Go(s, "streaming")
  /\ UNCHANGED <<slotVars, model, result, cacheVars, answers, countVars>>

Chunk(s) ==
  /\ pc[s] = "streaming"
  /\ content' = [content EXCEPT ![s] = @ \cup {at[s]}]
  /\ UNCHANGED <<pc, slotVars, at, model, result, cacheVars, answers, countVars>>

(* The text of a provider that broke off is kept.                             *)
ProviderFailsKeeps(s) ==
  /\ \/ pc[s] = "streaming" /\ at' = at
     \/ pc[s] = "next" /\ at[s] < Providers /\ at' = [at EXCEPT ![s] = @ + 1]
  /\ content' = content
  /\ Go(s, "next")
  /\ UNCHANGED <<slotVars, model, result, cacheVars, answers, countVars>>

(* The provider refuses, times out or breaks off.                             *)
ProviderFails(s) ==
  /\ \/ pc[s] = "streaming" /\ at' = at
     \/ pc[s] = "next" /\ at[s] < Providers /\ at' = [at EXCEPT ![s] = @ + 1]
  /\ content' = [content EXCEPT ![s] = {}]
  /\ Go(s, "next")
  /\ UNCHANGED <<slotVars, model, result, cacheVars, answers, countVars>>

ProviderEnds(s) ==
  /\ pc[s] = "streaming"
  /\ IF content[s] = {}
       THEN Go(s, "next") /\ UNCHANGED <<slotVars, model>>
       ELSE Release(s, "parse") /\ model' = [model EXCEPT ![s] = at[s]]
  /\ UNCHANGED <<at, content, result, cacheVars, answers, countVars>>

(* The slot is only released after an answer.                                 *)
ExhaustedKeeps(s) ==
  /\ pc[s] = "next"
  /\ at[s] = Providers
  /\ IF content[s] = {} THEN Go(s, "stale") /\ UNCHANGED slotVars ELSE Release(s, "parse")
  /\ UNCHANGED <<textVars, result, cacheVars, answers, countVars>>

Exhausted(s) ==
  /\ pc[s] = "next"
  /\ at[s] = Providers
  /\ Release(s, IF content[s] = {} THEN "stale" ELSE "parse")
  /\ UNCHANGED <<textVars, result, cacheVars, answers, countVars>>

------------------------------------------------------------------------------
(* Only code can be found invalid.                                            *)
Validity(s) == IF s \in CodeToCode THEN BOOLEAN ELSE {TRUE}

(* Stale code is answered as it is found.                                     *)
FindStaleUnchecked(s) ==
  /\ pc[s] = "stale"
  /\ s \notin Ephemeral
  /\ \E d \in Depths, v \in Validity(s) :
       result' = [result EXCEPT ![s] = [Earlier(d) EXCEPT !.valid = v]]
  /\ SendDone(s, "count")
  /\ UNCHANGED <<slotVars, textVars, cacheVars, countVars>>

(* find_stale_translation looks under the keys of the sync endpoint, which    *)
(* explains code; its blocks are code of the target language only by chance.  *)
FindStale(s) ==
  /\ pc[s] = "stale"
  /\ s \notin Ephemeral
  /\ \E d \in Depths, v \in Validity(s) :
       LET found == [Earlier(d) EXCEPT !.valid = v]
       IN  IF s \in CodeToCode /\ ~v
             THEN Fail(s) /\ result' = result
             ELSE SendDone(s, "count") /\ result' = [result EXCEPT ![s] = found]
  /\ UNCHANGED <<slotVars, textVars, cacheVars, countVars>>

NoStale(s) ==
  /\ pc[s] = "stale"
  /\ Fail(s)
  /\ UNCHANGED <<slotVars, textVars, result, cacheVars, countVars>>

------------------------------------------------------------------------------
(* The privacy mode is not asked for before the cache is written.             *)
ParseStores(s) ==
  /\ pc[s] = "parse"
  /\ \E v \in Validity(s) :
       /\ result' = [result EXCEPT ![s] =
            [of |-> s, by |-> content[s], model |-> model[s], depth |-> DepthOf[s], valid |-> v]]
       /\ IF s \in CodeToCode /\ ~v THEN Fail(s) ELSE Go(s, "store") /\ answers' = answers
  /\ UNCHANGED <<slotVars, textVars, cacheVars, countVars>>

(* The text is JSON, or json.loads raises.  Only code of a language with a    *)
(* parser that finds no error in it is handed on.                             *)
Parse(s) ==
  /\ pc[s] = "parse"
  /\ \E v \in Validity(s) :
       /\ result' = [result EXCEPT ![s] =
            [of |-> s, by |-> content[s], model |-> model[s], depth |-> DepthOf[s], valid |-> v]]
       /\ IF s \in CodeToCode /\ ~v
            THEN Fail(s)
            ELSE Go(s, IF s \in Ephemeral THEN "send" ELSE "store") /\ answers' = answers
  /\ UNCHANGED <<slotVars, textVars, cacheVars, countVars>>

NotParsed(s) ==
  /\ pc[s] = "parse"
  /\ Fail(s)
  /\ UNCHANGED <<slotVars, textVars, result, cacheVars, countVars>>

(* stream_code_to_code reads payload.language, which its payload has not, so  *)
(* its lookups in the AST cache and its stores there always fail, unnoticed.  *)
Store(s) ==
  /\ pc[s] = "store"
  /\ cached' = [cached EXCEPT ![Endpoint(s)] = result[s]]
  /\ astCached' = IF s \in CodeToCode THEN astCached
                  ELSE [astCached EXCEPT ![DepthOf[s]] = result[s]]
  /\ Go(s, "send")
  /\ UNCHANGED <<slotVars, textVars, result, answers, countVars>>

Send(s) ==
  /\ pc[s] = "send"
  /\ SendDone(s, "count")
  /\ UNCHANGED <<slotVars, textVars, result, cacheVars, countVars>>

------------------------------------------------------------------------------
(* What an answer with an e-mail leaves behind: the usage, then the history.  *)
Count(s) ==
  /\ \/ pc[s] = "count" /\ Go(s, IF s \in Ephemeral THEN "ended" ELSE "dispatch")
     \/ pc[s] = "count AST" /\ Go(s, "dispatch AST")
  /\ counted' = [counted EXCEPT ![s] = @ + 1]
  /\ UNCHANGED <<slotVars, textVars, result, cacheVars, answers, saved, refused>>

(* The branch of the AST cache does not return.                               *)
DispatchGoesOn(s) ==
  /\ pc[s] \in {"dispatch", "dispatch AST"}
  /\ saved' = [saved EXCEPT ![s] = @ + 1]
  /\ Go(s, IF pc[s] = "dispatch" THEN "ended" ELSE "cache")
  /\ UNCHANGED <<slotVars, textVars, result, cacheVars, answers, counted, refused>>

Dispatch(s) ==
  /\ pc[s] \in {"dispatch", "dispatch AST"}
  /\ saved' = [saved EXCEPT ![s] = @ + 1]
  /\ Go(s, "ended")
  /\ UNCHANGED <<slotVars, textVars, result, cacheVars, answers, counted, refused>>

(* The broker does not take the task.  After an answer from the AST cache the *)
(* exception counts as a lookup that was bypassed, and the stream goes on.    *)
DispatchFails(s) ==
  /\ refused[s] < BrokerFailures
  /\ refused' = [refused EXCEPT ![s] = @ + 1]
  /\ \/ pc[s] = "dispatch" /\ Fail(s)
     \/ pc[s] = "dispatch AST" /\ Go(s, "cache") /\ answers' = answers
  /\ UNCHANGED <<slotVars, textVars, result, cacheVars, counted, saved>>

(* The client goes away: the stream is cancelled where it is.                 *)
Disconnect(s) ==
  /\ \/ GiveUp(s, "cut")
     \/ pc[s] \in {"next", "streaming"} /\ Release(s, "cut")
     \/ /\ pc[s] \notin Over \cup Holding \cup {"waiting"}
        /\ Go(s, "cut")
        /\ UNCHANGED slotVars
  /\ UNCHANGED <<textVars, result, cacheVars, answers, countVars>>

Lookup(s) == HitAst(s) \/ HitCache(s) \/ Miss(s)
Slot(s) == Limit(s) \/ Acquire(s) \/ Resume(s) \/ AcquireTimeout(s)
Provide(s) == Open(s) \/ Chunk(s) \/ ProviderFails(s) \/ ProviderEnds(s) \/ Exhausted(s)
Finish(s) ==
  \/ FindStale(s) \/ NoStale(s) \/ Parse(s) \/ NotParsed(s) \/ Store(s) \/ Send(s)
  \/ Count(s) \/ Dispatch(s) \/ DispatchFails(s)

Next == \E s \in Streams :
  Lookup(s) \/ Slot(s) \/ Provide(s) \/ Finish(s) \/ Disconnect(s)

(* Timers fire and the event loop resumes what is ready; a provider may be    *)
(* silent for ever and a client may stay connected.                           *)
Spec == Init /\ [][Next]_vars
             /\ \A s \in Streams : WF_vars(AcquireTimeout(s)) /\ WF_vars(Resume(s))

------------------------------------------------------------------------------
(* get_stream_semaphore: every slot is free or some stream has it, whatever   *)
(* times out, fails or disconnects, so capacity is never lost or exceeded.    *)
SlotsConserved ==
  free + Cardinality({s \in Streams : pc[s] \in Holding}) = Slots

(* A free slot is never left unused while a stream waits: one that was handed *)
(* a slot is about to resume and will wake the next.                          *)
NoLostWakeup ==
  (free > 0 /\ \E s \in Streams : pc[s] = "waiting")
    => \E s \in Streams : pc[s] = "granted"

Given == {result[s] : s \in {t \in Streams : \E i \in DOMAIN answers[t] : answers[t][i] = "done"}}
Kept == {cached[e] : e \in Endpoints} \cup {astCached[d] : d \in Depths}

(* What is answered and what is cached is the text of one provider that       *)
(* delivered to the end, never of one that broke off or of two.               *)
ResultsAreWhole ==
  \A r \in (Given \cup Kept) \ {NoResult} : r.by = {r.model}

(* The header of an ephemeral stream says that history and cache are skipped: *)
(* nothing of it is cached, saved or answered to another stream.              *)
EphemeralLeavesNothing ==
  /\ \A r \in Kept \ {NoResult} : r.of \notin Ephemeral
  /\ \A s \in Streams : result[s] # NoResult => result[s].of \notin Ephemeral \ {s}
  /\ \A s \in Ephemeral : saved[s] = 0

(* Translated code is only answered once its syntax has been validated.       *)
OnlyValidCode ==
  \A s \in CodeToCode :
    (\E i \in DOMAIN answers[s] : answers[s][i] = "done") => result[s].valid

Done(s) == Cardinality({i \in DOMAIN answers[s] : answers[s][i] = "done"})

(* A stream has one last event and counts once, unless the broker refused its *)
(* history; nothing is counted that was not answered, or saved uncounted.     *)
AnsweredOnce ==
  \A s \in Streams :
    /\ Len(answers[s]) <= 1 + refused[s]
    /\ counted[s] <= Done(s)
    /\ saved[s] <= 1 /\ saved[s] + refused[s] <= counted[s]
    /\ pc[s] = "ended" => answers[s] # <<>>

(* A stream that waits for a slot does not wait for ever, even if no stream   *)
(* that has one ever ends (test_stream_timeout_backpressure_rejection).       *)
WaitersAreAnswered ==
  \A s \in Streams : pc[s] = "waiting" ~> pc[s] # "waiting"

(* ast_cache.py: "The depth parameter partitions cache entries by persona".   *)
(* An explanation made by another stream was asked for at the same depth.     *)
AnswersAtItsDepth ==
  \A s \in Streams \ CodeToCode :
    result[s] # NoResult /\ result[s].of \in Streams => result[s].depth = DepthOf[s]
=============================================================================
