----------------------- MODULE TranslationClientProofs -----------------------
(* Theorems about TranslationClient, for any number of accounts, runs, chunks *)
(* and mounts.  The spinner needs nothing but types: whatever ends a run      *)
(* clears isStreaming.  Consent needs that the box is empty or was ticked by  *)
(* the account that is signed in, but while an effect has yet to untick it.  What is shown needs that a run which is    *)
(* alone is the only one under way, and that only such a run fills a buffer.  *)
EXTENDS TranslationClient, SequenceTheorems, TLAPS

TickedByUser == page.effect = "none" => page.saveRun \in {Guest, page.user}

ClientInv == ClientTypeOK /\ TickedByUser /\ SavedWithConsent /\ SpinnerHasARun

(* What the two properties say of the runs alone.                             *)
Consented(rs) == \A r \in Runs : rs[r].saved /\ ~rs[r].early => rs[r].consent = rs[r].user
SomeActive(rs) == \E r \in Runs : rs[r].pc \notin {"unused", "ended"}

LEMMA InvOfParts ==
  /\ SavedWithConsent <=> Consented(runs)
  /\ SpinnerHasARun <=> (store.isStreaming => SomeActive(runs))
  /\ SavedWithConsent' <=> Consented(runs')
  /\ SpinnerHasARun' <=> (store'.isStreaming => SomeActive(runs'))
BY DEF SavedWithConsent, Consented, SpinnerHasARun, SomeActive, Idle, Active

-----------------------------------------------------------------------------
(* Values                                                                      *)

LEMMA NoText == <<>> \in Text
BY DEF Text

LEMMA TextOfChunk ==
  ASSUME NEW text \in Text, NEW more \in Text, NEW r \in Runs, NEW n \in Nat
  PROVE  text \o more \in Text /\ Append(text, <<r, n>>) \in Text
BY DEF Text

LEMMA RunsAreNumbers == Runs \subseteq 0..MaxRuns /\ 0 \in 0..MaxRuns /\ 1 \in Mounts
BY ClientAssumption DEF Runs, Mounts

LEMMA ClearedType ==
  ASSUME NEW s \in Stores
  PROVE  Cleared(s) \in Stores /\ Cleared(s).isStreaming = s.isStreaming
BY NoText DEF Cleared, Stores

LEMMA MadeType ==
  ASSUME NEW p \in Pages, NEW s \in Stores
  PROVE  /\ Made(p, s) \in Pages
         /\ Made(p, s).user = p.user /\ Made(p, s).saveRun = p.saveRun
         /\ Made(p, s).effect = p.effect
BY DEF Made, Pages, Stores

(* A call leaves the account and the box, and no effect is done by it.        *)
LEMMA CalledType ==
  ASSUME NEW p \in Pages, NEW again \in BOOLEAN
  PROVE  /\ Called(p, again) \in Pages
         /\ Called(p, again).user = p.user /\ Called(p, again).saveRun = p.saveRun
         /\ Called(p, again).effect = "none" <=> p.effect = "none"
BY DEF Called, Pages

LEMMA EmptyType ==
  ASSUME NEW ref \in HookRefs
  PROVE  Empty(ref) \in HookRefs
BY NoText DEF Empty, HookRefs

LEMMA FreshTypes == Unused \in RunStates /\ Over \in RunStates /\ NoRefs \in HookRefs
<1>1. /\ Unused \in RunStates /\ Over \in RunStates
  BY RunsAreNumbers DEF Unused, Over, RunStates, Accounts
<1>2. NoRefs \in HookRefs
  BY RunsAreNumbers DEF NoRefs, HookRefs, Text
<1>. QED  BY <1>1, <1>2

(* To mix what is shown changes neither what a run may save nor its progress. *)
LEMMA MixedKeeps ==
  ASSUME NEW rs \in [Runs -> RunStates]
  PROVE  /\ Mixed(rs) \in [Runs -> RunStates]
         /\ Consented(rs) => Consented(Mixed(rs))
         /\ SomeActive(rs) => SomeActive(Mixed(rs))
BY DEF Mixed, RunStates, Consented, SomeActive

(* A run that moves keeps the account and the consent it began with.          *)
LEMMA RunKeeps ==
  ASSUME NEW rs \in [Runs -> RunStates], NEW r \in Runs, NEW run \in RunStates,
         run.saved = rs[r].saved, run.consent = rs[r].consent, run.user = rs[r].user,
         run.early = rs[r].early,
         run.pc \notin {"unused", "ended"}
  PROVE  /\ [rs EXCEPT ![r] = run] \in [Runs -> RunStates]
         /\ Consented(rs) => Consented([rs EXCEPT ![r] = run])
         /\ SomeActive([rs EXCEPT ![r] = run])
BY DEF Consented, SomeActive

-----------------------------------------------------------------------------
(* Steps                                                                       *)

LEMMA InitInv == Init => ClientInv
<1>. SUFFICES ASSUME Init PROVE ClientInv
  OBVIOUS
<1>1. store \in Stores /\ ~store.isStreaming
  BY RunsAreNumbers DEF Init, Stores, Text
<1>2. page \in Pages /\ TickedByUser
  BY RunsAreNumbers DEF Init, Pages, TickedByUser, Accounts
<1>3. refs \in [Mounts -> HookRefs] /\ runs \in [Runs -> RunStates]
  BY FreshTypes DEF Init
<1>4. SavedWithConsent
  BY DEF Init, SavedWithConsent, Unused
<1>5. hidden \in BOOLEAN /\ guestUsed \in Nat
  BY DEF Init
<1>. QED  BY <1>1, <1>2, <1>3, <1>4, <1>5 DEF ClientInv, ClientTypeOK, SpinnerHasARun

(* A run that ends, by whichever way, clears isStreaming.                     *)
LEMMA EndedStep ==
  ASSUME ClientInv, NEW r \in Runs, NEW s \in Stores, Ended(r, s)
  PROVE  /\ store' \in Stores /\ ~store'.isStreaming
         /\ runs' \in [Runs -> RunStates] /\ Consented(runs')
<1>1. store' \in Stores /\ ~store'.isStreaming
  BY DEF Ended, Stores
<1>2. runs' \in [Runs -> RunStates] /\ ~Over.saved
  BY FreshTypes DEF Ended, ClientInv, ClientTypeOK, Over, Unused
<1>3. Consented(runs')
  BY <1>2, InvOfParts DEF Ended, ClientInv, ClientTypeOK, Consented
<1>. QED  BY <1>1, <1>2, <1>3

LEMMA ClearPartialStep ==
  ASSUME ClientInv, NEW r \in Runs
  PROVE  [refs EXCEPT ![runs[r].mount] = Empty(@)] \in [Mounts -> HookRefs]
BY EmptyType DEF ClientInv, ClientTypeOK, RunStates

(* A step that ends a run and leaves the page alone keeps the invariant.      *)
LEMMA EndingStep ==
  ASSUME ClientInv, NEW r \in Runs, NEW s \in Stores, Ended(r, s),
         refs' \in [Mounts -> HookRefs], guestUsed' \in Nat, UNCHANGED <<page, hidden>>
  PROVE  ClientInv'
<1>1. ClientTypeOK'
  BY EndedStep DEF ClientInv, ClientTypeOK
<1>2. SavedWithConsent' /\ SpinnerHasARun'
  BY EndedStep, InvOfParts
<1>. QED  BY <1>1, <1>2 DEF ClientInv, TickedByUser

LEMMA ThrownStep ==
  ASSUME ClientInv, NEW r \in Runs, QuotaThrown(r) \/ AbortThrown(r) \/ FailureThrown(r)
  PROVE  ClientInv'
<1>1. store \in Stores /\ Cleared(store) \in Stores
  BY ClearedType DEF ClientInv, ClientTypeOK
<1>2. [Cleared(store) EXCEPT !.rawError = TRUE] \in Stores
  BY <1>1 DEF Stores
<1>3. guestUsed \in Nat /\ refs \in [Mounts -> HookRefs]
  BY DEF ClientInv, ClientTypeOK
<1>4. CASE QuotaThrown(r)
  BY <1>1, <1>3, <1>4, ClearPartialStep, EndingStep DEF QuotaThrown, ClearPartial
<1>5. CASE AbortThrown(r)
  BY <1>1, <1>3, <1>5, EndingStep DEF AbortThrown
<1>6. CASE FailureThrown(r)
  BY <1>2, <1>3, <1>6, ClearPartialStep, EndingStep DEF FailureThrown, ClearPartial
<1>. QED  BY <1>4, <1>5, <1>6

LEMMA FinishStep ==
  ASSUME ClientInv, NEW r \in Runs, NEW blocks, NEW failed, Finish(r, blocks, failed)
  PROVE  ClientInv'
<1>. DEFINE text == store.streamText \o refs[runs[r].mount].buffer
            s == [store EXCEPT !.streamText = text, !.output = IF failed THEN @ ELSE r]
<1>1. CASE ~blocks /\ ~failed
  BY <1>1, ThrownStep DEF Finish
<1>2. CASE ~(~blocks /\ ~failed)
  <2>1. store \in Stores /\ refs[runs[r].mount] \in HookRefs
    BY DEF ClientInv, ClientTypeOK, RunStates
  <2>2. text \in Text
    BY <2>1, TextOfChunk DEF Stores, HookRefs, Text
  <2>3. s \in Stores
    BY <2>1, <2>2, RunsAreNumbers DEF Stores
  <2>4. Ended(r, s) /\ UNCHANGED <<page, hidden>>
    BY <1>2 DEF Finish
  <2>5. refs' \in [Mounts -> HookRefs]
    BY <1>2, ClearPartialStep DEF Finish
  <2>6. guestUsed' \in Nat
    BY <1>2 DEF Finish, ClientInv, ClientTypeOK
  <2>. HIDE DEF s
  <2>. QED  BY <2>3, <2>4, <2>5, <2>6, EndingStep
<1>. QED  BY <1>1, <1>2

(* A step that moves one run and leaves isStreaming alone.                    *)
LEMMA MovingStep ==
  ASSUME ClientInv, NEW r \in Runs, NEW run \in RunStates,
         runs' = [runs EXCEPT ![r] = run],
         run.saved = runs[r].saved, run.consent = runs[r].consent, run.user = runs[r].user,
         run.early = runs[r].early,
         run.pc \notin {"unused", "ended"},
         store' \in Stores, refs' \in [Mounts -> HookRefs],
         UNCHANGED <<page, hidden, guestUsed>>
  PROVE  ClientInv'
<1>1. runs' \in [Runs -> RunStates] /\ Consented(runs') /\ SomeActive(runs')
  BY RunKeeps, InvOfParts DEF ClientInv, ClientTypeOK
<1>2. ClientTypeOK'
  BY <1>1 DEF ClientInv, ClientTypeOK
<1>. QED  BY <1>1, <1>2, InvOfParts DEF ClientInv, TickedByUser

(* A step of the page that leaves the runs alone, or mixes what they show.    *)
LEMMA PageStep ==
  ASSUME ClientInv, store' \in Stores, store'.isStreaming => store.isStreaming,
         page' \in Pages, TickedByUser', runs' = runs \/ runs' = Mixed(runs),
         refs' \in [Mounts -> HookRefs], hidden' \in BOOLEAN, UNCHANGED guestUsed
  PROVE  ClientInv'
<1>1. /\ runs' \in [Runs -> RunStates] /\ Consented(runs')
      /\ SomeActive(runs) => SomeActive(runs')
  BY MixedKeeps, InvOfParts DEF ClientInv, ClientTypeOK
<1>2. ClientTypeOK'
  BY <1>1 DEF ClientInv, ClientTypeOK
<1>. QED  BY <1>1, <1>2, InvOfParts DEF ClientInv

LEMMA StopStep ==
  ASSUME ClientInv, NEW again \in BOOLEAN, StopRunning(again)
  PROVE  ClientInv'
<1>. DEFINE rs == [runs EXCEPT ![controller].aborted = Active(controller)]
            s == [Cleared(store) EXCEPT !.isStreaming = FALSE]
<1>1. store \in Stores /\ page \in Pages /\ page.mount \in Mounts /\ runs \in [Runs -> RunStates]
      /\ refs \in [Mounts -> HookRefs]
  BY DEF ClientInv, ClientTypeOK, Pages
<1>2. Cleared(store) \in Stores
  BY <1>1, ClearedType
<1>3. s \in Stores /\ ~s.isStreaming
  BY <1>2 DEF Stores
<1>4. controller \in Runs
  BY <1>1 DEF StopRunning, Stops, controller, HookRefs, Runs
<1>5. Active(controller) \in BOOLEAN
  BY DEF Active
<1>6. rs \in [Runs -> RunStates]
  BY <1>1, <1>4, <1>5 DEF RunStates
<1>7. Consented(rs)
  BY <1>1, <1>4, InvOfParts DEF ClientInv, Consented, RunStates
<1>8. runs' = Mixed(rs) /\ store' = s
  BY DEF StopRunning
<1>. HIDE DEF rs, s
<1>9. runs' \in [Runs -> RunStates] /\ Consented(runs')
  BY <1>6, <1>7, <1>8, MixedKeeps
<1>10. page' \in Pages /\ TickedByUser'
  BY <1>1, CalledType DEF StopRunning, ClientInv, TickedByUser
<1>11. refs' \in [Mounts -> HookRefs]
  BY <1>1, EmptyType DEF StopRunning
<1>12. ClientTypeOK'
  BY <1>3, <1>8, <1>9, <1>10, <1>11 DEF StopRunning, ClientInv, ClientTypeOK
<1>. QED  BY <1>3, <1>8, <1>9, <1>10, <1>12, InvOfParts DEF ClientInv

LEMMA BlockedStep ==
  ASSUME ClientInv, NEW again \in BOOLEAN, GuestBlocked(again)
  PROVE  ClientInv'
<1>1. page' \in Pages /\ TickedByUser'
  BY CalledType DEF GuestBlocked, ClientInv, ClientTypeOK, TickedByUser
<1>. QED  BY <1>1, PageStep DEF GuestBlocked, ClientInv, ClientTypeOK

(* A run is sent as one to save under the account that ticked the box.        *)
LEMMA BeginStep ==
  ASSUME ClientInv, NEW again \in BOOLEAN, Begin(again)
  PROVE  ClientInv'
<1>. DEFINE begun == [store EXCEPT !.isStreaming = TRUE, !.streamText = <<>>,
                                   !.rawError = FALSE, !.output = 0, !.session = TRUE]
            run == [Unused EXCEPT !.pc = "key", !.mode = page.mode, !.user = page.user,
                                  !.mount = page.mount, !.alone = Idle,
                                  !.saved = page.saveRun # Guest /\ page.user # Guest,
                                  !.consent = page.saveRun, !.early = page.effect # "none"]
            rs == IF Idle THEN runs ELSE Mixed(runs)
            p == KeptUnless(~store.session, page, begun)
<1>1. PICK r \in Runs : /\ store' = begun /\ page' = Called(p, again)
                       /\ runs' = [rs EXCEPT ![r] = run]
                       /\ UNCHANGED <<refs, hidden, guestUsed>>
  BY DEF Begin
<1>2. store \in Stores /\ page \in Pages /\ runs \in [Runs -> RunStates] /\ Unused \in RunStates
  BY FreshTypes DEF ClientInv, ClientTypeOK
<1>3. begun \in Stores
  BY <1>2, NoText, RunsAreNumbers DEF Stores
<1>4. p \in Pages /\ p.user = page.user /\ p.saveRun = page.saveRun /\ p.effect = page.effect
  <2>. HIDE DEF begun
  <2>. QED  BY <1>2, <1>3, MadeType DEF KeptUnless
<1>5. page' \in Pages /\ TickedByUser'
  <2>1. page' = Called(p, again)
    BY <1>1
  <2>. HIDE DEF p
  <2>. QED  BY <1>4, <2>1, CalledType DEF ClientInv, TickedByUser
<1>6. run \in RunStates /\ run.pc = "key" /\ (run.saved /\ ~run.early => run.consent = run.user)
  <2>1. /\ Idle \in BOOLEAN /\ (page.saveRun # Guest /\ page.user # Guest) \in BOOLEAN
        /\ page.mode \in {SSE, Fetch} /\ page.user \in Accounts /\ page.mount \in Mounts
        /\ page.saveRun \in Accounts /\ (page.effect # "none") \in BOOLEAN
    BY <1>2 DEF Idle, Pages
  <2>2. run \in RunStates
    BY <1>2, <2>1 DEF RunStates
  <2>3. run.pc = "key"
    BY <1>2, <2>1 DEF RunStates
  <2>4. run.saved /\ ~run.early => run.consent = run.user
    BY <1>2 DEF RunStates, ClientInv, TickedByUser
  <2>. QED  BY <2>2, <2>3, <2>4
<1>7. rs \in [Runs -> RunStates] /\ Consented(rs)
  BY <1>2, MixedKeeps, InvOfParts DEF ClientInv
<1>8. runs' = [rs EXCEPT ![r] = run] /\ store' = begun
  BY <1>1
<1>. HIDE DEF rs, run, begun
<1>9. runs' \in [Runs -> RunStates] /\ Consented(runs') /\ SomeActive(runs')
  BY <1>6, <1>7, <1>8 DEF Consented, SomeActive
<1>10. ClientTypeOK'
  BY <1>1, <1>3, <1>5, <1>8, <1>9 DEF ClientInv, ClientTypeOK
<1>. QED  BY <1>5, <1>9, <1>10, InvOfParts DEF ClientInv

(* A run of the local engine is over when the call returns.                   *)
LEMMA LocalStep ==
  ASSUME ClientInv, NEW again \in BOOLEAN, LocalEngine(again)
  PROVE  ClientInv'
<1>1. PICK r \in Runs, n \in 0..MaxChunks, failed \in BOOLEAN :
        /\ store' = [store EXCEPT !.isStreaming = FALSE, !.rawError = failed,
                         !.streamText = [i \in 1..n |-> <<r, i>>],
                         !.output = IF failed THEN 0 ELSE r]
        /\ page' = Called(page, again) /\ runs' = [Mixed(runs) EXCEPT ![r] = Over]
        /\ UNCHANGED <<refs, hidden, guestUsed>>
  BY DEF LocalEngine
<1>2. store \in Stores /\ page \in Pages /\ runs \in [Runs -> RunStates] /\ Over \in RunStates
  BY FreshTypes DEF ClientInv, ClientTypeOK
<1>3. [i \in 1..n |-> <<r, i>>] \in Text
  BY ClientAssumption DEF Text
<1>4. store' \in Stores /\ ~store'.isStreaming
  BY <1>1, <1>2, <1>3, RunsAreNumbers DEF Stores
<1>5. page' \in Pages /\ TickedByUser'
  BY <1>1, <1>2, CalledType DEF ClientInv, TickedByUser
<1>6. Mixed(runs) \in [Runs -> RunStates] /\ Consented(Mixed(runs)) /\ ~Over.saved
  BY <1>2, MixedKeeps, InvOfParts DEF ClientInv, Over, Unused
<1>7. runs' \in [Runs -> RunStates] /\ Consented(runs')
  BY <1>1, <1>2, <1>6 DEF Consented
<1>8. ClientTypeOK'
  BY <1>1, <1>4, <1>5, <1>7 DEF ClientInv, ClientTypeOK
<1>. QED  BY <1>4, <1>5, <1>7, <1>8, InvOfParts DEF ClientInv

LEMMA HandleStep ==
  ASSUME ClientInv, NEW again \in BOOLEAN, handleTranslate(again)
  PROVE  ClientInv'
BY StopStep, BlockedStep, BeginStep, LocalStep DEF handleTranslate

LEMMA KeyStep ==
  ASSUME ClientInv, NEW r \in Runs, KeyReady(r)
  PROVE  ClientInv'
<1>. DEFINE run == [runs[r] EXCEPT !.pc = "sent", !.posts = 1]
<1>1. store \in Stores /\ runs[r] \in RunStates /\ refs \in [Mounts -> HookRefs]
      /\ runs[r].mount \in Mounts
  BY DEF ClientInv, ClientTypeOK, RunStates
<1>2. /\ run \in RunStates /\ run.saved = runs[r].saved /\ run.consent = runs[r].consent
      /\ run.user = runs[r].user /\ run.pc = "sent" /\ run.early = runs[r].early
  BY <1>1 DEF RunStates
<1>3. refs' \in [Mounts -> HookRefs]
  BY <1>1, RunsAreNumbers DEF KeyReady, HookRefs
<1>4. runs' = [runs EXCEPT ![r] = run]
  BY DEF KeyReady
<1>. HIDE DEF run
<1>. QED  BY <1>1, <1>2, <1>3, <1>4, MovingStep DEF KeyReady

LEMMA MessageStep ==
  ASSUME ClientInv, NEW r \in Runs, onmessage(r)
  PROVE  ClientInv'
<1>1. /\ store \in Stores /\ runs[r] \in RunStates /\ runs[r].got \in Nat
      /\ refs \in [Mounts -> HookRefs] /\ runs[r].mount \in Mounts
      /\ runs[r].pc = "sent"
  BY DEF ClientInv, ClientTypeOK, RunStates, onmessage, Connected
<1>2. CASE /\ refs' = [refs EXCEPT ![runs[r].mount].buffer = Append(@, <<r, runs[r].got + 1>>),
                                   ![runs[r].mount].frame = TRUE]
           /\ runs' = [runs EXCEPT ![r].got = @ + 1]
           /\ UNCHANGED store
  <2>. DEFINE run == [runs[r] EXCEPT !.got = @ + 1]
  <2>1. /\ run \in RunStates /\ run.saved = runs[r].saved /\ run.consent = runs[r].consent
        /\ run.user = runs[r].user /\ run.pc = "sent" /\ run.early = runs[r].early
    BY <1>1 DEF RunStates
  <2>2. refs[runs[r].mount] \in HookRefs /\ refs[runs[r].mount].buffer \in Text
    BY <1>1 DEF HookRefs
  <2>3. Append(refs[runs[r].mount].buffer, <<r, runs[r].got + 1>>) \in Text
    BY <1>1, <2>2, TextOfChunk
  <2>4. refs' \in [Mounts -> HookRefs]
    BY <1>1, <1>2, <2>2, <2>3 DEF HookRefs
  <2>5. runs' = [runs EXCEPT ![r] = run]
    BY <1>2
  <2>. HIDE DEF run
  <2>. QED  BY <1>1, <1>2, <2>1, <2>4, <2>5, MovingStep DEF onmessage
<1>3. CASE /\ ClearPartial(r)
           /\ store' = [Cleared(store) EXCEPT !.rawError = TRUE]
           /\ runs' = [runs EXCEPT ![r].failed = TRUE]
  <2>. DEFINE run == [runs[r] EXCEPT !.failed = TRUE]
  <2>1. /\ run \in RunStates /\ run.saved = runs[r].saved /\ run.consent = runs[r].consent
        /\ run.user = runs[r].user /\ run.pc = "sent" /\ run.early = runs[r].early
    BY <1>1 DEF RunStates
  <2>2. Cleared(store) \in Stores
    BY <1>1, ClearedType
  <2>3. store' \in Stores
    BY <1>3, <2>2 DEF Stores
  <2>4. refs' \in [Mounts -> HookRefs]
    BY <1>3, ClearPartialStep DEF ClearPartial
  <2>5. runs' = [runs EXCEPT ![r] = run]
    BY <1>3
  <2>. HIDE DEF run
  <2>. QED  BY <2>1, <2>3, <2>4, <2>5, MovingStep DEF onmessage
<1>4. CASE runs' = [runs EXCEPT ![r].blocks = TRUE] /\ UNCHANGED <<store, refs>>
  <2>. DEFINE run == [runs[r] EXCEPT !.blocks = TRUE]
  <2>1. /\ run \in RunStates /\ run.saved = runs[r].saved /\ run.consent = runs[r].consent
        /\ run.user = runs[r].user /\ run.pc = "sent" /\ run.early = runs[r].early
    BY <1>1 DEF RunStates
  <2>2. runs' = [runs EXCEPT ![r] = run]
    BY <1>4
  <2>. HIDE DEF run
  <2>. QED  BY <1>1, <1>4, <2>1, <2>2, MovingStep DEF onmessage
<1>. QED  BY <1>2, <1>3, <1>4 DEF onmessage

LEMMA RunStepInv ==
  ASSUME ClientInv, NEW r \in Runs, RunStep(r)
  PROVE  ClientInv'
<1>2. CASE FetchAnswers(r)
  BY <1>2, ThrownStep, FinishStep DEF FetchAnswers
<1>3. CASE onopen(r) \/ onerror(r)
  BY <1>3, ThrownStep DEF onopen, onerror
<1>4. CASE onmessage(r)
  BY <1>4, MessageStep
<1>5. CASE StreamEnds(r) \/ AbortResolves(r)
  BY <1>5, FinishStep DEF StreamEnds, AbortResolves
<1>. QED  BY <1>2, <1>3, <1>4, <1>5 DEF RunStep

LEMMA FlushStep ==
  ASSUME ClientInv, NEW m \in Mounts, Flush(m)
  PROVE  ClientInv'
<1>1. store \in Stores /\ refs \in [Mounts -> HookRefs] /\ refs[m].buffer \in Text
  BY DEF ClientInv, ClientTypeOK, HookRefs
<1>2. store.streamText \o refs[m].buffer \in Text
  BY <1>1 DEF Stores, Text
<1>3. store' \in Stores /\ store'.isStreaming = store.isStreaming
  BY <1>1, <1>2 DEF Flush, Stores
<1>4. refs' \in [Mounts -> HookRefs]
  BY <1>1, EmptyType DEF Flush
<1>. QED  BY <1>3, <1>4, PageStep DEF Flush, ClientInv, ClientTypeOK, TickedByUser

(* A hidden tab pauses runs, a shown one sends their requests again.          *)
LEMMA VisibilityStep ==
  ASSUME ClientInv, Visibility
  PROVE  ClientInv'
<1>1. runs \in [Runs -> RunStates] /\ hidden' \in BOOLEAN
  BY DEF ClientInv, ClientTypeOK, Visibility
<1>2. ASSUME NEW r \in Runs
      PROVE  /\ runs'[r] \in RunStates
             /\ runs'[r].saved = runs[r].saved /\ runs'[r].user = runs[r].user
             /\ runs'[r].consent = runs[r].consent /\ runs'[r].early = runs[r].early
             /\ runs[r].pc \notin {"unused", "ended"} => runs'[r].pc \notin {"unused", "ended"}
  <2>1. \/ runs'[r] = runs[r]
        \/ runs'[r] = [runs[r] EXCEPT !.pc = "sent", !.posts = @ + 1]
        \/ runs'[r] = [runs[r] EXCEPT !.pc = "paused"]
    BY DEF Visibility
  <2>2. CASE runs'[r] = runs[r]
    BY <1>1, <2>2
  <2>3. CASE runs'[r] = [runs[r] EXCEPT !.pc = "sent", !.posts = @ + 1]
    <3>1. runs[r] \in RunStates /\ runs[r].posts + 1 \in Nat
      BY <1>1 DEF RunStates
    <3>. QED  BY <2>3, <3>1 DEF RunStates
  <2>4. CASE runs'[r] = [runs[r] EXCEPT !.pc = "paused"]
    BY <1>1, <2>4 DEF RunStates
  <2>. QED  BY <2>1, <2>2, <2>3, <2>4
<1>3. runs' \in [Runs -> RunStates]
  <2>1. runs' = [r \in Runs |-> runs'[r]]
    BY DEF Visibility
  <2>. QED  BY <1>2, <2>1
<1>4. Consented(runs') /\ (SomeActive(runs) => SomeActive(runs'))
  BY <1>2, InvOfParts DEF ClientInv, Consented, SomeActive
<1>5. ClientTypeOK'
  BY <1>1, <1>3 DEF ClientInv, ClientTypeOK, Visibility
<1>. QED  BY <1>4, <1>5, InvOfParts DEF ClientInv, TickedByUser, Visibility

-----------------------------------------------------------------------------
(* The controls of the page.                                                  *)

LEMMA TurnType ==
  ASSUME NEW p \in Pages, Turn(p)
  PROVE  page' \in Pages /\ page'.user = p.user /\ page'.saveRun = p.saveRun /\ page'.effect = p.effect
BY DEF Turn, Pages

LEMMA NewPageStep ==
  ASSUME ClientInv, NEW s \in Stores, NEW engine \in {"cloud", "offline"}, NewPage(s, engine)
  PROVE  page' \in Pages /\ TickedByUser'
<1>. DEFINE p == [page EXCEPT !.mode = SSE, !.engine = engine, !.saveRun = Guest,
                              !.effect = "none", !.mount = @ + 1]
<1>1. page \in Pages /\ page.mount \in Mounts /\ page.mount + 1 \in Mounts
  BY ClientAssumption DEF ClientInv, ClientTypeOK, Pages, NewPage, Mounts
<1>2. p \in Pages /\ p.saveRun = Guest
  BY <1>1 DEF Pages, Accounts
<1>3. Turn(Made(p, s))
  BY DEF NewPage
<1>. HIDE DEF p
<1>4. Made(p, s) \in Pages /\ Made(p, s).saveRun = Guest
  BY <1>2, MadeType
<1>. QED  BY <1>3, <1>4, TurnType DEF TickedByUser

LEMMA RemountStep ==
  ASSUME ClientInv, Remount
  PROVE  ClientInv'
<1>1. store \in Stores /\ page.engine \in {"cloud", "offline"}
  BY DEF ClientInv, ClientTypeOK, Pages
<1>2. page' \in Pages /\ TickedByUser'
  BY <1>1, NewPageStep DEF Remount
<1>. QED  BY <1>1, <1>2, PageStep DEF Remount, ClientInv, ClientTypeOK

LEMMA ReloadStep ==
  ASSUME ClientInv, Reload
  PROVE  ClientInv'
<1>. DEFINE draft == [Cleared(store) EXCEPT !.isStreaming = FALSE, !.rawError = FALSE]
<1>1. Cleared(store) \in Stores /\ runs \in [Runs -> RunStates]
  BY ClearedType DEF ClientInv, ClientTypeOK
<1>2. draft \in Stores /\ ~draft.isStreaming
  BY <1>1 DEF Stores
<1>3. store' = draft /\ NewPage(draft, "cloud")
  BY DEF Reload
<1>. HIDE DEF draft
<1>4. page' \in Pages /\ TickedByUser'
  BY <1>2, <1>3, NewPageStep
<1>5. refs' \in [Mounts -> HookRefs] /\ runs' \in [Runs -> RunStates]
  BY <1>1, FreshTypes DEF Reload
<1>6. Consented(runs')
  BY <1>1, InvOfParts DEF Reload, ClientInv, Consented, Over, Unused
<1>7. ClientTypeOK'
  BY <1>2, <1>3, <1>4, <1>5 DEF Reload, ClientInv, ClientTypeOK
<1>. QED  BY <1>2, <1>3, <1>4, <1>6, <1>7, InvOfParts DEF ClientInv

(* What only makes the callback anew.                                         *)
LEMMA ControlStep ==
  ASSUME ClientInv,
         handleClear \/ EditInput \/ setMode \/ setExecutionEngine
  PROVE  ClientInv'
<1>1. /\ store \in Stores /\ page \in Pages /\ page.saveRun \in {Guest, page.user}
      /\ Made(page, store) \in Pages /\ Made(page, store).user = page.user
      /\ Made(page, store).saveRun = page.saveRun
  BY MadeType DEF ClientInv, ClientTypeOK, TickedByUser, Controls, handleClear, EditInput, setMode,
                  setExecutionEngine
<1>2. CASE EditInput
  <2>1. page' \in Pages /\ TickedByUser'
    BY <1>1, <1>2, TurnType DEF EditInput, TickedByUser
  <2>2. store' \in Stores /\ store'.isStreaming = store.isStreaming
    BY <1>1, <1>2 DEF EditInput, Stores
  <2>. QED  BY <1>2, <2>1, <2>2, PageStep DEF EditInput, ClientInv, ClientTypeOK
<1>3. CASE handleClear
  <2>1. page' \in Pages /\ TickedByUser'
    BY <1>1, <1>3, TurnType DEF handleClear, TickedByUser
  <2>2. Cleared(store) \in Stores /\ Cleared(store).isStreaming = store.isStreaming
    BY <1>1, ClearedType
  <2>3. store' \in Stores /\ store'.isStreaming = store.isStreaming
    BY <1>3, <2>2, RunsAreNumbers DEF handleClear, Stores
  <2>. QED  BY <1>3, <2>1, <2>3, PageStep DEF handleClear, ClientInv, ClientTypeOK
<1>4. CASE setMode
  <2>1. PICK mode \in {SSE, Fetch} : Turn(Made([page EXCEPT !.mode = mode], store))
    BY <1>4 DEF setMode
  <2>. DEFINE p == [page EXCEPT !.mode = mode]
  <2>2. p \in Pages /\ p.user = page.user /\ p.saveRun = page.saveRun /\ Turn(Made(p, store))
    BY <1>1, <2>1 DEF Pages
  <2>. HIDE DEF p
  <2>3. page' \in Pages /\ TickedByUser'
    BY <1>1, <2>2, MadeType, TurnType DEF TickedByUser
  <2>. QED  BY <1>4, <2>3, PageStep DEF setMode, ClientInv, ClientTypeOK
<1>5. CASE setExecutionEngine
  <2>1. PICK engine \in {"cloud", "offline"} : Turn([page EXCEPT !.engine = engine])
    BY <1>5 DEF setExecutionEngine
  <2>. DEFINE p == [page EXCEPT !.engine = engine]
  <2>2. p \in Pages /\ p.user = page.user /\ p.saveRun = page.saveRun /\ Turn(p)
    BY <1>1, <2>1 DEF Pages
  <2>. HIDE DEF p
  <2>3. page' \in Pages /\ TickedByUser'
    BY <1>1, <2>2, TurnType DEF TickedByUser
  <2>. QED  BY <1>5, <2>3, PageStep DEF setExecutionEngine, ClientInv, ClientTypeOK
<1>. QED  BY <1>2, <1>3, <1>4, <1>5

(* An account whose effect is done finds the box empty; only it ticks it.     *)
LEMMA ConsentStep ==
  ASSUME ClientInv, UserChanges \/ Untick \/ setSaveRunToHistory
  PROVE  ClientInv'
<1>1. store \in Stores /\ page \in Pages
  BY DEF ClientInv, ClientTypeOK
<1>2. CASE UserChanges
  <2>1. PICK user \in Accounts :
          Turn(Made([page EXCEPT !.user = user, !.effect = "pending"], store))
    BY <1>2 DEF UserChanges
  <2>. DEFINE p == [page EXCEPT !.user = user, !.effect = "pending"]
  <2>2. p \in Pages /\ p.effect = "pending" /\ Turn(Made(p, store))
    BY <1>1, <2>1 DEF Pages
  <2>. HIDE DEF p
  <2>3. page' \in Pages /\ TickedByUser'
    BY <1>1, <2>2, MadeType, TurnType DEF TickedByUser
  <2>. QED  BY <1>2, <2>3, PageStep DEF UserChanges, ClientInv, ClientTypeOK
<1>4. CASE Untick
  <2>. DEFINE p == [page EXCEPT !.saveRun = Guest, !.effect = "none"]
  <2>1. p \in Pages /\ p.saveRun = Guest /\ page' = KeptUnless(page.saveRun # Guest, p, store)
    BY <1>1, <1>4 DEF Untick, Pages, Accounts
  <2>. HIDE DEF p
  <2>2. page' \in Pages /\ TickedByUser'
    BY <1>1, <2>1, MadeType DEF KeptUnless, TickedByUser
  <2>. QED  BY <1>4, <2>2, PageStep DEF Untick, ClientInv, ClientTypeOK
<1>3. CASE setSaveRunToHistory
  <2>. DEFINE p == [page EXCEPT !.saveRun = IF @ = Guest THEN page.user ELSE Guest]
  <2>1. page' = Made(p, store)
    BY <1>3 DEF setSaveRunToHistory
  <2>2. p \in Pages /\ p.saveRun \in {Guest, p.user}
    <3>1. page.saveRun \in {Guest, page.user}
      BY <1>3 DEF setSaveRunToHistory, ClientInv, TickedByUser
    <3>. QED  BY <1>1, <3>1 DEF Pages, Accounts
  <2>. HIDE DEF p
  <2>3. page' \in Pages /\ TickedByUser'
    BY <1>1, <2>1, <2>2, MadeType DEF TickedByUser
  <2>. QED  BY <1>3, <2>3, PageStep DEF setSaveRunToHistory, ClientInv, ClientTypeOK
<1>. QED  BY <1>2, <1>3, <1>4

-----------------------------------------------------------------------------
LEMMA StepInv == ClientInv /\ [Next]_vars => ClientInv'
<1>. SUFFICES ASSUME ClientInv, [Next]_vars PROVE ClientInv'
  OBVIOUS
<1>1. CASE PressTranslate \/ CtrlEnter
  BY <1>1, HandleStep DEF PressTranslate, CtrlEnter
<1>2. CASE Echo
  <2>1. CASE handleTranslate(FALSE)
    BY <2>1, HandleStep
  <2>2. CASE page' = [page EXCEPT !.echo = FALSE] /\ UNCHANGED <<store, refs, runs, hidden, guestUsed>>
    <3>1. page' \in Pages /\ TickedByUser'
      BY <2>2 DEF Pages, ClientInv, ClientTypeOK, TickedByUser
    <3>. QED  BY <2>2, <3>1, PageStep DEF ClientInv, ClientTypeOK
  <2>. QED  BY <1>2, <2>1, <2>2 DEF Echo
<1>3. CASE \E r \in Runs : KeyReady(r) \/ RunStep(r)
  BY <1>3, KeyStep, RunStepInv
<1>4. CASE \E m \in Mounts : Flush(m)
  BY <1>4, FlushStep
<1>5. CASE Visibility
  BY <1>5, VisibilityStep
<1>6. CASE EditInput \/ handleClear \/ setMode \/ setExecutionEngine
  BY <1>6, ControlStep
<1>7. CASE UserChanges \/ Untick \/ setSaveRunToHistory
  BY <1>7, ConsentStep
<1>8. CASE Remount \/ Reload
  BY <1>8, RemountStep, ReloadStep
<1>9. CASE UNCHANGED vars
  BY <1>9 DEF vars, ClientInv, ClientTypeOK, TickedByUser, SavedWithConsent, SpinnerHasARun,
              Idle, Active
<1>. QED  BY <1>1, <1>2, <1>3, <1>4, <1>5, <1>6, <1>7, <1>8, <1>9 DEF Next

(* The store, the state of the page, its refs and the runs keep their types   *)
(* through every order of answers, frames, mounts and reloads.                *)
THEOREM TypeCorrect == Spec => []ClientTypeOK
<1>1. ClientInv => ClientTypeOK
  BY DEF ClientInv
<1>. QED  BY <1>1, InitInv, StepInv, PTL DEF Spec

(* A run is sent as one to save only when the account it runs under ticked    *)
(* the box, whatever callback the controls held when it began, but for a run  *)
(* that begins before the effect of a change of account.                      *)
THEOREM ConsentHolds == Spec => []SavedWithConsent
<1>1. ClientInv => SavedWithConsent
  BY DEF ClientInv
<1>. QED  BY <1>1, InitInv, StepInv, PTL DEF Spec

(* isStreaming is set only while some run is under way, in whatever order     *)
(* overlapping runs reach their finally clause.                               *)
THEOREM SpinnerHolds == Spec => []SpinnerHasARun
<1>1. ClientInv => SpinnerHasARun
  BY DEF ClientInv
<1>. QED  BY <1>1, InitInv, StepInv, PTL DEF Spec

-----------------------------------------------------------------------------
(* What is shown.  A run that is alone is the only one under way, and only a  *)
(* stream under way leaves text in the buffer of its mount: so the buffers    *)
(* are empty when a run begins alone, and stay so but for its own.            *)

Going(run) == run.pc \notin {"unused", "ended"}
Streaming(run) == run.pc \in {"sent", "paused"} /\ run.mode = SSE
Received(r, n) == [i \in 1..n |-> <<r, i>>]

AloneIsOnly(rs) ==
    \A r, q \in Runs : Going(rs[r]) /\ rs[r].alone /\ Going(rs[q]) => q = r
BufferHasAStream(hooks, rs) ==
    \A m \in Mounts : hooks[m].buffer # <<>> => \E r \in Runs : Streaming(rs[r]) /\ rs[r].mount = m

(* The chunks of a request that is sent again are counted on from the first,  *)
(* so the posts of a run do not matter here.                                  *)
ShowsReceived(s, hooks, rs) ==
    \A r \in Runs : Going(rs[r]) /\ rs[r].alone /\ ~rs[r].failed =>
        s.streamText \o hooks[rs[r].mount].buffer = Received(r, rs[r].got)

ShownInv == /\ AloneIsOnly(runs) /\ BufferHasAStream(refs, runs)
            /\ ShowsReceived(store, refs, runs)

LEMMA ReceivedMore ==
  ASSUME NEW r, NEW n \in Nat
  PROVE  Append(Received(r, n), <<r, n + 1>>) = Received(r, n + 1)
<1>. DEFINE s == Received(r, n)
            t == Received(r, n + 1)
            u == Append(s, <<r, n + 1>>)
            S == {r} \X Nat
<1>1. s \in Seq(S) /\ Len(s) = n /\ \A i \in 1..n : s[i] = <<r, i>>
  BY DEF Received
<1>2. t \in Seq(S) /\ Len(t) = n + 1 /\ \A i \in 1..(n + 1) : t[i] = <<r, i>>
  BY DEF Received
<1>3. <<r, n + 1>> \in S
  OBVIOUS
<1>. HIDE DEF s, t, S
<1>4. /\ u \in Seq(S) /\ Len(u) = n + 1
      /\ \A i \in 1..n : u[i] = s[i]
      /\ u[n + 1] = <<r, n + 1>>
  BY <1>1, <1>3, AppendProperties
<1>. HIDE DEF u
<1>5. ASSUME NEW i \in 1..(n + 1) PROVE u[i] = t[i]
  <2>1. i \in 1..n \/ i = n + 1
    OBVIOUS
  <2>. QED  BY <2>1, <1>1, <1>2, <1>4
<1>6. u = t
  BY <1>2, <1>4, <1>5, SeqEqual
<1>. QED  BY <1>6 DEF s, t, u

LEMMA TextJoins ==
  ASSUME NEW a \in Text, NEW b \in Text, NEW c \in Runs \X Nat
  PROVE  /\ a \o <<>> = a /\ <<>> \o a = a
         /\ Append(a \o b, c) = a \o Append(b, c)
<1>. DEFINE S == Runs \X Nat
<1>1. a \in Seq(S) /\ b \in Seq(S) /\ c \in S
  BY DEF Text
<1>. HIDE DEF S
<1>2. a \o b \in Seq(S) /\ <<c>> \in Seq(S)
  BY <1>1
<1>3. Append(a \o b, c) = (a \o b) \o <<c>> /\ Append(b, c) = b \o <<c>>
  BY <1>1, <1>2, AppendIsConcat
<1>. QED  BY <1>1, <1>2, <1>3, ConcatAssociative, ConcatEmptySeq

(* What a step of one run changes, when the run goes on.                      *)
LEMMA ShownMoved ==
  ASSUME ClientInv, ShownInv, NEW r \in Runs, NEW run,
         runs' = [runs EXCEPT ![r] = run],
         Going(runs[r]), Going(run), run.alone = runs[r].alone, run.mount = runs[r].mount,
         Streaming(runs[r]) => Streaming(run),
         \A m \in Mounts : refs'[m].buffer # <<>> =>
            refs[m].buffer # <<>> \/ (m = run.mount /\ Streaming(run)),
         run.alone /\ ~run.failed =>
            store'.streamText \o refs'[run.mount].buffer = Received(r, run.got)
  PROVE  ShownInv'
<1>0. runs \in [Runs -> RunStates]
  BY DEF ClientInv, ClientTypeOK
<1>1. runs'[r] = run /\ \A q \in Runs \ {r} : runs'[q] = runs[q]
  BY <1>0
<1>2. AloneIsOnly(runs')
  BY <1>1 DEF ShownInv, AloneIsOnly
<1>3. BufferHasAStream(refs', runs')
  BY <1>1 DEF ShownInv, BufferHasAStream
<1>4. ShowsReceived(store', refs', runs')
  <2>. SUFFICES ASSUME NEW q \in Runs, Going(runs'[q]), runs'[q].alone, ~runs'[q].failed
                PROVE  store'.streamText \o refs'[runs'[q].mount].buffer
                         = Received(q, runs'[q].got)
    BY DEF ShowsReceived
  <2>1. q = r
    BY <1>1, <1>2 DEF AloneIsOnly
  <2>. QED  BY <1>1, <2>1
<1>. QED  BY <1>2, <1>3, <1>4 DEF ShownInv

(* When a run ends, no run that is alone goes on.                             *)
LEMMA ShownEnded ==
  ASSUME ClientInv, ShownInv, NEW r \in Runs, NEW s, Ended(r, s), Going(runs[r]),
         \A m \in Mounts : refs'[m].buffer # <<>> => refs'[m].buffer = refs[m].buffer,
         Streaming(runs[r]) => refs'[runs[r].mount].buffer = <<>>
  PROVE  ShownInv'
<1>0. runs \in [Runs -> RunStates]
  BY DEF ClientInv, ClientTypeOK
<1>1. runs'[r] = Over /\ ~Going(Over) /\ \A q \in Runs \ {r} : runs'[q] = runs[q]
  BY <1>0 DEF Ended, Over, Unused, Going
<1>2. \A q \in Runs : Going(runs'[q]) => ~runs'[q].alone
  BY <1>1 DEF ShownInv, AloneIsOnly
<1>3. BufferHasAStream(refs', runs')
  BY <1>1 DEF ShownInv, BufferHasAStream
<1>. QED  BY <1>2, <1>3 DEF ShownInv, AloneIsOnly, ShowsReceived

LEMMA EmptyBuffer ==
  ASSUME ClientInv, NEW m \in Mounts
  PROVE  /\ [refs EXCEPT ![m] = Empty(@)][m].buffer = <<>>
         /\ \A n \in Mounts \ {m} : [refs EXCEPT ![m] = Empty(@)][n] = refs[n]
<1>1. refs \in [Mounts -> HookRefs]
  BY DEF ClientInv, ClientTypeOK
<1>2. refs[m] \in HookRefs
  BY <1>1
<1>3. Empty(refs[m]).buffer = <<>>
  BY <1>2 DEF Empty, HookRefs
<1>. QED  BY <1>1, <1>3

LEMMA ShownThrown ==
  ASSUME ClientInv, ShownInv, NEW r \in Runs, Going(runs[r]),
         QuotaThrown(r) \/ FailureThrown(r) \/ (AbortThrown(r) /\ ~Streaming(runs[r]))
  PROVE  ShownInv'
<1>0. runs[r].mount \in Mounts
  BY DEF ClientInv, ClientTypeOK, RunStates
<1>1. CASE QuotaThrown(r) \/ FailureThrown(r)
  <2>1. ClearPartial(r) /\ \E s : Ended(r, s)
    BY <1>1 DEF QuotaThrown, FailureThrown
  <2>. QED  BY <1>0, <2>1, EmptyBuffer, ShownEnded DEF ClearPartial
<1>2. CASE AbortThrown(r) /\ ~Streaming(runs[r])
  BY <1>2, ShownEnded DEF AbortThrown
<1>. QED  BY <1>1, <1>2

LEMMA ShownFinish ==
  ASSUME ClientInv, ShownInv, NEW r \in Runs, Going(runs[r]),
         NEW blocks, NEW failed, Finish(r, blocks, failed)
  PROVE  ShownInv'
<1>0. runs[r].mount \in Mounts
  BY DEF ClientInv, ClientTypeOK, RunStates
<1>1. CASE ~blocks /\ ~failed
  BY <1>1, ShownThrown DEF Finish
<1>2. CASE ~(~blocks /\ ~failed)
  <2>1. refs' = [refs EXCEPT ![runs[r].mount] = Empty(@)] /\ \E s : Ended(r, s)
    BY <1>2 DEF Finish
  <2>. QED  BY <1>0, <2>1, EmptyBuffer, ShownEnded
<1>. QED  BY <1>1, <1>2

LEMMA ShownKey ==
  ASSUME ClientInv, ShownInv, NEW r \in Runs, KeyReady(r)
  PROVE  ShownInv'
<1>. DEFINE run == [runs[r] EXCEPT !.pc = "sent", !.posts = 1]
<1>1. /\ runs[r] \in RunStates /\ refs \in [Mounts -> HookRefs] /\ runs[r].mount \in Mounts
      /\ runs[r].pc = "key"
  BY DEF ClientInv, ClientTypeOK, RunStates, KeyReady
<1>2. /\ run.alone = runs[r].alone /\ run.mount = runs[r].mount /\ run.pc = "sent"
      /\ run.got = runs[r].got /\ run.posts = 1 /\ run.failed = runs[r].failed
  BY <1>1 DEF RunStates
<1>3. runs' = [runs EXCEPT ![r] = run] /\ store' = store
  BY DEF KeyReady
<1>. HIDE DEF run
<1>4. \A m \in Mounts : refs'[m].buffer = refs[m].buffer
  BY <1>1 DEF KeyReady, HookRefs
<1>5. Going(runs[r]) /\ ~Streaming(runs[r]) /\ Going(run)
  BY <1>1, <1>2 DEF Going, Streaming
<1>6. run.alone /\ ~run.failed =>
        store'.streamText \o refs'[run.mount].buffer = Received(r, run.got)
  BY <1>1, <1>2, <1>3, <1>4, <1>5 DEF ShownInv, ShowsReceived
<1>. QED  BY <1>2, <1>3, <1>4, <1>5, <1>6, ShownMoved

LEMMA ShownMessage ==
  ASSUME ClientInv, ShownInv, NEW r \in Runs, onmessage(r)
  PROVE  ShownInv'
<1>1. /\ store \in Stores /\ runs[r] \in RunStates /\ runs[r].got \in Nat
      /\ refs \in [Mounts -> HookRefs] /\ runs[r].mount \in Mounts
      /\ runs[r].pc = "sent" /\ runs[r].mode = SSE /\ ~runs[r].failed
      /\ store.streamText \in Text /\ refs[runs[r].mount] \in HookRefs
      /\ refs[runs[r].mount].buffer \in Text
  BY DEF ClientInv, ClientTypeOK, RunStates, onmessage, Connected, Stores, HookRefs
<1>2. Going(runs[r]) /\ Streaming(runs[r])
  BY <1>1 DEF Going, Streaming
<1>3. CASE /\ refs' = [refs EXCEPT ![runs[r].mount].buffer = Append(@, <<r, runs[r].got + 1>>),
                                   ![runs[r].mount].frame = TRUE]
           /\ runs' = [runs EXCEPT ![r].got = @ + 1]
           /\ UNCHANGED store
  <2>. DEFINE run == [runs[r] EXCEPT !.got = @ + 1]
  <2>1. /\ run.alone = runs[r].alone /\ run.mount = runs[r].mount /\ run.pc = "sent"
        /\ run.mode = SSE /\ run.got = runs[r].got + 1 /\ run.failed = runs[r].failed
    BY <1>1 DEF RunStates
  <2>2. runs' = [runs EXCEPT ![r] = run]
    BY <1>3
  <2>. HIDE DEF run
  <2>3. /\ refs'[runs[r].mount].buffer
             = Append(refs[runs[r].mount].buffer, <<r, runs[r].got + 1>>)
        /\ \A m \in Mounts \ {runs[r].mount} : refs'[m] = refs[m]
    BY <1>1, <1>3 DEF HookRefs
  <2>4. ASSUME run.alone, ~run.failed
        PROVE  store'.streamText \o refs'[run.mount].buffer = Received(r, run.got)
    <3>1. store.streamText \o refs[runs[r].mount].buffer = Received(r, runs[r].got)
      BY <1>2, <2>1, <2>4 DEF ShownInv, ShowsReceived
    <3>. DEFINE buffer == refs[runs[r].mount].buffer
                chunk == <<r, runs[r].got + 1>>
    <3>2. chunk \in Runs \X Nat
      BY <1>1
    <3>3. Append(Received(r, runs[r].got), chunk) = Received(r, run.got)
      BY <1>1, <2>1, ReceivedMore
    <3>4. buffer \in Text /\ refs'[run.mount].buffer = Append(buffer, chunk)
          /\ store'.streamText = store.streamText
      BY <1>1, <1>3, <2>1, <2>3
    <3>. HIDE DEF buffer, chunk
    <3>5. store.streamText \o Append(buffer, chunk) = Append(store.streamText \o buffer, chunk)
      BY <1>1, <3>2, <3>4, TextJoins
    <3>. QED  BY <3>1, <3>3, <3>4, <3>5 DEF buffer
  <2>5. Going(run) /\ Streaming(run)
    BY <2>1 DEF Going, Streaming
  <2>. QED  BY <1>2, <2>1, <2>2, <2>3, <2>4, <2>5, ShownMoved
<1>4. CASE ClearPartial(r) /\ runs' = [runs EXCEPT ![r].failed = TRUE]
  <2>. DEFINE run == [runs[r] EXCEPT !.failed = TRUE]
  <2>1. /\ run.alone = runs[r].alone /\ run.mount = runs[r].mount /\ run.pc = "sent"
        /\ run.mode = SSE /\ run.failed
    BY <1>1 DEF RunStates
  <2>2. runs' = [runs EXCEPT ![r] = run]
    BY <1>4
  <2>. HIDE DEF run
  <2>3. \A m \in Mounts : refs'[m].buffer # <<>> => refs[m].buffer # <<>>
    BY <1>1, <1>4, EmptyBuffer DEF ClearPartial
  <2>4. Going(run) /\ Streaming(run)
    BY <2>1 DEF Going, Streaming
  <2>. QED  BY <1>2, <2>1, <2>2, <2>3, <2>4, ShownMoved
<1>5. CASE runs' = [runs EXCEPT ![r].blocks = TRUE] /\ UNCHANGED <<store, refs>>
  <2>. DEFINE run == [runs[r] EXCEPT !.blocks = TRUE]
  <2>1. /\ run.alone = runs[r].alone /\ run.mount = runs[r].mount /\ run.pc = "sent"
        /\ run.mode = SSE /\ run.got = runs[r].got /\ run.failed = runs[r].failed
    BY <1>1 DEF RunStates
  <2>2. runs' = [runs EXCEPT ![r] = run]
    BY <1>5
  <2>. HIDE DEF run
  <2>3. Going(run) /\ Streaming(run)
    BY <2>1 DEF Going, Streaming
  <2>4. run.alone /\ ~run.failed =>
          store'.streamText \o refs'[run.mount].buffer = Received(r, run.got)
    BY <1>2, <1>5, <2>1 DEF ShownInv, ShowsReceived
  <2>. QED  BY <1>2, <1>5, <2>1, <2>2, <2>3, <2>4, ShownMoved
<1>. QED  BY <1>3, <1>4, <1>5 DEF onmessage

LEMMA ShownRun ==
  ASSUME ClientInv, ShownInv, NEW r \in Runs, RunStep(r)
  PROVE  ShownInv'
<1>2. CASE FetchAnswers(r)
  <2>1. Going(runs[r]) /\ ~Streaming(runs[r])
    BY <1>2 DEF FetchAnswers, Going, Streaming, SSE, Fetch
  <2>. QED  BY <1>2, <2>1, ShownThrown, ShownFinish DEF FetchAnswers
<1>3. CASE onopen(r) \/ onerror(r)
  <2>1. Going(runs[r])
    BY <1>3 DEF onopen, onerror, Connected, Going
  <2>. QED  BY <1>3, <2>1, ShownThrown DEF onopen, onerror
<1>4. CASE onmessage(r)
  BY <1>4, ShownMessage
<1>5. CASE StreamEnds(r) \/ AbortResolves(r)
  <2>1. Going(runs[r])
    BY <1>5 DEF StreamEnds, AbortResolves, Connected, Going
  <2>. QED  BY <1>5, <2>1, ShownFinish DEF StreamEnds, AbortResolves
<1>. QED  BY <1>2, <1>3, <1>4, <1>5 DEF RunStep

LEMMA ShownFlush ==
  ASSUME ClientInv, ShownInv, NEW m \in Mounts, Flush(m)
  PROVE  ShownInv'
<1>1. /\ store \in Stores /\ runs \in [Runs -> RunStates] /\ refs \in [Mounts -> HookRefs]
      /\ store.streamText \in Text /\ runs' = runs
  BY DEF ClientInv, ClientTypeOK, Stores, Flush
<1>2. refs[m].buffer \in Text
  BY <1>1 DEF HookRefs
<1>3. store'.streamText = store.streamText \o refs[m].buffer
  BY <1>1 DEF Flush, Stores
<1>4. refs'[m].buffer = <<>> /\ \A n \in Mounts \ {m} : refs'[n] = refs[n]
  BY EmptyBuffer DEF Flush
<1>5. BufferHasAStream(refs', runs')
  BY <1>1, <1>4 DEF ShownInv, BufferHasAStream
<1>6. ASSUME NEW r \in Runs, Going(runs[r]), runs[r].alone, ~runs[r].failed
      PROVE  store'.streamText \o refs'[runs[r].mount].buffer = Received(r, runs[r].got)
  <2>1. store.streamText \o refs[runs[r].mount].buffer = Received(r, runs[r].got)
        /\ runs[r].mount \in Mounts
    BY <1>1, <1>6 DEF ShownInv, ShowsReceived, RunStates
  <2>2. CASE runs[r].mount = m
    <3>1. store'.streamText \in Text
      BY <1>1, <1>2, <1>3 DEF Text
    <3>2. store'.streamText \o <<>> = store'.streamText
      BY <3>1, TextJoins
    <3>. QED  BY <1>3, <1>4, <2>1, <2>2, <3>2
  <2>3. CASE runs[r].mount # m
    <3>1. refs[m].buffer = <<>>
      BY <1>1, <1>6, <2>3
      DEF ShownInv, AloneIsOnly, BufferHasAStream, Streaming, Going
    <3>2. store'.streamText = store.streamText
      BY <1>1, <1>3, <3>1, TextJoins
    <3>. QED  BY <1>4, <2>1, <2>3, <3>2
  <2>. QED  BY <2>2, <2>3
<1>. QED  BY <1>1, <1>5, <1>6 DEF ShownInv, ShowsReceived

LEMMA ShownVisibility ==
  ASSUME ClientInv, ShownInv, Visibility
  PROVE  ShownInv'
<1>1. runs \in [Runs -> RunStates] /\ UNCHANGED <<store, refs>>
  BY DEF ClientInv, ClientTypeOK, Visibility
<1>2. ASSUME NEW r \in Runs
      PROVE  /\ Going(runs'[r]) <=> Going(runs[r])
             /\ Streaming(runs'[r]) <=> Streaming(runs[r])
             /\ runs'[r].alone = runs[r].alone /\ runs'[r].mount = runs[r].mount
             /\ runs'[r].got = runs[r].got /\ runs'[r].failed = runs[r].failed
  <2>1. runs[r] \in RunStates
    BY <1>1
  <2>2. CASE ~Requesting(r)
    BY <2>2 DEF Visibility
  <2>3. CASE Requesting(r)
    <3>1. \/ runs'[r] = [runs[r] EXCEPT !.pc = "sent", !.posts = @ + 1]
          \/ runs'[r] = [runs[r] EXCEPT !.pc = "paused"]
      BY <2>3 DEF Visibility
    <3>. QED  BY <2>1, <2>3, <3>1 DEF RunStates, Requesting, Going, Streaming
  <2>. QED  BY <2>2, <2>3
<1>3. AloneIsOnly(runs')
  BY <1>2 DEF ShownInv, AloneIsOnly
<1>4. BufferHasAStream(refs', runs')
  BY <1>1, <1>2 DEF ShownInv, BufferHasAStream
<1>5. ASSUME NEW r \in Runs, Going(runs'[r]), runs'[r].alone, ~runs'[r].failed
      PROVE  store'.streamText \o refs'[runs'[r].mount].buffer = Received(r, runs'[r].got)
  <2>1. store.streamText \o refs[runs[r].mount].buffer = Received(r, runs[r].got)
    BY <1>2, <1>5 DEF ShownInv, ShowsReceived
  <2>. QED  BY <1>1, <1>2, <2>1
<1>. QED  BY <1>3, <1>4, <1>5 DEF ShownInv, ShowsReceived

(* Once the runs are mixed, none is alone.                                    *)
LEMMA ShownMixed ==
  ASSUME ClientInv, ShownInv, NEW rs \in [Runs -> RunStates], runs' = Mixed(rs),
         \A r \in Runs : rs[r].pc = runs[r].pc /\ rs[r].mode = runs[r].mode
                                                 /\ rs[r].mount = runs[r].mount,
         \A m \in Mounts : refs'[m].buffer # <<>> => refs[m].buffer # <<>>
  PROVE  ShownInv'
<1>1. \A r \in Runs : /\ ~runs'[r].alone /\ runs'[r].pc = runs[r].pc
                      /\ runs'[r].mode = runs[r].mode /\ runs'[r].mount = runs[r].mount
  BY DEF Mixed, RunStates
<1>2. BufferHasAStream(refs', runs')
  BY <1>1 DEF ShownInv, BufferHasAStream, Streaming
<1>3. AloneIsOnly(runs') /\ ShowsReceived(store', refs', runs')
  BY <1>1 DEF AloneIsOnly, ShowsReceived
<1>. QED  BY <1>2, <1>3 DEF ShownInv

LEMMA ShownStop ==
  ASSUME ClientInv, ShownInv, NEW again \in BOOLEAN, StopRunning(again)
  PROVE  ShownInv'
<1>. DEFINE rs == [runs EXCEPT ![controller].aborted = Active(controller)]
<1>1. /\ page.mount \in Mounts /\ runs \in [Runs -> RunStates]
      /\ refs \in [Mounts -> HookRefs] /\ Active(controller) \in BOOLEAN
  BY DEF ClientInv, ClientTypeOK, Pages, Active
<1>2. controller \in Runs
  BY <1>1 DEF StopRunning, Stops, controller, HookRefs, Runs
<1>3. /\ rs \in [Runs -> RunStates]
      /\ \A r \in Runs : rs[r].pc = runs[r].pc /\ rs[r].mode = runs[r].mode
                                                /\ rs[r].mount = runs[r].mount
  BY <1>1, <1>2 DEF RunStates
<1>4. runs' = Mixed(rs) /\ refs' = [refs EXCEPT ![page.mount] = Empty(@)]
  BY DEF StopRunning
<1>. HIDE DEF rs
<1>5. \A m \in Mounts : refs'[m].buffer # <<>> => refs[m].buffer # <<>>
  BY <1>1, <1>4, EmptyBuffer
<1>. QED  BY <1>3, <1>4, <1>5, ShownMixed

(* A run that begins when all is idle finds empty buffers.                    *)
LEMMA ShownBegin ==
  ASSUME ClientInv, ShownInv, NEW again \in BOOLEAN, Begin(again)
  PROVE  ShownInv'
<1>0. /\ runs \in [Runs -> RunStates] /\ page \in Pages /\ page.mount \in Mounts
      /\ refs \in [Mounts -> HookRefs]
  BY DEF ClientInv, ClientTypeOK, Pages
<1>. DEFINE run == [Unused EXCEPT !.pc = "key", !.mode = page.mode, !.user = page.user,
                                  !.mount = page.mount, !.alone = Idle,
                                  !.saved = page.saveRun # Guest /\ page.user # Guest,
                                  !.consent = page.saveRun, !.early = page.effect # "none"]
<1>a. PICK r \in Runs :
        /\ runs[r].pc = "unused" /\ refs' = refs
        /\ store' = [store EXCEPT !.isStreaming = TRUE, !.streamText = <<>>,
                                   !.rawError = FALSE, !.output = 0, !.session = TRUE]
        /\ runs' = [(IF Idle THEN runs ELSE Mixed(runs)) EXCEPT ![r] = run]
  BY DEF Begin, NextRun
<1>1. /\ runs[r].pc = "unused" /\ store'.streamText = <<>> /\ refs' = refs
      /\ run.pc = "key" /\ run.alone = Idle /\ run.mount = page.mount
      /\ run.got = 0
      /\ runs' = [(IF Idle THEN runs ELSE Mixed(runs)) EXCEPT ![r] = run]
  <2>1. store \in Stores
    BY DEF ClientInv, ClientTypeOK
  <2>2. store'.streamText = <<>>
    BY <1>a, <2>1 DEF Stores
  <2>3. /\ run.pc = "key" /\ run.alone = Idle /\ run.mount = page.mount /\ run.got = 0
    BY DEF Unused
  <2>. QED  BY <1>a, <2>2, <2>3
<1>. HIDE DEF run
<1>2. runs'[r] = run /\ Going(run) /\ ~Going(runs[r]) /\ ~Streaming(runs[r])
  BY <1>0, <1>1 DEF Mixed, Going, Streaming
<1>3. CASE Idle
  <2>1. \A q \in Runs : ~Going(runs[q]) /\ ~Streaming(runs[q])
    BY <1>3 DEF Idle, Active, Going, Streaming
  <2>2. \A q \in Runs \ {r} : runs'[q] = runs[q]
    BY <1>1, <1>3
  <2>3. \A m \in Mounts : refs'[m].buffer = <<>>
    BY <1>1, <2>1 DEF ShownInv, BufferHasAStream
  <2>4. AloneIsOnly(runs') /\ BufferHasAStream(refs', runs')
    BY <2>1, <2>2, <2>3 DEF AloneIsOnly, BufferHasAStream
  <2>5. store'.streamText \o refs'[run.mount].buffer = Received(r, run.got)
    <3>1. <<>> \o <<>> = <<>> /\ Received(r, 0) = <<>>
      BY DEF Received
    <3>. QED  BY <1>0, <1>1, <2>3, <3>1
  <2>6. ShowsReceived(store', refs', runs')
    <3>1. ASSUME NEW q \in Runs, Going(runs'[q])
          PROVE  store'.streamText \o refs'[runs'[q].mount].buffer = Received(q, runs'[q].got)
      <4>1. q = r
        BY <2>1, <2>2, <3>1
      <4>. QED  BY <1>2, <2>5, <4>1
    <3>. QED  BY <3>1 DEF ShowsReceived
  <2>. QED  BY <2>4, <2>6 DEF ShownInv
<1>4. CASE ~Idle
  <2>1. \A q \in Runs : ~runs'[q].alone
    BY <1>0, <1>1, <1>2, <1>4 DEF Mixed, RunStates
  <2>2. \A q \in Runs : Streaming(runs[q]) =>
          Streaming(runs'[q]) /\ runs'[q].mount = runs[q].mount
    BY <1>0, <1>1, <1>2, <1>4 DEF Mixed, RunStates, Streaming
  <2>3. BufferHasAStream(refs', runs')
    BY <1>1, <2>2 DEF ShownInv, BufferHasAStream
  <2>. QED  BY <2>1, <2>3 DEF ShownInv, AloneIsOnly, ShowsReceived
<1>. QED  BY <1>3, <1>4

(* A run of the local engine leaves none alone, and the buffers as they are.  *)
LEMMA ShownLocal ==
  ASSUME ClientInv, ShownInv, NEW again \in BOOLEAN, LocalEngine(again)
  PROVE  ShownInv'
<1>0. runs \in [Runs -> RunStates] /\ ~Over.alone
  BY DEF ClientInv, ClientTypeOK, Over, Unused
<1>1. PICK r \in Runs :
        runs[r].pc = "unused" /\ refs' = refs /\ runs' = [Mixed(runs) EXCEPT ![r] = Over]
  BY DEF LocalEngine, NextRun
<1>2. \A q \in Runs : ~runs'[q].alone
  BY <1>0, <1>1 DEF Mixed, RunStates
<1>3. \A q \in Runs : Streaming(runs[q]) =>
        Streaming(runs'[q]) /\ runs'[q].mount = runs[q].mount
  BY <1>0, <1>1 DEF Mixed, RunStates, Streaming
<1>4. BufferHasAStream(refs', runs')
  BY <1>1, <1>3 DEF ShownInv, BufferHasAStream
<1>. QED  BY <1>2, <1>4 DEF ShownInv, AloneIsOnly, ShowsReceived

LEMMA ShownReload ==
  ASSUME ClientInv, ShownInv, Reload
  PROVE  ShownInv'
<1>0. runs \in [Runs -> RunStates]
  BY DEF ClientInv, ClientTypeOK
<1>1. \A r \in Runs : ~Going(runs'[r])
  BY <1>0 DEF Reload, Active, Going, Over, Unused
<1>2. \A m \in Mounts : refs'[m].buffer = <<>>
  BY DEF Reload, NoRefs
<1>. QED  BY <1>1, <1>2 DEF ShownInv, AloneIsOnly, BufferHasAStream, ShowsReceived

(* A step that leaves the text, the buffers and the runs alone.               *)
LEMMA ShownAside ==
  ASSUME ShownInv, store'.streamText = store.streamText, UNCHANGED <<refs, runs>>
  PROVE  ShownInv'
BY DEF ShownInv, AloneIsOnly, BufferHasAStream, ShowsReceived

LEMMA ShownHandle ==
  ASSUME ClientInv, ShownInv, NEW again \in BOOLEAN, handleTranslate(again)
  PROVE  ShownInv'
BY ShownStop, ShownBegin, ShownLocal, ShownAside DEF handleTranslate, GuestBlocked

LEMMA ShownStep == ClientInv /\ ShownInv /\ [Next]_vars => ShownInv'
<1>. SUFFICES ASSUME ClientInv, ShownInv, [Next]_vars PROVE ShownInv'
  OBVIOUS
<1>1. CASE PressTranslate \/ CtrlEnter
  BY <1>1, ShownHandle DEF PressTranslate, CtrlEnter
<1>2. CASE Echo
  BY <1>2, ShownHandle, ShownAside DEF Echo
<1>3. CASE \E r \in Runs : KeyReady(r) \/ RunStep(r)
  BY <1>3, ShownKey, ShownRun
<1>4. CASE (\E m \in Mounts : Flush(m)) \/ Visibility
  BY <1>4, ShownFlush, ShownVisibility
<1>5. CASE EditInput
  <2>1. store'.streamText = store.streamText
    BY <1>5 DEF EditInput, ClientInv, ClientTypeOK, Stores
  <2>. QED  BY <1>5, <2>1, ShownAside DEF EditInput
<1>6. CASE handleClear
  <2>1. runs \in [Runs -> RunStates] /\ runs' = Mixed(runs) /\ refs' = refs
    BY <1>6 DEF handleClear, ClientInv, ClientTypeOK
  <2>. QED  BY <2>1, ShownMixed
<1>7. CASE setMode \/ setExecutionEngine \/ UserChanges \/ Untick \/ setSaveRunToHistory \/ Remount
  BY <1>7, ShownAside DEF setMode, setExecutionEngine, UserChanges, Untick, setSaveRunToHistory, Remount
<1>8. CASE Reload
  BY <1>8, ShownReload
<1>9. CASE UNCHANGED vars
  BY <1>9, ShownAside DEF vars
<1>. QED  BY <1>1, <1>2, <1>3, <1>4, <1>5, <1>6, <1>7, <1>8, <1>9 DEF Next

(* The text on the screen and the buffer of an undisturbed run are what it    *)
(* received, in order and once, through frames, hidden tabs and remounts      *)
(* (appendStreamText and scheduleFlush of useTranslationStream).              *)
THEOREM ShownTextHolds == Spec => []ShownTextIsReceived
<1>1. Init => ShownInv
  <2>. SUFFICES ASSUME Init PROVE ShownInv
    OBVIOUS
  <2>1. \A r \in Runs : ~Going(runs[r])
    BY DEF Init, Unused, Going
  <2>2. \A m \in Mounts : refs[m].buffer = <<>>
    BY DEF Init, NoRefs
  <2>. QED  BY <2>1, <2>2 DEF ShownInv, AloneIsOnly, BufferHasAStream, ShowsReceived
<1>2. ClientInv /\ ShownInv => ShownTextIsReceived
  BY DEF ShownInv, ShowsReceived, ShownTextIsReceived, Going, Active, Received
<1>. QED  BY <1>1, <1>2, InitInv, StepInv, ShownStep, PTL DEF Spec
==============================================================================
