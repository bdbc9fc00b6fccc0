-------------------------- MODULE TranslationClient --------------------------
(***************************************************************************)
(* The streaming hook of the translation page (useTranslationStream) with  *)
(* the zustand store it writes, and the consent that decides whether a run *)
(* is saved.                                                               *)
(*                                                                         *)
(* A run is one call of handleTranslate that got past its guards.  Every   *)
(* action is the code between two awaits; runs interleave at the awaits.   *)
(* The callback the controls call is memoised: page.held is what it        *)
(* captured of the store when it was last made, at a change of one of its  *)
(* dependencies.  A mount of the page has refs of its own (controller,     *)
(* buffer, frame); the store is one for the browser tab.                   *)
(***************************************************************************)
EXTENDS Naturals, Sequences, FiniteSets

CONSTANTS Users,        \* accounts that sign in on this browser
          Guest,        \* no session
          MaxRuns,      \* bound on the runs of a behaviour
          MaxChunks,    \* bound on the chunks a stream sends
          MaxMounts,    \* bound on how often the page is mounted
          MaxPosts,     \* bound on how often one run sends its request
          MaxTurns,     \* bound on what else the user does with the page
          GuestLimit    \* free translations of a guest in a day

ASSUME ClientAssumption ==
    /\ Guest \notin Users
    /\ MaxRuns \in Nat \ {0} /\ MaxMounts \in Nat \ {0} /\ MaxPosts \in Nat \ {0}
    /\ MaxChunks \in Nat /\ MaxTurns \in Nat /\ GuestLimit \in Nat

VARIABLES store,      \* useTranslationStore
          page,       \* state of TranslateFeature and of the hook
          refs,       \* refs of the hook, per mount
          runs,       \* run -> its progress
          hidden,     \* the tab is in the background
          guestUsed   \* translations counted in the guest sandbox

vars == <<store, page, refs, runs, hidden, guestUsed>>

Runs == 1..MaxRuns
Mounts == 1..MaxMounts
Accounts == Users \cup {Guest}
SSE == "code-to-english"        \* code-to-code differs in its endpoint only
Fetch == "english-to-code"

Unused == [pc |-> "unused", mode |-> SSE, user |-> Guest, saved |-> FALSE,
           consent |-> Guest, early |-> FALSE, mount |-> 1, aborted |-> FALSE, alone |-> FALSE,
           got |-> 0, blocks |-> FALSE, failed |-> FALSE, posts |-> 0]
Over == [Unused EXCEPT !.pc = "ended"]     \* nothing reads an ended run
NoRefs == [controller |-> 0, buffer |-> <<>>, frame |-> FALSE]

Active(r) == runs[r].pc \notin {"unused", "ended"}
Idle == \A r \in Runs : ~Active(r)

(* The tab holds a draft, and a session or none.                             *)
Init == /\ store = [input |-> TRUE, session |-> FALSE, isStreaming |-> FALSE,
                    streamText |-> <<>>, rawError |-> FALSE, output |-> 0]
        /\ \E user \in Accounts :
              page = [mode |-> SSE, engine |-> "cloud", user |-> user, saveRun |-> Guest,
                      effect |-> "none",
                      held |-> [streaming |-> FALSE, engine |-> "cloud"],
                      echo |-> FALSE, turns |-> 0, mount |-> 1]
        /\ refs = [m \in Mounts |-> NoRefs]
        /\ runs = [r \in Runs |-> Unused]
        /\ hidden = FALSE /\ guestUsed = 0

-----------------------------------------------------------------------------
(* The callback is made anew when a dependency changes; isStreaming and the *)
(* engine are none, so until then it keeps what it captured.                *)
Made(p, s) == [p EXCEPT !.held = [streaming |-> s.isStreaming, engine |-> p.engine]]
KeptUnless(changed, p, s) == IF changed THEN Made(p, s) ELSE p

Cleared(s) == [s EXCEPT !.streamText = <<>>]
Empty(ref) == [ref EXCEPT !.buffer = <<>>, !.frame = FALSE]

(* From here on the text shown is no longer that of one run.                *)
Mixed(rs) == [r \in Runs |-> [rs[r] EXCEPT !.alone = FALSE]]

-----------------------------------------------------------------------------
(* handleTranslate up to its first await.  The argument tells whether the   *)
(* same key press calls it once more (page.echo).                           *)

controller == refs[page.mount].controller
Stops == page.held.streaming /\ controller # 0

(* Every call renders the page, and an effect that is pending comes first.  *)
Called(p, again) == [p EXCEPT !.echo = again, !.effect = IF @ = "pending" THEN "due" ELSE @]

StopRunning(again) ==
    /\ store.input /\ Stops
    /\ runs' = Mixed([runs EXCEPT ![controller].aborted = Active(controller)])
    /\ refs' = [refs EXCEPT ![page.mount] = Empty(@)]
    /\ store' = [Cleared(store) EXCEPT !.isStreaming = FALSE]
    /\ page' = Called(page, again)
    /\ UNCHANGED <<hidden, guestUsed>>

GuestBlocked(again) ==
    /\ store.input /\ ~Stops
    /\ page.held.engine = "cloud" /\ page.user = Guest /\ guestUsed >= GuestLimit
    /\ page' = Called(page, again)
    /\ UNCHANGED <<store, refs, runs, hidden, guestUsed>>

NextRun(r) == runs[r].pc = "unused" /\ \A q \in Runs : q < r => runs[q].pc # "unused"

Begin(again) ==
    \E r \in Runs :
        LET begun == [store EXCEPT !.isStreaming = TRUE, !.streamText = <<>>,
                                   !.rawError = FALSE, !.output = 0, !.session = TRUE]
        IN /\ NextRun(r) /\ store.input /\ ~Stops
           /\ page.held.engine = "cloud" /\ (page.user # Guest \/ guestUsed < GuestLimit)
           /\ store' = begun
           /\ page' = Called(KeptUnless(~store.session, page, begun), again)
           /\ runs' = [(IF Idle THEN runs ELSE Mixed(runs)) EXCEPT ![r] =
                 [Unused EXCEPT !.pc = "key", !.mode = page.mode, !.user = page.user,
                                !.mount = page.mount, !.alone = Idle,
                                !.saved = page.saveRun # Guest /\ page.user # Guest,
                                !.consent = page.saveRun, !.early = page.effect # "none"]]
           /\ UNCHANGED <<refs, hidden, guestUsed>>

(* With the local engine, or offline, the run is over before the browser    *)
(* takes another event: the engine awaits nothing.                          *)
LocalEngine(again) ==
    \E r \in Runs, n \in 0..MaxChunks, failed \in BOOLEAN :
        /\ NextRun(r) /\ store.input /\ ~Stops
        /\ failed => n = 0
        /\ store' = [store EXCEPT !.isStreaming = FALSE, !.rawError = failed,
                         !.streamText = [i \in 1..n |-> <<r, i>>],
                         !.output = IF failed THEN 0 ELSE r]
        /\ page' = Called(page, again)
        /\ runs' = [Mixed(runs) EXCEPT ![r] = Over]
        /\ UNCHANGED <<refs, hidden, guestUsed>>

handleTranslate(again) ==
    StopRunning(again) \/ GuestBlocked(again) \/ Begin(again) \/ LocalEngine(again)

(* The button of the input panel and the retry buttons of the output panel. *)
Settled == ~page.echo /\ page.effect # "due"
PressTranslate == Settled /\ handleTranslate(FALSE)

(* Ctrl+Enter is heard on the window.  In the text area of English to code  *)
(* the area hears it first; the page renders, then the window's listener    *)
(* makes a second call, which the bound on the runs may cut.                *)
CtrlEnter == Settled /\ handleTranslate(page.mode = Fetch)

Echo == /\ page.echo /\ page.effect # "due"
        /\ \/ handleTranslate(FALSE)
           \/ /\ \A r \in Runs : runs[r].pc # "unused"
              /\ page' = [page EXCEPT !.echo = FALSE]
              /\ UNCHANGED <<store, refs, runs, hidden, guestUsed>>

-----------------------------------------------------------------------------
(* A run after its first await.                                              *)

(* The finally clause, and every return before it, clears isStreaming,      *)
(* whichever run is streaming by then.                                      *)
Ended(r, s) == /\ store' = [s EXCEPT !.isStreaming = FALSE]
               /\ runs' = [runs EXCEPT ![r] = Over]

(* clearPartialOutput of the hook that made the run.                         *)
ClearPartial(r) == refs' = [refs EXCEPT ![runs[r].mount] = Empty(@)]

(* The stored key is read, a new controller replaces the hook's last one    *)
(* and the request is sent.                                                 *)
KeyReady(r) ==
    /\ runs[r].pc = "key"
    /\ refs' = [refs EXCEPT ![runs[r].mount].controller = r]
    /\ runs' = [runs EXCEPT ![r].pc = "sent", ![r].posts = 1]
    /\ UNCHANGED <<store, page, hidden, guestUsed>>

(* The catch clause, by what was thrown.                                     *)
QuotaThrown(r) ==
    /\ ClearPartial(r) /\ Ended(r, Cleared(store))
    /\ UNCHANGED <<page, hidden, guestUsed>>
AbortThrown(r) ==
    /\ Ended(r, store)
    /\ UNCHANGED <<page, refs, hidden, guestUsed>>
FailureThrown(r) ==
    /\ ClearPartial(r) /\ Ended(r, [Cleared(store) EXCEPT !.rawError = TRUE])
    /\ UNCHANGED <<page, hidden, guestUsed>>

(* After the answer: the last flush, then the blocks, or a failure when     *)
(* there are neither blocks nor an error event.                             *)
Finish(r, blocks, failed) ==
    LET text == store.streamText \o refs[runs[r].mount].buffer IN
    IF ~blocks /\ ~failed THEN FailureThrown(r)
    ELSE /\ refs' = [refs EXCEPT ![runs[r].mount] = Empty(@)]
         /\ Ended(r, [store EXCEPT !.streamText = text,
                                   !.output = IF failed THEN @ ELSE r])
         /\ guestUsed' = IF ~failed /\ runs[r].user = Guest /\ guestUsed < GuestLimit
                         THEN guestUsed + 1 ELSE guestUsed
         /\ UNCHANGED <<page, hidden>>

(* English to code: one response, no stream.                                *)
FetchAnswers(r) ==
    /\ runs[r].pc = "sent" /\ runs[r].mode = Fetch
    /\ \/ ~runs[r].aborted /\ (QuotaThrown(r) \/ FailureThrown(r) \/ Finish(r, TRUE, FALSE))
       \/ runs[r].aborted /\ AbortThrown(r)

Connected(r) == runs[r].pc = "sent" /\ runs[r].mode = SSE /\ ~runs[r].aborted

(* onopen refuses with 429; otherwise the messages follow.                   *)
onopen(r) == Connected(r) /\ runs[r].got = 0 /\ ~runs[r].blocks /\ ~runs[r].failed
             /\ QuotaThrown(r)

(* onerror throws, whatever the error: the library does not retry.           *)
onerror(r) == Connected(r) /\ FailureThrown(r)

onmessage(r) ==
    /\ Connected(r) /\ ~runs[r].failed
    /\ \/ /\ runs[r].got < MaxChunks /\ ~runs[r].blocks
          /\ refs' = [refs EXCEPT ![runs[r].mount].buffer = Append(@, <<r, runs[r].got + 1>>),
                                  ![runs[r].mount].frame = TRUE]
          /\ runs' = [runs EXCEPT ![r].got = @ + 1]
          /\ UNCHANGED store
       \/ /\ ClearPartial(r)
          /\ store' = [Cleared(store) EXCEPT !.rawError = TRUE]
          /\ runs' = [runs EXCEPT ![r].failed = TRUE]
       \/ /\ runs' = [runs EXCEPT ![r].blocks = TRUE]
          /\ UNCHANGED <<store, refs>>
    /\ UNCHANGED <<page, hidden, guestUsed>>

(* The server ends the stream.                                               *)
StreamEnds(r) == Connected(r) /\ Finish(r, runs[r].blocks, runs[r].failed)

(* The library resolves when its signal is aborted, so a stopped stream goes *)
(* on like one that has ended.                                               *)
AbortResolves(r) == /\ runs[r].pc \in {"sent", "paused"}
                    /\ runs[r].mode = SSE /\ runs[r].aborted
                    /\ Finish(r, runs[r].blocks, runs[r].failed)

(* The frame requested by scheduleFlush.                                     *)
FlushAgain(m) ==
    /\ refs[m].frame
    /\ store' = [store EXCEPT !.streamText = @ \o refs[m].buffer]
    /\ refs' = [refs EXCEPT ![m].frame = FALSE]
    /\ UNCHANGED <<page, runs, hidden, guestUsed>>
Flush(m) ==
    /\ refs[m].frame
    /\ store' = [store EXCEPT !.streamText = @ \o refs[m].buffer]
    /\ refs' = [refs EXCEPT ![m] = Empty(@)]
    /\ UNCHANGED <<page, runs, hidden, guestUsed>>

(* The library closes its request when the tab is hidden and sends it again  *)
(* when the tab is shown (openWhenHidden is not set).                        *)
Requesting(r) == runs[r].pc \in {"sent", "paused"} /\ runs[r].mode = SSE
                 /\ ~runs[r].aborted
Visibility ==
    /\ hidden' = ~hidden
    /\ ~hidden => \A r \in Runs : Requesting(r) => runs[r].posts < MaxPosts
    /\ runs' = [r \in Runs |->
          IF ~Requesting(r) THEN runs[r]
          ELSE IF hidden THEN [runs[r] EXCEPT !.pc = "sent", !.posts = @ + 1]
          ELSE [runs[r] EXCEPT !.pc = "paused"]]
    /\ UNCHANGED <<store, page, refs, guestUsed>>

-----------------------------------------------------------------------------
(* The controls of the page.                                                 *)

(* Turns are bounded, and none is taken after the last run.                  *)
Controls == /\ ~page.echo /\ ~hidden /\ page.effect = "none" /\ page.turns < MaxTurns
            /\ runs[MaxRuns].pc # "ended"
Turn(p) == page' = [p EXCEPT !.turns = @ + 1]

EditInput ==
    /\ Controls
    /\ store' = [store EXCEPT !.input = TRUE]
    /\ Turn(Made(page, store))
    /\ UNCHANGED <<refs, runs, hidden, guestUsed>>

handleClear ==
    /\ Controls /\ store.input
    /\ store' = [Cleared(store) EXCEPT !.input = FALSE, !.output = 0, !.rawError = FALSE]
    /\ Turn(Made(page, store))
    /\ runs' = Mixed(runs)
    /\ UNCHANGED <<refs, hidden, guestUsed>>

setMode ==
    /\ Controls
    /\ \E mode \in {SSE, Fetch} \ {page.mode} :
           Turn(Made([page EXCEPT !.mode = mode], store))
    /\ UNCHANGED <<store, refs, runs, hidden, guestUsed>>

(* The engine is no dependency of the callback.                              *)
setExecutionEngine ==
    /\ Controls
    /\ \E engine \in {"cloud", "offline"} \ {page.engine} :
           Turn([page EXCEPT !.engine = engine])
    /\ UNCHANGED <<store, refs, runs, hidden, guestUsed>>

(* Another account is rendered; the effect that unticks the box runs once    *)
(* that is painted, or before the next render.  A click may come in between. *)
UserChangesUnheard ==
    /\ Controls
    /\ \E user \in Accounts \ {page.user} : Turn(Made([page EXCEPT !.user = user], store))
    /\ UNCHANGED <<store, refs, runs, hidden, guestUsed>>
UserChanges ==
    /\ Controls
    /\ \E user \in Accounts \ {page.user} :
           Turn(Made([page EXCEPT !.user = user, !.effect = "pending"], store))
    /\ UNCHANGED <<store, refs, runs, hidden, guestUsed>>
Untick ==
    /\ page.effect # "none"
    /\ page' = KeptUnless(page.saveRun # Guest, [page EXCEPT !.saveRun = Guest, !.effect = "none"], store)
    /\ UNCHANGED <<store, refs, runs, hidden, guestUsed>>

setSaveRunToHistory ==
    /\ ~page.echo /\ ~hidden /\ page.effect = "none" /\ ~store.isStreaming /\ page.user # Guest
    /\ page' = Made([page EXCEPT !.saveRun = IF @ = Guest THEN page.user ELSE Guest], store)
    /\ UNCHANGED <<store, refs, runs, hidden, guestUsed>>

(* The page is left and entered again: the store and the runs live on, the  *)
(* state and the refs of the page are new.                                  *)
NewPage(s, engine) ==
    /\ page.mount < MaxMounts
    /\ Turn(Made([page EXCEPT !.mode = SSE, !.engine = engine, !.saveRun = Guest,
                              !.effect = "none", !.mount = @ + 1], s))
Remount == /\ Controls /\ NewPage(store, page.engine)
           /\ UNCHANGED <<store, refs, runs, hidden, guestUsed>>

(* A reload ends every run; the session storage keeps the draft.            *)
ReloadStreaming ==
    /\ Controls /\ NewPage(store, "cloud")
    /\ refs' = [m \in Mounts |-> NoRefs]
    /\ runs' = [r \in Runs |-> IF Active(r) THEN Over ELSE runs[r]]
    /\ UNCHANGED <<store, hidden, guestUsed>>
Reload ==
    LET draft == [Cleared(store) EXCEPT !.isStreaming = FALSE, !.rawError = FALSE]
    IN /\ Controls /\ NewPage(draft, "cloud")
       /\ store' = draft
       /\ refs' = [m \in Mounts |-> NoRefs]
       /\ runs' = [r \in Runs |-> IF Active(r) THEN Over ELSE runs[r]]
       /\ UNCHANGED <<hidden, guestUsed>>

-----------------------------------------------------------------------------
RunStep(r) == \/ FetchAnswers(r) \/ onopen(r) \/ onerror(r)
              \/ onmessage(r) \/ StreamEnds(r) \/ AbortResolves(r)

Next == \/ PressTranslate \/ CtrlEnter \/ Echo
        \/ \E r \in Runs : KeyReady(r)
        \/ /\ Settled
           /\ \E r \in Runs : RunStep(r)
        \/ /\ Settled
           /\ \/ \E m \in Mounts : Flush(m)
              \/ Visibility
        \/ EditInput \/ handleClear \/ setMode \/ setExecutionEngine \/ UserChanges
        \/ Untick \/ setSaveRunToHistory \/ Remount \/ Reload

Spec == Init /\ [][Next]_vars

-----------------------------------------------------------------------------
(* Every variable keeps its type.                                            *)
Text == Seq(Runs \X Nat)
Stores == [input : BOOLEAN, session : BOOLEAN, isStreaming : BOOLEAN, streamText : Text,
           rawError : BOOLEAN, output : 0..MaxRuns]
Pages == [mode : {SSE, Fetch}, engine : {"cloud", "offline"}, user : Accounts,
          saveRun : Accounts, effect : {"none", "pending", "due"}, held : [streaming : BOOLEAN, engine : {"cloud", "offline"}],
          echo : BOOLEAN, turns : Nat, mount : Mounts]
HookRefs == [controller : 0..MaxRuns, buffer : Text, frame : BOOLEAN]
RunStates == [pc : {"unused", "key", "sent", "paused", "ended"},
              mode : {SSE, Fetch}, user : Accounts, saved : BOOLEAN, consent : Accounts,
              early : BOOLEAN,
              mount : Mounts, aborted : BOOLEAN, alone : BOOLEAN, got : Nat,
              blocks : BOOLEAN, failed : BOOLEAN, posts : Nat]
ClientTypeOK ==
    /\ store \in Stores /\ page \in Pages
    /\ refs \in [Mounts -> HookRefs] /\ runs \in [Runs -> RunStates]
    /\ hidden \in BOOLEAN /\ guestUsed \in Nat

(* The spinner, which disables the box that saves runs and turns the button *)
(* into a stop button, is on only while some run is under way: the finally  *)
(* clause of useTranslationStream cannot be missed.                         *)
SpinnerHasARun == store.isStreaming => ~Idle

(* A run that was sent as one to save was ticked by the account it runs     *)
(* under, whichever way the account, the page and the callback changed in   *)
(* between, unless it began in the moment between the render of a new       *)
(* account and the effect of TranslateFeature that unticks the box.          *)
SavedWithConsent ==
    \A r \in Runs : runs[r].saved /\ ~runs[r].early => runs[r].consent = runs[r].user

(* Without the exception.  It does not hold: a click in that moment saves a *)
(* run for the new account with the tick of the one before.                 *)
SavedWithConsentAlways == \A r \in Runs : runs[r].saved => runs[r].consent = runs[r].user

(* While one run streams undisturbed, what is shown and what waits in the   *)
(* buffer is what it has received, each chunk once and in order.            *)
ShownTextIsReceived ==
    \A r \in Runs : Active(r) /\ runs[r].alone /\ runs[r].posts <= 1 /\ ~runs[r].failed =>
        store.streamText \o refs[runs[r].mount].buffer = [i \in 1..runs[r].got |-> <<r, i>>]

(* "Stop translation", says the button while a translation streams: while   *)
(* the one run under way is the request this page sent, and nobody stopped   *)
(* it, no call starts another.                                               *)
Streams(r) == store.isStreaming /\ runs[r].pc = "sent" /\ runs[r].alone /\ ~runs[r].aborted
StopNeverStarts ==
    [][controller # 0 /\ Streams(controller)
         => \A r \in Runs : runs[r].pc = "unused" => runs'[r].pc = "unused"]_vars

(* A request is not sent again without the user asking for it.              *)
NoSilentResubmission == \A r \in Runs : runs[r].posts <= 1

=============================================================================
