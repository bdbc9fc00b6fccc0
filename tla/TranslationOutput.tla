-------------------------- MODULE TranslationOutput --------------------------
(***************************************************************************)
(* The output side of the translation page: the blocks of the store with   *)
(* their index, the edits of explanations and their sync back to code      *)
(* (useTranslationSession), the export bar, the share dialog and the guest *)
(* prompt.  A run of the stream hook (TranslationClient) begins and ends    *)
(* here in one step each.                                                   *)
(*                                                                         *)
(* A block is the code it explains and its text: 0 is what the server sent, *)
(* a positive number an edit.  The server passes on the ids the language    *)
(* model chose: the blocks' own, one that they share, or none.  An input is *)
(* a version number; a sync or an injection makes a new one.                *)
(***************************************************************************)
EXTENDS Naturals, Sequences

CONSTANTS Users, Guest,
          MaxRuns,      \* bound on the results of a behaviour
          MaxTurns      \* bound on the edits, injections and changes of account

VARIABLES out,        \* outputBlocks, blocksById and whether they have line ranges
          orig,       \* originalBlocks
          code,       \* input, diffOriginalCode and the view
          stream,     \* idle, stream, or failed with nothing but its error to show
          results,    \* results received so far
          sync,       \* isSyncing and what the request was made from
          who,        \* the account and the box that saves runs
          history,    \* saved results on the server, newest first
          share,      \* the share dialog
          injected,   \* docstringsInjected and originalCodeRef
          prompt,     \* the guest prompt and its pending action
          turns

outputVars == <<out, orig, code, stream, results, sync, who, history, share, injected,
          prompt, turns>>

Blocks == {1, 2}
Ids == {"own", "shared", "none"}
Received == [i \in Blocks |-> [of |-> i, text |-> 0]]
None == [run |-> 0, list |-> Received, index |-> Received, ids |-> "none", lines |-> FALSE]
NoSync == [active |-> FALSE, input |-> 0, list |-> Received, user |-> Guest, saved |-> FALSE]
ShareClosed == [open |-> FALSE, state |-> "idle", shown |-> 0, user |-> Guest, published |-> 0]

(* normalizeBlocks.  A block without an id gets one from its place, and of   *)
(* blocks that share one the last is kept; index[i] is what blocksById holds *)
(* for the id of block i.                                                    *)
SameId(b, i, j) == i = j \/ b.ids = "shared"
LastWithId(b, i) == CHOOSE j \in Blocks : SameId(b, i, j) /\ \A k \in Blocks : SameId(b, i, k) => k <= j

(* The place is left out of the id of a block that has none. *)
IndexedByPlainId(b) ==
    [b EXCEPT !.index = [i \in Blocks |-> IF b.ids = "own" THEN b.list[i] ELSE b.list[2]]]
Indexed(b) == [b EXCEPT !.index = [i \in Blocks |-> b.list[LastWithId(b, i)]]]

OutputInit ==
    /\ out = None /\ orig = None
    /\ code = [input |-> 0, diff |-> FALSE, original |-> 0, view |-> "blocks"]
    /\ stream = "idle" /\ results = 0 /\ sync = NoSync
    /\ \E user \in Users \cup {Guest} : who = [user |-> user, saveRun |-> FALSE]
    /\ history = <<>> /\ share = ShareClosed
    /\ injected = [on |-> FALSE, ref |-> FALSE, code |-> 0]
    /\ prompt = [open |-> FALSE, pending |-> NoSync]
    /\ turns = 0

(* setOutputBlocks: blocks without line ranges get those of the snippets    *)
(* found in the input; the index is made anew.                              *)
setOutputBlocks(b, found) == out' = Indexed([b EXCEPT !.lines = @ \/ found])

Saves == who.user # Guest /\ who.saveRun
Saved(run, user) == history' = <<[run |-> run, user |-> user]>> \o history

RunBegins ==
    /\ stream # "running" /\ results < MaxRuns
    /\ stream' = "running" /\ out' = None
    /\ UNCHANGED <<orig, code, results, sync, who, history, share, injected, prompt, turns>>

(* The stream hook ends a run: the blocks are annotated in the store, the   *)
(* original is a copy of what the server sent.                              *)
RunEnds ==
    /\ stream = "running"
    /\ \/ \E found \in BOOLEAN, ids \in Ids :
            LET b == [None EXCEPT !.run = results + 1, !.ids = ids] IN
            /\ results < MaxRuns /\ results' = results + 1 /\ stream' = "idle"
            /\ setOutputBlocks(b, found) /\ orig' = b
            /\ IF Saves THEN Saved(b.run, who.user) ELSE UNCHANGED history
       \/ stream' \in {"idle", "failed"} /\ UNCHANGED <<results, out, orig, history>>
    /\ UNCHANGED <<code, sync, who, share, injected, prompt, turns>>

(* What the panel shows, by the order of its conditions; the export bar is   *)
(* under the blocks, and stays while an error is shown.                      *)
Shown == CASE stream = "running" -> "stream"
           [] stream = "failed" -> "error"
           [] stream = "idle" -> IF out.run # 0 THEN "blocks" ELSE "empty"
ExportBar == out.run # 0 /\ stream # "running"

Turn == turns < MaxTurns /\ turns' = turns + 1

(* updateBlockEnglish: the indexed block, with its new text, replaces every  *)
(* block of that id in the list; a block without one is in the index only.   *)
updateBlockEnglish(b, i, text) ==
    LET updated == [b.index[i] EXCEPT !.text = text]
        In(blocks) == [j \in Blocks |-> IF SameId(b, i, j) THEN updated ELSE blocks[j]]
    IN [b EXCEPT !.index = In(@), !.list = IF b.ids = "none" THEN @ ELSE In(@)]

(* The edit looks the block up under the id of the first block. *)
updateFirstBlock(b, i, text) ==
    LET updated == [b.index[1] EXCEPT !.text = text] IN
    [b EXCEPT !.index[i] = updated, !.list[i] = IF b.ids = "none" THEN @ ELSE updated]

(* BlockCard saves an edit by id, and then in the list by its place. *)
onSave(i) ==
    /\ Shown = "blocks" /\ code.view = "blocks" /\ Turn
    /\ LET edited == [updateBlockEnglish(out, i, turns') EXCEPT !.list[i].text = turns']
       IN \E found \in BOOLEAN : setOutputBlocks(edited, found)
    /\ UNCHANGED <<orig, code, stream, results, sync, who, history, share, injected, prompt>>

hasEdits == /\ orig.run # 0 /\ out.run # 0
            /\ <<orig.run, orig.list, orig.lines>> # <<out.run, out.list, out.lines>>

ResetEdits ==
    /\ hasEdits /\ ~sync.active
    /\ \E found \in BOOLEAN : setOutputBlocks(orig, found)
    /\ UNCHANGED <<orig, code, stream, results, sync, who, history, share, injected, prompt, turns>>

-----------------------------------------------------------------------------
(* Sync.  The request is made from the blocks, and the answer sets the diff *)
(* against the input, that the click saw.                                   *)
Captured == [active |-> TRUE, input |-> code.input, list |-> out.list,
             user |-> who.user, saved |-> Saves]

handleSyncEnglishToCode ==
    /\ out.run # 0 /\ hasEdits /\ ~sync.active
    /\ IF who.user = Guest
       THEN prompt' = [open |-> TRUE, pending |-> Captured] /\ UNCHANGED sync
       ELSE sync' = Captured /\ UNCHANGED prompt
    /\ UNCHANGED <<out, orig, code, stream, results, who, history, share, injected, turns>>

(* The guest prompt: on, or away; the pending action outlives a cancel.      *)
ContinueAsGuest ==
    /\ prompt.open
    /\ prompt' = [open |-> FALSE, pending |-> NoSync]
    /\ sync' = IF prompt.pending.active THEN prompt.pending ELSE sync
    /\ UNCHANGED <<out, orig, code, stream, results, who, history, share, injected, turns>>
ClosePrompt ==
    /\ prompt.open /\ prompt' = [prompt EXCEPT !.open = FALSE]
    /\ UNCHANGED <<out, orig, code, stream, results, sync, who, history, share, injected, turns>>

SyncSucceeds ==
    /\ sync.active /\ results < MaxRuns
    /\ \E found \in BOOLEAN, ids \in Ids :
         LET b == [None EXCEPT !.run = results + 1, !.ids = ids] IN
         /\ setOutputBlocks(b, found) /\ orig' = b /\ results' = b.run
         /\ IF sync.saved THEN Saved(b.run, sync.user) ELSE UNCHANGED history
    /\ code' = [input |-> code.input + 1, diff |-> TRUE, original |-> sync.input, view |-> "diff"]
    /\ sync' = NoSync
    /\ UNCHANGED <<stream, who, share, injected, prompt, turns>>

SyncFails ==
    /\ sync.active /\ sync' = NoSync
    /\ UNCHANGED <<out, orig, code, stream, results, who, history, share, injected, prompt, turns>>

-----------------------------------------------------------------------------
(* Views, the reference of the diff, and injected docstrings.                *)
ResetReference ==
    /\ Shown = "blocks" /\ code.view = "diff" /\ code.diff /\ ~prompt.open
    /\ code' = [code EXCEPT !.diff = FALSE]
    /\ UNCHANGED <<out, orig, stream, results, sync, who, history, share, injected, prompt, turns>>

setViewType ==
    /\ ~prompt.open
    /\ \E view \in {"editor", "blocks", "diff"} \ {code.view} : code' = [code EXCEPT !.view = view]
    /\ UNCHANGED <<out, orig, stream, results, sync, who, history, share, injected, prompt, turns>>

handleInjectDocstrings ==
    /\ ExportBar /\ out.lines /\ ~injected.on /\ Turn
    /\ injected' = [on |-> TRUE, ref |-> TRUE, code |-> code.input]
    /\ code' = [code EXCEPT !.input = @ + 1]
    /\ UNCHANGED <<out, orig, stream, results, sync, who, history, share, prompt>>

(* The button of the bar forgets the code it restores; the one of the toast *)
(* keeps it.                                                                *)
handleUndoDocstrings ==
    /\ injected.ref
    /\ \E ref \in BOOLEAN :
          /\ (ExportBar /\ injected.on) \/ ref
          /\ injected' = [injected EXCEPT !.on = FALSE, !.ref = ref]
    /\ code' = [code EXCEPT !.input = injected.code]
    /\ UNCHANGED <<out, orig, stream, results, sync, who, history, share, prompt, turns>>

-----------------------------------------------------------------------------
(* Sharing.  All results of a tab carry one session id, which the history   *)
(* lookup goes by.                                                           *)
setAccount ==
    /\ Turn
    /\ \E user \in Users \cup {Guest} : who' = [user |-> user, saveRun |-> FALSE]
    /\ UNCHANGED <<out, orig, code, stream, results, sync, history, share, injected, prompt>>

setSaveRunToHistory ==
    /\ stream # "running" /\ who.user # Guest
    /\ who' = [who EXCEPT !.saveRun = ~@]
    /\ UNCHANGED <<out, orig, code, stream, results, sync, history, share, injected, prompt, turns>>

handleShare ==
    /\ out.run # 0 /\ Saves /\ ~share.open /\ share.state # "sharing"
    /\ share' = [ShareClosed EXCEPT !.open = TRUE]
    /\ UNCHANGED <<out, orig, code, stream, results, sync, who, history, injected, prompt, turns>>

makeSharePublic ==
    /\ share.open /\ share.state = "idle" /\ who.user # Guest /\ out.run # 0
    /\ share' = [share EXCEPT !.state = "sharing", !.shown = out.run, !.user = who.user]
    /\ UNCHANGED <<out, orig, code, stream, results, sync, who, history, injected, prompt, turns>>

SavedBy(user) == {i \in DOMAIN history : history[i].user = user}

(* The newest saved result of the session becomes public; with none, or     *)
(* when a request fails, the dialog is as it was.                           *)
ShareAnswers ==
    /\ share.state = "sharing"
    /\ \/ \E i \in SavedBy(share.user) :
            /\ \A j \in SavedBy(share.user) : i <= j
            /\ share' = [share EXCEPT !.state = "shared", !.published = history[i].run]
       \/ share' = [share EXCEPT !.state = "idle"]
    /\ UNCHANGED <<out, orig, code, stream, results, sync, who, history, injected, prompt, turns>>

closeShareDialog ==
    /\ share.open /\ share.state # "sharing"
    /\ share' = [share EXCEPT !.open = FALSE]
    /\ UNCHANGED <<out, orig, code, stream, results, sync, who, history, injected, prompt, turns>>

(* A reload keeps the draft in the session storage and indexes it again.    *)
ReloadOutput ==
    /\ Turn
    /\ out' = Indexed(out)
    /\ code' = [code EXCEPT !.view = "blocks"]
    /\ stream' = "idle" /\ sync' = NoSync /\ share' = ShareClosed
    /\ who' = [who EXCEPT !.saveRun = FALSE]
    /\ injected' = [on |-> FALSE, ref |-> FALSE, code |-> 0]
    /\ prompt' = [open |-> FALSE, pending |-> NoSync]
    /\ UNCHANGED <<orig, results, history>>

OutputNext ==
    \/ RunBegins \/ RunEnds \/ (\E i \in Blocks : onSave(i)) \/ ResetEdits
    \/ handleSyncEnglishToCode \/ ContinueAsGuest \/ ClosePrompt \/ SyncSucceeds \/ SyncFails
    \/ ResetReference \/ setViewType \/ handleInjectDocstrings \/ handleUndoDocstrings
    \/ setAccount \/ setSaveRunToHistory \/ handleShare \/ makeSharePublic \/ ShareAnswers
    \/ closeShareDialog \/ ReloadOutput

OutputSpec == OutputInit /\ [][OutputNext]_outputVars

-----------------------------------------------------------------------------
(* Cards save by id and by place, the panel shows the list and the export bar *)
(* reads the index.  Unless two blocks share an id, through any order of      *)
(* edits, resets, syncs and reloads every block keeps its own code, no edit   *)
(* lands in two blocks, and the bar exports what the panel shows.             *)
BlocksStayApart ==
    out.run # 0 /\ out.ids # "shared" =>
        /\ \A i \in Blocks : out.list[i].of = i /\ out.index[i] = out.list[i]
        /\ \A i, j \in Blocks : i # j /\ out.list[i].text = out.list[j].text => out.list[i].text = 0

(* The same with shared ids.  It does not hold: the bar exports the last of   *)
(* them twice, and an edit of one replaces the code and the text of both.     *)
SharedIdsStayApart ==
    out.run # 0 => \A i \in Blocks : out.list[i].of = i /\ out.index[i] = out.list[i]

(* What becomes public is what the dialog showed to the account.             *)
SharedIsShown == share.state = "shared" => share.published = share.shown

(* The banner that offers to sync edits goes away once they are synced or   *)
(* reset: blocks as the server sent them are no edits.                      *)
BannerMeansEdits == hasEdits => out.list # orig.list \/ out.run # orig.run
=============================================================================
