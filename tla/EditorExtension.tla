-------------------------- MODULE EditorExtension --------------------------
(***************************************************************************)
(* The extension of the editor.  When it is activated it moves a key that   *)
(* an older version left in the settings to the store of secrets; a command *)
(* sets the key, another puts the translation of the selection above it,    *)
(* and the pointer over a line asks for its explanation.  Each awaits what  *)
(* it asks while the document is edited and the editor closed.              *)
(***************************************************************************)
EXTENDS Naturals, Sequences, SequencesExt

CONSTANTS Targets,     \* of the settings, the first is the user's own
          Global,
          MaxNewKeys,  \* bound on the keys, one newer than the other
          MaxEvents    \* bound on what the user does

VARIABLES settings,  \* the key left at each target, 0 for none
          secret,    \* the key of the store of secrets, 0 for none
          newest,    \* the key set last, for the properties
          ext,       \* where activation stands, and the targets it is to clear
          text,      \* the lines of the document
          insertion, \* the translation under way
          hover,     \* the explanation under way
          events     \* what the user did so far

editorVars == <<settings, secret, newest, ext, text, insertion, hover, events>>

Idle == [at |-> "idle"]
Document == <<"head", "code">>

EditorInit ==
    /\ settings \in [Targets -> 0..1] /\ secret = 0
    /\ newest = IF \E t \in Targets : settings[t] = 1 THEN 1 ELSE 0
    /\ ext = [at |-> "closed", left |-> {}, key |-> 0]
    /\ text = Document /\ insertion = Idle /\ hover = Idle /\ events = 0

User == events < MaxEvents /\ events' = events + 1
KeysSame == UNCHANGED <<settings, secret, newest, ext>>

-----------------------------------------------------------------------------
(* The settings answer with the key of one target, if any has one.           *)
legacyApiKey == {settings[t] : t \in {u \in Targets : settings[u] # 0}}

activate ==
    /\ ext.at = "closed" /\ User
    /\ ext' \in IF legacyApiKey = {} THEN {[at |-> "ready", left |-> {}, key |-> 0]}
               ELSE {[at |-> "storing", left |-> Targets, key |-> k] : k \in legacyApiKey}
    /\ UNCHANGED <<settings, secret, newest, text, insertion, hover>>
ClearLegacy(t) == settings' = [settings EXCEPT ![t] = 0]
(* The key is stored before any target of the settings is cleared.           *)
StoreLegacyUnawaited ==
    /\ ext.at = "storing"
    /\ secret' \in {secret, ext.key} /\ ext' = [ext EXCEPT !.at = "clearing"]
    /\ UNCHANGED <<settings, newest, text, insertion, hover, events>>
StoreLegacy ==
    /\ ext.at = "storing"
    /\ \/ secret' = ext.key /\ ext' = [ext EXCEPT !.at = "clearing"]
       \/ UNCHANGED secret /\ ext' = [ext EXCEPT !.at = "failed"]
    /\ UNCHANGED <<settings, newest, text, insertion, hover, events>>
(* The user's own settings come first, and their failure ends the activation; *)
(* a target that cannot be cleared otherwise is left as it is.                *)
Left(t) == [ext EXCEPT !.left = @ \ {t}, !.at = IF ext.left = {t} THEN "ready" ELSE @]
ClearSettings ==
    /\ ext.at = "clearing"
    /\ \E t \in ext.left :
         /\ Global \in ext.left => t = Global
         /\ \/ ClearLegacy(t) /\ ext' = Left(t)
            \/ UNCHANGED settings /\ ext' = IF t = Global THEN [ext EXCEPT !.at = "failed"] ELSE Left(t)
    /\ UNCHANGED <<secret, newest, text, insertion, hover, events>>
(* The editor is closed at any moment, and opened again.                     *)
Closes ==
    /\ ext.at # "closed" /\ ext' = [at |-> "closed", left |-> {}, key |-> 0]
    /\ text' = Document /\ insertion' = Idle /\ hover' = Idle
    /\ UNCHANGED <<settings, secret, newest, events>>
(* The store of secrets may refuse the key, and the user is told.            *)
setApiKey ==
    /\ ext.at = "ready" /\ newest < MaxNewKeys /\ User
    /\ \/ secret' = newest + 1 /\ newest' = newest + 1
       \/ UNCHANGED <<secret, newest>>
    /\ UNCHANGED <<settings, ext, text, insertion, hover>>

-----------------------------------------------------------------------------
(* The selection is that of the moment of the command.  The translation is   *)
(* inserted at the line the selection had then; an edit the editor refuses   *)
(* is not noticed.                                                            *)
translateInline ==
    /\ ext.at = "ready" /\ insertion.at = "idle" /\ User
    /\ \E n \in 1..Len(text) :
         insertion' = IF secret = 0 THEN Idle
                      ELSE [at |-> "asking", line |-> n, selected |-> text[n]]
    /\ KeysSame /\ UNCHANGED <<text, hover>>
formatCommentText == "comment"
AtMost(line) == IF line <= Len(text) THEN line ELSE Len(text) + 1
Inserted ==
    /\ insertion.at = "asking" /\ insertion' = Idle
    /\ text' \in {text, InsertAt(text, AtMost(insertion.line), formatCommentText)}
    /\ KeysSame /\ UNCHANGED <<hover, events>>
EditLine ==
    /\ User /\ text' \in {InsertAt(text, n, "new") : n \in 1..Len(text)} \cup {Tail(text) : n \in 1..(Len(text) - 1)}
    /\ KeysSame /\ UNCHANGED <<insertion, hover>>

-----------------------------------------------------------------------------
(* The pointer over a line: the token of the request is cancelled when it    *)
(* moves or the line is edited.  The token is read before the wait, after    *)
(* it, when the answer came and when its body was read.                      *)
provideHover ==
    /\ ext.at = "ready" /\ hover.at = "idle" /\ secret # 0 /\ User
    /\ hover' \in {[at |-> "waiting", cancelled |-> FALSE], Idle}
    /\ KeysSame /\ UNCHANGED <<text, insertion>>
CancelHover ==
    /\ hover.at \in {"waiting", "fetching", "reading"} /\ ~hover.cancelled
    /\ hover' = [hover EXCEPT !.cancelled = TRUE]
    /\ KeysSame /\ UNCHANGED <<text, insertion, events>>
HoverRuns(next) == hover' = IF hover.cancelled THEN Idle ELSE [hover EXCEPT !.at = next]
(* A cancelled token cuts the wait short; a request that was sent goes on.   *)
HoverSteps ==
    /\ \/ hover.at = "waiting" /\ HoverRuns("fetching")
       \/ hover.at = "fetching" /\ (HoverRuns("reading") \/ hover' = Idle)
       \/ hover.at = "reading" /\ (HoverRuns("shown") \/ hover' = Idle)
       \/ hover.at = "shown" /\ hover' = Idle
    /\ KeysSame /\ UNCHANGED <<text, insertion, events>>

EditorNext == activate \/ StoreLegacy \/ ClearSettings \/ Closes \/ setApiKey \/ translateInline
              \/ Inserted \/ EditLine \/ provideHover \/ CancelHover \/ HoverSteps
EditorSpec == EditorInit /\ [][EditorNext]_editorVars

-----------------------------------------------------------------------------
(* A key that was given once is in the settings or in the store of secrets,  *)
(* wherever the move from one to the other was interrupted.                   *)
KeyIsNeverLost == newest # 0 => secret # 0 \/ legacyApiKey # {}

(* The key that is used is the one set last: an old one left in a target the *)
(* move could not clear does not come back.                                   *)
NewestKeyIsUsed == ext.at = "ready" /\ newest # 0 => secret = newest

(* A translation is inserted above what was selected (EXT-07).                *)
InsertedAboveSelection ==
    [][\A n \in DOMAIN text' :
         insertion.at = "asking" /\ insertion'.at = "idle" /\ text' = InsertAt(text, n, formatCommentText)
           => text'[n + 1] = insertion.selected]_editorVars
=============================================================================
