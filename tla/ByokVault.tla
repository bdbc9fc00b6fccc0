----------------------------- MODULE ByokVault -----------------------------
(***************************************************************************)
(* The key of one's own: a record in the browser's database, sealed with a *)
(* key derived from the browser itself, and what the application shows of  *)
(* it.  The form that sets and purges it is opened from the sidebar and    *)
(* from the billing page; a badge in each, and the selector of the engine  *)
(* on the translation page, read the database when they are shown and when *)
(* the form says the vault was updated.                                    *)
(*                                                                         *)
(* Every call is an operation of one database, which serves them in the    *)
(* order they were made.  What the database answered the selector is not   *)
(* an answer yet: the key is derived and the record opened first, and two  *)
(* derivations end in any order.                                           *)
(***************************************************************************)
EXTENDS Naturals, Sequences, FiniteSets

CONSTANTS MaxBrowsers,  \* bound on the versions of the browser
          MaxOps,       \* bound on the operations under way
          MaxPressed    \* bound on what the user does

VARIABLES vault,    \* the browser that sealed the record, 0 for no record
          browser,  \* the browser as it is
          ops,      \* operations of the database, oldest first
          forms,    \* the form, of the sidebar and of the billing page
          badges,   \* what the badges and the selector say of the key
          selector, \* the reads of the selector shown
          engine,   \* the page shown and the engine that is selected
          pressed   \* what the user did so far

vaultVars == <<vault, browser, ops, forms, badges, selector, engine, pressed>>

Forms == {"sidebar", "billing"}   \* and one that was left with its page
Viewers == {"sidebar", "billing", "selector"}
Closed == [open |-> FALSE, hasKey |-> FALSE, typed |-> FALSE, saving |-> FALSE,
           timers |-> 0, says |-> "nothing"]

(* A page is shown with its viewer; the sidebar stays.                       *)
Viewer(page) == IF page = "billing" THEN "billing" ELSE "selector"
Viewing == {"sidebar", Viewer(engine.page)}
Op(kind, who) == [kind |-> kind, who |-> who]
Reads(who) == IF who = "selector" THEN Op("get", who) ELSE Op("has", who)

(* The selector as it is first shown: how many of its reads the database      *)
(* answered, which of them it shows, and the keys being derived.              *)
Mounted == [reads |-> 0, shown |-> 0, deriving |-> {}]

(* The event of the vault: whoever listens reads again.                      *)
Updated == <<Reads("sidebar"), Reads(Viewer(engine.page))>>

VaultInit ==
    /\ vault \in 0..1 /\ browser = 1 /\ pressed = 0
    /\ engine = [page |-> "translate", mode |-> "cloud"]
    /\ ops = <<Reads("sidebar"), Reads("selector")>>
    /\ forms = [f \in Forms \cup {"left"} |-> Closed] /\ badges = [v \in Viewers |-> FALSE]
    /\ selector = Mounted

Pressing == pressed < MaxPressed /\ pressed' = pressed + 1
Room == Len(ops) < MaxOps
VaultSame == UNCHANGED <<vault, browser, badges, selector, engine>>

-----------------------------------------------------------------------------
(* The form.  It is on the page that shows its button; the effect of opening *)
(* asks whether there is a key and forgets what was typed and said.          *)
openByokVault ==
    /\ Pressing /\ Room
    /\ \E f \in {g \in Viewing \cap Forms : ~forms[g].open} :
         /\ forms' = [forms EXCEPT ![f].open = TRUE, ![f].says = "nothing", ![f].typed = FALSE]
         /\ ops' = Append(ops, Op("form", f))
    /\ VaultSame
onClose ==
    /\ \E f \in {g \in Forms : forms[g].open} : forms' = [forms EXCEPT ![f].open = FALSE]
    /\ VaultSame /\ UNCHANGED <<ops, pressed>>

EmptyForm(f) == forms[f].open /\ ~forms[f].hasKey /\ ~forms[f].saving
setApiKey ==
    /\ Pressing
    /\ forms' \in {[forms EXCEPT ![f].typed = TRUE] : f \in {g \in Forms : EmptyForm(g) /\ ~forms[g].typed}}
    /\ VaultSame /\ UNCHANGED ops
(* The key is sealed before the record is put.                               *)
handleSave ==
    /\ \E f \in Forms :
         /\ EmptyForm(f) /\ forms[f].typed
         /\ forms' = [forms EXCEPT ![f].saving = TRUE]
    /\ VaultSame /\ UNCHANGED <<ops, pressed>>
Unsealed(f) == forms[f].saving /\ \A i \in DOMAIN ops : ops[i] # Op("put", f)
saveByokKey ==
    /\ Room
    /\ \E f \in Forms :
         /\ Unsealed(f)
         /\ \/ ops' = Append(ops, Op("put", f)) /\ UNCHANGED forms
            \/ /\ forms' = [forms EXCEPT ![f].saving = FALSE, ![f].says = "failed"]
               /\ UNCHANGED ops
    /\ VaultSame /\ UNCHANGED pressed
handleClear ==
    /\ Pressing /\ Room
    /\ \E f \in Forms : /\ forms[f].open /\ forms[f].hasKey
                        /\ ops' = Append(ops, Op("delete", f))
    /\ VaultSame /\ UNCHANGED forms
(* A second and more after a key was stored, the form is closed.             *)
CloseTimer ==
    /\ \E f \in Forms : /\ forms[f].timers > 0
                        /\ forms' = [forms EXCEPT ![f].open = FALSE, ![f].timers = @ - 1]
    /\ VaultSame /\ UNCHANGED <<ops, pressed>>

-----------------------------------------------------------------------------
(* The oldest operation is served.  hasByokKey sees a record, getByokKey     *)
(* needs one this browser can open; either answers no when it fails.         *)
hasByokKey == vault # 0
getByokKey == vault = browser

(* A form or a viewer that was left with its page hears no answer.           *)
Answered(form) == forms' = [forms EXCEPT ![Head(ops).who] = IF Head(ops).who = "left" THEN @ ELSE form]

Read ==
    /\ ops # <<>> /\ Head(ops).kind = "has" /\ ops' = Tail(ops)
    /\ \E failed \in BOOLEAN :
         badges' = IF Head(ops).who \in Viewing
                   THEN [badges EXCEPT ![Head(ops).who] = ~failed /\ hasByokKey] ELSE badges
    /\ UNCHANGED <<vault, browser, forms, selector, engine, pressed>>

(* Without a record there is nothing to derive.                              *)
RecordRead ==
    /\ ops # <<>> /\ Head(ops).kind = "get" /\ ops' = Tail(ops)
    /\ LET read == selector.reads + 1 IN
       \/ /\ Head(ops).who = "left" /\ UNCHANGED <<badges, selector>>
       \/ /\ Head(ops).who = "selector"
          /\ badges' = [badges EXCEPT !["selector"] = FALSE]
          /\ selector' = [selector EXCEPT !.reads = read, !.shown = read]
       \/ /\ Head(ops).who = "selector" /\ hasByokKey /\ UNCHANGED badges
          /\ selector' = [selector EXCEPT !.reads = read,
                                 !.deriving = @ \cup {[read |-> read, opens |-> getByokKey]}]
    /\ UNCHANGED <<vault, browser, forms, engine, pressed>>
Derived ==
    /\ \E d \in selector.deriving, failed \in BOOLEAN :
         /\ badges' = [badges EXCEPT !["selector"] = ~failed /\ d.opens]
         /\ selector' = [selector EXCEPT !.shown = d.read, !.deriving = @ \ {d}]
    /\ UNCHANGED <<vault, browser, ops, forms, engine, pressed>>
FormRead ==
    /\ ops # <<>> /\ Head(ops).kind = "form" /\ ops' = Tail(ops)
    /\ \E failed \in BOOLEAN : Answered([forms[Head(ops).who] EXCEPT !.hasKey = ~failed /\ hasByokKey])
    /\ VaultSame /\ UNCHANGED pressed
Stored ==
    /\ ops # <<>> /\ Head(ops).kind = "put"
    /\ \/ /\ vault' = browser /\ ops' = Tail(ops) \o Updated
          /\ Answered([forms[Head(ops).who] EXCEPT !.hasKey = TRUE, !.typed = FALSE, !.saving = FALSE,
                                                     !.says = "stored", !.timers = @ + 1])
       \/ /\ ops' = Tail(ops) /\ UNCHANGED vault
          /\ Answered([forms[Head(ops).who] EXCEPT !.saving = FALSE, !.says = "failed"])
    /\ UNCHANGED <<browser, badges, selector, engine, pressed>>
(* clearByokKey is silent when it fails.                                     *)
PurgedUnheard ==
    /\ ops # <<>> /\ Head(ops).kind = "delete"
    /\ vault' \in {0, vault} /\ ops' = Tail(ops)
    /\ Answered([forms[Head(ops).who] EXCEPT !.hasKey = FALSE, !.typed = FALSE, !.says = "purged"])
    /\ UNCHANGED <<browser, badges, selector, engine, pressed>>
Purged ==
    /\ ops # <<>> /\ Head(ops).kind = "delete"
    /\ vault' \in {0, vault} /\ ops' = Tail(ops) \o Updated
    /\ Answered([forms[Head(ops).who] EXCEPT !.hasKey = FALSE, !.typed = FALSE, !.says = "purged"])
    /\ UNCHANGED <<browser, badges, selector, engine, pressed>>

-----------------------------------------------------------------------------
(* The selector takes the engine with a key only when it saw one it can      *)
(* open; nobody listens to the event by which it asks for the form.          *)
handleSelect ==
    /\ engine.page = "translate" /\ Pressing
    /\ \E mode \in {"cloud", "byok", "offline"} \ {engine.mode} :
         /\ mode = "byok" => badges["selector"]
         /\ engine' = [engine EXCEPT !.mode = mode]
    /\ UNCHANGED <<vault, browser, ops, forms, badges, selector>>
Left == [i \in DOMAIN ops |-> IF ops[i].who = Viewer(engine.page)
                              THEN [ops[i] EXCEPT !.who = "left"] ELSE ops[i]]
Navigate ==
    /\ Pressing /\ Room
    /\ LET page == IF engine.page = "billing" THEN "translate" ELSE "billing"
           puts == IF Unsealed("billing") THEN {<<>>, <<Op("put", "left")>>} ELSE {<<>>} IN
       /\ engine' = [engine EXCEPT !.page = page]
       /\ ops' \in {Append(Left, Reads(Viewer(page))) \o put : put \in puts}
       /\ badges' = [badges EXCEPT ![Viewer(page)] = FALSE]
       /\ forms' = [forms EXCEPT !["billing"] = Closed] /\ selector' = Mounted
    /\ UNCHANGED <<vault, browser>>
(* The application is opened anew, perhaps in a browser that was updated.    *)
BrowserRestarts ==
    /\ Pressing /\ browser' \in {b \in {browser, browser + 1} : b <= MaxBrowsers}
    /\ engine' = [page |-> "translate", mode |-> "cloud"]
    /\ ops' = <<Reads("sidebar"), Reads("selector")>>
    /\ forms' = [f \in Forms \cup {"left"} |-> Closed] /\ badges' = [v \in Viewers |-> FALSE]
    /\ selector' = Mounted /\ UNCHANGED vault

VaultNext == openByokVault \/ onClose \/ setApiKey \/ handleSave \/ saveByokKey \/ handleClear
             \/ CloseTimer \/ Read \/ RecordRead \/ Derived \/ FormRead \/ Stored \/ Purged \/ handleSelect \/ Navigate
             \/ BrowserRestarts
VaultSpec == VaultInit /\ [][VaultNext]_vaultVars

-----------------------------------------------------------------------------
(* Once the database has served what was asked of it, no badge says there is *)
(* a record when there is none, whichever form changed the record and        *)
(* whichever page was shown meanwhile, and a selector that shows the last of *)
(* its reads sees a key only when it can be opened.                          *)
BadgesSettle ==
    ops = <<>> => /\ \A v \in Viewing \ {"selector"} : badges[v] => hasByokKey
                  /\ "selector" \in Viewing /\ badges["selector"] /\ selector.shown = selector.reads
                     => getByokKey

(* The selector that waits for nothing more sees a key only when there is    *)
(* one.  It does not hold: nothing orders two derivations, and that of a     *)
(* record that was purged meanwhile may be the last to end.                   *)
SelectorSettles ==
    ops = <<>> /\ selector.deriving = {} /\ "selector" \in Viewing /\ badges["selector"] => getByokKey

(* The engine with a key is selected only while there is one to use.         *)
ByokHasAKey == engine.mode = "byok" /\ ops = <<>> => getByokKey

(* A badge that says the key is active means one that can be used.           *)
ActiveMeansUsable == ops = <<>> /\ badges["sidebar"] => getByokKey

(* The form says that the key was purged when there is none.                 *)
PurgedIsGone == (\E f \in Forms : forms[f].open /\ forms[f].says = "purged") /\ ops = <<>> => vault = 0
=============================================================================
