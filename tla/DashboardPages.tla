--------------------------- MODULE DashboardPages ---------------------------
(***************************************************************************)
(* The pages of the dashboard, under one account: the history of           *)
(* translations, the settings with their API keys, the workspace, the       *)
(* billing page and the welcome, inside the sidebar that guards them and    *)
(* the provider of workspaces they share.                                   *)
(*                                                                         *)
(* A page asks the service by calls that are served and answered later, in  *)
(* any order.  A page that is left forgets its state; its calls go on       *)
(* unless the page aborts them, and an answer nobody waits for changes      *)
(* only what the service did.                                               *)
(***************************************************************************)
EXTENDS Naturals, Sequences, FiniteSets

CONSTANTS Workspaces,   \* that the account may create
          Personal,     \* no workspace is active
          Depth,        \* saved translations of each, one on a page of the list
          MaxKeys,      \* bound on the API keys created
          MaxCalls,     \* bound on the calls under way
          MaxPresses    \* bound on what the user does

VARIABLES place,    \* the page shown
          pane,     \* the state of that page
          account,  \* what the provider of authentication says
          team,     \* the provider of workspaces
          calls,    \* to the service
          service,  \* what it keeps
          shell,    \* the sidebar, and the form of a payment over the page
          presses   \* what the user did so far

dashVars == <<place, pane, account, team, calls, service, shell, presses>>

Pages == {"overview", "welcome", "history", "settings", "workspace", "billing"}
Scopes == Workspaces \cup {Personal}
Items == Scopes \X (1..Depth)
Nothing == [got |-> "nothing"]
Failure == [got |-> "failure"]

Call(kind, ws) == [kind |-> kind, ws |-> ws, live |-> TRUE, result |-> Nothing]
Calls(kind) == {c \in calls : c.kind = kind /\ c.result # Nothing}
Answered(c) == c.result # Failure

(* The state of a page when it is first shown.                               *)
Fresh == [overview |-> [mounted |-> TRUE],
          welcome |-> [step |-> 1, finishing |-> FALSE],
          history |-> [items |-> <<>>, cursor |-> 0, loading |-> TRUE, more |-> FALSE,
                       clearing |-> FALSE, sharing |-> FALSE, candidate |-> {}, filter |-> 0],
          settings |-> [keys |-> {}, secret |-> {}, creating |-> FALSE, saving |-> FALSE,
                        dialog |-> FALSE, deleting |-> FALSE],
          workspace |-> [members |-> {}, loading |-> FALSE, creating |-> FALSE, inviting |-> FALSE],
          billing |-> [busy |-> FALSE, portal |-> FALSE,
                       banner |-> "none", timer |-> FALSE]]

DashInit ==
    /\ place = "overview" /\ pane = Fresh["overview"]
    /\ account \in [user : {TRUE}, loading : {TRUE}, onboarded : BOOLEAN, pro : {FALSE}]
    /\ team = [listed |-> {}, active |-> Personal, loading |-> TRUE]
    /\ calls = {Call("teams", Personal)}
    /\ service \in [saved : {Items}, public : {{}, {<<Personal, 1>>}}, keys : {{}}, teams : {{}, Workspaces},
                  paid : {FALSE}, gone : {FALSE}]
    /\ shell = [collapsed |-> FALSE, mobile |-> FALSE, checkout |-> "closed"]
    /\ presses = 0

-----------------------------------------------------------------------------
(* The effects of a page ask anew when it is shown and when the active        *)
(* workspace changes; those of before are aborted.                            *)
Effects == {"load", "members", "keys"}
Asked(p, ws) ==
    CASE p = "history"                        -> {Call("load", ws)}
      [] p = "settings"                       -> {Call("keys", ws)}
      [] p = "workspace" /\ ws \in Workspaces -> {Call("members", ws)}
      [] OTHER                                -> {}
Remaining == {c \in calls : c.kind \notin Effects}
DetachedBut(c) == {[d EXCEPT !.live = FALSE] : d \in Remaining \ c}
Orphaned == IF shell.checkout = "open" THEN "orphan" ELSE shell.checkout

(* An answer to c may show another page.                                     *)
Show(p, c) ==
    /\ place' = p
    /\ pane' = IF p = "workspace" /\ team.active \in Workspaces
               THEN [Fresh[p] EXCEPT !.loading = TRUE] ELSE Fresh[p]
    /\ calls' = DetachedBut(c) \cup Asked(p, team.active)
    /\ shell' = [shell EXCEPT !.mobile = FALSE, !.checkout = Orphaned]
Away(c) == /\ place' = "away" /\ pane' = Fresh["overview"] /\ calls' = DetachedBut(c)
           /\ shell' = [shell EXCEPT !.checkout = Orphaned]
(* The browser leaves the application, whatever page is shown.               *)
Redirected(to) == /\ place' = to /\ pane' = Fresh["overview"] /\ calls' = {}
                  /\ shell' = [shell EXCEPT !.checkout = "closed"]

Press == presses < MaxPresses /\ presses' = presses + 1
Here(p) == place = p /\ account.user
Asks(c) == Cardinality(calls) < MaxCalls /\ calls' = calls \cup {c}
Closed(c) == calls' = calls \ {c}
Page(c, new) == pane' = IF c.live THEN new ELSE pane
Only == UNCHANGED <<place, account, team, service, shell>>

(* The sidebar: without an account the dashboard is left, an account that has *)
(* not been welcomed goes there first.                                        *)
AuthReady == /\ account.loading /\ account' = [account EXCEPT !.loading = FALSE]
             /\ UNCHANGED <<place, pane, team, calls, service, shell, presses>>
RedirectToSignin ==
    /\ place \in Pages /\ ~account.loading /\ ~account.user /\ Away({})
    /\ UNCHANGED <<account, team, service, presses>>
RedirectToWelcome ==
    /\ place \in Pages \ {"welcome"} /\ ~account.loading /\ account.user /\ ~account.onboarded
    /\ Show("welcome", {}) /\ UNCHANGED <<account, team, service, presses>>
Navigate ==
    /\ place \in Pages /\ account.user /\ Press
    /\ \E p \in Pages \ {place} : Show(p, {})
    /\ UNCHANGED <<account, team, service>>
handleToggleCollapse ==
    /\ place \in Pages /\ Press /\ shell' = [shell EXCEPT !.collapsed = ~@]
    /\ UNCHANGED <<place, pane, account, team, calls, service>>
setMobileOpen ==
    /\ place \in Pages /\ Press /\ shell' = [shell EXCEPT !.mobile = ~@]
    /\ UNCHANGED <<place, pane, account, team, calls, service>>

-----------------------------------------------------------------------------
(* The service serves a call, or refuses it; an answer may also be lost      *)
(* after it did.                                                              *)
NextOf(ws, n) == {m \in (n + 1)..Depth : <<ws, m>> \in service.saved}
PageAfter(ws, n) ==
    LET rest == NextOf(ws, n)
        first == CHOOSE m \in rest : \A k \in rest : m <= k IN
    [got |-> "page",
     items |-> IF rest = {} THEN <<>> ELSE <<[id |-> <<ws, first>>, public |-> <<ws, first>> \in service.public]>>,
     cursor |-> IF Cardinality(rest) > 1 THEN first ELSE 0]

NewKey(ws) == <<ws, Cardinality(service.keys) + 1>>
Result(c) ==
    CASE c.kind = "load"   -> PageAfter(c.ws, 0)
      [] c.kind = "more"   -> PageAfter(c.ws, c.after)
      [] c.kind \in {"keys", "refetch"} -> [got |-> "keys", keys |-> {k \in service.keys : k[1] = c.ws}]
      [] c.kind = "create" -> [got |-> "key", key |-> NewKey(c.ws)]
      [] c.kind = "teams"  -> [got |-> "teams", teams |-> service.teams]
      [] OTHER             -> [got |-> "done"]
Served(c) ==
    CASE c.kind = "delete"  -> {[service EXCEPT !.saved = @ \ {c.id}, !.public = @ \ {c.id}]}
      [] c.kind = "purge"   -> {[service EXCEPT !.saved = {}, !.public = {}]}
      [] c.kind = "share"   -> {[service EXCEPT !.public = @ \cup ({c.id} \cap service.saved)]}
      [] c.kind = "private" -> {[service EXCEPT !.public = @ \ {c.id}]}
      [] c.kind = "create"  -> {[service EXCEPT !.keys = @ \cup {NewKey(c.ws)}]}
      [] c.kind = "revoke"  -> {[service EXCEPT !.keys = @ \ {c.key}]}
      [] c.kind = "found"   -> {[service EXCEPT !.teams = @ \cup {w}] : w \in Workspaces \ service.teams}
      [] c.kind = "verify"  -> {[service EXCEPT !.paid = TRUE]}
      [] c.kind = "erase"   -> {[service EXCEPT !.gone = TRUE]}
      [] OTHER              -> {service}

Serve ==
    /\ \E c \in calls :
         /\ c.result = Nothing
         /\ \/ service' \in Served(c) /\ calls' = (calls \ {c}) \cup {[c EXCEPT !.result = Result(c)]}
            \/ service' \in Served(c) \cup {service} /\ calls' = (calls \ {c}) \cup {[c EXCEPT !.result = Failure]}
    /\ UNCHANGED <<place, pane, account, team, shell, presses>>

-----------------------------------------------------------------------------
(* The workspaces.  The list of the last answer stays when one fails; the     *)
(* effects run again for another workspace, and for a session renewed.        *)
AskAgainKeeping(w, kept) ==
    /\ calls' = kept \cup Asked(place, w)
    /\ pane' = CASE place = "history"   -> [pane EXCEPT !.loading = TRUE]
                 [] place = "workspace" -> [pane EXCEPT !.loading = w \in Workspaces \/ @]
                 [] OTHER               -> pane
AskAgainUnaborted(w) == AskAgainKeeping(w, calls)
AskAgain(w) == AskAgainKeeping(w, Remaining)

WorkspaceSwitcher ==
    /\ place \in Pages \ {"welcome"} /\ Press
    /\ \E w \in (team.listed \cup {Personal}) \ {team.active} :
         team' = [team EXCEPT !.active = w] /\ AskAgain(w)
    /\ UNCHANGED <<place, account, service, shell>>
TokenRefreshed ==
    /\ place \in Pages /\ account.user /\ Press /\ AskAgain(team.active)
    /\ UNCHANGED <<place, account, team, service, shell>>
TeamsAnswer ==
    /\ \E c \in Calls("teams") :
         /\ team' = [team EXCEPT !.loading = FALSE, !.listed = IF Answered(c) THEN c.result.teams ELSE @]
         /\ pane' = IF c.live /\ place = "workspace" THEN [pane EXCEPT !.creating = FALSE] ELSE pane
         /\ Closed(c)
    /\ UNCHANGED <<place, account, service, shell, presses>>

CreationForm == Here("workspace") /\ ~team.loading /\ team.active = Personal /\ ~pane.creating
handleCreateWorkspace ==
    /\ CreationForm /\ Press /\ Asks(Call("found", Personal))
    /\ pane' = [pane EXCEPT !.creating = TRUE] /\ Only
WorkspaceCreated ==
    /\ \E c \in Calls("found") :
         IF Answered(c)
         THEN /\ calls' = (calls \ {c}) \cup {[Call("teams", Personal) EXCEPT !.live = c.live]}
              /\ UNCHANGED pane
         ELSE Closed(c) /\ Page(c, [pane EXCEPT !.creating = FALSE])
    /\ Only /\ UNCHANGED presses

InviteForm == Here("workspace") /\ ~team.loading /\ team.active \in Workspaces /\ ~pane.inviting
handleInviteMember ==
    /\ InviteForm /\ Press /\ Asks(Call("invite", team.active))
    /\ pane' = [pane EXCEPT !.inviting = TRUE] /\ Only
(* The members are asked for again, of the workspace of the invitation.      *)
Invited ==
    /\ \E c \in Calls("invite") :
         IF Answered(c)
         THEN /\ calls' = (calls \ {c}) \cup {[Call("crew", c.ws) EXCEPT !.live = c.live]}
              /\ UNCHANGED pane
         ELSE Closed(c) /\ Page(c, [pane EXCEPT !.inviting = FALSE])
    /\ Only /\ UNCHANGED presses
MembersAnswer ==
    /\ \/ \E c \in Calls("crew") :
            /\ Closed(c)
            /\ Page(c, [pane EXCEPT !.inviting = FALSE, !.members = IF Answered(c) THEN {c.ws} ELSE @])
       \/ \E c \in Calls("members") :
            /\ Closed(c)
            /\ Page(c, [pane EXCEPT !.loading = FALSE, !.members = IF Answered(c) THEN {c.ws} ELSE @])
    /\ Only /\ UNCHANGED presses

-----------------------------------------------------------------------------
(* The history.  Rows are those of the filter; a deletion hides its rows      *)
(* first and puts back the list of before when it fails.                      *)
filteredHistory == {i \in 1..Len(pane.items) : pane.filter \in {0, pane.items[i].id[2]}}
ListShown == Here("history") /\ ~pane.loading
Rows == IF ListShown THEN {pane.items[i] : i \in filteredHistory} ELSE {}
Without(items, id) == SelectSeq(items, LAMBDA row : row.id # id)
Marked(items, id, public) ==
    [i \in DOMAIN items |-> IF items[i].id = id THEN [items[i] EXCEPT !.public = public] ELSE items[i]]

HistoryLoaded ==
    /\ \E c \in Calls("load") :
         /\ Closed(c)
         /\ Page(c, IF Answered(c)
                    THEN [pane EXCEPT !.loading = FALSE, !.items = c.result.items, !.cursor = c.result.cursor]
                    ELSE [pane EXCEPT !.loading = FALSE])
    /\ Only /\ UNCHANGED presses

LoadMoreShown == ListShown /\ pane.cursor # 0 /\ ~pane.more
handleLoadMore ==
    /\ LoadMoreShown /\ Press
    /\ Asks([kind |-> "more", ws |-> team.active, live |-> TRUE, result |-> Nothing, after |-> pane.cursor])
    /\ pane' = [pane EXCEPT !.more = TRUE] /\ Only
MoreLoaded ==
    /\ \E c \in Calls("more") :
         /\ Closed(c)
         /\ Page(c, IF Answered(c)
                    THEN [pane EXCEPT !.more = FALSE, !.items = @ \o c.result.items, !.cursor = c.result.cursor]
                    ELSE [pane EXCEPT !.more = FALSE])
    /\ Only /\ UNCHANGED presses

handleDelete ==
    /\ Press
    /\ \E row \in Rows :
         /\ Asks([kind |-> "delete", live |-> TRUE, result |-> Nothing, id |-> row.id, before |-> pane.items])
         /\ pane' = [pane EXCEPT !.items = Without(@, row.id)]
    /\ Only
Deleted ==
    /\ \E c \in Calls("delete") :
         Closed(c) /\ Page(c, IF Answered(c) THEN pane ELSE [pane EXCEPT !.items = c.before])
    /\ Only /\ UNCHANGED presses

FilterBar == Here("history")
DeleteAllShown == FilterBar /\ pane.items # <<>> /\ ~pane.clearing
handleDeleteAll ==
    /\ DeleteAllShown /\ Press
    /\ Asks([kind |-> "purge", live |-> TRUE, result |-> Nothing, before |-> pane.items])
    /\ pane' = [pane EXCEPT !.items = <<>>, !.cursor = 0, !.clearing = TRUE] /\ Only
AllDeleted ==
    /\ \E c \in Calls("purge") :
         /\ Closed(c)
         /\ Page(c, [pane EXCEPT !.clearing = FALSE, !.items = IF Answered(c) THEN @ ELSE c.before])
    /\ Only /\ UNCHANGED presses

handleShare ==
    /\ pane' \in {[pane EXCEPT !.candidate = {row.id}] : row \in {r \in Rows : ~r.public}}
    /\ Press /\ Only /\ UNCHANGED calls
ShareDialog == Here("history") /\ pane.candidate # {} /\ ~pane.sharing
closeShare == ShareDialog /\ pane' = [pane EXCEPT !.candidate = {}] /\ Only /\ UNCHANGED <<calls, presses>>
confirmShare ==
    /\ ShareDialog /\ Press
    /\ \E id \in pane.candidate : Asks([kind |-> "share", live |-> TRUE, result |-> Nothing, id |-> id])
    /\ pane' = [pane EXCEPT !.sharing = TRUE] /\ Only
Shared ==
    /\ \E c \in Calls("share") :
         /\ Closed(c)
         /\ Page(c, IF Answered(c)
                    THEN [pane EXCEPT !.sharing = FALSE, !.candidate = {}, !.items = Marked(@, c.id, TRUE)]
                    ELSE [pane EXCEPT !.sharing = FALSE])
    /\ Only /\ UNCHANGED presses
handleMakePrivate ==
    /\ Press
    /\ \E row \in Rows :
         /\ row.public
         /\ Asks([kind |-> "private", live |-> TRUE, result |-> Nothing, id |-> row.id])
    /\ Only /\ UNCHANGED pane
MadePrivate ==
    /\ \E c \in Calls("private") :
         Closed(c) /\ Page(c, IF Answered(c) THEN [pane EXCEPT !.items = Marked(@, c.id, FALSE)] ELSE pane)
    /\ Only /\ UNCHANGED presses
setActiveMode ==
    /\ FilterBar /\ Press /\ pane' \in {[pane EXCEPT !.filter = f] : f \in (0..Depth) \ {pane.filter}}
    /\ Only /\ UNCHANGED calls

-----------------------------------------------------------------------------
(* The settings.  A key is shown in full once; the list is asked for again   *)
(* after a key is created or revoked, whatever the service answered.          *)
Refetch(c) == (calls \ {c}) \cup {[Call("refetch", c.ws) EXCEPT !.live = c.live]}
KeysAnswer ==
    /\ \E c \in Calls("keys") \cup Calls("refetch") :
         Closed(c) /\ Page(c, IF Answered(c) THEN [pane EXCEPT !.keys = c.result.keys] ELSE pane)
    /\ Only /\ UNCHANGED presses
KeyForm == Here("settings") /\ ~pane.creating /\ Cardinality(service.keys) < MaxKeys
handleCreateApiKey ==
    /\ KeyForm /\ Press /\ Asks(Call("create", team.active))
    /\ pane' = [pane EXCEPT !.creating = TRUE] /\ Only
KeyCreated ==
    /\ \E c \in Calls("create") :
         IF Answered(c)
         THEN calls' = Refetch(c) /\ Page(c, [pane EXCEPT !.creating = FALSE, !.secret = {c.result.key}])
         ELSE Closed(c) /\ Page(c, [pane EXCEPT !.creating = FALSE])
    /\ Only /\ UNCHANGED presses
KeyTable == Here("settings")
revokeApiKey ==
    /\ KeyTable /\ Press
    /\ \E k \in pane.keys :
         Asks([kind |-> "revoke", ws |-> team.active, live |-> TRUE, result |-> Nothing, key |-> k])
    /\ Only /\ UNCHANGED pane
KeyRevoked ==
    /\ \E c \in Calls("revoke") : calls' \in {Refetch(c)} \cup (IF Answered(c) THEN {} ELSE {calls \ {c}})
    /\ Only /\ UNCHANGED <<pane, presses>>
SecretShown == Here("settings") /\ pane.secret # {}
archiveSecret == SecretShown /\ Press /\ pane' = [pane EXCEPT !.secret = {}] /\ Only /\ UNCHANGED calls
ProfileForm == Here("settings") /\ ~pane.saving
handleSaveProfile ==
    /\ ProfileForm /\ Press /\ Asks(Call("profile", Personal))
    /\ pane' = [pane EXCEPT !.saving = TRUE] /\ Only
ProfileSaved ==
    /\ \E c \in Calls("profile") : Closed(c) /\ Page(c, [pane EXCEPT !.saving = FALSE])
    /\ Only /\ UNCHANGED presses

handleSignOut ==
    /\ Here("settings") /\ Press /\ account' = [account EXCEPT !.user = FALSE]
    /\ Away({}) /\ UNCHANGED <<team, service>>
DangerZone == Here("settings") /\ ~pane.deleting
setDeleteDialog == DangerZone /\ Press /\ pane' = [pane EXCEPT !.dialog = ~@] /\ Only /\ UNCHANGED calls
handleDeleteAccount ==
    /\ DangerZone /\ pane.dialog /\ Press /\ Asks(Call("erase", Personal))
    /\ pane' = [pane EXCEPT !.deleting = TRUE] /\ Only
(* An account is signed out once it is deleted; that may fail as well.        *)
AccountDeleted ==
    /\ \E c \in Calls("erase") :
         \/ Answered(c) /\ account' = [account EXCEPT !.user = FALSE] /\ Away({c})
         \/ /\ Closed(c) /\ Page(c, [pane EXCEPT !.deleting = FALSE, !.dialog = FALSE])
            /\ UNCHANGED <<account, place, shell>>
    /\ UNCHANGED <<team, service, presses>>

-----------------------------------------------------------------------------
(* The billing page.                                                          *)
isActuallyPro == account.pro
UpgradeCard == Here("billing") /\ ~isActuallyPro /\ ~pane.busy
handleUpgrade ==
    /\ UpgradeCard /\ Press /\ Asks(Call("checkout", Personal))
    /\ pane' = [pane EXCEPT !.busy = TRUE] /\ Only
(* One gateway takes the browser away, the other opens a form over the page. *)
CheckoutAnswers ==
    /\ \E c \in Calls("checkout") :
         \/ Answered(c) /\ Redirected("stripe")
         \/ /\ Answered(c) /\ Closed(c) /\ UNCHANGED <<place, pane>>
            /\ shell' = [shell EXCEPT !.checkout = IF c.live THEN "open" ELSE "orphan"]
         \/ Closed(c) /\ Page(c, [pane EXCEPT !.busy = FALSE]) /\ UNCHANGED <<place, shell>>
    /\ UNCHANGED <<account, team, service, presses>>
(* The browser comes back to a page loaded anew, which says what the address *)
(* does.                                                                      *)
Banner(what) == [Fresh["billing"] EXCEPT !.banner = what, !.timer = TRUE]
ReturnFromStripe ==
    /\ place = "stripe" /\ place' = "billing"
    /\ \/ pane' = Banner("success") /\ service' = [service EXCEPT !.paid = TRUE]
       \/ pane' = Banner("cancel") /\ UNCHANGED service
    /\ team' = [listed |-> {}, active |-> Personal, loading |-> TRUE]
    /\ calls' = {Call("teams", Personal)} /\ account' = [account EXCEPT !.loading = TRUE]
    /\ UNCHANGED <<shell, presses>>
(* The form is dismissed, or the payment it took is sent for verification.   *)
modalCloses ==
    /\ shell.checkout # "closed" /\ shell' = [shell EXCEPT !.checkout = "closed"]
    /\ LET live == shell.checkout = "open" IN
       \/ /\ Asks([Call("verify", Personal) EXCEPT !.live = live])
          /\ pane' = IF live THEN [pane EXCEPT !.busy = TRUE] ELSE pane
       \/ pane' = (IF live THEN [pane EXCEPT !.busy = FALSE] ELSE pane) /\ UNCHANGED calls
    /\ UNCHANGED <<place, account, team, service, presses>>
(* A verified payment shows the page of billing with its banner.              *)
PaymentVerified ==
    /\ \E c \in Calls("verify") :
         \/ /\ Answered(c) /\ place = "billing" /\ Closed(c) /\ UNCHANGED <<place, shell>>
            /\ pane' = [pane EXCEPT !.busy = @ /\ ~c.live, !.banner = "success", !.timer = TRUE]
         \/ /\ Answered(c) /\ place # "billing" /\ account.user
            /\ place' = "billing" /\ pane' = Banner("success")
            /\ calls' = DetachedBut({c}) /\ UNCHANGED shell
         \/ /\ ~Answered(c) \/ ~account.user
            /\ Closed(c) /\ Page(c, [pane EXCEPT !.busy = FALSE]) /\ UNCHANGED <<place, shell>>
    /\ UNCHANGED <<account, team, service, presses>>
(* The address is cleaned, the router says so, and the effect of the banner  *)
(* is cleaned up with its timer; else the timer ends it.                       *)
SearchParamsFollow ==
    /\ Here("billing") /\ pane.timer /\ pane' = [pane EXCEPT !.timer = FALSE]
    /\ Only /\ UNCHANGED <<calls, presses>>
BannerEnds ==
    /\ Here("billing") /\ pane.banner # "none" /\ (pane.timer \/ presses < MaxPresses)
    /\ presses' = IF pane.timer THEN presses ELSE presses + 1
    /\ pane' = [pane EXCEPT !.banner = "none", !.timer = FALSE]
    /\ Only /\ UNCHANGED calls
SubscriptionSeen ==
    /\ service.paid /\ ~account.pro /\ account' = [account EXCEPT !.pro = TRUE]
    /\ UNCHANGED <<place, pane, team, calls, service, shell, presses>>
PortalCard == Here("billing") /\ isActuallyPro /\ ~pane.portal
handleManagePortal ==
    /\ PortalCard /\ Press /\ Asks(Call("portal", Personal))
    /\ pane' = [pane EXCEPT !.portal = TRUE] /\ Only
PortalAnswers ==
    /\ \E c \in Calls("portal") :
         \/ Answered(c) /\ Redirected("away")
         \/ Closed(c) /\ Page(c, [pane EXCEPT !.portal = FALSE]) /\ UNCHANGED <<place, shell>>
    /\ UNCHANGED <<account, team, service, presses>>

-----------------------------------------------------------------------------
(* The welcome.  Each way out marks the account and goes on, marked or not.  *)
nextStep ==
    /\ Here("welcome") /\ pane.step < 3 /\ Press
    /\ pane' = [pane EXCEPT !.step = @ + 1] /\ Only /\ UNCHANGED calls
handleFinish ==
    /\ Here("welcome") /\ ~pane.finishing /\ Press /\ Asks(Call("mark", Personal))
    /\ pane' = [pane EXCEPT !.finishing = TRUE] /\ Only
(* The links to the modes do not look at the button.                         *)
openMode ==
    /\ Here("welcome") /\ pane.step < 3 /\ Press /\ Asks(Call("mark", Personal))
    /\ Only /\ UNCHANGED pane
WelcomeEnds ==
    /\ \E c \in Calls("mark") :
         \/ account' = [account EXCEPT !.onboarded = @ \/ Answered(c)] /\ Show("overview", {c})
         \/ ~Answered(c) /\ Closed(c) /\ UNCHANGED <<account, place, pane, shell>>
    /\ UNCHANGED <<team, service, presses>>

-----------------------------------------------------------------------------
ShellNext == AuthReady \/ RedirectToSignin \/ RedirectToWelcome \/ Navigate \/ handleToggleCollapse
             \/ setMobileOpen \/ Serve \/ nextStep \/ handleFinish \/ openMode \/ WelcomeEnds
TeamNext == WorkspaceSwitcher \/ TokenRefreshed \/ TeamsAnswer \/ handleCreateWorkspace \/ WorkspaceCreated
            \/ handleInviteMember \/ Invited \/ MembersAnswer
HistoryNext == HistoryLoaded \/ handleLoadMore \/ MoreLoaded \/ handleDelete \/ Deleted
               \/ handleDeleteAll \/ AllDeleted \/ handleShare \/ closeShare \/ confirmShare
               \/ Shared \/ handleMakePrivate \/ MadePrivate \/ setActiveMode
SettingsNext == KeysAnswer \/ handleCreateApiKey \/ KeyCreated \/ revokeApiKey \/ KeyRevoked
                \/ archiveSecret \/ handleSaveProfile \/ ProfileSaved \/ handleSignOut
                \/ setDeleteDialog \/ handleDeleteAccount \/ AccountDeleted
BillingNext == handleUpgrade \/ CheckoutAnswers \/ ReturnFromStripe \/ modalCloses
               \/ PaymentVerified \/ SearchParamsFollow \/ BannerEnds \/ SubscriptionSeen
               \/ handleManagePortal \/ PortalAnswers

DashNext == ShellNext \/ TeamNext \/ HistoryNext \/ SettingsNext \/ BillingNext
DashSpec == DashInit /\ [][DashNext]_dashVars

-----------------------------------------------------------------------------
(* The loading of the history ends with the list of the active workspace, or *)
(* with a load of it that failed, which leaves what was shown: never with an *)
(* answer for another workspace, however often it was changed meanwhile.     *)
OfTheActive(items) == \A i \in DOMAIN items : items[i].id[1] = team.active
LoadShowsTheActive ==
    [][place = "history" /\ place' = "history" /\ pane.loading /\ ~pane'.loading
         => \/ OfTheActive(pane'.items)
            \/ /\ pane'.items = pane.items
               /\ \E c \in Calls("load") : c.ws = team.active /\ ~Answered(c)]_dashVars

(* The loading never ends on the list of another workspace.  It does not     *)
(* hold: a load that fails leaves the list of the workspace before.           *)
LoadEndsOnTheActive ==
    [][place = "history" /\ place' = "history" /\ pane.loading /\ ~pane'.loading
         => OfTheActive(pane'.items)]_dashVars
=============================================================================
