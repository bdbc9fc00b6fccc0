----------------------------- MODULE BrowserAuth -----------------------------
(***************************************************************************)
(* Accounts in the browser: the provider that follows the session          *)
(* (auth-context), the pages that sign in, sign up and reset a password,   *)
(* the guard of the dashboard (proxy), the two OAuth callbacks, onboarding *)
(* and the consent to analytics.                                            *)
(*                                                                         *)
(* The session is one for the browser and lives with the identity service; *)
(* a tab hears of its changes later, in order.  The entitlement of each    *)
(* session the tab hears of is asked for, and the answers come in any       *)
(* order.                                                                   *)
(***************************************************************************)
EXTENDS Naturals, Sequences

CONSTANTS Accounts,     \* people who use this browser
          Paying,       \* those of them with a subscription
          NoAccount,
          MaxSessions,  \* bound on the changes of the session
          MaxClicks,    \* bound on what is done beside the session
          Tabs          \* pages of this browser with a consent banner

VARIABLES session,    \* of the browser
          heard,      \* changes of it the tab has still to hear of
          provider,   \* state of AuthProvider
          checks,     \* questions for the entitlement under way
          form,       \* where the tab is and what its form shows
          github,     \* the connection to GitHub
          onboarded,  \* accounts the server has marked
          consent,    \* to analytics, and what the library keeps
          changes,    \* changes of the session so far
          clicks      \* what was done beside it so far

authVars == <<session, heard, provider, checks, form, github, onboarded, consent, changes,
              clicks>>

Sessions == Accounts \cup {NoAccount}
NewProvider == [session |-> NoAccount, loading |-> TRUE, isPro |-> FALSE, unsure |-> FALSE,
                identity |-> NoAccount]
At(place) == [place |-> place, busy |-> FALSE, shows |-> "form", leaving |-> FALSE, step |-> 1]
LastStep == 5       \* of the onboarding

(* A tab is opened on the landing page, in a browser with a session or none. *)
AuthInit ==
    /\ session \in Sessions /\ heard = <<session, session>>
    /\ provider = NewProvider /\ checks = {}
    /\ form = At("landing")
    /\ github = [cookie |-> 0, starts |-> 0, linked |-> {}]
    /\ onboarded = {}
    /\ consent = [given |-> "unset", banner |-> {}, stored |-> "none",
                   library |-> [tab \in Tabs |-> "off"]]
    /\ changes = 0 /\ clicks = 0

-----------------------------------------------------------------------------
(* The provider.  A page that is loaded anew asks for the session and        *)
(* subscribes to its changes: it hears of the same session twice.            *)
Load(place, s) ==
    /\ form' = At(place)
    /\ heard' = <<s, s>> /\ provider' = NewProvider /\ checks' = {}

checkProStatus(user) ==
    checks' = IF user = NoAccount THEN checks
              ELSE checks \cup {[user |-> user, at |-> <<changes, Len(heard)>>]}

(* The analytics library learns the account with consent, once it is ready.  *)
Identified(user) ==
    {provider.identity} \cup (IF consent.given = "true" THEN {user} ELSE {})

onAuthStateChangeKeepsPro ==
    /\ heard # <<>> /\ heard' = Tail(heard)
    /\ \E id \in IF provider.loading /\ Head(heard) # NoAccount THEN Identified(Head(heard))
                 ELSE {provider.identity} :
          provider' = [provider EXCEPT !.session = Head(heard), !.loading = FALSE, !.identity = id]
    /\ checkProStatus(Head(heard))
    /\ UNCHANGED <<session, form, github, onboarded, consent, changes, clicks>>
onAuthStateChange ==
    /\ heard # <<>> /\ heard' = Tail(heard)
    /\ LET user == Head(heard) IN
       /\ \E id \in IF provider.loading /\ user # NoAccount THEN Identified(user)
                    ELSE {provider.identity} :
             provider' = [provider EXCEPT !.session = user, !.loading = FALSE, !.identity = id,
                              !.isPro = @ /\ user # NoAccount, !.unsure = @ /\ user # NoAccount]
       /\ checkProStatus(user)
    /\ UNCHANGED <<session, form, github, onboarded, consent, changes, clicks>>

(* An answer is applied whatever the session has become, and a check that    *)
(* fails leaves what was shown.  The provider is unsure, which the code does *)
(* not know, after an answer for another account or none for its own.        *)
ProStatusAnswers ==
    /\ \E c \in checks :
         /\ checks' = checks \ {c}
         /\ \/ \E id \in Identified(c.user) :
                  provider' = [provider EXCEPT !.isPro = c.user \in Paying, !.identity = id,
                                               !.unsure = c.user # provider.session]
            \/ provider' = [provider EXCEPT !.unsure = @ \/ c.user = provider.session]
    /\ UNCHANGED <<session, heard, form, github, onboarded, consent, changes, clicks>>

Clicks == clicks < MaxClicks /\ clicks' = clicks + 1

(* The session changes, here or in another tab.                               *)
Becomes(s) == /\ changes < MaxSessions /\ changes' = changes + 1 /\ session' = s
Announced(s) == heard' = Append(heard, s)

(* The reset of the identity resets all the library keeps in the browser,    *)
(* the answer to its opt-out included, if it was started in that tab.         *)
resetIdentity ==
    consent' \in {IF consent.library[tab] = "off" THEN consent
                  ELSE [consent EXCEPT !.stored = "none"] : tab \in Tabs}

signOut ==
    /\ form.place \in {"dashboard", "onboarding"} /\ session # NoAccount
    /\ Becomes(NoAccount) /\ Announced(NoAccount)
    /\ provider' = [provider EXCEPT !.identity = NoAccount] /\ resetIdentity
    /\ UNCHANGED <<checks, form, github, onboarded, clicks>>

AnotherTab ==
    /\ \E s \in Sessions \ {session} :
         /\ Becomes(s) /\ Announced(s)
         /\ UNCHANGED consent \/ (s = NoAccount /\ resetIdentity)
    /\ UNCHANGED <<provider, checks, form, github, onboarded, clicks>>

-----------------------------------------------------------------------------
(* Navigation.  The proxy sends a request for the dashboard to the sign-in   *)
(* page without a session; a session that cannot be read is none.            *)
proxy(place) == IF place = "dashboard" /\ session = NoAccount THEN "signin" ELSE place

Follow ==
    /\ ~form.leaving
    /\ \E place \in {"landing", "signin", "signup", "forgot", "onboarding", "dashboard"} :
         \/ form' = At(proxy(place)) /\ UNCHANGED <<heard, provider, checks>>
         \/ Load(proxy(place), session)
    /\ UNCHANGED <<session, github, onboarded, consent, changes, clicks>>

-----------------------------------------------------------------------------
(* The forms.                                                                 *)
SignInForm == form.place = "signin"
SignUpForm == form.place = "signup" /\ form.shows # "sent"
ForgotForm == form.place = "forgot" /\ form.shows # "sent"
Form == SignInForm \/ SignUpForm \/ ForgotForm

handleSubmit ==
    /\ Form /\ ~form.busy
    /\ form' = [form EXCEPT !.busy = TRUE, !.shows = "form"]
    /\ UNCHANGED <<session, heard, provider, checks, github, onboarded, consent, changes, clicks>>

(* A filled honeypot is answered without the service.                         *)
Honeypot ==
    /\ Form /\ ~form.busy /\ ~ForgotForm
    /\ form' = [form EXCEPT !.shows = "error"]
    /\ UNCHANGED <<session, heard, provider, checks, github, onboarded, consent, changes, clicks>>

Refused ==
    /\ form.busy /\ form' = [form EXCEPT !.busy = FALSE, !.shows = "error"]
    /\ UNCHANGED <<session, heard, provider, checks, github, onboarded, consent, changes, clicks>>

(* The page is left a moment after the answer, and the form is live in it.    *)
signInWithEmail ==
    /\ form.place = "signin" /\ form.busy
    /\ \E user \in Accounts : Becomes(user) /\ Announced(user)
    /\ form' = [form EXCEPT !.busy = FALSE, !.leaving = TRUE]
    /\ UNCHANGED <<provider, checks, github, onboarded, consent, clicks>>

(* A new account has a session at once, or is told to look for a mail.       *)
signUpWithEmail ==
    /\ form.place = "signup" /\ form.busy
    /\ \/ /\ \E user \in Accounts : Becomes(user) /\ Announced(user)
          /\ form' = [form EXCEPT !.busy = FALSE, !.leaving = TRUE]
       \/ /\ form' = [form EXCEPT !.busy = FALSE, !.shows = "sent"]
          /\ UNCHANGED <<session, heard, changes>>
    /\ UNCHANGED <<provider, checks, github, onboarded, consent, clicks>>

resetPassword ==
    /\ form.place = "forgot" /\ form.busy
    /\ form' = [form EXCEPT !.busy = FALSE, !.shows = "sent"]
    /\ UNCHANGED <<session, heard, provider, checks, github, onboarded, consent, changes, clicks>>

Leave ==
    /\ form.leaving /\ Load(proxy("dashboard"), session)
    /\ UNCHANGED <<session, github, onboarded, consent, changes, clicks>>

(* The buttons of the providers, and the callback they come back to.          *)
signInWithOAuth ==
    /\ SignInForm \/ SignUpForm
    /\ \/ form' = At("oauth")
       \/ form' = [form EXCEPT !.shows = "error"]
    /\ UNCHANGED <<session, heard, provider, checks, github, onboarded, consent, changes, clicks>>
oauthCallback ==
    /\ form.place = "oauth"
    /\ \/ \E user \in Accounts : Becomes(user) /\ Load("dashboard", user)
       \/ Load("signin", session) /\ UNCHANGED <<session, changes>>
    /\ UNCHANGED <<github, onboarded, consent, clicks>>

-----------------------------------------------------------------------------
(* Connecting GitHub.  The state is kept in a cookie until a callback of the *)
(* browser ends, well or badly; the tab may start more than once before.     *)
githubStart ==
    /\ form.place = "dashboard" /\ Clicks
    /\ \/ github' = [github EXCEPT !.starts = @ + 1, !.cookie = github.starts + 1]
          /\ UNCHANGED <<form, heard, provider, checks>>
       \/ Load(proxy("dashboard"), session) /\ UNCHANGED github
    /\ UNCHANGED <<session, onboarded, consent, changes>>

Matches(state) == github.cookie # 0 /\ state = github.cookie

githubCallback ==
    /\ \E state \in 1..github.starts, granted \in BOOLEAN, connected \in BOOLEAN :
         LET asks == granted /\ Matches(state) /\ session # NoAccount IN
         /\ github' = [github EXCEPT !.cookie = 0,
                 !.linked = IF asks /\ connected THEN @ \cup {session} ELSE @]
         /\ Load(IF granted /\ Matches(state) /\ session = NoAccount THEN "signin"
                 ELSE proxy("dashboard"), session)
    /\ UNCHANGED <<session, onboarded, consent, changes, clicks>>

-----------------------------------------------------------------------------
(* Onboarding.  What the server answers to the mark is not looked at.        *)
Onboarding == form.place = "onboarding" /\ ~form.leaving

setStep ==
    /\ Onboarding
    /\ form' \in {[form EXCEPT !.step = s] : s \in {form.step - 1, form.step + 1} \cap (1..LastStep)}
    /\ UNCHANGED <<session, heard, provider, checks, github, onboarded, consent, changes, clicks>>
markOnboarded ==
    /\ Onboarding /\ Clicks
    /\ onboarded' \in IF provider.session = NoAccount THEN {onboarded}
                      ELSE {onboarded, onboarded \cup {provider.session}}
    /\ form' = At(proxy("dashboard"))
    /\ UNCHANGED <<session, heard, provider, checks, github, consent, changes>>

-----------------------------------------------------------------------------
(* Analytics.  The consent is one entry of the browser, and so is the answer *)
(* the library keeps of its own.  Each page a tab loads starts the library   *)
(* anew, by the consent it finds, and shows the banner when it finds none.    *)
Only(c) == /\ consent' = c /\ Clicks
           /\ UNCHANGED <<session, heard, provider, checks, form, github, onboarded, changes>>

initPostHog(tab) ==
    Only([consent EXCEPT
            !.library[tab] = IF consent.given = "true" THEN "with" ELSE "without",
            !.stored = IF consent.given = "true" THEN @ ELSE "out",
            !.banner = IF consent.given = "unset" THEN @ \cup {tab} ELSE @ \ {tab}])

optInPostHog(tab) ==
    /\ tab \in consent.banner
    /\ Only([consent EXCEPT !.given = "true", !.banner = @ \ {tab}, !.stored = "in"])
optOutPostHog(tab) ==
    /\ tab \in consent.banner
    /\ Only([consent EXCEPT !.given = "false", !.banner = @ \ {tab}, !.stored = "out"])

(* The library of a tab captures by the answer it keeps and, without one, by *)
(* what it was started with.                                                  *)
Captures(tab) ==
    \/ consent.library[tab] # "off" /\ consent.stored = "in"
    \/ consent.library[tab] = "with" /\ consent.stored = "none"

ConsentStep == \E tab \in Tabs : initPostHog(tab) \/ optInPostHog(tab) \/ optOutPostHog(tab)

-----------------------------------------------------------------------------
AuthNext ==
    \/ onAuthStateChange \/ ProStatusAnswers \/ signOut \/ AnotherTab
    \/ Follow \/ handleSubmit \/ Honeypot \/ Refused \/ signInWithEmail
    \/ signUpWithEmail \/ resetPassword \/ Leave \/ signInWithOAuth \/ oauthCallback
    \/ githubStart \/ githubCallback \/ setStep \/ markOnboarded
    \/ ConsentStep

AuthSpec == AuthInit /\ [][AuthNext]_authVars

-----------------------------------------------------------------------------
(* Once every answer has come, a Pro account is shown only to one that pays, *)
(* through sign-ins and sign-outs in any tab and checks answered in any      *)
(* order, but after an answer that came for another account than the one     *)
(* shown by then, or a check of it that failed.                              *)
ProIsTheSessions ==
    checks = {} /\ provider.isPro /\ ~provider.unsure => provider.session \in Paying

(* "Pro status defaults to false", says auth-context of a check that fails.  *)
(* It does not hold: an answer is applied to whoever is signed in by then,   *)
(* and a check that fails leaves the entitlement of the account before.      *)
ProIsNeverAnothers == heard = <<>> /\ checks = {} /\ provider.isPro => provider.session \in Paying

(* No tab captures unless the last answer to a banner was to accept.  It does *)
(* not hold: a sign-out after a refusal wipes the refusal the library keeps,  *)
(* and a tab that was loaded before it captures again.                        *)
RefusalIsKept == \A tab \in Tabs : Captures(tab) => consent.given = "true"
=============================================================================
