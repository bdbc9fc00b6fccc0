---------------------------- MODULE UserPrograms ----------------------------
(* The programs a user runs: the pages of the web client with the engine that *)
(* runs in them, the command line and the extension of the editor.  Their     *)
(* models share no state, so each behaviour is that of one of them, and the   *)
(* variables of the others are off.                                           *)
EXTENDS TranslationClient

CONSTANTS
  OutputUsers, OutputRuns, OutputTurns,                            \* of TranslationOutput
  StateKeys, Props, MaxFeatures,                                   \* of CodemodEngine
  Langs, MaxSteps, MaxMoves,                                       \* of WorkbenchImport
  BrowserAccounts, Paying, MaxSessions, MaxClicks, Tabs,           \* of BrowserAuth
  Workspaces, Personal, Depth, MaxKeys, MaxCalls, MaxPresses,      \* of DashboardPages
  Files, Scores, Thresholds, MaxCommands,                          \* of CommandLine
  Targets, Global, MaxNewKeys, MaxEvents,                          \* of EditorExtension
  MaxBrowsers, MaxOps, MaxPressed                                  \* of ByokVault

(* A class has finitely many members, a directory finitely many files; a      *)
(* confidence and a threshold are numbers.                                    *)
ASSUME ProgramsAssumption ==
  /\ IsFiniteSet(StateKeys) /\ IsFiniteSet(Props) /\ IsFiniteSet(Files)
  /\ Scores \subseteq Nat /\ Thresholds \subseteq Nat

Off == "off"

VARIABLE surface

(* The blocks of a translation, their synchronisation, history and sharing.   *)
VARIABLES out, orig, code, stream, results, sync, who, history, share,
          injected, prompt, turns
outputVars == <<out, orig, code, stream, results, sync, who, history, share,
  injected, prompt, turns>>
Output == INSTANCE TranslationOutput WITH
  Users <- OutputUsers, MaxRuns <- OutputRuns, MaxTurns <- OutputTurns
OutputOff ==
  /\ out = Off /\ orig = Off /\ code = Off /\ stream = Off /\ results = Off
  /\ sync = Off /\ who = Off /\ history = Off /\ share = Off /\ injected = Off
  /\ prompt = Off /\ turns = Off

(* The rules of the engine, in their order.                                   *)
VARIABLES stage, cls, fn, features
engineVars == <<stage, cls, fn, features>>
Engine == INSTANCE CodemodEngine WITH
  Keys <- StateKeys
EngineOff ==
  /\ stage = Off /\ cls = Off /\ fn = Off /\ features = Off

(* The input, what is imported into it and the tools that rewrite it.         *)
VARIABLES panel, importer, jobs, ask, tools, repo, steps, edits
importVars == <<panel, importer, jobs, ask, tools, repo, steps, edits>>
Import == INSTANCE WorkbenchImport
ImportOff ==
  /\ panel = Off /\ importer = Off /\ jobs = Off /\ ask = Off /\ tools = Off
  /\ repo = Off /\ steps = Off /\ edits = Off

(* The session of a browser, its consent and its pages, in several tabs.      *)
VARIABLES session, heard, provider, checks, form, github, onboarded, consent,
          changes, clicks
authVars == <<session, heard, provider, checks, form, github, onboarded,
  consent, changes, clicks>>
Auth == INSTANCE BrowserAuth WITH Accounts <- BrowserAccounts, NoAccount <- Guest
AuthOff ==
  /\ session = Off /\ heard = Off /\ provider = Off /\ checks = Off
  /\ form = Off /\ github = Off /\ onboarded = Off /\ consent = Off
  /\ changes = Off /\ clicks = Off

(* The pages of the dashboard, with their calls.                              *)
VARIABLES place, pane, account, team, calls, service, shell, presses
dashVars == <<place, pane, account, team, calls, service, shell, presses>>
Dash == INSTANCE DashboardPages
DashOff ==
  /\ place = Off /\ pane = Off /\ account = Off /\ team = Off /\ calls = Off
  /\ service = Off /\ shell = Off /\ presses = Off

(* Commands of a shell.                                                       *)
VARIABLES argv, machine, cli, tested, commands
cliVars == <<argv, machine, cli, tested, commands>>
Cli == INSTANCE CommandLine
CliOff ==
  /\ argv = Off /\ machine = Off /\ cli = Off /\ tested = Off /\ commands = Off

(* The extension, its keys, an insertion and a hover.                         *)
VARIABLES settings, secret, newest, ext, text, insertion, hover, events
editorVars == <<settings, secret, newest, ext, text, insertion, hover, events>>
Editor == INSTANCE EditorExtension
EditorOff ==
  /\ settings = Off /\ secret = Off /\ newest = Off /\ ext = Off /\ text = Off
  /\ insertion = Off /\ hover = Off /\ events = Off

(* The vault of the user's own key, in a browser that may be updated.         *)
VARIABLES vault, browser, ops, forms, badges, selector, engine, pressed
vaultVars == <<vault, browser, ops, forms, badges, selector, engine, pressed>>
Vault == INSTANCE ByokVault
VaultOff ==
  /\ vault = Off /\ browser = Off /\ ops = Off /\ forms = Off /\ badges = Off
  /\ selector = Off /\ engine = Off /\ pressed = Off

ProgramsInit ==
  /\ surface \in {"client", "output", "engine", "import", "auth",
                  "dashboard", "command line", "editor", "vault"}
  /\ Init
  /\ surface # "client" => page.user = Guest
  /\ IF surface = "output" THEN Output!OutputInit ELSE OutputOff
  /\ IF surface = "engine" THEN Engine!EngineInit ELSE EngineOff
  /\ IF surface = "import" THEN Import!ImportInit ELSE ImportOff
  /\ IF surface = "auth" THEN Auth!AuthInit ELSE AuthOff
  /\ IF surface = "dashboard" THEN Dash!DashInit ELSE DashOff
  /\ IF surface = "command line" THEN Cli!CliInit ELSE CliOff
  /\ IF surface = "editor" THEN Editor!EditorInit ELSE EditorOff
  /\ IF surface = "vault" THEN Vault!VaultInit ELSE VaultOff

ClientStep ==
  /\ surface = "client" /\ Next
  /\ UNCHANGED <<surface, outputVars, engineVars, importVars, authVars,
                  dashVars, cliVars, editorVars, vaultVars>>
OutputStep ==
  /\ surface = "output" /\ Output!OutputNext
  /\ UNCHANGED <<surface, vars, engineVars, importVars, authVars, dashVars,
                  cliVars, editorVars, vaultVars>>
EngineStep ==
  /\ surface = "engine" /\ Engine!EngineNext
  /\ UNCHANGED <<surface, vars, outputVars, importVars, authVars, dashVars,
                  cliVars, editorVars, vaultVars>>
ImportStep ==
  /\ surface = "import" /\ Import!ImportNext
  /\ UNCHANGED <<surface, vars, outputVars, engineVars, authVars, dashVars,
                  cliVars, editorVars, vaultVars>>
AuthStep ==
  /\ surface = "auth" /\ Auth!AuthNext
  /\ UNCHANGED <<surface, vars, outputVars, engineVars, importVars, dashVars,
                  cliVars, editorVars, vaultVars>>
DashStep ==
  /\ surface = "dashboard" /\ Dash!DashNext
  /\ UNCHANGED <<surface, vars, outputVars, engineVars, importVars, authVars,
                  cliVars, editorVars, vaultVars>>
CliStep ==
  /\ surface = "command line" /\ Cli!CliNext
  /\ UNCHANGED <<surface, vars, outputVars, engineVars, importVars, authVars,
                  dashVars, editorVars, vaultVars>>
EditorStep ==
  /\ surface = "editor" /\ Editor!EditorNext
  /\ UNCHANGED <<surface, vars, outputVars, engineVars, importVars, authVars,
                  dashVars, cliVars, vaultVars>>
VaultStep ==
  /\ surface = "vault" /\ Vault!VaultNext
  /\ UNCHANGED <<surface, vars, outputVars, engineVars, importVars, authVars,
                  dashVars, cliVars, editorVars>>

ProgramsNext ==
  \/ ClientStep \/ OutputStep \/ EngineStep \/ ImportStep \/ AuthStep
  \/ DashStep \/ CliStep \/ EditorStep \/ VaultStep

ProgramsSpec ==
  /\ ProgramsInit
  /\ [][ProgramsNext]_<<surface, vars, outputVars, engineVars, importVars, authVars,
                  dashVars, cliVars, editorVars, vaultVars>>

-----------------------------------------------------------------------------
(* Unless two blocks share an id, every block keeps its own code, no edit     *)
(* lands in two blocks, and the export bar, which reads an index by id, has   *)
(* what the panel shows (updateBlockEnglish, setOutputBlocks).                *)
BlocksStayApart == surface = "output" => Output!BlocksStayApart

(* Whichever rules of the engine added a hook, a function that is answered as *)
(* a success binds every hook it calls by name, but for those that the file   *)
(* had imported under another name or as a type only (updateReactImports).    *)
HooksAreImported == surface = "engine" => Engine!HooksAreImported

(* The loader of the import bar stands for exactly one import of this page,   *)
(* through prompts, folders that answer late, fetches that fall back to the   *)
(* server and pages left and entered again (useFileImport).                   *)
OneImport == surface = "import" => Import!OneImport

(* Once every check was answered, a Pro account is shown only to one that     *)
(* pays, through sign-ins and sign-outs in any tab and answers in any order,  *)
(* but after an answer for another account than the one shown by then or a    *)
(* check that failed (checkProStatus, auth-context.tsx).                       *)
ProIsTheSessions == surface = "auth" => Auth!ProIsTheSessions

(* The loading of the history ends with the list of the active workspace or   *)
(* with a load of it that failed, never with the answer for another one,      *)
(* however often it was changed meanwhile (fetchHistory).                      *)
LoadShowsTheActive == Dash!LoadShowsTheActive

(* A gate that was given a number never passes when the confidence it showed  *)
(* for a file it evaluated is less (main of cli/src/index.ts).                *)
GateCountsEveryFile == surface = "command line" => Cli!GateCountsEveryFile

(* A key given once to the extension is in the settings or in the store of    *)
(* secrets, wherever the move between them was interrupted                    *)
(* (activate of extension.ts).                                                *)
KeyIsNeverLost == surface = "editor" => Editor!KeyIsNeverLost

(* Once the database has served what it was asked, no badge says there is a   *)
(* key when there is none, and a selector that shows the last of its reads    *)
(* sees only one that can be opened, whichever form changed it                *)
(* (byok-vault.ts, EngineModeSelector).                                       *)
BadgesSettle == surface = "vault" => Vault!BadgesSettle
=============================================================================
