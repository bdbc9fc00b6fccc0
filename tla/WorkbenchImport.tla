--------------------------- MODULE WorkbenchImport ---------------------------
(***************************************************************************)
(* How code comes into the translation page: dropped files, GitHub imports *)
(* with their file browser (useFileImport), links, samples, pasted text,   *)
(* and what acts on it before a translation: the AST tools, the detected   *)
(* language, the languages of the toolbar and the repository context.      *)
(*                                                                         *)
(* An input is known by where it came from.  A job is a call that was      *)
(* begun and has not answered; it writes the store of the tab, and the     *)
(* state of the page that began it while that page is mounted.             *)
(***************************************************************************)
EXTENDS Naturals, FiniteSets

CONSTANTS Langs,      \* languages
          MaxSteps,   \* bound on the pages, jobs and imports of a behaviour
          MaxMoves    \* bound on all the user does, these included

VARIABLES panel,      \* the input, its languages and its badges
          importer,   \* the bar and the file browser of useFileImport
          jobs,       \* calls under way
          ask,        \* the guest prompt with the import it would do
          tools,      \* undo of the AST tools
          repo,       \* the repository popover
          steps,      \* of pages and imports; the number of a job is its step
          edits       \* what else the user has done

importVars == <<panel, importer, jobs, ask, tools, repo, steps, edits>>

Urls == {"blob", "other"}       \* a link to one file, or any other address

(* What lib/github-import makes of a link: only one to a file of GitHub, or  *)
(* of its raw host, is parsed, and the fetch of it answers with the content  *)
(* or fails, after ten seconds at the latest.  Any extension has a language. *)
parseGithubUrl(url) == url = "blob"
fetchGithubFileContent == {"content", "failure"}
detectLanguageFromFilename == Langs
NoBar == [shown |-> FALSE, url |-> "", loading |-> FALSE, list |-> FALSE]
NoPath == "none"

Moves == steps + edits < MaxMoves
Step == Moves /\ steps < MaxSteps /\ steps' = steps + 1 /\ UNCHANGED edits
Edit == Moves /\ edits' = edits + 1 /\ UNCHANGED steps

(* The page is entered, with a link to a file or without.                    *)
NewPanel(input, link, lang) ==
    [mode |-> "code-to-english", input |-> input, lang |-> lang, target |-> lang,
     detected |-> "none", uploaded |-> FALSE, gist |-> link,
     path |-> IF link THEN "link" ELSE NoPath, typing |-> FALSE, mount |-> steps]

Job(kind, url) == [kind |-> kind, url |-> url, mount |-> panel.mount, id |-> steps + 1]

ImportInit ==
    /\ steps = 0 /\ edits = 0 /\ jobs = {} /\ importer = NoBar
    /\ panel = NewPanel("none", FALSE, CHOOSE l \in Langs : TRUE)
    /\ \E guest \in BOOLEAN : ask = [open |-> FALSE, url |-> "", guest |-> guest]
    /\ tools = [previous |-> "none", toasts |-> {}]
    /\ repo = [open |-> FALSE, local |-> NoPath]

(* The link of the address sets the badge and the path at once; the content  *)
(* replaces the input when it arrives.                                        *)
EnterPage ==
    /\ Step
    /\ \E link \in BOOLEAN, guest \in BOOLEAN, lang \in Langs :
         /\ panel' = [NewPanel(panel.input, link, lang) EXCEPT !.mount = steps']
         /\ jobs' = IF link THEN jobs \cup {[kind |-> "link", url |-> "blob",
                                             mount |-> steps', id |-> steps']} ELSE jobs
         /\ ask' = [open |-> FALSE, url |-> "", guest |-> guest]
    /\ importer' = NoBar /\ repo' = [open |-> FALSE, local |-> NoPath]
    /\ tools' = [tools EXCEPT !.previous = "none"]

-----------------------------------------------------------------------------
(* What is on top of the editor.                                              *)
Empty == panel.input = "none" /\ panel.mode # "english-to-code" /\ ~ask.open
DropZone == Empty /\ ~panel.typing /\ ~importer.list
Browser == Empty /\ importer.list
Bar == Empty /\ ~importer.list /\ importer.shown

Mine(j) == j.mount = panel.mount
Gone(j) == jobs' = jobs \ {j}

onFileDrop ==
    /\ DropZone /\ Step
    /\ jobs' = jobs \cup {Job("read", "file")}
    /\ UNCHANGED <<panel, importer, ask, tools, repo>>

(* The reader's answer, whatever was typed or imported in between.           *)
FileRead(j) ==
    /\ j.kind = "read" /\ Gone(j)
    /\ \E lang \in Langs :
         panel' = IF Mine(j) THEN [panel EXCEPT !.input = "file", !.uploaded = TRUE,
                                                !.path = "file", !.lang = lang]
                  ELSE [panel EXCEPT !.input = "file"]
    /\ UNCHANGED <<importer, ask, tools, repo, steps, edits>>

LinkAnswers(j) ==
    /\ j.kind = "link" /\ Gone(j)
    /\ \E answer \in fetchGithubFileContent :
         panel' = IF answer = "content" THEN [panel EXCEPT !.input = "link"] ELSE panel
    /\ UNCHANGED <<importer, ask, tools, repo, steps, edits>>

showGistInput ==
    /\ Empty /\ ~importer.list /\ ~importer.shown
    /\ importer' = [importer EXCEPT !.shown = TRUE]
    /\ UNCHANGED <<panel, jobs, ask, tools, repo, steps, edits>>
cancelGistInput ==
    /\ Bar /\ ~importer.loading
    /\ importer' = [importer EXCEPT !.shown = FALSE, !.url = ""]
    /\ UNCHANGED <<panel, jobs, ask, tools, repo, steps, edits>>
setGistUrl ==
    /\ Bar /\ ~importer.loading
    /\ \E url \in Urls : importer' = [importer EXCEPT !.url = url]
    /\ UNCHANGED <<panel, jobs, ask, tools, repo, steps, edits>>

(* An import begins from the bar, for a guest through the prompt.            *)
startImport(kind, url) ==
    /\ Step
    /\ importer' = [importer EXCEPT !.loading = TRUE]
    /\ jobs' = jobs \cup {Job(kind, url)}
handleGistImport ==
    /\ Bar /\ ~importer.loading /\ importer.url # ""
    /\ IF ask.guest THEN ask' = [ask EXCEPT !.open = TRUE, !.url = importer.url]
                         /\ UNCHANGED <<importer, jobs, steps, edits>>
       ELSE startImport("import", importer.url) /\ UNCHANGED ask
    /\ UNCHANGED <<panel, tools, repo>>
continueAsGuest ==
    /\ ask.open
    /\ ask' = [ask EXCEPT !.open = FALSE, !.url = ""]
    /\ startImport("import", ask.url)
    /\ UNCHANGED <<panel, tools, repo>>
closePrompt ==
    /\ ask.open /\ ask' = [ask EXCEPT !.open = FALSE]
    /\ UNCHANGED <<panel, importer, jobs, tools, repo, steps, edits>>

(* What an answer with a file sets; the path only when it came from GitHub   *)
(* itself.                                                                    *)
Imported(j, path, lang) ==
    IF Mine(j) THEN [panel EXCEPT !.input = "gist", !.lang = lang, !.gist = TRUE,
                                  !.path = path, !.uploaded = FALSE]
    ELSE [panel EXCEPT !.input = "gist"]
Done(j, bar) == importer' = IF Mine(j) THEN [bar EXCEPT !.loading = FALSE] ELSE importer

(* The direct fetch of one file: its failure is no end, the server is asked. *)
DirectAnswers(j) ==
    /\ j.kind = "import" /\ parseGithubUrl(j.url)
    /\ \E answer \in fetchGithubFileContent :
         \/ /\ answer = "content" /\ Done(j, [importer EXCEPT !.shown = FALSE]) /\ Gone(j)
            /\ \E lang \in detectLanguageFromFilename : panel' = Imported(j, "gist", lang)
         \/ /\ answer = "failure" /\ jobs' = (jobs \ {j}) \cup {[j EXCEPT !.url = "other"]}
            /\ UNCHANGED <<panel, importer>>
    /\ UNCHANGED <<ask, tools, repo, steps, edits>>

ImportAnswers(j) ==
    /\ j.kind = "import" /\ ~parseGithubUrl(j.url) /\ Gone(j)
    /\ \/ /\ \E lang \in Langs : panel' = Imported(j, panel.path, lang)
          /\ Done(j, [importer EXCEPT !.shown = FALSE])
       \/ /\ \E list \in BOOLEAN : Done(j, [importer EXCEPT !.list = @ \/ list])
          /\ UNCHANGED panel
    /\ UNCHANGED <<ask, tools, repo, steps, edits>>

handleSelectFileAgain ==
    /\ Browser /\ importer.url # ""
    /\ startImport("select", importer.url)
    /\ UNCHANGED <<panel, ask, tools, repo>>
handleSelectFile ==
    /\ Browser /\ ~importer.loading /\ importer.url # ""
    /\ startImport("select", importer.url)
    /\ UNCHANGED <<panel, ask, tools, repo>>
SelectAnswers(j) ==
    /\ j.kind = "select" /\ Gone(j)
    /\ \/ /\ \E lang \in Langs : panel' = Imported(j, panel.path, lang)
          /\ Done(j, NoBar)
       \/ Done(j, importer) /\ UNCHANGED panel
    /\ UNCHANGED <<ask, tools, repo, steps, edits>>

(* A folder is opened without the flag that disables the list.               *)
openDirectory ==
    /\ Browser /\ ~importer.loading /\ Step
    /\ jobs' = jobs \cup {Job("open", importer.url)}
    /\ UNCHANGED <<panel, importer, ask, tools, repo>>
DirectoryAnswers(j) ==
    /\ j.kind = "open" /\ Gone(j)
    /\ importer' \in {importer} \cup (IF Mine(j) THEN {[importer EXCEPT !.list = TRUE]} ELSE {})
    /\ UNCHANGED <<panel, ask, tools, repo, steps, edits>>
closeBrowser ==
    /\ Browser /\ importer' = [importer EXCEPT !.list = FALSE]
    /\ UNCHANGED <<panel, jobs, ask, tools, repo, steps, edits>>

-----------------------------------------------------------------------------
(* The input itself.                                                          *)
handleClearFile ==
    /\ panel.uploaded \/ panel.gist \/ panel.input # "none"
    /\ panel' = [panel EXCEPT !.uploaded = FALSE, !.gist = FALSE, !.input = "none",
                              !.typing = FALSE]
    /\ UNCHANGED <<importer, jobs, ask, tools, repo, steps, edits>>

EditText ==
    /\ ~Empty \/ panel.typing
    /\ Edit
    /\ \E input \in {"none", "typed"} : panel' = [panel EXCEPT !.input = input]
    /\ UNCHANGED <<importer, jobs, ask, tools, repo>>

FileDropZone ==
    /\ DropZone /\ Edit
    /\ \/ panel' = [panel EXCEPT !.typing = TRUE]
       \/ \E lang \in Langs : panel' = [panel EXCEPT !.typing = TRUE, !.input = "sample",
                                                     !.lang = lang]
    /\ UNCHANGED <<importer, jobs, ask, tools, repo>>

(* Pasted anywhere on the page: the language found is only offered.          *)
handlePaste ==
    /\ Edit
    /\ \E lang \in Langs \cup {panel.detected} :
         panel' = [panel EXCEPT !.input = "pasted", !.detected = lang]
    /\ UNCHANGED <<importer, jobs, ask, tools, repo>>

(* A second after the input rests.                                            *)
DetectLanguage ==
    /\ panel.input # "none"
    /\ \E found \in Langs \cup {"none"} :
         panel' = [panel EXCEPT !.detected = IF found = panel.lang THEN "none" ELSE found]
    /\ UNCHANGED <<importer, jobs, ask, tools, repo, steps, edits>>
SwitchLanguage ==
    /\ panel.detected # "none" /\ panel.mode # "english-to-code" /\ ~ask.open
    /\ panel' = [panel EXCEPT !.lang = panel.detected, !.detected = "none"]
    /\ UNCHANGED <<importer, jobs, ask, tools, repo, steps, edits>>

(* The tabs and the selectors of the toolbar; a key chooses the mode while    *)
(* the prompt is open, too.                                                    *)
ToolbarChanges ==
    /\ Edit
    /\ \/ \E mode \in {"code-to-english", "english-to-code", "code-to-code"} :
             panel' = [panel EXCEPT !.mode = mode]
       \/ ~ask.open /\ \E lang \in Langs :
             \/ panel.mode # "english-to-code" /\ panel' = [panel EXCEPT !.lang = lang]
             \/ panel.mode # "code-to-english" /\ panel' = [panel EXCEPT !.target = lang]
    /\ UNCHANGED <<importer, jobs, ask, tools, repo>>
handleSwapLanguages ==
    /\ ~ask.open /\ panel.mode = "code-to-code" /\ Edit
    /\ panel' = [panel EXCEPT !.lang = panel.target, !.target = panel.lang]
    /\ UNCHANGED <<importer, jobs, ask, tools, repo>>

(* A transform keeps what it replaced twice, for the popover and for the     *)
(* toast; code that is unchanged, or that does not parse, keeps nothing.      *)
handleTransform ==
    /\ panel.mode # "english-to-code" /\ ~ask.open /\ panel.input # "none" /\ Edit
    /\ \/ panel' = [panel EXCEPT !.input = "transformed"]
          /\ tools' = [previous |-> panel.input, toasts |-> tools.toasts \cup {panel.input}]
       \/ UNCHANGED <<panel, tools>>
    /\ UNCHANGED <<importer, jobs, ask, repo>>
undoLast ==
    /\ panel.mode # "english-to-code" /\ ~ask.open /\ tools.previous # "none"
    /\ panel' = [panel EXCEPT !.input = tools.previous]
    /\ tools' = [tools EXCEPT !.previous = "none"]
    /\ UNCHANGED <<importer, jobs, ask, repo, steps, edits>>
ToastUndo ==
    /\ \E t \in tools.toasts : /\ panel' = [panel EXCEPT !.input = t]
                               /\ tools' = [tools EXCEPT !.toasts = @ \ {t}]
    /\ UNCHANGED <<importer, jobs, ask, repo, steps, edits>>
ToastGone ==
    /\ \E t \in tools.toasts : tools' = [tools EXCEPT !.toasts = @ \ {t}]
    /\ UNCHANGED <<panel, importer, jobs, ask, repo, steps, edits>>

(* The popover's own path is the one the page had when it was mounted.       *)
RepositorySelector ==
    /\ ~ask.open /\ Edit
    /\ \/ ~repo.open /\ repo' = [repo EXCEPT !.open = TRUE] /\ UNCHANGED panel
       \/ repo.open /\ repo' = [repo EXCEPT !.local = "repo"] /\ UNCHANGED panel
       \/ repo.open /\ panel' = [panel EXCEPT !.path = repo.local]
                    /\ repo' = [repo EXCEPT !.open = FALSE]
    /\ UNCHANGED <<importer, jobs, ask, tools>>

-----------------------------------------------------------------------------
Answers(j) == \/ FileRead(j) \/ LinkAnswers(j) \/ DirectAnswers(j) \/ ImportAnswers(j)
              \/ SelectAnswers(j) \/ DirectoryAnswers(j)

ImportNext ==
    \/ EnterPage \/ onFileDrop \/ showGistInput \/ cancelGistInput \/ setGistUrl
    \/ handleGistImport \/ continueAsGuest \/ closePrompt \/ handleSelectFile
    \/ openDirectory \/ closeBrowser \/ handleClearFile \/ EditText \/ FileDropZone
    \/ handlePaste \/ DetectLanguage \/ SwitchLanguage \/ ToolbarChanges
    \/ handleSwapLanguages \/ handleTransform \/ undoLast \/ ToastUndo \/ ToastGone
    \/ RepositorySelector
    \/ \E j \in jobs : Answers(j)

ImportSpec == ImportInit /\ [][ImportNext]_importVars

-----------------------------------------------------------------------------
(* The loader of the import bar and the disabled file list stand for exactly *)
(* one import of this page, through prompts, folders that answer late, a     *)
(* direct fetch that falls back to the server, and pages left and entered:   *)
(* two imports never race for the input, and none ends unseen.               *)
Importing == {j \in jobs : j.kind \in {"import", "select"} /\ Mine(j)}
OneImport == Cardinality(Importing) = IF importer.loading THEN 1 ELSE 0

(* The file browser has an address to ask.                                   *)
BrowserHasUrl == importer.list => importer.url # ""
=============================================================================
