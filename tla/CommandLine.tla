---------------------------- MODULE CommandLine ----------------------------
(***************************************************************************)
(* anuvaad-cli: a shell runs one command after another.  A command reads   *)
(* its arguments, asks the service by requests it waits for in turn, and   *)
(* exits with 0 or 1, which is all a build that runs it as a gate sees.    *)
(***************************************************************************)
EXTENDS Naturals, Sequences, FiniteSets, SequencesExt

CONSTANTS Files,        \* of the directory, one of them named alone
          Scores,       \* confidence the service may answer, in thousandths
          Thresholds,   \* numbers given to --min-confidence, in per cent
          MaxCommands   \* bound on the commands of a shell

VARIABLES argv,      \* the arguments of the command
          machine,   \* the environment and the configuration file
          cli,       \* the process
          tested,    \* the confidence answered for each file by this command
          commands   \* how many were run

cliVars == <<argv, machine, cli, tested, commands>>

Default == 80

(* A flag without a number gives no number (NaN), which every comparison     *)
(* with is false; so does an answer without a score.                         *)
minConfidence == {{}, {Default}} \cup {{t} : t \in Thresholds}
answers == {{}} \cup {{s} : s \in Scores}
(* Math.round of a hundred times the score.                                  *)
Rounded(score) == (score + 5) \div 10
Below(scores) == \E m \in argv.min, s \in scores : Rounded(s) < m
Meets(scores) == \E m \in argv.min, s \in scores : Rounded(s) >= m

Plain == [command : {"help", "version", "status", "health", "unknown"}]
Login == [command : {"login"}, key : BOOLEAN]
OneRequest == [command : {"verify-receipt", "explain"}, ready : BOOLEAN]
Gated == [command : {"translate", "modernize"}, ready : BOOLEAN,
          verify : BOOLEAN, gate : BOOLEAN, min : minConfidence]
Arguments == Plain \cup Login \cup OneRequest \cup Gated

Process == [at |-> "started", files |-> {}, order |-> <<>>, asked |-> "nothing",
            passed |-> 0, processed |-> 0, exit |-> {}]

CliInit ==
    /\ argv = [command |-> "help"] /\ commands = 0 /\ tested = {}
    /\ machine \in [env : BOOLEAN, saved : BOOLEAN]
    /\ cli = [Process EXCEPT !.at = "ended", !.exit = {0}]

Command(names) == cli.at = "started" /\ argv.command \in names
Exit(n) == cli' = [cli EXCEPT !.at = "ended", !.exit = {n}]
Same == UNCHANGED <<argv, machine, tested, commands>>

(* The shell runs the next command once this one ended.                      *)
Shell ==
    /\ cli.at = "ended" /\ commands < MaxCommands /\ commands' = commands + 1
    /\ argv' \in Arguments /\ cli' = Process /\ tested' = {}
    /\ UNCHANGED machine

(* version, help and status always succeed; an argument that is missing, a   *)
(* file that is not there and an unknown command fail before anything is     *)
(* asked.                                                                    *)
printHelp == Command({"help", "version", "status"}) /\ Exit(0) /\ Same
Usage ==
    /\ \/ Command({"unknown"})
       \/ Command({"login"}) /\ ~argv.key
       \/ Command({"verify-receipt", "explain", "translate", "modernize"}) /\ ~argv.ready
    /\ Exit(1) /\ Same

saveConfig ==
    /\ Command({"login"}) /\ argv.key
    /\ \/ machine' = [machine EXCEPT !.saved = TRUE] /\ Exit(0)
       \/ UNCHANGED machine /\ Exit(1)
    /\ UNCHANGED <<argv, tested, commands>>

-----------------------------------------------------------------------------
(* A client needs a key, from the environment or else the file.              *)
createClient == machine.env \/ machine.saved
Request(path) ==
    [cli EXCEPT !.at = "asking", !.asked = path]
Asks(path) == cli' = IF createClient THEN Request(path) ELSE [cli EXCEPT !.at = "ended", !.exit = {1}]

Single ==
    /\ \/ Command({"health"}) /\ Asks("health")
       \/ Command({"verify-receipt"}) /\ argv.ready /\ Asks("verify")
       \/ Command({"explain"}) /\ argv.ready /\ Asks("explain")
    /\ Same
OneFile ==
    /\ Command({"translate"}) /\ argv.ready
    /\ \E f \in Files :
         cli' = IF createClient THEN [Request("translate") EXCEPT !.files = {f}, !.order = <<f>>]
                ELSE [cli EXCEPT !.at = "ended", !.exit = {1}]
    /\ Same

(* The files of the directory it knows the language of and can read; without *)
(* one there is nothing to do, gate or no gate.                              *)
getFilesRecursively ==
    /\ Command({"modernize"}) /\ argv.ready
    /\ \E found \in SUBSET Files :
         IF found = {} THEN Exit(0)
         ELSE cli' = IF createClient THEN [Request("analyze") EXCEPT !.files = found]
                     ELSE [cli EXCEPT !.at = "ended", !.exit = {1}]
    /\ Same

-----------------------------------------------------------------------------
(* A request is refused, lost, or aborted after a minute: the command fails. *)
Answer(path) == cli.at = "asking" /\ cli.asked = path
RequestFails == cli.at = "asking" /\ Exit(1) /\ Same
SingleAnswers ==
    /\ \/ (Answer("health") \/ Answer("explain")) /\ Exit(0)
       \/ Answer("verify") /\ (Exit(0) \/ Exit(1))
    /\ Same

(* The service orders the files it found something in.                       *)
analyzeRepository ==
    /\ Answer("analyze")
    /\ \E named \in SUBSET Files : \E order \in SetToSeqs(named) :
         cli' = [cli EXCEPT !.at = "walking", !.order = order]
    /\ Same

(* One file after another in that order; a path that is not among the files  *)
(* is passed over.                                                           *)
NextFile ==
    /\ cli.at = "walking" /\ cli.order # <<>>
    /\ cli' = IF Head(cli.order) \in cli.files THEN Request("translate")
              ELSE [cli EXCEPT !.order = Tail(@)]
    /\ Same

(* The next file, with the verdict on this one.                              *)
CountedIfPassed(ok) ==
    [cli EXCEPT !.at = "walking", !.order = Tail(@), !.asked = "nothing",
                !.processed = IF ok THEN @ + 1 ELSE @, !.passed = IF ok THEN @ + 1 ELSE @]
Counted(ok) == [cli EXCEPT !.at = "walking", !.order = Tail(@), !.asked = "nothing",
                           !.processed = @ + 1, !.passed = IF ok THEN @ + 1 ELSE @]
translateCode ==
    /\ Answer("translate")
    /\ IF argv.verify \/ argv.gate THEN cli' = Request("evaluate")
       ELSE IF argv.command = "translate" THEN Exit(0) ELSE cli' = Counted(TRUE)
    /\ Same

(* A single file fails the gate when its confidence is below the threshold;  *)
(* a file of many passes when its confidence reaches it.                     *)
evaluateEquivalence ==
    /\ Answer("evaluate")
    /\ \E scores \in answers :
         /\ tested' = tested \cup {[file |-> Head(cli.order), scores |-> scores]}
         /\ IF argv.command = "translate"
            THEN Exit(IF argv.gate /\ Below(scores) THEN 1 ELSE 0)
            ELSE cli' = Counted(Meets(scores))
    /\ UNCHANGED <<argv, machine, commands>>

Gate == argv.gate /\ cli.passed < cli.processed
Complete ==
    /\ cli.at = "walking" /\ cli.order = <<>>
    /\ Exit(IF Gate THEN 1 ELSE 0)
    /\ Same

CliNext == Shell \/ printHelp \/ Usage \/ saveConfig \/ Single \/ OneFile \/ getFilesRecursively
           \/ RequestFails \/ SingleAnswers \/ analyzeRepository \/ NextFile \/ translateCode
           \/ evaluateEquivalence \/ Complete
CliSpec == CliInit /\ [][CliNext]_cliVars

-----------------------------------------------------------------------------
Passed == argv.command \in {"translate", "modernize"} /\ argv.gate /\ cli.exit = {0}

(* A gate that was given a number never passes when the confidence it showed *)
(* for a file it evaluated, of however many, is less than that number.       *)
GateCountsEveryFile ==
    Passed => \A m \in argv.min, t \in tested : \A s \in t.scores : Rounded(s) >= m

(* What the help of --ci-gate says: it exits with 1 if the confidence is less *)
(* than the threshold.  It does not hold of the score before it is rounded.   *)
GateHolds == Passed => \A m \in argv.min, t \in tested : \A s \in t.scores : s >= 10 * m

(* A gate that was given a number passes only with a score of each file.  It  *)
(* does not hold: without one, a single file passes any gate.                 *)
GateNeedsAScore == Passed /\ argv.min # {} => \A t \in tested : t.scores # {}
=============================================================================
