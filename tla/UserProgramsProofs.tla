------------------------- MODULE UserProgramsProofs -------------------------
(* What holds of the programs of a user for any accounts, files, keys, names  *)
(* and workspaces, and any bound on how long they run.  Each program has an   *)
(* inductive invariant of its own, in the model of that program; that the     *)
(* programs share no state (OneProgram) carries it to the composition.        *)
EXTENDS UserPrograms, TranslationClientProofs, FiniteSetTheorems

(* Every variable of the programs, the surface that was opened first.        *)
allVars == <<surface, vars, outputVars, engineVars, importVars, authVars,
             dashVars, cliVars, editorVars, vaultVars>>

-----------------------------------------------------------------------------
(* A step is one of the program that runs, or leaves its variables alone.     *)
LEMMA OneProgram ==
  ASSUME [ProgramsNext]_allVars
  PROVE  /\ UNCHANGED surface
         /\ surface = "output" => Output!OutputNext \/ UNCHANGED outputVars
         /\ surface = "engine" => Engine!EngineNext \/ UNCHANGED engineVars
         /\ surface = "import" => Import!ImportNext \/ UNCHANGED importVars
         /\ surface = "auth" => Auth!AuthNext \/ UNCHANGED authVars
         /\ surface = "dashboard" => Dash!DashNext \/ UNCHANGED dashVars
         /\ surface = "command line" => Cli!CliNext \/ UNCHANGED cliVars
         /\ surface = "editor" => Editor!EditorNext \/ UNCHANGED editorVars
         /\ surface = "vault" => Vault!VaultNext \/ UNCHANGED vaultVars
BY DEF allVars, ProgramsNext, ClientStep, OutputStep, EngineStep, ImportStep, AuthStep,
       DashStep, CliStep, EditorStep, VaultStep

(* The translation page takes its own steps or none: what holds of it alone   *)
(* holds of it among the programs.                                            *)
LEMMA ClientPart == ProgramsSpec => Spec
<1>1. ProgramsInit => Init
  BY DEF ProgramsInit
<1>2. [ProgramsNext]_allVars => [Next]_vars
  BY DEF allVars, ProgramsNext, ClientStep, OutputStep, EngineStep, ImportStep, AuthStep,
     DashStep, CliStep, EditorStep, VaultStep
<1>. QED  BY <1>1, <1>2, PTL DEF ProgramsSpec, Spec, allVars

(* Consent, spinner and text of the translation page where the other programs *)
(* are checked beside it (useTranslationStream, TranslateFeature).            *)
COROLLARY ClientBesidePrograms ==
  ProgramsSpec => []SavedWithConsent /\ []SpinnerHasARun /\ []ShownTextIsReceived
BY ClientPart, ConsentHolds, SpinnerHolds, ShownTextHolds

-----------------------------------------------------------------------------
(* What the blocks of a translation are: the run they were written in, the   *)
(* list and the index, each with the code and the text of every block.       *)
Texts == [Output!Blocks -> [of : Output!Blocks, text : Nat]]
BlocksRecord ==
  [run : Nat, list : Texts, index : Texts, ids : Output!Ids, lines : BOOLEAN]

(* Blocks that share no id are their own, and were not edited alike.         *)
OwnBlocks(list) ==
  /\ \A i \in Output!Blocks : list[i].of = i
  /\ \A i, j \in Output!Blocks : i # j /\ list[i].text = list[j].text => list[i].text = 0

(* To be inductive, what the output promises needs that the original is what *)
(* the server sent, that an edit is later than every text in the list, and   *)
(* that every handler that writes the list leaves an index made of it.       *)
OutputInv ==
  /\ out \in BlocksRecord /\ orig \in BlocksRecord
  /\ results \in Nat /\ turns \in Nat
  /\ orig.list = Output!Received
  /\ \A i \in Output!Blocks : out.list[i].text <= turns
  /\ out.ids # "shared" => OwnBlocks(out.list) /\ out.index = out.list

(* What the server sent is unedited.                                         *)
LEMMA Fresh ==
  /\ Output!Received \in Texts /\ OwnBlocks(Output!Received)
  /\ \A i \in Output!Blocks : Output!Received[i].text = 0
BY DEF Output!Received, Texts, OwnBlocks

(* The record that a translation starts from, and that of a result.          *)
LEMMA NoRecord ==
  /\ Output!None \in BlocksRecord
  /\ Output!None.list = Output!Received /\ Output!None.index = Output!Received
BY Fresh DEF Output!None, BlocksRecord, Output!Ids

LEMMA NewRecord ==
  ASSUME NEW n \in Nat, NEW ids \in Output!Ids,
         NEW b, b = [Output!None EXCEPT !.run = n, !.ids = ids]
  PROVE  b \in BlocksRecord /\ b.list = Output!Received
BY NoRecord DEF BlocksRecord

(* The index is made of blocks of the list, and of each one where no two     *)
(* share an id (normalizeBlocks).                                             *)
LEMMA IndexIsMade ==
  ASSUME NEW b \in BlocksRecord
  PROVE  /\ Output!Indexed(b) \in BlocksRecord
         /\ Output!Indexed(b).list = b.list /\ Output!Indexed(b).ids = b.ids
         /\ b.ids # "shared" => Output!Indexed(b).index = b.list
<1>1. ASSUME NEW i \in Output!Blocks
      PROVE  /\ Output!LastWithId(b, i) \in Output!Blocks
             /\ b.ids # "shared" => Output!LastWithId(b, i) = i
  <2>1. \E j \in Output!Blocks :
          /\ Output!SameId(b, i, j)
          /\ \A k \in Output!Blocks : Output!SameId(b, i, k) => k <= j
    <3>1. CASE b.ids = "shared"
      <4>1. 2 \in Output!Blocks /\ \A k \in Output!Blocks : k <= 2
        BY DEF Output!Blocks
      <4>. QED  BY <3>1, <4>1 DEF Output!SameId
    <3>2. CASE b.ids # "shared"
      BY <1>1, <3>2 DEF Output!SameId, Output!Blocks
    <3>. QED  BY <3>1, <3>2
  <2>. DEFINE last == Output!LastWithId(b, i)
  <2>2. last \in Output!Blocks /\ Output!SameId(b, i, last)
    BY <2>1, Zenon DEF Output!LastWithId
  <2>. QED  BY <2>2 DEF Output!SameId
<1>2. Output!Indexed(b).index = [i \in Output!Blocks |-> b.list[Output!LastWithId(b, i)]]
  BY DEF Output!Indexed, BlocksRecord
<1>3. [i \in Output!Blocks |-> b.list[Output!LastWithId(b, i)]] \in Texts
  BY <1>1 DEF BlocksRecord, Texts
<1>4. b.ids # "shared" => Output!Indexed(b).index = b.list
  <2>1. b.list = [i \in Output!Blocks |-> b.list[i]]
    BY DEF BlocksRecord, Texts
  <2>. QED  BY <1>1, <1>2, <2>1
<1>. QED  BY <1>2, <1>3, <1>4 DEF Output!Indexed, BlocksRecord

(* What a stream delivers rebuilds the index from the list                   *)
(* (setOutputBlocks).                                                        *)
LEMMA SetBlocks ==
  ASSUME NEW b \in BlocksRecord, NEW found \in BOOLEAN, Output!setOutputBlocks(b, found)
  PROVE  /\ out' \in BlocksRecord /\ out'.list = b.list /\ out'.ids = b.ids
         /\ b.ids # "shared" => out'.index = out'.list
<1>. DEFINE c == [b EXCEPT !.lines = @ \/ found]
<1>1. c \in BlocksRecord /\ c.list = b.list /\ c.ids = b.ids
  BY DEF BlocksRecord
<1>2. out' = Output!Indexed(c)
  BY DEF Output!setOutputBlocks
<1>. HIDE DEF c
<1>. QED  BY <1>1, <1>2, IndexIsMade

(* The page opens without a translation.                                     *)
LEMMA OutputStart == Output!OutputInit => OutputInv
<1>. SUFFICES ASSUME Output!OutputInit PROVE OutputInv
  OBVIOUS
<1>1. out = Output!None /\ orig = Output!None /\ results = 0 /\ turns = 0
  BY DEF Output!OutputInit
<1>. QED  BY <1>1, Fresh, NoRecord DEF OutputInv

(* A new text of a block leaves the code it explains, and the other blocks.  *)
WithText(list, i, n) == [list EXCEPT ![i].text = n]
LEMMA NewText ==
  ASSUME NEW list \in Texts, NEW i \in Output!Blocks, NEW n \in Nat
  PROVE  /\ WithText(list, i, n) \in Texts
         /\ \A j \in Output!Blocks :
              /\ WithText(list, i, n)[j].of = list[j].of
              /\ WithText(list, i, n)[j].text = IF j = i THEN n ELSE list[j].text
<1>. DEFINE t == [list[i] EXCEPT !.text = n]
<1>1. list[i] \in [of : Output!Blocks, text : Nat]
  BY DEF Texts
<1>2. t \in [of : Output!Blocks, text : Nat] /\ t.of = list[i].of /\ t.text = n
  BY <1>1
<1>3. WithText(list, i, n) = [list EXCEPT ![i] = t]
  BY DEF WithText
<1>. HIDE DEF t
<1>. QED  BY <1>2, <1>3 DEF Texts

(* Blocks of the same codes and texts are the same.                          *)
LEMMA SameTexts ==
  ASSUME NEW k \in Texts, NEW l \in Texts,
         \A j \in Output!Blocks : k[j].of = l[j].of /\ k[j].text = l[j].text
  PROVE  k = l
<1>1. \A j \in Output!Blocks : k[j] \in [of : Output!Blocks, text : Nat]
                              /\ l[j] \in [of : Output!Blocks, text : Nat]
  BY DEF Texts
<1>2. \A j \in Output!Blocks : k[j] = l[j]
  BY <1>1
<1>. QED  BY <1>2 DEF Texts

(* A saved edit changes one text, but where ids are shared.                  *)
EditOf(i, n) == [Output!updateBlockEnglish(out, i, n) EXCEPT !.list[i].text = n]
LEMMA Edited ==
  ASSUME OutputInv, NEW i \in Output!Blocks, NEW n \in Nat, NEW b, b = EditOf(i, n)
  PROVE  /\ b \in BlocksRecord /\ b.ids = out.ids
         /\ \A j \in Output!Blocks : b.list[j].text \in {n, out.list[j].text}
         /\ out.ids # "shared" => b.list = WithText(out.list, i, n)
<1>. DEFINE updated == [out.index[i] EXCEPT !.text = n]
            In(blocks) == [j \in Output!Blocks |-> IF Output!SameId(out, i, j) THEN updated
                                                                         ELSE blocks[j]]
            middle == IF out.ids = "none" THEN out.list ELSE In(out.list)
<1>0. out \in BlocksRecord /\ out.list \in Texts /\ out.index \in Texts
  BY DEF OutputInv, BlocksRecord
<1>1. updated \in [of : Output!Blocks, text : Nat] /\ updated.text = n
      /\ updated.of = out.index[i].of
  BY <1>0 DEF Texts
<1>2. In(out.list) \in Texts /\ In(out.index) \in Texts /\ middle \in Texts
  BY <1>0, <1>1 DEF Texts
<1>3. Output!updateBlockEnglish(out, i, n) = [out EXCEPT !.index = In(out.index), !.list = middle]
  BY <1>0 DEF Output!updateBlockEnglish, BlocksRecord
<1>4. \A j \in Output!Blocks : middle[j] = updated \/ middle[j] = out.list[j]
  OBVIOUS
<1>5. out.ids # "shared" => \A j \in Output!Blocks : j # i => middle[j] = out.list[j]
  BY DEF Output!SameId
<1>6. out.ids # "shared" => middle[i].of = out.list[i].of
  BY <1>0, <1>1 DEF OutputInv
<1>. HIDE DEF updated, In, middle
<1>. DEFINE edited == WithText(middle, i, n)
<1>7. /\ edited \in Texts
      /\ \A j \in Output!Blocks : /\ edited[j].of = middle[j].of
                                  /\ edited[j].text = IF j = i THEN n ELSE middle[j].text
  BY <1>2, NewText
<1>8. b = [out EXCEPT !.index = In(out.index), !.list = edited]
  BY <1>0, <1>3 DEF BlocksRecord, EditOf, WithText
<1>. HIDE DEF edited
<1>9. b \in BlocksRecord /\ b.ids = out.ids /\ b.list = edited
  BY <1>0, <1>2, <1>7, <1>8 DEF BlocksRecord
<1>10. \A j \in Output!Blocks : b.list[j].text \in {n, out.list[j].text}
  BY <1>1, <1>4, <1>7, <1>9
<1>11. ASSUME out.ids # "shared"
       PROVE  b.list = WithText(out.list, i, n)
  <2>1. PICK other : other = WithText(out.list, i, n)
    OBVIOUS
  <2>2. /\ other \in Texts
        /\ \A j \in Output!Blocks : /\ other[j].of = out.list[j].of
                                    /\ other[j].text = IF j = i THEN n ELSE out.list[j].text
    BY <1>0, <2>1, NewText
  <2>3. \A j \in Output!Blocks : edited[j].of = other[j].of /\ edited[j].text = other[j].text
    BY <1>5, <1>6, <1>7, <1>11, <2>2
  <2>. QED  BY <1>7, <1>9, <2>1, <2>2, <2>3, SameTexts
<1>. QED  BY <1>9, <1>10, <1>11

(* Every handler of the output keeps the invariant, one step per handler     *)
(* that touches the blocks.                                                  *)
LEMMA OutputSteps == OutputInv /\ Output!OutputNext => OutputInv'
<1>. SUFFICES ASSUME OutputInv, Output!OutputNext PROVE OutputInv'
  OBVIOUS
<1>0. out \in BlocksRecord /\ orig \in BlocksRecord /\ results \in Nat /\ turns \in Nat
  BY DEF OutputInv
<1>1. CASE Output!RunBegins
  <2>1. out' = Output!None /\ UNCHANGED <<orig, results, turns>>
    BY <1>1 DEF Output!RunBegins
  <2>. QED  BY <1>0, <2>1, Fresh, NoRecord DEF OutputInv
<1>2. ASSUME NEW found \in BOOLEAN, NEW b \in BlocksRecord, b.list = Output!Received,
             Output!setOutputBlocks(b, found), orig' = b, results' \in Nat, turns' = turns
      PROVE  OutputInv'
  BY <1>0, <1>2, Fresh, SetBlocks DEF OutputInv
<1>3. CASE Output!RunEnds
  <2>1. ASSUME NEW found \in BOOLEAN, NEW ids \in Output!Ids,
               NEW b, b = [Output!None EXCEPT !.run = results + 1, !.ids = ids],
               Output!setOutputBlocks(b, found), orig' = b,
               results' = results + 1, UNCHANGED turns
        PROVE  OutputInv'
    <3>1. results + 1 \in Nat
      BY <1>0
    <3>2. b \in BlocksRecord /\ b.list = Output!Received
      BY <2>1, <3>1, NewRecord
    <3>. QED  BY <1>2, <2>1, <3>1, <3>2
  <2>2. CASE UNCHANGED <<results, out, orig, turns>>
    BY <2>2 DEF OutputInv
  <2>. QED  BY <1>3, <2>1, <2>2 DEF Output!RunEnds
<1>4. ASSUME NEW i \in Output!Blocks, Output!onSave(i) PROVE OutputInv'
  <2>1. turns' = turns + 1 /\ turns' \in Nat /\ UNCHANGED <<orig, results>>
    BY <1>0, <1>4 DEF Output!onSave, Output!Turn
  <2>2. PICK b : b = EditOf(i, turns')
    OBVIOUS
  <2>3. /\ b \in BlocksRecord /\ b.ids = out.ids
        /\ \A j \in Output!Blocks : b.list[j].text \in {turns', out.list[j].text}
        /\ out.ids # "shared" => b.list = WithText(out.list, i, turns')
    BY <2>1, <2>2, Edited
  <2>4. PICK found \in BOOLEAN : Output!setOutputBlocks(b, found)
    BY <1>4, <2>2 DEF Output!onSave, EditOf
  <2>5. \A j \in Output!Blocks : out'.list[j].text <= turns'
    <3>1. out'.list = b.list
      BY <2>3, <2>4, SetBlocks
    <3>2. \A j \in Output!Blocks : out.list[j].text \in Nat /\ out.list[j].text <= turns
      BY <1>0 DEF OutputInv, BlocksRecord, Texts
    <3>. QED  BY <1>0, <2>1, <2>3, <3>1, <3>2
  <2>6. out.ids # "shared" => OwnBlocks(b.list)
    <3>1. SUFFICES ASSUME out.ids # "shared" PROVE OwnBlocks(b.list)
      OBVIOUS
    <3>2. \A j \in Output!Blocks : /\ b.list[j].of = out.list[j].of
                                  /\ b.list[j].text = IF j = i THEN turns' ELSE out.list[j].text
      <4>1. out.list \in Texts
        BY <1>0 DEF BlocksRecord
      <4>2. PICK n \in Nat : n = turns'
        BY <2>1
      <4>3. b.list = WithText(out.list, i, n)
        BY <2>3, <3>1, <4>2
      <4>. QED  BY <4>1, <4>2, <4>3, NewText
    <3>3. \A j \in Output!Blocks : out.list[j].text < turns' /\ out.list[j].text \in Nat
      BY <1>0, <2>1 DEF OutputInv, BlocksRecord, Texts
    <3>. QED  BY <2>1, <3>1, <3>2, <3>3 DEF OutputInv, OwnBlocks
  <2>. QED  BY <1>0, <2>1, <2>3, <2>4, <2>5, <2>6, SetBlocks DEF OutputInv
<1>5. CASE Output!ResetEdits
  <2>1. PICK found \in BOOLEAN : Output!setOutputBlocks(orig, found)
    BY <1>5 DEF Output!ResetEdits
  <2>. QED  BY <1>0, <1>2, <1>5, <2>1 DEF Output!ResetEdits, OutputInv
<1>6. CASE Output!SyncSucceeds
  <2>0. PICK found \in BOOLEAN, ids \in Output!Ids :
          LET b == [Output!None EXCEPT !.run = results + 1, !.ids = ids] IN
          /\ Output!setOutputBlocks(b, found) /\ orig' = b
          /\ results' = b.run /\ UNCHANGED turns
    BY <1>6 DEF Output!SyncSucceeds
  <2>1. PICK b : /\ b = [Output!None EXCEPT !.run = results + 1, !.ids = ids]
                 /\ Output!setOutputBlocks(b, found) /\ orig' = b
                 /\ results' = b.run /\ UNCHANGED turns
    BY <2>0
  <2>2. b \in BlocksRecord /\ b.list = Output!Received
    <3>1. results + 1 \in Nat
      BY <1>0
    <3>. QED  BY <2>1, <3>1, NewRecord
  <2>3. b.run \in Nat
    BY <2>2 DEF BlocksRecord
  <2>. QED  BY <1>2, <2>1, <2>2, <2>3
<1>7. CASE Output!ReloadOutput
  <2>1. out' = Output!Indexed(out) /\ turns' = turns + 1 /\ UNCHANGED <<orig, results>>
    BY <1>7 DEF Output!ReloadOutput, Output!Turn
  <2>2. /\ out' \in BlocksRecord /\ out'.list = out.list /\ out'.ids = out.ids
        /\ out.ids # "shared" => out'.index = out.list
    BY <1>0, <2>1, IndexIsMade
  <2>3. \A i \in Output!Blocks : out'.list[i].text <= turns'
    BY <1>0, <2>1, <2>2 DEF OutputInv, BlocksRecord, Texts
  <2>. QED  BY <1>0, <2>1, <2>2, <2>3 DEF OutputInv
<1>8. ASSUME UNCHANGED <<out, orig, results>>, UNCHANGED turns \/ Output!Turn PROVE OutputInv'
  <2>1. turns' \in Nat /\ turns <= turns'
    BY <1>0, <1>8 DEF Output!Turn
  <2>2. \A i \in Output!Blocks : out'.list[i].text <= turns'
    BY <1>0, <1>8, <2>1 DEF OutputInv, BlocksRecord, Texts
  <2>. QED  BY <1>8, <2>1, <2>2 DEF OutputInv
<1>9. CASE \/ Output!handleSyncEnglishToCode \/ Output!ContinueAsGuest \/ Output!ClosePrompt
           \/ Output!SyncFails \/ Output!ResetReference \/ Output!setViewType
           \/ Output!handleInjectDocstrings \/ Output!handleUndoDocstrings
           \/ Output!setAccount \/ Output!setSaveRunToHistory \/ Output!handleShare
           \/ Output!makeSharePublic \/ Output!ShareAnswers \/ Output!closeShareDialog
  BY <1>8, <1>9
  DEF Output!handleSyncEnglishToCode, Output!ContinueAsGuest, Output!ClosePrompt,
      Output!SyncFails, Output!ResetReference, Output!setViewType,
      Output!handleInjectDocstrings, Output!handleUndoDocstrings, Output!setAccount,
      Output!setSaveRunToHistory, Output!handleShare, Output!makeSharePublic,
      Output!ShareAnswers, Output!closeShareDialog
<1>. QED  BY <1>1, <1>3, <1>4, <1>5, <1>6, <1>7, <1>9 DEF Output!OutputNext

(* As long as the output is what the user has open, its invariant holds.     *)
LEMMA OutputHolds == ProgramsSpec => [](surface = "output" => OutputInv)
<1>. DEFINE Inv == surface = "output" => OutputInv
<1>1. ProgramsInit => Inv
  BY OutputStart DEF ProgramsInit
<1>2. Inv /\ [ProgramsNext]_allVars => Inv'
  <2>1. UNCHANGED outputVars /\ OutputInv => OutputInv'
    BY DEF outputVars, OutputInv
  <2>. QED  BY <2>1, OneProgram, OutputSteps
<1>. QED  BY <1>1, <1>2, PTL DEF ProgramsSpec, allVars

(* Unless two blocks share an id, after any order of runs, edits, docstrings, *)
(* undos, syncs and reloads every block keeps its own code, no edit lands in  *)
(* two, and what the export bar reads in the index is what the panel shows    *)
(* (updateBlockEnglish, setOutputBlocks and normalizeBlocks).                 *)
THEOREM BlocksAgree == ProgramsSpec => []BlocksStayApart
<1>1. OutputInv => Output!BlocksStayApart
  BY DEF OutputInv, OwnBlocks, Output!BlocksStayApart
<1>2. (surface = "output" => OutputInv) => BlocksStayApart
  BY <1>1 DEF BlocksStayApart
<1>. QED  BY <1>2, OutputHolds, PTL

-----------------------------------------------------------------------------
(* A function component is a record with these fields.                       *)
Shaped(f) ==
  f = [needed |-> f.needed, called |-> f.called, decls |-> f.decls, leftover |-> f.leftover,
       memo |-> f.memo, imported |-> f.imported, taken |-> f.taken, state |-> f.state]
(* The rules, in their order.                                                *)
Stages == {"types", "lifecycle", "state", "bindings", "rewrite", "imports", "validate", "done"}

(* Once the imports were written, what they bind and what the file had taken *)
(* before covers what was needed, which covers what was called up to then.   *)
EngineInv ==
  /\ stage \in Stages
  /\ Shaped(fn)
  /\ fn.called \subseteq fn.needed
  /\ stage \in {"validate", "done"} => fn.needed \subseteq fn.imported \cup fn.taken
  /\ fn.state = "success" => stage = "done"

(* What a rule of the life cycle adds calls no hook that it does not need.   *)
Sound(p) == p.called \subseteq p.needed

(* So it is with what each life-cycle method becomes.                        *)
LEMMA SoundParts ==
  /\ Sound(Engine!Nothing) /\ Sound(Engine!snapshot) /\ Sound(Engine!shouldUpdate)
  /\ \A r \in SUBSET StateKeys : Sound(Engine!derivedState(r))
  /\ \A b \in BOOLEAN : Sound(Engine!mountAndUnmount(b)) /\ Sound(Engine!didUpdate(b))
BY DEF Sound, Engine!Nothing, Engine!snapshot, Engine!shouldUpdate, Engine!derivedState,
       Engine!mountAndUnmount, Engine!didUpdate

(* The engine waits for a class.                                             *)
LEMMA EngineStart == Engine!EngineInit => EngineInv
BY DEF Engine!EngineInit, EngineInv, Shaped, Stages

(* A rule that adds hooks and declarations keeps the rest of the function.   *)
LEMMA WithShape ==
  ASSUME Shaped(fn), NEW hooks, NEW decls
  PROVE  /\ Shaped(Engine!With(hooks, decls))
         /\ Engine!With(hooks, decls).state = fn.state
         /\ Engine!With(hooks, decls).needed = fn.needed \cup hooks
         /\ Engine!With(hooks, decls).called = fn.called \cup hooks
<1>. SUFFICES ASSUME NEW f, f = Engine!With(hooks, decls)
              PROVE  /\ Shaped(f) /\ f.state = fn.state
                     /\ f.needed = fn.needed \cup hooks /\ f.called = fn.called \cup hooks
  BY Zenon
<1>. QED  BY DEF Shaped, Engine!With

(* A rule that only adds.                                                     *)
LEMMA RuleAdds ==
  ASSUME EngineInv, NEW needed, NEW called,
         stage \notin {"validate", "done"}, stage' \in Stages \ {"validate", "done"},
         Shaped(fn)', fn'.state = fn.state,
         fn'.needed = fn.needed \cup needed, fn'.called = fn.called \cup called,
         called \subseteq needed
  PROVE  EngineInv'
BY DEF EngineInv

(* Every rule keeps the invariant, one step per rule.                        *)
LEMMA EngineSteps == EngineInv /\ Engine!EngineNext => EngineInv'
<1>. SUFFICES ASSUME EngineInv, Engine!EngineNext PROVE EngineInv'
  OBVIOUS
<1>0. Shaped(fn)
  BY DEF EngineInv
<1>1. CASE Engine!processTypesAndStatics
  <2>1. PICK hooks, decls :
          \/ /\ stage' = "lifecycle"
             /\ fn' = [fn EXCEPT !.needed = hooks, !.called = hooks, !.decls = decls]
          \/ stage' = "imports" /\ UNCHANGED fn
    BY <1>1 DEF Engine!processTypesAndStatics
  <2>2. CASE UNCHANGED fn /\ stage' = "imports"
    BY <1>1, <2>2 DEF EngineInv, Stages, Engine!processTypesAndStatics
  <2>3. CASE /\ stage' = "lifecycle"
             /\ fn' = [fn EXCEPT !.needed = hooks, !.called = hooks, !.decls = decls]
    <3>1. Shaped(fn)' /\ fn'.state = fn.state /\ fn'.called = fn'.needed
      BY <1>0, <2>3 DEF Shaped
    <3>. QED  BY <1>1, <2>3, <3>1 DEF EngineInv, Stages, Engine!processTypesAndStatics
  <2>. QED  BY <2>1, <2>2, <2>3
<1>2. CASE Engine!processLifecycleMethods
  <2>1. PICK derived \in {Engine!Nothing} \cup {Engine!derivedState(r) : r \in SUBSET StateKeys},
             snap \in {Engine!Nothing, Engine!snapshot},
             mount \in {Engine!Nothing, Engine!mountAndUnmount(TRUE), Engine!mountAndUnmount(FALSE)},
             update \in {Engine!Nothing} \cup {Engine!didUpdate(p) : p \in BOOLEAN},
             should \in {Engine!Nothing, Engine!shouldUpdate} :
          Engine!AddParts({derived, snap, mount, update, should})
    BY <1>2, Zenon DEF Engine!processLifecycleMethods
  <2>. DEFINE parts == {derived, snap, mount, update, should}
              needed == UNION {p.needed : p \in parts}
              called == UNION {p.called : p \in parts}
              decls == UNION {p.decls : p \in parts}
  <2>2. \A p \in parts : Sound(p)
    BY SoundParts
  <2>3. fn' = [fn EXCEPT !.needed = @ \cup needed, !.called = @ \cup called,
                         !.decls = @ \cup decls, !.memo = \E p \in parts : p.memo]
    BY <2>1, Zenon DEF Engine!AddParts
  <2>4. called \subseteq needed
    BY <2>2 DEF Sound
  <2>. HIDE DEF parts, needed, called, decls
  <2>5. /\ Shaped(fn)' /\ fn'.state = fn.state /\ fn'.needed = fn.needed \cup needed
        /\ fn'.called = fn.called \cup called
    BY <1>0, <2>3 DEF Shaped
  <2>6. stage \notin {"validate", "done"} /\ stage' \in Stages \ {"validate", "done"}
    BY <1>2 DEF Engine!processLifecycleMethods, Stages
  <2>. QED  BY <2>4, <2>5, <2>6, RuleAdds
<1>3. CASE Engine!extractState
  <2>0. PICK field \in Engine!StateSources, constructor \in Engine!StateSources, bare \in BOOLEAN :
          Engine!DeclareState(Engine!extractStateDefinitions(field, constructor) \ cls.derived, bare)
    BY <1>3, Zenon DEF Engine!extractState
  <2>. DEFINE own == Engine!extractStateDefinitions(field, constructor) \ cls.derived
              hooks == IF own = {} THEN {} ELSE {"useState"}
              f == Engine!With(hooks, Engine!createStateHookDeclarations(own))
  <2>1. PICK left : fn' = [f EXCEPT !.leftover = left]
    BY <2>0 DEF Engine!DeclareState
  <2>2. /\ Shaped(fn)' /\ fn'.state = fn.state /\ fn'.needed = fn.needed \cup hooks
        /\ fn'.called = fn.called \cup hooks
    <3>1. /\ Shaped(f) /\ f.state = fn.state /\ f.needed = fn.needed \cup hooks
          /\ f.called = fn.called \cup hooks
      BY <1>0, WithShape
    <3>. HIDE DEF own, hooks, f
    <3>. QED  BY <2>1, <3>1 DEF Shaped
  <2>. HIDE DEF own, hooks, f
  <2>3. stage \notin {"validate", "done"} /\ stage' \in Stages \ {"validate", "done"}
    BY <1>3 DEF Engine!extractState, Stages
  <2>. QED  BY <2>2, <2>3, RuleAdds
<1>4. CASE Engine!extractBindingAndRefs
  <2>0. PICK name \in Engine!Members, field \in {"none", "createRef", "value", "method"},
             assigned \in {"none", "createRef", "value", "bind"} :
          Engine!Bind(Engine!constructorBinding(Engine!fieldBinding(name, field), name, assigned))
    BY <1>4, Zenon DEF Engine!extractBindingAndRefs
  <2>. DEFINE b == Engine!constructorBinding(Engine!fieldBinding(name, field), name, assigned)
              hooks == IF Engine!RefsOf(b.decls) = {} THEN {} ELSE {"useRef"}
  <2>1. fn' = Engine!With(hooks, b.decls)
    BY <2>0, Zenon DEF Engine!Bind
  <2>. HIDE DEF b, hooks
  <2>2. /\ Shaped(fn)' /\ fn'.state = fn.state /\ fn'.needed = fn.needed \cup hooks
        /\ fn'.called = fn.called \cup hooks
    BY <1>0, <2>1, WithShape
  <2>3. stage \notin {"validate", "done"} /\ stage' \in Stages \ {"validate", "done"}
    BY <1>4 DEF Engine!extractBindingAndRefs, Stages
  <2>. QED  BY <2>2, <2>3, RuleAdds
<1>5. ASSUME NEW hook, NEW decls, stage = "rewrite", UNCHANGED stage,
             fn' = Engine!With({hook}, decls)
      PROVE  EngineInv'
  <2>1. /\ Shaped(fn)' /\ fn'.state = fn.state /\ fn'.needed = fn.needed \cup {hook}
        /\ fn'.called = fn.called \cup {hook}
    BY <1>0, <1>5, WithShape
  <2>. QED  BY <1>5, <2>1, RuleAdds DEF Stages
<1>6. ASSUME NEW left, stage = "rewrite", UNCHANGED stage,
             fn' = fn \/ fn' = [fn EXCEPT !.leftover = left]
      PROVE  EngineInv'
  <2>1. /\ Shaped(fn)' /\ fn'.state = fn.state /\ fn'.needed = fn.needed
        /\ fn'.called = fn.called
    BY <1>0, <1>6 DEF Shaped
  <2>. QED  BY <1>6, <2>1 DEF EngineInv
<1>7. CASE Engine!JSXAttribute
  BY <1>5, <1>6, <1>7 DEF Engine!JSXAttribute, Engine!Rewrites
<1>8. CASE Engine!JSXElement
  BY <1>5, <1>8 DEF Engine!JSXElement, Engine!Rewrites
<1>9. CASE Engine!forceUpdate
  BY <1>5, <1>9 DEF Engine!forceUpdate, Engine!Rewrites
<1>10. CASE Engine!VariableDeclaration \/ Engine!transformSetStateCallNode \/ Engine!MemberExpression
  <2>1. \E left : fn' = fn \/ fn' = [fn EXCEPT !.leftover = left]
    BY <1>10 DEF Engine!VariableDeclaration, Engine!transformSetStateCallNode, Engine!MemberExpression
  <2>2. stage = "rewrite" /\ UNCHANGED stage
    BY <1>10 DEF Engine!VariableDeclaration, Engine!transformSetStateCallNode,
                 Engine!MemberExpression, Engine!Rewrites
  <2>. QED  BY <1>6, <2>1, <2>2
<1>11. CASE Engine!assemble
  <2>1. PICK needed : /\ Shaped(fn)' /\ fn'.state = fn.state /\ fn'.needed = fn.needed \cup needed
                     /\ fn'.called = fn.called \cup {}
    <3>1. CASE UNCHANGED fn
      BY <1>0, <3>1
    <3>2. CASE fn' = [fn EXCEPT !.needed = @ \cup {"memo"}]
      BY <1>0, <3>2 DEF Shaped
    <3>. QED  BY <1>11, <3>1, <3>2 DEF Engine!assemble
  <2>2. stage = "rewrite" /\ stage' = "imports"
    BY <1>11 DEF Engine!assemble
  <2>. QED  BY <2>1, <2>2, RuleAdds DEF Stages
<1>12. CASE Engine!updateReactImports
  <2>1. /\ Shaped(fn)' /\ fn'.needed = fn.needed /\ fn'.called = fn.called
        /\ fn'.state = fn.state /\ fn.needed \subseteq fn'.imported \cup fn'.taken
    <3>1. ASSUME NEW source, NEW taken,
                 fn' = [fn EXCEPT !.taken = taken,
                          !.imported = (fn.needed \ taken) \cup
                                       (IF source = "default" THEN {"React"} ELSE {})]
          PROVE  /\ Shaped(fn)' /\ fn'.needed = fn.needed /\ fn'.called = fn.called
                 /\ fn'.state = fn.state /\ fn.needed \subseteq fn'.imported \cup fn'.taken
      BY <1>0, <3>1 DEF Shaped
    <3>2. CASE fn' = [fn EXCEPT !.imported = fn.needed \cup {"React"}]
      BY <1>0, <3>2 DEF Shaped
    <3>3. CASE fn' = fn /\ fn.needed = {}
      BY <1>0, <3>3
    <3>. QED  BY <1>12, <3>1, <3>2, <3>3 DEF Engine!updateReactImports
  <2>. QED  BY <1>12, <2>1 DEF EngineInv, Stages, Engine!updateReactImports
<1>13. CASE Engine!modernizeReactCode
  <2>1. Shaped(fn)' /\ fn'.needed = fn.needed /\ fn'.called = fn.called
        /\ fn'.imported = fn.imported /\ fn'.taken = fn.taken
    BY <1>0, <1>13 DEF Shaped, Engine!modernizeReactCode
  <2>. QED  BY <1>13, <2>1 DEF EngineInv, Stages, Engine!modernizeReactCode
<1>. QED
  BY <1>1, <1>2, <1>3, <1>4, <1>7, <1>8, <1>9, <1>10, <1>11, <1>12, <1>13 DEF Engine!EngineNext

LEMMA EngineHolds == ProgramsSpec => [](surface = "engine" => EngineInv)
<1>. DEFINE Inv == surface = "engine" => EngineInv
<1>1. ProgramsInit => Inv
  BY EngineStart DEF ProgramsInit
<1>2. Inv /\ [ProgramsNext]_allVars => Inv'
  <2>1. UNCHANGED engineVars /\ EngineInv => EngineInv'
    BY DEF engineVars, EngineInv, Shaped
  <2>. QED  BY <2>1, OneProgram, EngineSteps
<1>. QED  BY <1>1, <1>2, PTL DEF ProgramsSpec, allVars

(* A function that is answered as a success imports every hook it calls, but  *)
(* for those that the file had imported under another name or as a type only, *)
(* whichever rules added it (updateReactImports).                             *)
THEOREM HooksFollowTheirUse == ProgramsSpec => []HooksAreImported
<1>1. (surface = "engine" => EngineInv) => HooksAreImported
  BY DEF HooksAreImported, EngineInv, Engine!HooksAreImported
<1>. QED  BY <1>1, EngineHolds, PTL

-----------------------------------------------------------------------------
(* The panel is a record with these fields.                                  *)
PanelShaped(p) ==
  p = [mode |-> p.mode, input |-> p.input, lang |-> p.lang, target |-> p.target,
       detected |-> p.detected, uploaded |-> p.uploaded, gist |-> p.gist, path |-> p.path,
       typing |-> p.typing, mount |-> p.mount]
Links == Import!Urls \cup {""}
(* The import bar, with the link that is typed in it.                        *)
Bars == [shown : BOOLEAN, url : Links, loading : BOOLEAN, list : BOOLEAN]
(* The dialogue that asks for an account, with the link it keeps.            *)
Prompts == [open : BOOLEAN, url : Links, guest : BOOLEAN]
ImportJobs ==
  [kind : {"read", "link", "import", "select", "open"}, url : Links \cup {"file"},
   mount : Nat, id : Nat]

(* The property alone is not inductive: the dialogue that asks for an        *)
(* account must not be open while an import runs, and a page that was left   *)
(* must not be one whose import comes back, which is why the mounts of the   *)
(* jobs are those of pages of before.                                        *)
ImportInv ==
  /\ steps \in Nat
  /\ PanelShaped(panel) /\ panel.mount \in 0..steps
  /\ importer \in Bars /\ ask \in Prompts
  /\ \A j \in jobs : j \in ImportJobs /\ j.mount <= steps
  /\ ask.open => ~importer.loading
  /\ importer.loading => \E j \in jobs : Import!Importing = {j}
  /\ ~importer.loading => Import!Importing = {}

(* The page opens with no import under way.                                  *)
LEMMA ImportStart == Import!ImportInit => ImportInv
<1>. SUFFICES ASSUME Import!ImportInit PROVE ImportInv
  OBVIOUS
<1>1. PanelShaped(panel) /\ panel.mount = steps /\ steps = 0
  BY DEF Import!ImportInit, Import!NewPanel, PanelShaped
<1>2. importer \in Bars /\ ~importer.loading
  BY DEF Import!ImportInit, Import!NoBar, Bars, Links
<1>4. ask \in Prompts /\ ~ask.open
  <2>1. PICK guest \in BOOLEAN : ask = [open |-> FALSE, url |-> "", guest |-> guest]
    BY DEF Import!ImportInit
  <2>. QED  BY <2>1 DEF Prompts, Links
<1>3. jobs = {} /\ Import!Importing = {}
  BY DEF Import!ImportInit, Import!Importing
<1>. QED  BY <1>1, <1>2, <1>3, <1>4 DEF ImportInv

(* A step that keeps the imports of this page and the loader.                 *)
LEMMA ImportsKept ==
  ASSUME ImportInv, steps' \in {steps, steps + 1}, PanelShaped(panel)',
         panel'.mount = panel.mount,
         importer' \in Bars, importer'.loading = importer.loading,
         ask' \in Prompts, ask'.open => ask.open \/ ~importer.loading,
         \A j \in jobs' : j \in jobs \/ (j \in ImportJobs /\ j.mount = panel.mount),
         Import!Importing' = Import!Importing
  PROVE  ImportInv'
<1>1. steps' \in Nat /\ steps <= steps' /\ panel'.mount \in 0..steps' /\ panel.mount \in Nat
  BY DEF ImportInv
<1>2. \A j \in jobs' : j \in ImportJobs /\ j.mount <= steps'
  BY <1>1 DEF ImportInv, ImportJobs
<1>3. importer.loading => \E j \in jobs' : Import!Importing' = {j}
  BY DEF ImportInv, Import!Importing
<1>. QED  BY <1>1, <1>2, <1>3 DEF ImportInv

(* An import begins where none is under way.                                  *)
LEMMA ImportBegins ==
  ASSUME ImportInv, ~importer.loading, NEW kind \in {"import", "select"}, NEW url \in Links,
         Import!startImport(kind, url), panel' = panel, ask' \in Prompts, ~ask'.open
  PROVE  ImportInv'
<1>1. steps' = steps + 1 /\ steps' \in Nat /\ panel.mount \in 0..steps'
  BY DEF ImportInv, Import!startImport, Import!Step
<1>. DEFINE new == Import!Job(kind, url)
<1>2. new \in ImportJobs /\ new.kind = kind /\ new.mount = panel.mount
  BY <1>1 DEF ImportInv, ImportJobs, Import!Job
<1>. HIDE DEF new
<1>3. jobs' = jobs \cup {new} /\ importer' \in Bars /\ importer'.loading
  BY DEF new, ImportInv, Import!startImport, Bars
<1>4. Import!Importing' = {new}
  BY <1>2, <1>3 DEF ImportInv, Import!Importing, Import!Mine
<1>5. \A j \in jobs' : j \in ImportJobs /\ j.mount <= steps'
  BY <1>1, <1>2, <1>3 DEF ImportInv, ImportJobs
<1>. QED  BY <1>1, <1>3, <1>4, <1>5 DEF ImportInv

(* An import that ends, with the loader if it is of this page.                *)
LEMMA ImportEnds ==
  ASSUME ImportInv, NEW j \in jobs, Import!Gone(j), NEW bar \in Bars, Import!Done(j, bar),
         bar.loading = importer.loading \/ ~bar.loading, j.kind \in {"import", "select"},
         PanelShaped(panel)', panel'.mount = panel.mount, UNCHANGED <<ask, steps>>
  PROVE  ImportInv'
<1>1. CASE Import!Mine(j)
  <2>1. Import!Importing = {j} /\ importer.loading
    BY <1>1 DEF ImportInv, Import!Importing
  <2>2. Import!Importing' = {}
    BY <2>1 DEF Import!Importing, Import!Mine, Import!Gone
  <2>3. importer' \in Bars /\ ~importer'.loading
    BY <1>1 DEF Import!Done, Bars
  <2>. QED  BY <2>2, <2>3 DEF ImportInv, Import!Gone
<1>2. CASE ~Import!Mine(j)
  <2>1. Import!Importing' = Import!Importing
    BY <1>2 DEF Import!Importing, Import!Mine, Import!Gone
  <2>2. importer' = importer
    BY <1>2 DEF Import!Done
  <2>. QED  BY <2>1, <2>2, ImportsKept DEF ImportInv, Import!Gone
<1>. QED  BY <1>1, <1>2

(* Calls that are no imports.                                                 *)
LEMMA OtherJobs ==
  ASSUME NEW j, j.kind \notin {"import", "select"}, panel'.mount = panel.mount,
         jobs' = jobs \cup {j} \/ jobs' = jobs \ {j}
  PROVE  Import!Importing' = Import!Importing
BY DEF Import!Importing, Import!Mine

(* Every answer, to an import of this page or of one that was left, keeps    *)
(* the invariant.                                                            *)
LEMMA AnswerSteps ==
  ASSUME ImportInv, NEW j \in jobs, Import!Answers(j)
  PROVE  ImportInv'
<1>. USE DEF Import!Gone
<1>0. /\ PanelShaped(panel) /\ importer \in Bars /\ ask \in Prompts /\ panel.mount \in Nat
      /\ j \in ImportJobs /\ steps \in Nat
  BY DEF ImportInv
<1>1. \A path, lang : LET p == Import!Imported(j, path, lang)
                      IN PanelShaped(p) /\ p.mount = panel.mount
  <2>1. ASSUME NEW path, NEW lang
        PROVE  LET p == Import!Imported(j, path, lang)
               IN PanelShaped(p) /\ p.mount = panel.mount
    BY <1>0 DEF Import!Imported, PanelShaped
  <2>. QED  BY <2>1
<1>2. \A b \in BOOLEAN : [importer EXCEPT !.shown = b] \in Bars
                         /\ [importer EXCEPT !.list = b] \in Bars
                         /\ [importer EXCEPT !.shown = b].loading = importer.loading
                         /\ [importer EXCEPT !.list = b].loading = importer.loading
  BY <1>0 DEF Bars
<1>3. CASE Import!FileRead(j)
  <2>1. PanelShaped(panel)' /\ panel'.mount = panel.mount
    <3>1. PICK lang \in Langs :
             panel' = IF Import!Mine(j) THEN [panel EXCEPT !.input = "file", !.uploaded = TRUE,
                                                    !.path = "file", !.lang = lang]
                      ELSE [panel EXCEPT !.input = "file"]
      BY <1>3 DEF Import!FileRead
    <3>. QED  BY <1>0, <3>1 DEF PanelShaped
  <2>. QED  BY <1>0, <1>3, <2>1, OtherJobs, ImportsKept DEF Import!FileRead
<1>4. CASE Import!LinkAnswers(j)
  <2>1. PanelShaped(panel)' /\ panel'.mount = panel.mount
    BY <1>0, <1>4 DEF Import!LinkAnswers, PanelShaped
  <2>. QED  BY <1>0, <1>4, <2>1, OtherJobs, ImportsKept DEF Import!LinkAnswers
<1>5. CASE Import!DirectAnswers(j)
  <2>1. CASE /\ Import!Done(j, [importer EXCEPT !.shown = FALSE]) /\ Import!Gone(j)
             /\ \E lang \in Import!detectLanguageFromFilename :
                  panel' = Import!Imported(j, "gist", lang)
    <3>1. PanelShaped(panel)' /\ panel'.mount = panel.mount
      BY <1>1, <2>1
    <3>. QED  BY <1>2, <1>5, <2>1, <3>1, ImportEnds DEF Import!DirectAnswers
  <2>2. CASE /\ jobs' = (jobs \ {j}) \cup {[j EXCEPT !.url = "other"]}
             /\ UNCHANGED <<panel, importer>>
    <3>. DEFINE again == [j EXCEPT !.url = "other"]
    <3>1. again \in ImportJobs /\ again.kind = j.kind /\ again.mount = j.mount
      BY <1>0 DEF ImportJobs, Links, Import!Urls
    <3>. HIDE DEF again
    <3>2. jobs' = (jobs \ {j}) \cup {again}
      BY <2>2 DEF again
    <3>3. j.kind = "import" /\ UNCHANGED <<ask, steps>>
      BY <1>5 DEF Import!DirectAnswers
    <3>4. \A i \in jobs' : i \in ImportJobs /\ i.mount <= steps
      BY <3>1, <3>2 DEF ImportInv
    <3>5. CASE Import!Mine(j)
      <4>1. Import!Importing = {j} /\ importer.loading
        BY <3>3, <3>5 DEF ImportInv, Import!Importing
      <4>2. Import!Importing' = {again}
        BY <2>2, <3>1, <3>2, <3>3, <3>5, <4>1 DEF Import!Importing, Import!Mine
      <4>. QED  BY <2>2, <3>2, <3>3, <3>4, <4>1, <4>2 DEF ImportInv
    <3>6. CASE ~Import!Mine(j)
      <4>1. Import!Importing' = Import!Importing
        BY <2>2, <3>1, <3>2, <3>6 DEF Import!Importing, Import!Mine
      <4>2. importer.loading => \E i \in jobs' : Import!Importing' = {i}
        BY <4>1 DEF ImportInv, Import!Importing
      <4>. QED  BY <2>2, <3>3, <3>4, <4>1, <4>2 DEF ImportInv
    <3>. QED  BY <3>5, <3>6
  <2>. QED  BY <1>5, <2>1, <2>2 DEF Import!DirectAnswers
<1>6. CASE Import!ImportAnswers(j)
  <2>1. CASE /\ \E lang \in Langs : panel' = Import!Imported(j, panel.path, lang)
             /\ Import!Done(j, [importer EXCEPT !.shown = FALSE])
    <3>1. PanelShaped(panel)' /\ panel'.mount = panel.mount
      BY <1>1, <2>1
    <3>. QED  BY <1>2, <1>6, <2>1, <3>1, ImportEnds DEF Import!ImportAnswers
  <2>2. CASE /\ \E list \in BOOLEAN : Import!Done(j, [importer EXCEPT !.list = @ \/ list])
             /\ UNCHANGED panel
    <3>1. PICK list \in BOOLEAN : Import!Done(j, [importer EXCEPT !.list = importer.list \/ list])
      BY <2>2
    <3>2. (importer.list \/ list) \in BOOLEAN
      OBVIOUS
    <3>. QED  BY <1>0, <1>2, <1>6, <2>2, <3>1, <3>2, ImportEnds DEF Import!ImportAnswers
  <2>. QED  BY <1>6, <2>1, <2>2 DEF Import!ImportAnswers
<1>7. CASE Import!SelectAnswers(j)
  <2>1. Import!NoBar \in Bars /\ ~Import!NoBar.loading
    BY DEF Import!NoBar, Bars, Links
  <2>2. CASE /\ \E lang \in Langs : panel' = Import!Imported(j, panel.path, lang)
             /\ Import!Done(j, Import!NoBar)
    <3>1. PanelShaped(panel)' /\ panel'.mount = panel.mount
      BY <1>1, <2>2
    <3>. QED  BY <1>7, <2>1, <2>2, <3>1, ImportEnds DEF Import!SelectAnswers
  <2>3. CASE Import!Done(j, importer) /\ UNCHANGED panel
    BY <1>0, <1>7, <2>3, ImportEnds DEF Import!SelectAnswers
  <2>. QED  BY <1>7, <2>2, <2>3 DEF Import!SelectAnswers
<1>8. CASE Import!DirectoryAnswers(j)
  <2>1. importer' \in Bars /\ importer'.loading = importer.loading
    BY <1>0, <1>2, <1>8 DEF Import!DirectoryAnswers
  <2>. QED  BY <1>0, <1>8, <2>1, OtherJobs, ImportsKept DEF Import!DirectoryAnswers
<1>. QED  BY <1>3, <1>4, <1>5, <1>6, <1>7, <1>8 DEF Import!Answers

(* Every operation of the page keeps the invariant.                          *)
LEMMA ImportSteps == ImportInv /\ Import!ImportNext => ImportInv'
<1>. SUFFICES ASSUME ImportInv, Import!ImportNext PROVE ImportInv'
  OBVIOUS
<1>. USE DEF Import!Step, Import!Edit
<1>0. /\ PanelShaped(panel) /\ importer \in Bars /\ ask \in Prompts /\ panel.mount \in Nat
      /\ steps \in Nat
  BY DEF ImportInv
<1>1. CASE Import!EnterPage
  <2>1. steps' = steps + 1 /\ importer' = Import!NoBar
    BY <1>1 DEF Import!EnterPage
  <2>2. PICK link \in BOOLEAN, guest \in BOOLEAN, lang \in Langs :
          /\ panel' = [Import!NewPanel(panel.input, link, lang) EXCEPT !.mount = steps']
          /\ jobs' = IF link THEN jobs \cup {[kind |-> "link", url |-> "blob",
                                              mount |-> steps', id |-> steps']} ELSE jobs
          /\ ask' = [open |-> FALSE, url |-> "", guest |-> guest]
    BY <1>1 DEF Import!EnterPage
  <2>3. PanelShaped(panel)' /\ panel'.mount = steps'
    BY <2>2 DEF Import!NewPanel, PanelShaped
  <2>4. importer' \in Bars /\ ~importer'.loading /\ ask' \in Prompts /\ ~ask'.open
    BY <2>1, <2>2 DEF Import!NoBar, Bars, Prompts, Links
  <2>5. \A j \in jobs' : /\ j \in ImportJobs /\ j.mount <= steps'
                         /\ j.kind = "link" \/ j.mount < steps'
    <3>. DEFINE new == [kind |-> "link", url |-> "blob", mount |-> steps', id |-> steps']
    <3>1. new \in ImportJobs /\ new.kind = "link" /\ new.mount = steps' /\ steps' \in Nat
      BY <1>0, <2>1 DEF ImportJobs, Links, Import!Urls
    <3>2. \A j \in jobs : j \in ImportJobs /\ j.mount < steps'
      BY <1>0, <2>1 DEF ImportInv, ImportJobs
    <3>3. \A j \in jobs' : j \in jobs \/ j = new
      BY <2>2
    <3>. HIDE DEF new
    <3>. QED  BY <3>1, <3>2, <3>3 DEF ImportJobs
  <2>6. Import!Importing' = {}
    BY <2>1, <2>3, <2>5 DEF Import!Importing, Import!Mine, ImportJobs
  <2>. QED  BY <1>0, <2>1, <2>3, <2>4, <2>5, <2>6 DEF ImportInv
<1>2. CASE Import!onFileDrop \/ Import!openDirectory
  <2>1. PICK kind \in {"read", "open"}, url \in Links \cup {"file"} :
           jobs' = jobs \cup {Import!Job(kind, url)}
    BY <1>0, <1>2 DEF Import!onFileDrop, Import!openDirectory, Bars
  <2>2. Import!Job(kind, url) \in ImportJobs /\ Import!Job(kind, url).mount = panel.mount
        /\ Import!Job(kind, url).kind = kind
    BY <1>0 DEF Import!Job, ImportJobs
  <2>. HIDE DEF Import!Step
  <2>3. UNCHANGED <<panel, importer, ask>> /\ steps' = steps + 1
    BY <1>2 DEF Import!onFileDrop, Import!openDirectory, Import!Step
  <2>. QED  BY <1>0, <2>1, <2>2, <2>3, OtherJobs, ImportsKept
<1>3. CASE Import!handleGistImport
  <2>1. ~importer.loading /\ importer.url \in Links /\ UNCHANGED panel /\ ~ask.open
    BY <1>0, <1>3 DEF Import!handleGistImport, Import!Bar, Import!Empty, Bars
  <2>2. CASE /\ ask' = [ask EXCEPT !.open = TRUE, !.url = importer.url]
             /\ UNCHANGED <<importer, jobs, steps, edits>>
    <3>1. ask' \in Prompts
      BY <1>0, <2>1, <2>2 DEF Prompts
    <3>. QED  BY <2>1, <2>2, <3>1 DEF ImportInv, Import!Importing, Import!Mine
  <2>3. CASE Import!startImport("import", importer.url) /\ UNCHANGED ask
    BY <1>0, <2>1, <2>3, ImportBegins
  <2>. QED  BY <1>3, <2>2, <2>3 DEF Import!handleGistImport
<1>4. CASE Import!continueAsGuest
  <2>1. ~importer.loading /\ ask.url \in Links /\ UNCHANGED panel
        /\ Import!startImport("import", ask.url)
    BY <1>0, <1>4 DEF Import!continueAsGuest, ImportInv, Prompts
  <2>2. ask' \in Prompts /\ ~ask'.open
    BY <1>0, <1>4 DEF Import!continueAsGuest, Prompts, Links
  <2>. QED  BY <2>1, <2>2, ImportBegins
<1>5. CASE Import!handleSelectFile
  <2>1. ~importer.loading /\ importer.url \in Links /\ ~ask.open
        /\ UNCHANGED <<panel, ask>> /\ Import!startImport("select", importer.url)
    BY <1>0, <1>5 DEF Import!handleSelectFile, Import!Browser, Import!Empty, Bars
  <2>. QED  BY <1>0, <2>1, ImportBegins
<1>6. CASE /\ UNCHANGED <<panel, jobs, steps>> /\ importer' \in Bars /\ ask' \in Prompts
           /\ importer'.loading = importer.loading /\ (ask'.open => ask.open)
  <2>1. Import!Importing' = Import!Importing
    BY <1>6 DEF Import!Importing, Import!Mine
  <2>2. PanelShaped(panel)' /\ panel'.mount = panel.mount /\ steps' \in {steps, steps + 1}
        /\ \A j \in jobs' : j \in jobs
    BY <1>0, <1>6
  <2>. QED  BY <1>6, <2>1, <2>2, ImportsKept
<1>7. CASE Import!showGistInput \/ Import!cancelGistInput \/ Import!setGistUrl \/ Import!closeBrowser
  <2>1. importer' \in Bars /\ importer'.loading = importer.loading
    BY <1>0, <1>7 DEF Import!showGistInput, Import!cancelGistInput, Import!setGistUrl,
                      Import!closeBrowser, Bars, Links
  <2>. QED  BY <1>0, <1>6, <1>7, <2>1 DEF Import!showGistInput, Import!cancelGistInput,
            Import!setGistUrl, Import!closeBrowser
<1>8. CASE Import!closePrompt
  BY <1>0, <1>6, <1>8 DEF Import!closePrompt, Prompts
<1>9. CASE /\ PanelShaped(panel)' /\ panel'.mount = panel.mount
           /\ UNCHANGED <<importer, jobs, ask, steps>>
  <2>1. Import!Importing' = Import!Importing
    BY <1>9 DEF Import!Importing, Import!Mine
  <2>. QED  BY <1>0, <1>9, <2>1, ImportsKept
<1>10. CASE Import!handleClearFile \/ Import!EditText \/ Import!FileDropZone \/ Import!handlePaste
  <2>1. PanelShaped(panel)' /\ panel'.mount = panel.mount
    BY <1>0, <1>10 DEF Import!handleClearFile, Import!EditText, Import!FileDropZone,
                       Import!handlePaste, PanelShaped
  <2>. QED  BY <1>9, <1>10, <2>1 DEF Import!handleClearFile, Import!EditText,
            Import!FileDropZone, Import!handlePaste
<1>11. CASE Import!DetectLanguage \/ Import!SwitchLanguage \/ Import!ToolbarChanges
            \/ Import!handleSwapLanguages
  <2>1. PanelShaped(panel)' /\ panel'.mount = panel.mount
    BY <1>0, <1>11 DEF Import!DetectLanguage, Import!SwitchLanguage, Import!ToolbarChanges,
                       Import!handleSwapLanguages, PanelShaped
  <2>. QED  BY <1>9, <1>11, <2>1 DEF Import!DetectLanguage, Import!SwitchLanguage,
            Import!ToolbarChanges, Import!handleSwapLanguages
<1>12. CASE Import!handleTransform \/ Import!undoLast \/ Import!ToastUndo \/ Import!ToastGone
            \/ Import!RepositorySelector
  <2>1. PanelShaped(panel)' /\ panel'.mount = panel.mount
    BY <1>0, <1>12 DEF Import!handleTransform, Import!undoLast, Import!ToastUndo,
                       Import!ToastGone, Import!RepositorySelector, PanelShaped
  <2>. QED  BY <1>9, <1>12, <2>1 DEF Import!handleTransform, Import!undoLast,
            Import!ToastUndo, Import!ToastGone, Import!RepositorySelector
<1>. QED
  BY <1>1, <1>2, <1>3, <1>4, <1>5, <1>7, <1>8, <1>10, <1>11, <1>12, AnswerSteps
  DEF Import!ImportNext

(* What the invariant says of the loader is the property.                    *)
LEMMA LoaderIsOneImport == ImportInv => Import!OneImport
<1>1. \A S : Import!Cardinality(S) = Cardinality(S)
  BY DEF Import!Cardinality, Cardinality
<1>2. Cardinality({}) = 0 /\ \A j : Cardinality({j}) = 1
  BY FS_EmptySet, FS_Singleton
<1>3. importer \in Bars => importer.loading \in BOOLEAN
  BY DEF Bars
<1>. QED  BY <1>1, <1>2, <1>3 DEF ImportInv, Import!OneImport

LEMMA ImportHolds == ProgramsSpec => [](surface = "import" => ImportInv)
<1>. DEFINE Inv == surface = "import" => ImportInv
<1>1. ProgramsInit => Inv
  BY ImportStart DEF ProgramsInit
<1>2. Inv /\ [ProgramsNext]_allVars => Inv'
  <2>1. UNCHANGED importVars /\ ImportInv => ImportInv'
    BY DEF importVars, ImportInv, Import!Importing, Import!Mine
  <2>. QED  BY <2>1, OneProgram, ImportSteps
<1>. QED  BY <1>1, <1>2, PTL DEF ProgramsSpec, allVars

(* The loader of the import bar stands for exactly one import of the page     *)
(* that is shown (useFileImport).                                             *)
THEOREM LoaderStandsForOne == ProgramsSpec => []OneImport
<1>1. (surface = "import" => ImportInv) => OneImport
  BY LoaderIsOneImport DEF OneImport
<1>. QED  BY <1>1, ImportHolds, PTL

-----------------------------------------------------------------------------
(* The provider is a record with these fields.                               *)
ProviderShaped(p) ==
  p = [session |-> p.session, loading |-> p.loading, isPro |-> p.isPro, unsure |-> p.unsure,
       identity |-> p.identity]

(* A check of this account is under way.                                     *)
Checked(user) == \E c \in checks : c.user = user

(* To be inductive, what is promised once the checks are over needs that a   *)
(* Pro account that is shown before is that of the session, or the check of  *)
(* the session is still to come.                                             *)
AuthInv ==
  /\ ProviderShaped(provider)
  /\ provider.isPro /\ ~provider.unsure => provider.session \in Paying \/ Checked(provider.session)

(* A tab that was just loaded shows no Pro account.                          *)
LEMMA LoadShowsNone ==
  ASSUME NEW at, NEW s, Auth!Load(at, s)
  PROVE  AuthInv'
<1>1. ProviderShaped(provider)' /\ ~provider'.isPro
  BY DEF Auth!Load, Auth!NewProvider, ProviderShaped
<1>. QED  BY <1>1 DEF AuthInv

(* Neither does one that is opened.                                          *)
LEMMA AuthStart == Auth!AuthInit => AuthInv
BY DEF Auth!AuthInit, Auth!NewProvider, ProviderShaped, AuthInv

(* A step that leaves what is shown and the checks as they are.              *)
LEMMA StillShown ==
  ASSUME AuthInv, UNCHANGED checks, ProviderShaped(provider)',
         provider'.session = provider.session, provider'.isPro = provider.isPro,
         provider'.unsure = provider.unsure
  PROVE  AuthInv'
BY DEF AuthInv, Checked

(* A change of the session that the tab hears of is checked.                 *)
LEMMA HeardIsChecked == AuthInv /\ Auth!onAuthStateChange => AuthInv'
<1>. SUFFICES ASSUME AuthInv, Auth!onAuthStateChange PROVE AuthInv'
  OBVIOUS
<1>1. PICK user, id :
        /\ provider' = [provider EXCEPT !.session = user, !.loading = FALSE, !.identity = id,
                !.isPro = @ /\ user # Guest, !.unsure = @ /\ user # Guest]
        /\ Auth!checkProStatus(user)
  BY DEF Auth!onAuthStateChange
<1>2. /\ ProviderShaped(provider)' /\ provider'.session = user
      /\ provider'.isPro => user # Guest
  BY <1>1 DEF AuthInv, ProviderShaped
<1>3. user # Guest => Checked(user)'
  <2>1. PICK at : user # Guest => checks' = checks \cup {[user |-> user, at |-> at]}
    BY <1>1 DEF Auth!checkProStatus
  <2>2. PICK c : c = [user |-> user, at |-> at]
    OBVIOUS
  <2>3. c.user = user /\ (user # Guest => c \in checks')
    BY <2>1, <2>2
  <2>. QED  BY <2>3 DEF Checked
<1>. QED  BY <1>2, <1>3 DEF AuthInv

(* An answer for the session settles what is shown or leaves it unsure; one   *)
(* for another leaves the check of the session under way, or it unsure.       *)
LEMMA AnswerIsTheSessions == AuthInv /\ Auth!ProStatusAnswers => AuthInv'
<1>. SUFFICES ASSUME AuthInv, Auth!ProStatusAnswers PROVE AuthInv'
  OBVIOUS
<1>0. PICK c \in checks : \E id :
        /\ checks' = checks \ {c}
        /\ \/ provider' = [provider EXCEPT !.isPro = c.user \in Paying, !.identity = id,
                                           !.unsure = c.user # provider.session]
           \/ provider' = [provider EXCEPT !.unsure = @ \/ c.user = provider.session]
  BY DEF Auth!ProStatusAnswers
<1>1. PICK id :
        /\ checks' = checks \ {c}
        /\ \/ provider' = [provider EXCEPT !.isPro = c.user \in Paying, !.identity = id,
                                           !.unsure = c.user # provider.session]
           \/ provider' = [provider EXCEPT !.unsure = @ \/ c.user = provider.session]
  BY <1>0
<1>2. CASE provider' = [provider EXCEPT !.isPro = c.user \in Paying, !.identity = id,
                                        !.unsure = c.user # provider.session]
  <2>1. /\ ProviderShaped(provider)' /\ provider'.session = provider.session
        /\ provider'.isPro => c.user \in Paying
        /\ ~provider'.unsure => c.user = provider.session
    BY <1>2 DEF AuthInv, ProviderShaped
  <2>. QED  BY <2>1 DEF AuthInv
<1>3. CASE provider' = [provider EXCEPT !.unsure = @ \/ c.user = provider.session]
  <2>1. /\ ProviderShaped(provider)' /\ provider'.session = provider.session
        /\ provider'.isPro = provider.isPro
        /\ ~provider'.unsure => ~provider.unsure /\ c.user # provider.session
    BY <1>3 DEF AuthInv, ProviderShaped
  <2>2. c.user # provider.session /\ Checked(provider.session) => Checked(provider.session)'
    BY <1>1, <2>1 DEF Checked
  <2>. QED  BY <2>1, <2>2 DEF AuthInv
<1>. QED  BY <1>1, <1>2, <1>3

(* Every operation of the browser keeps the invariant.                       *)
LEMMA AuthSteps == AuthInv /\ Auth!AuthNext => AuthInv'
<1>. SUFFICES ASSUME AuthInv, Auth!AuthNext PROVE AuthInv'
  OBVIOUS
<1>0. UNCHANGED <<provider, checks>> => AuthInv'
  BY DEF AuthInv, Checked, ProviderShaped
<1>1. CASE Auth!onAuthStateChange
  BY <1>1, HeardIsChecked
<1>2. CASE Auth!ProStatusAnswers
  BY <1>2, AnswerIsTheSessions
<1>3. CASE Auth!signOut
  <2>1. /\ ProviderShaped(provider)' /\ provider'.session = provider.session
        /\ provider'.isPro = provider.isPro /\ provider'.unsure = provider.unsure
    BY <1>3 DEF Auth!signOut, AuthInv, ProviderShaped
  <2>2. UNCHANGED checks
    BY <1>3 DEF Auth!signOut
  <2>. QED  BY <2>1, <2>2, StillShown
<1>4. CASE Auth!AnotherTab \/ Auth!handleSubmit \/ Auth!Honeypot \/ Auth!Refused
           \/ Auth!signInWithEmail \/ Auth!signUpWithEmail \/ Auth!resetPassword
           \/ Auth!signInWithOAuth \/ Auth!setStep \/ Auth!markOnboarded
  BY <1>0, <1>4 DEF Auth!AnotherTab, Auth!handleSubmit, Auth!Honeypot, Auth!Refused,
     Auth!signInWithEmail, Auth!signUpWithEmail, Auth!resetPassword, Auth!signInWithOAuth,
     Auth!setStep, Auth!markOnboarded
<1>5. CASE Auth!Follow \/ Auth!Leave \/ Auth!oauthCallback \/ Auth!githubStart
           \/ Auth!githubCallback
  <2>1. UNCHANGED <<provider, checks>> \/ \E at, s : Auth!Load(at, s)
    BY <1>5 DEF Auth!Follow, Auth!Leave, Auth!oauthCallback, Auth!githubStart,
                Auth!githubCallback
  <2>. QED  BY <1>0, <2>1, LoadShowsNone
<1>6. CASE Auth!ConsentStep
  BY <1>0, <1>6 DEF Auth!ConsentStep, Auth!initPostHog, Auth!optInPostHog,
                    Auth!optOutPostHog, Auth!Only
<1>. QED
  BY <1>1, <1>2, <1>3, <1>4, <1>5, <1>6 DEF Auth!AuthNext

(* As long as the session of the browser is what is looked at, the           *)
(* invariant holds.                                                          *)
LEMMA AuthHolds == ProgramsSpec => [](surface = "auth" => AuthInv)
<1>. DEFINE Inv == surface = "auth" => AuthInv
<1>1. ProgramsInit => Inv
  BY AuthStart DEF ProgramsInit
<1>2. Inv /\ [ProgramsNext]_allVars => Inv'
  <2>1. UNCHANGED authVars /\ AuthInv => AuthInv'
    BY DEF authVars, AuthInv, Checked, ProviderShaped
  <2>. QED  BY <2>1, OneProgram, AuthSteps
<1>. QED  BY <1>1, <1>2, PTL DEF ProgramsSpec, allVars

(* Once every check was answered, a Pro account is shown only to a session    *)
(* that pays, but after an answer for another account or a check that failed, *)
(* whoever signs in and out in whichever tab (checkProStatus).                *)
THEOREM ProIsOfTheSession == ProgramsSpec => []ProIsTheSessions
<1>1. (surface = "auth" => AuthInv) => ProIsTheSessions
  BY DEF ProIsTheSessions, AuthInv, Checked, Auth!ProIsTheSessions
<1>. QED  BY <1>1, AuthHolds, PTL

-----------------------------------------------------------------------------
Sane(c) == {"kind", "result", "live"} \subseteq DOMAIN c
ListOf(c) ==
  \/ c.result = Dash!Nothing \/ c.result = Dash!Failure
  \/ \A i \in DOMAIN c.result.items : c.result.items[i].id[1] = c.ws

(* A list that is under way was asked for the workspace that is active: the  *)
(* change of the workspace aborts the others.  No members are awaited, whose *)
(* answer would end a loading, where the history is shown.                    *)
DashInv ==
  /\ team = [listed |-> team.listed, active |-> team.active, loading |-> team.loading]
  /\ place = "history" => {"items", "loading"} \subseteq DOMAIN pane
  /\ \A c \in calls : /\ Sane(c)
                      /\ c.kind = "load" => "ws" \in DOMAIN c /\ c.ws = team.active /\ ListOf(c)
                      /\ c.kind = "members" => place # "history"

(* The action property, as one step.                                         *)
LoadedList ==
  place = "history" /\ place' = "history" /\ pane.loading /\ ~pane'.loading
    => \/ Dash!OfTheActive(pane'.items)
       \/ /\ pane'.items = pane.items
          /\ \E c \in Dash!Calls("load") : c.ws = team.active /\ ~Dash!Answered(c)

(* A page that stays, and ends no loading.                                    *)
SamePane ==
  /\ place' = place
  /\ place = "history" => DOMAIN pane' = DOMAIN pane /\ pane'.loading = pane.loading
(* Calls that were made, or that ask for no first page of the history.        *)
NoNewLoad == \A c \in calls' : c \in calls \/ (Sane(c) /\ c.kind \notin {"load", "members"})

(* The shell opens asking for the workspaces only.                           *)
LEMMA DashStart == Dash!DashInit => DashInv
BY DEF Dash!DashInit, Dash!Call, DashInv, Sane

(* A step that shows no other page, ends no loading and asks for no list.    *)
LEMMA QuietStep ==
  ASSUME DashInv, SamePane, NoNewLoad, UNCHANGED team
  PROVE  DashInv' /\ LoadedList
<1>1. DashInv'
  <2>1. place' = "history" => {"items", "loading"} \subseteq DOMAIN pane'
    BY DEF DashInv, SamePane
  <2>2. ASSUME NEW c \in calls'
        PROVE  /\ Sane(c)
               /\ c.kind = "load" => "ws" \in DOMAIN c /\ c.ws = team.active /\ ListOf(c)
               /\ c.kind = "members" => place' # "history"
    BY DEF DashInv, NoNewLoad, SamePane
  <2>. QED  BY <2>1, <2>2 DEF DashInv, Sane, ListOf, Dash!Nothing, Dash!Failure
<1>2. LoadedList
  BY DEF SamePane, LoadedList
<1>. QED  BY <1>1, <1>2

(* A call that was just made has no answer.                                  *)
LEMMA NewCall ==
  \A kind, ws : /\ Sane(Dash!Call(kind, ws)) /\ Dash!Call(kind, ws).kind = kind
                /\ "ws" \in DOMAIN Dash!Call(kind, ws) /\ Dash!Call(kind, ws).ws = ws
                /\ Dash!Call(kind, ws).result = Dash!Nothing
BY DEF Dash!Call, Sane

(* A call that follows another may be for a page that was left.              *)
LEMMA FollowingCall ==
  ASSUME NEW kind, NEW ws, NEW b, NEW c, c = [Dash!Call(kind, ws) EXCEPT !.live = b]
  PROVE  Sane(c) /\ c.kind = kind
BY DEF Dash!Call, Sane

(* A call whose answer asks for something else.                               *)
LEMMA Followed ==
  ASSUME NEW c, NEW kind, kind \notin {"load", "members"}, NEW ws, NEW b,
         calls' = (calls \ {c}) \cup {[Dash!Call(kind, ws) EXCEPT !.live = b]}
  PROVE  NoNewLoad
<1>1. PICK following : following = [Dash!Call(kind, ws) EXCEPT !.live = b]
  OBVIOUS
<1>2. Sane(following) /\ following.kind = kind
  BY <1>1, FollowingCall
<1>. QED  BY <1>1, <1>2 DEF NoNewLoad

(* What the effects of a page ask for.                                        *)
LEMMA AskedCalls ==
  \A p, w : \A c \in Dash!Asked(p, w) :
     /\ Sane(c)
     /\ c.kind = "load" => "ws" \in DOMAIN c /\ c.ws = w /\ c.result = Dash!Nothing
     /\ c.kind = "members" => p = "workspace"
<1>1. ASSUME NEW p, NEW w, NEW c \in Dash!Asked(p, w)
      PROVE  /\ Sane(c)
             /\ c.kind = "load" => "ws" \in DOMAIN c /\ c.ws = w /\ c.result = Dash!Nothing
             /\ c.kind = "members" => p = "workspace"
  <2>1. \E kind : c = Dash!Call(kind, w) /\ (kind = "members" => p = "workspace")
    BY <1>1 DEF Dash!Asked
  <2>. QED  BY <2>1, NewCall
<1>. QED  BY <1>1

(* Calls that go on when a page is left.                                      *)
LEMMA Detached ==
  ASSUME DashInv, NEW gone
  PROVE  \A c \in Dash!DetachedBut(gone) : Sane(c) /\ c.kind \notin {"load", "members"}
<1>1. \A d \in Dash!Remaining : Sane(d) /\ d.kind \notin {"load", "members"}
  BY DEF DashInv, Dash!Remaining, Dash!Effects
<1>2. \A d : Sane(d) => LET e == [d EXCEPT !.live = FALSE] IN Sane(e) /\ e.kind = d.kind
  BY DEF Sane
<1>. QED  BY <1>1, <1>2 DEF Dash!DetachedBut

(* A step that shows another page, asks for what that one shows and ends the  *)
(* calls of this one that the page aborts.                                    *)
LEMMA PaneStep ==
  ASSUME DashInv, place' # "history" \/ {"items", "loading"} \subseteq DOMAIN pane',
         place # "history" \/ place' # "history" \/ pane'.loading,
         team' = [listed |-> team'.listed, active |-> team'.active, loading |-> team'.loading],
         \A c \in calls' : /\ Sane(c)
                           /\ c.kind = "load" => /\ "ws" \in DOMAIN c /\ c.ws = team'.active
                                                 /\ c.result = Dash!Nothing
                           /\ c.kind = "members" => place' # "history"
  PROVE  DashInv' /\ LoadedList
<1>1. \A c \in calls' : c.kind = "load" => ListOf(c)
  BY DEF ListOf
<1>2. LoadedList
  BY DEF LoadedList
<1>. QED  BY <1>1, <1>2 DEF DashInv, Sane, ListOf, Dash!Nothing, Dash!Failure

(* Showing a page asks for what it needs, for the workspace that is active.  *)
LEMMA ShowStep ==
  ASSUME DashInv, NEW p \in Dash!Pages, NEW gone, Dash!Show(p, gone), UNCHANGED team,
         p = "history" => place # "history"
  PROVE  DashInv' /\ LoadedList
<1>1. place' = "history" => {"items", "loading"} \subseteq DOMAIN pane'
  BY DEF Dash!Show, Dash!Fresh
<1>3. place' = p
  BY DEF Dash!Show
<1>2. \A c \in calls' : /\ Sane(c)
                        /\ c.kind = "load" => /\ "ws" \in DOMAIN c /\ c.ws = team'.active
                                              /\ c.result = Dash!Nothing
                        /\ c.kind = "members" => place' # "history"
  BY <1>3, AskedCalls, Detached DEF Dash!Show
<1>. QED  BY <1>1, <1>2, <1>3, PaneStep DEF DashInv

(* Leaving the dashboard detaches what was asked.                            *)
LEMMA AwayStep ==
  ASSUME DashInv, NEW gone, Dash!Away(gone), UNCHANGED team
  PROVE  DashInv' /\ LoadedList
BY Detached, PaneStep DEF Dash!Away, DashInv

(* A workspace that becomes active: what was asked for the one before is     *)
(* aborted, and its lists are asked for.                                     *)
LEMMA AskAgainStep ==
  ASSUME DashInv, NEW w, Dash!AskAgain(w), UNCHANGED place,
         team' = [listed |-> team'.listed, active |-> w, loading |-> team'.loading]
  PROVE  DashInv' /\ LoadedList
<1>1. place = "history" => DOMAIN pane' = DOMAIN pane /\ pane'.loading
  BY DEF DashInv, Dash!AskAgain, Dash!AskAgainKeeping
<1>2. \A c \in Dash!Remaining : Sane(c) /\ c.kind \notin {"load", "members"}
  BY DEF DashInv, Dash!Remaining, Dash!Effects
<1>3. \A c \in calls' : /\ Sane(c)
                        /\ c.kind = "load" => /\ "ws" \in DOMAIN c /\ c.ws = w
                                              /\ c.result = Dash!Nothing
                        /\ c.kind = "members" => place' # "history"
  BY <1>2, AskedCalls DEF Dash!AskAgain, Dash!AskAgainKeeping
<1>. QED  BY <1>1, <1>3, PaneStep DEF DashInv

(* What the service answers to a call for the history.                        *)
LEMMA ServeStep == DashInv /\ Dash!Serve => DashInv' /\ LoadedList
<1>. SUFFICES ASSUME DashInv, Dash!Serve PROVE DashInv' /\ LoadedList
  OBVIOUS
<1>0. PICK c \in calls :
        /\ \E result \in {Dash!Result(c), Dash!Failure} :
             calls' = (calls \ {c}) \cup {[c EXCEPT !.result = result]}
        /\ UNCHANGED <<place, pane, team>>
  BY DEF Dash!Serve
<1>1. PICK result \in {Dash!Result(c), Dash!Failure} :
        calls' = (calls \ {c}) \cup {[c EXCEPT !.result = result]}
  BY <1>0
<1>. DEFINE answer == [c EXCEPT !.result = result]
<1>2. Sane(answer) /\ answer.kind = c.kind /\ answer.result = result
  BY DEF DashInv, Sane
<1>3. c.kind = "load" => "ws" \in DOMAIN answer /\ answer.ws = team.active /\ ListOf(answer)
  <2>1. SUFFICES ASSUME c.kind = "load"
                 PROVE  "ws" \in DOMAIN answer /\ answer.ws = team.active /\ ListOf(answer)
    OBVIOUS
  <2>2. "ws" \in DOMAIN answer /\ answer.ws = c.ws /\ c.ws = team.active
    BY <2>1 DEF DashInv
  <2>3. result = Dash!Failure \/ result = Dash!PageAfter(c.ws, 0)
    BY <1>1, <2>1 DEF Dash!Result
  <2>4. \A i \in DOMAIN Dash!PageAfter(c.ws, 0).items : Dash!PageAfter(c.ws, 0).items[i].id[1] = c.ws
    BY DEF Dash!PageAfter
  <2>. QED  BY <1>2, <2>2, <2>3, <2>4 DEF ListOf
<1>6. c.kind = "members" => place' # "history"
  BY <1>0 DEF DashInv
<1>. HIDE DEF answer
<1>4. DashInv'
  BY <1>0, <1>1, <1>2, <1>3, <1>6
  DEF DashInv, Sane, ListOf, Dash!Nothing, Dash!Failure, answer
<1>5. LoadedList
  BY <1>0 DEF LoadedList
<1>. QED  BY <1>4, <1>5

(* The navigation of the dashboard.                                          *)
LEMMA ShellSteps == DashInv /\ Dash!ShellNext => DashInv' /\ LoadedList
<1>. SUFFICES ASSUME DashInv, Dash!ShellNext PROVE DashInv' /\ LoadedList
  OBVIOUS
<1>1. CASE Dash!AuthReady \/ Dash!handleToggleCollapse \/ Dash!setMobileOpen
  <2>1. UNCHANGED <<place, pane, team, calls>>
    BY <1>1 DEF Dash!AuthReady, Dash!handleToggleCollapse, Dash!setMobileOpen
  <2>. QED  BY <2>1, QuietStep DEF SamePane, NoNewLoad
<1>2. CASE Dash!RedirectToSignin
  BY <1>2, AwayStep DEF Dash!RedirectToSignin
<1>3. CASE Dash!RedirectToWelcome
  BY <1>3, ShowStep DEF Dash!RedirectToWelcome, Dash!Pages
<1>4. CASE Dash!Navigate
  BY <1>4, ShowStep DEF Dash!Navigate
<1>5. CASE Dash!nextStep \/ Dash!handleFinish \/ Dash!openMode
  <2>1. UNCHANGED team /\ place = "welcome" /\ place' = place
    BY <1>5 DEF Dash!nextStep, Dash!handleFinish, Dash!openMode, Dash!Here, Dash!Only
  <2>2. NoNewLoad
    BY <1>5, NewCall DEF Dash!nextStep, Dash!handleFinish, Dash!openMode, Dash!Asks, NoNewLoad
  <2>. QED  BY <2>1, <2>2, QuietStep DEF SamePane
<1>6. CASE Dash!WelcomeEnds
  <2>1. UNCHANGED team
    BY <1>6 DEF Dash!WelcomeEnds
  <2>2. PICK c \in Dash!Calls("mark") :
          \/ /\ account' = [account EXCEPT !.onboarded = @ \/ Dash!Answered(c)]
             /\ Dash!Show("overview", {c})
          \/ ~Dash!Answered(c) /\ Dash!Closed(c) /\ UNCHANGED <<account, place, pane, shell>>
    BY <1>6, Zenon DEF Dash!WelcomeEnds
  <2>3. CASE Dash!Show("overview", {c})
    BY <2>1, <2>3, ShowStep DEF Dash!Pages
  <2>4. CASE Dash!Closed(c) /\ UNCHANGED <<place, pane>>
    BY <2>1, <2>4, QuietStep DEF SamePane, NoNewLoad, Dash!Closed
  <2>. QED  BY <2>2, <2>3, <2>4
<1>. QED  BY <1>1, <1>2, <1>3, <1>4, <1>5, <1>6, ServeStep DEF Dash!ShellNext

(* The operations on workspaces.                                             *)
LEMMA TeamSteps == DashInv /\ Dash!TeamNext => DashInv' /\ LoadedList
<1>. SUFFICES ASSUME DashInv, Dash!TeamNext PROVE DashInv' /\ LoadedList
  OBVIOUS
<1>. USE DEF Dash!Only
<1>1. CASE Dash!WorkspaceSwitcher
  <2>1. PICK w : team' = [team EXCEPT !.active = w] /\ Dash!AskAgain(w)
    BY <1>1 DEF Dash!WorkspaceSwitcher
  <2>2. team' = [listed |-> team'.listed, active |-> w, loading |-> team'.loading]
    BY <2>1 DEF DashInv
  <2>. QED  BY <1>1, <2>1, <2>2, AskAgainStep DEF Dash!WorkspaceSwitcher
<1>2. CASE Dash!TokenRefreshed
  BY <1>2, AskAgainStep DEF Dash!TokenRefreshed, DashInv
<1>3. CASE Dash!TeamsAnswer
  <2>1. /\ team' = [listed |-> team'.listed, active |-> team.active, loading |-> team'.loading]
        /\ calls' \subseteq calls /\ place' = place
        /\ place = "history" => pane' = pane
    BY <1>3 DEF Dash!TeamsAnswer, Dash!Closed, DashInv
  <2>. QED  BY <2>1 DEF DashInv, LoadedList, Sane, ListOf, Dash!Nothing, Dash!Failure
<1>4. CASE Dash!handleCreateWorkspace \/ Dash!handleInviteMember
  <2>1. NoNewLoad
    BY <1>4, NewCall DEF Dash!handleCreateWorkspace, Dash!handleInviteMember, Dash!Asks, NoNewLoad
  <2>2. SamePane /\ UNCHANGED team
    BY <1>4 DEF Dash!handleCreateWorkspace, Dash!handleInviteMember, Dash!CreationForm,
       Dash!InviteForm, Dash!Here, SamePane
  <2>. QED  BY <2>1, <2>2, QuietStep
<1>5. CASE Dash!WorkspaceCreated \/ Dash!Invited
  <2>1. NoNewLoad
    <3>1. PICK c, ws : \/ calls' = (calls \ {c}) \cup {[Dash!Call("teams", ws) EXCEPT !.live = c.live]}
                       \/ calls' = (calls \ {c}) \cup {[Dash!Call("crew", ws) EXCEPT !.live = c.live]}
                       \/ calls' = calls \ {c}
      BY <1>5 DEF Dash!WorkspaceCreated, Dash!Invited, Dash!Closed
    <3>. QED  BY <3>1, Followed DEF NoNewLoad
  <2>2. SamePane /\ UNCHANGED team
    BY <1>5 DEF Dash!WorkspaceCreated, Dash!Invited, Dash!Page, SamePane, DashInv
  <2>. QED  BY <2>1, <2>2, QuietStep
<1>6. CASE Dash!MembersAnswer
  <2>1. NoNewLoad
    BY <1>6 DEF Dash!MembersAnswer, Dash!Closed, NoNewLoad
  <2>2. SamePane /\ UNCHANGED team
    BY <1>6 DEF Dash!MembersAnswer, Dash!Page, Dash!Calls, SamePane, DashInv
  <2>. QED  BY <2>1, <2>2, QuietStep
<1>. QED  BY <1>1, <1>2, <1>3, <1>4, <1>5, <1>6 DEF Dash!TeamNext

(* The operations of the history.                                            *)
LEMMA HistorySteps == DashInv /\ Dash!HistoryNext => DashInv' /\ LoadedList
<1>. SUFFICES ASSUME DashInv, Dash!HistoryNext PROVE DashInv' /\ LoadedList
  OBVIOUS
<1>. USE DEF Dash!Only
<1>1. CASE Dash!HistoryLoaded
  <2>1. PICK c \in Dash!Calls("load") :
          /\ Dash!Closed(c)
          /\ pane' = IF c.live
                     THEN IF Dash!Answered(c)
                          THEN [pane EXCEPT !.loading = FALSE, !.items = c.result.items,
                                            !.cursor = c.result.cursor]
                          ELSE [pane EXCEPT !.loading = FALSE]
                     ELSE pane
    BY <1>1 DEF Dash!HistoryLoaded, Dash!Page
  <2>2. /\ c.ws = team.active /\ UNCHANGED <<place, team>>
        /\ Dash!Answered(c) => \A i \in DOMAIN c.result.items : c.result.items[i].id[1] = c.ws
    BY <1>1 DEF Dash!HistoryLoaded, Dash!Calls, Dash!Answered, DashInv, ListOf
  <2>3. place = "history" =>
          /\ DOMAIN pane' = DOMAIN pane
          /\ \/ pane' = pane
             \/ Dash!Answered(c) /\ pane'.items = c.result.items
             \/ ~Dash!Answered(c) /\ pane'.items = pane.items
    BY <2>1 DEF DashInv
  <2>4. LoadedList
    BY <2>2, <2>3 DEF LoadedList, Dash!OfTheActive
  <2>5. calls' \subseteq calls
    BY <2>1 DEF Dash!Closed
  <2>. QED  BY <2>2, <2>3, <2>4, <2>5 DEF DashInv, Sane, ListOf, Dash!Nothing, Dash!Failure
<1>2. CASE Dash!handleLoadMore \/ Dash!handleDelete \/ Dash!handleDeleteAll \/ Dash!confirmShare
           \/ Dash!handleMakePrivate
  <2>1. NoNewLoad
    BY <1>2 DEF Dash!handleLoadMore, Dash!handleDelete, Dash!handleDeleteAll, Dash!confirmShare,
       Dash!handleMakePrivate, Dash!Asks, NoNewLoad, Sane
  <2>2. SamePane /\ UNCHANGED team
    BY <1>2 DEF Dash!handleLoadMore, Dash!handleDelete, Dash!handleDeleteAll, Dash!confirmShare,
       Dash!handleMakePrivate, SamePane, DashInv
  <2>. QED  BY <2>1, <2>2, QuietStep
<1>3. CASE Dash!handleShare \/ Dash!closeShare \/ Dash!setActiveMode
  <2>1. NoNewLoad
    BY <1>3 DEF Dash!handleShare, Dash!closeShare, Dash!setActiveMode, NoNewLoad
  <2>2. SamePane /\ UNCHANGED team
    BY <1>3 DEF Dash!handleShare, Dash!closeShare, Dash!setActiveMode, SamePane, DashInv
  <2>. QED  BY <2>1, <2>2, QuietStep
<1>4. CASE Dash!MoreLoaded \/ Dash!Deleted \/ Dash!AllDeleted \/ Dash!Shared \/ Dash!MadePrivate
  <2>1. NoNewLoad
    BY <1>4 DEF Dash!MoreLoaded, Dash!Deleted, Dash!AllDeleted, Dash!Shared, Dash!MadePrivate,
       Dash!Closed, NoNewLoad
  <2>2. UNCHANGED <<place, team>>
    BY <1>4 DEF Dash!MoreLoaded, Dash!Deleted, Dash!AllDeleted, Dash!Shared, Dash!MadePrivate
  <2>3. PICK c : \/ pane' = pane
                 \/ \E more, items, cursor : pane' = [pane EXCEPT !.more = more, !.items = items,
                                                                 !.cursor = cursor]
                 \/ \E more : pane' = [pane EXCEPT !.more = more]
                 \/ \E items : pane' = [pane EXCEPT !.items = items]
                 \/ \E clearing, items : pane' = [pane EXCEPT !.clearing = clearing,
                                                              !.items = items]
                 \/ \E sharing, candidate, items :
                      pane' = [pane EXCEPT !.sharing = sharing, !.candidate = candidate,
                                           !.items = items]
                 \/ \E sharing : pane' = [pane EXCEPT !.sharing = sharing]
    BY <1>4 DEF Dash!MoreLoaded, Dash!Deleted, Dash!AllDeleted, Dash!Shared, Dash!MadePrivate,
       Dash!Page
  <2>4. SamePane
    BY <2>2, <2>3 DEF SamePane, DashInv
  <2>. QED  BY <2>1, <2>2, <2>4, QuietStep
<1>. QED  BY <1>1, <1>2, <1>3, <1>4 DEF Dash!HistoryNext

(* The operations of the settings.                                           *)
LEMMA SettingsSteps == DashInv /\ Dash!SettingsNext => DashInv' /\ LoadedList
<1>. SUFFICES ASSUME DashInv, Dash!SettingsNext PROVE DashInv' /\ LoadedList
  OBVIOUS
<1>. USE DEF Dash!Only
<1>1. CASE Dash!handleCreateApiKey \/ Dash!revokeApiKey \/ Dash!archiveSecret
           \/ Dash!handleSaveProfile \/ Dash!setDeleteDialog \/ Dash!handleDeleteAccount
  <2>1. SamePane /\ UNCHANGED team
    BY <1>1 DEF Dash!handleCreateApiKey, Dash!revokeApiKey, Dash!archiveSecret,
       Dash!handleSaveProfile, Dash!setDeleteDialog, Dash!handleDeleteAccount, Dash!KeyForm,
       Dash!KeyTable, Dash!SecretShown, Dash!ProfileForm, Dash!DangerZone, Dash!Here, SamePane
  <2>2. NoNewLoad
    BY <1>1, NewCall
    DEF Dash!handleCreateApiKey, Dash!revokeApiKey, Dash!archiveSecret, Dash!handleSaveProfile,
        Dash!setDeleteDialog, Dash!handleDeleteAccount, Dash!Asks, NoNewLoad, Sane
  <2>. QED  BY <2>1, <2>2, QuietStep
<1>2. CASE Dash!KeysAnswer \/ Dash!KeyCreated \/ Dash!KeyRevoked \/ Dash!ProfileSaved
  <2>1. SamePane /\ UNCHANGED team
    BY <1>2 DEF Dash!KeysAnswer, Dash!KeyCreated, Dash!KeyRevoked, Dash!ProfileSaved,
       Dash!Page, SamePane, DashInv
  <2>2. NoNewLoad
    <3>1. PICK c : \/ calls' = (calls \ {c}) \cup {[Dash!Call("refetch", c.ws) EXCEPT !.live = c.live]}
                   \/ calls' = calls \ {c}
      BY <1>2 DEF Dash!KeysAnswer, Dash!KeyCreated, Dash!KeyRevoked, Dash!ProfileSaved,
         Dash!Closed, Dash!Refetch
    <3>. QED  BY <3>1, Followed DEF NoNewLoad
  <2>. QED  BY <2>1, <2>2, QuietStep
<1>3. CASE Dash!handleSignOut
  BY <1>3, AwayStep DEF Dash!handleSignOut
<1>4. CASE Dash!AccountDeleted
  <2>1. UNCHANGED team
    BY <1>4 DEF Dash!AccountDeleted
  <2>2. PICK c : \/ Dash!Away({c})
                 \/ /\ Dash!Closed(c) /\ UNCHANGED place
                    /\ Dash!Page(c, [pane EXCEPT !.deleting = FALSE, !.dialog = FALSE])
    BY <1>4 DEF Dash!AccountDeleted
  <2>3. CASE Dash!Away({c})
    BY <2>1, <2>3, AwayStep
  <2>4. CASE /\ Dash!Closed(c) /\ UNCHANGED place
             /\ Dash!Page(c, [pane EXCEPT !.deleting = FALSE, !.dialog = FALSE])
    BY <2>1, <2>4, QuietStep DEF SamePane, NoNewLoad, Dash!Closed, Dash!Page, DashInv
  <2>. QED  BY <2>2, <2>3, <2>4
<1>. QED  BY <1>1, <1>2, <1>3, <1>4 DEF Dash!SettingsNext

(* The operations of the page of billing.                                    *)
LEMMA BillingSteps == DashInv /\ Dash!BillingNext => DashInv' /\ LoadedList
<1>. SUFFICES ASSUME DashInv, Dash!BillingNext PROVE DashInv' /\ LoadedList
  OBVIOUS
<1>. USE DEF Dash!Only
<1>1. CASE Dash!handleUpgrade \/ Dash!SearchParamsFollow \/ Dash!BannerEnds
           \/ Dash!SubscriptionSeen \/ Dash!handleManagePortal
  <2>1. SamePane /\ UNCHANGED team
    BY <1>1 DEF Dash!handleUpgrade, Dash!SearchParamsFollow, Dash!BannerEnds, Dash!SubscriptionSeen,
       Dash!handleManagePortal, Dash!UpgradeCard, Dash!PortalCard, Dash!Here, SamePane
  <2>2. NoNewLoad
    BY <1>1, NewCall DEF Dash!handleUpgrade, Dash!SearchParamsFollow, Dash!BannerEnds,
       Dash!SubscriptionSeen, Dash!handleManagePortal, Dash!Asks, NoNewLoad
  <2>. QED  BY <2>1, <2>2, QuietStep
<1>2. ASSUME UNCHANGED <<team, place>>, calls' \subseteq calls,
             \/ UNCHANGED pane
             \/ \E b : pane' = [pane EXCEPT !.busy = b] \/ pane' = [pane EXCEPT !.portal = b]
      PROVE  DashInv' /\ LoadedList
  BY <1>2, QuietStep DEF SamePane, NoNewLoad, DashInv
<1>3. ASSUME NEW to, to # "history", Dash!Redirected(to), UNCHANGED team
      PROVE  DashInv' /\ LoadedList
  BY <1>3, PaneStep DEF Dash!Redirected, DashInv
<1>4. CASE Dash!CheckoutAnswers \/ Dash!PortalAnswers
  BY <1>2, <1>3, <1>4 DEF Dash!CheckoutAnswers, Dash!PortalAnswers, Dash!Closed, Dash!Page
<1>5. CASE Dash!ReturnFromStripe
  BY <1>5, NewCall, PaneStep DEF Dash!ReturnFromStripe
<1>6. CASE Dash!modalCloses
  <2>1. UNCHANGED <<place, team>>
    BY <1>6 DEF Dash!modalCloses
  <2>2. pane' = pane \/ \E b : pane' = [pane EXCEPT !.busy = b]
    BY <1>6 DEF Dash!modalCloses
  <2>3. NoNewLoad
    <3>1. \/ UNCHANGED calls
          \/ \E b : calls' = calls \cup {[Dash!Call("verify", Personal) EXCEPT !.live = b]}
      BY <1>6 DEF Dash!modalCloses, Dash!Asks
    <3>2. CASE \E b : calls' = calls \cup {[Dash!Call("verify", Personal) EXCEPT !.live = b]}
      <4>1. PICK b, c : c = [Dash!Call("verify", Personal) EXCEPT !.live = b]
                        /\ calls' = calls \cup {c}
        BY <3>2
      <4>2. Sane(c) /\ c.kind = "verify"
        BY <4>1, FollowingCall
      <4>. QED  BY <4>1, <4>2 DEF NoNewLoad
    <3>. QED  BY <3>1, <3>2 DEF NoNewLoad
  <2>. QED  BY <2>1, <2>2, <2>3, QuietStep DEF SamePane, DashInv
<1>7. CASE Dash!PaymentVerified
  <2>1. UNCHANGED team
    BY <1>7 DEF Dash!PaymentVerified
  <2>2. PICK c : \/ /\ place = "billing" /\ Dash!Closed(c) /\ UNCHANGED place
                 \/ /\ place' = "billing" /\ calls' = Dash!DetachedBut({c})
                 \/ /\ Dash!Closed(c) /\ UNCHANGED place
                    /\ Dash!Page(c, [pane EXCEPT !.busy = FALSE])
    BY <1>7 DEF Dash!PaymentVerified
  <2>3. CASE place = "billing" /\ Dash!Closed(c) /\ UNCHANGED place
    BY <2>1, <2>3, QuietStep DEF SamePane, NoNewLoad, Dash!Closed
  <2>4. CASE place' = "billing" /\ calls' = Dash!DetachedBut({c})
    BY <2>1, <2>4, Detached, PaneStep DEF DashInv
  <2>5. CASE /\ Dash!Closed(c) /\ UNCHANGED place
             /\ Dash!Page(c, [pane EXCEPT !.busy = FALSE])
    BY <1>2, <2>1, <2>5 DEF Dash!Closed, Dash!Page
  <2>. QED  BY <2>2, <2>3, <2>4, <2>5
<1>. QED  BY <1>1, <1>4, <1>5, <1>6, <1>7 DEF Dash!BillingNext

(* Every step of the dashboard keeps the invariant, and is allowed by the    *)
(* action property.                                                          *)
LEMMA DashSteps == DashInv /\ Dash!DashNext => DashInv' /\ LoadedList
BY ShellSteps, TeamSteps, HistorySteps, SettingsSteps, BillingSteps DEF Dash!DashNext

LEMMA DashHolds == ProgramsSpec => [](surface = "dashboard" => DashInv)
<1>. DEFINE Inv == surface = "dashboard" => DashInv
<1>1. ProgramsInit => Inv
  BY DashStart DEF ProgramsInit
<1>2. Inv /\ [ProgramsNext]_allVars => Inv'
  <2>1. UNCHANGED dashVars /\ DashInv => DashInv'
    BY DEF dashVars, DashInv, Sane, ListOf, Dash!Nothing, Dash!Failure
  <2>. QED  BY <2>1, OneProgram, DashSteps
<1>. QED  BY <1>1, <1>2, PTL DEF ProgramsSpec, allVars

(* The loading of the history ends with the list of the workspace that is    *)
(* active then, however often it was changed while lists were on their way,   *)
(* or with a failed load of that workspace, which leaves what was shown       *)
(* (fetchHistory and the abort of its effect).                                *)
THEOREM LoadedIsTheActive == ProgramsSpec => LoadShowsTheActive
<1>. DEFINE Inv == surface = "dashboard" => DashInv
<1>1. Inv /\ [ProgramsNext]_allVars => [LoadedList]_(Dash!dashVars)
  <2>1. SUFFICES ASSUME Inv, [ProgramsNext]_allVars
                 PROVE  LoadedList \/ UNCHANGED Dash!dashVars
    OBVIOUS
  <2>2. CASE surface = "dashboard"
    BY <2>1, <2>2, OneProgram, DashSteps DEF dashVars, Dash!dashVars
  <2>3. CASE surface # "dashboard"
    BY <2>1, <2>3 DEF allVars, ProgramsNext, ClientStep, OutputStep, EngineStep, ImportStep,
       AuthStep, DashStep, CliStep, EditorStep, VaultStep, dashVars, Dash!dashVars
  <2>. QED  BY <2>2, <2>3
<1>. QED
  BY <1>1, DashHolds, PTL
  DEF ProgramsSpec, allVars, LoadShowsTheActive, Dash!LoadShowsTheActive, LoadedList

-----------------------------------------------------------------------------
Singular(set) == \A m, n \in set : m \in Nat /\ m = n
(* Every file that was evaluated meets the gate.                             *)
AllMeet == \A m \in argv.min, t \in tested : \A s \in t.scores : Cli!Rounded(s) >= m

CliPaths == {"nothing", "health", "verify", "explain", "analyze", "translate", "evaluate"}
CliProcess ==
  [at : {"started", "asking", "walking", "ended"}, files : SUBSET Files, order : Seq(Files),
   asked : CliPaths, passed : Nat, processed : Nat, exit : SUBSET {0, 1}]

(* The command waits for the answer to one of these requests.                *)
Asking(paths) == cli.at = "asking" /\ cli.asked \in paths
(* The run of a command. What the gate promises is about the files that      *)
(* were evaluated, and to be inductive it needs: how the counters relate to  *)
(* them (as many passed as were processed only if each one meets the gate),  *)
(* which commands ask what, and that a gate has one number at most.          *)
CliInv ==
  /\ cli \in CliProcess
  /\ argv.command \in {"translate", "modernize"} => Singular(argv.min)
  /\ \A t \in tested : t.scores \in SUBSET Scores
  /\ Asking({"health", "verify", "explain"})
       => argv.command \in {"health", "verify-receipt", "explain"}
  /\ Asking({"translate", "evaluate"})
       => argv.command \in {"translate", "modernize"} /\ cli.order # <<>>
  /\ Asking({"analyze"}) \/ cli.at = "walking" => argv.command = "modernize"
  /\ cli.at = "started" => tested = {} /\ cli.passed = 0 /\ cli.processed = 0
  /\ argv.command = "translate" /\ cli.at # "ended" => tested = {}
  /\ argv.command = "modernize"
       => cli.passed <= cli.processed /\ (cli.passed = cli.processed => AllMeet)
  /\ cli.at # "ended" => cli.exit = {}
  /\ Cli!GateCountsEveryFile

(* A command starts with nothing counted.                                    *)
LEMMA NewProcess == Cli!Process \in CliProcess
<1>1. <<>> \in Seq(Files)
  OBVIOUS
<1>. QED  BY <1>1 DEF Cli!Process, CliProcess, CliPaths

(* No command was given yet: the last one has ended.                         *)
LEMMA CliStart == Cli!CliInit => CliInv
<1>. SUFFICES ASSUME Cli!CliInit PROVE CliInv
  OBVIOUS
<1>1. cli \in CliProcess /\ cli.at = "ended"
  BY NewProcess DEF Cli!CliInit, CliProcess
<1>2. argv.command = "help" /\ tested = {}
  BY DEF Cli!CliInit
<1>. QED  BY <1>1, <1>2 DEF CliInv, Asking, Cli!GateCountsEveryFile, Cli!Passed

(* A command that fails, or that has asked for nothing to be scored.          *)
LEMMA CliExit ==
  ASSUME CliInv, NEW n \in {0, 1}, cli' = [cli EXCEPT !.at = "ended", !.exit = {n}],
         UNCHANGED <<argv, tested>>,
         \/ n = 1 \/ AllMeet \/ argv.command \notin {"translate", "modernize"} \/ ~argv.gate
  PROVE  CliInv'
<1>1. cli' \in CliProcess /\ cli'.at = "ended" /\ cli'.exit = {n}
      /\ cli'.passed = cli.passed /\ cli'.processed = cli.processed
  BY DEF CliInv, CliProcess
<1>2. Cli!GateCountsEveryFile'
  BY <1>1 DEF Cli!GateCountsEveryFile, Cli!Passed, AllMeet, Cli!Rounded
<1>. QED  BY <1>1, <1>2 DEF CliInv, Asking, AllMeet, Singular, Cli!Rounded

(* A command that goes on.                                                    *)
LEMMA CliGoesOn ==
  ASSUME CliInv, cli' \in CliProcess, UNCHANGED argv,
         cli'.at \in {"asking", "walking"}, cli'.exit = {},
         \A t \in tested' : t.scores \in SUBSET Scores,
         Asking({"health", "verify", "explain"})'
           => argv.command \in {"health", "verify-receipt", "explain"},
         Asking({"translate", "evaluate"})'
           => argv.command \in {"translate", "modernize"} /\ cli'.order # <<>>,
         Asking({"analyze"})' \/ cli'.at = "walking" => argv.command = "modernize",
         argv.command = "translate" => tested' = {},
         argv.command = "modernize"
           => cli'.passed <= cli'.processed /\ (cli'.passed = cli'.processed => AllMeet')
  PROVE  CliInv'
<1>1. Cli!GateCountsEveryFile'
  BY DEF Cli!GateCountsEveryFile, Cli!Passed
<1>. QED  BY <1>1 DEF CliInv

(* What the service is asked for next, and the verdict on a file.             *)
LEMMA CliShapes ==
  ASSUME CliInv
  PROVE  /\ \A path \in CliPaths :
              /\ Cli!Request(path) \in CliProcess
              /\ Cli!Request(path).at = "asking" /\ Cli!Request(path).asked = path
              /\ Cli!Request(path).order = cli.order /\ Cli!Request(path).exit = cli.exit
              /\ Cli!Request(path).passed = cli.passed
              /\ Cli!Request(path).processed = cli.processed
         /\ cli.order # <<>> =>
              \A ok \in BOOLEAN :
                /\ Cli!Counted(ok) \in CliProcess /\ Cli!Counted(ok).at = "walking"
                /\ Cli!Counted(ok).exit = cli.exit
                /\ Cli!Counted(ok).processed = cli.processed + 1
                /\ Cli!Counted(ok).passed = IF ok THEN cli.passed + 1 ELSE cli.passed
<1>1. ASSUME NEW path \in CliPaths
      PROVE  /\ Cli!Request(path) \in CliProcess
             /\ Cli!Request(path).at = "asking" /\ Cli!Request(path).asked = path
             /\ Cli!Request(path).order = cli.order /\ Cli!Request(path).exit = cli.exit
             /\ Cli!Request(path).passed = cli.passed
             /\ Cli!Request(path).processed = cli.processed
  BY DEF Cli!Request, CliInv, CliProcess, CliPaths
<1>2. ASSUME NEW ok \in BOOLEAN, cli.order # <<>>
      PROVE  /\ Cli!Counted(ok) \in CliProcess /\ Cli!Counted(ok).at = "walking"
             /\ Cli!Counted(ok).exit = cli.exit
             /\ Cli!Counted(ok).processed = cli.processed + 1
             /\ Cli!Counted(ok).passed = IF ok THEN cli.passed + 1 ELSE cli.passed
  <2>1. Tail(cli.order) \in Seq(Files)
    BY <1>2 DEF CliInv, CliProcess
  <2>2. cli \in CliProcess
    BY DEF CliInv
  <2>3. Cli!Counted(ok) = [cli EXCEPT !.at = "walking", !.order = Tail(cli.order),
                                    !.asked = "nothing", !.processed = cli.processed + 1,
                                    !.passed = IF ok THEN cli.passed + 1 ELSE cli.passed]
    BY <2>2 DEF Cli!Counted, CliProcess
  <2>4. cli.processed + 1 \in Nat /\ (IF ok THEN cli.passed + 1 ELSE cli.passed) \in Nat
    BY <2>2 DEF CliProcess
  <2>5. Cli!Counted(ok) \in CliProcess
    BY <2>1, <2>2, <2>3, <2>4 DEF CliProcess, CliPaths
  <2>. QED  BY <2>2, <2>3, <2>5 DEF CliProcess
<1>. QED  BY <1>1, <1>2

(* Every step of the command line keeps the invariant, one step per command  *)
(* and per answer.                                                           *)
LEMMA CliSteps == CliInv /\ Cli!CliNext => CliInv'
<1>. SUFFICES ASSUME CliInv, Cli!CliNext PROVE CliInv'
  OBVIOUS
<1>. USE DEF Cli!Same, Cli!Exit, Cli!Command
<1>1. CASE Cli!Shell
  <2>1. cli' \in CliProcess /\ cli'.at = "started" /\ cli'.exit = {} /\ tested' = {}
        /\ cli'.passed = 0 /\ cli'.processed = 0
    BY <1>1, NewProcess DEF Cli!Shell, Cli!Process
  <2>2. argv'.command \in {"translate", "modernize"} => Singular(argv'.min)
    <3>1. argv' \in Cli!Arguments
      BY <1>1 DEF Cli!Shell
    <3>2. \A set \in Cli!minConfidence : Singular(set)
      <4>1. Singular({}) /\ Cli!Default \in Nat /\ Thresholds \subseteq Nat
        BY ProgramsAssumption DEF Singular, Cli!Default
      <4>2. ASSUME NEW t \in Nat PROVE Singular({t})
        BY DEF Singular
      <4>3. ASSUME NEW set \in Cli!minConfidence
            PROVE  set = {} \/ set = {Cli!Default} \/ \E t \in Thresholds : set = {t}
        BY DEF Cli!minConfidence
      <4>. QED  BY <4>1, <4>2, <4>3
    <3>3. argv' \in Cli!Gated \/ argv'.command \notin {"translate", "modernize"}
      BY <3>1 DEF Cli!Arguments, Cli!Plain, Cli!Login, Cli!OneRequest
    <3>. QED  BY <3>2, <3>3 DEF Cli!Gated
  <2>. QED
    BY <2>1, <2>2 DEF CliInv, Asking, AllMeet, Cli!GateCountsEveryFile, Singular
<1>2. CASE Cli!printHelp \/ Cli!Usage \/ Cli!RequestFails
  BY <1>2, CliExit DEF Cli!printHelp, Cli!Usage, Cli!RequestFails
<1>3. CASE Cli!saveConfig
  BY <1>3, CliExit DEF Cli!saveConfig
<1>4. CASE Cli!Single
  <2>1. PICK path \in {"health", "verify", "explain"} :
          /\ Cli!Asks(path) /\ UNCHANGED <<argv, tested>>
          /\ argv.command \in {"health", "verify-receipt", "explain"} /\ cli.at = "started"
    BY <1>4 DEF Cli!Single
  <2>2. CASE Cli!createClient
    <3>1. /\ cli' \in CliProcess /\ cli'.at = "asking" /\ cli'.asked = path /\ cli'.exit = {}
          /\ argv.command \notin {"translate", "modernize"}
      BY <2>1, <2>2, CliShapes DEF Cli!Asks, CliInv, CliPaths
    <3>2. \A t \in tested' : t.scores \in SUBSET Scores
      BY <2>1 DEF CliInv
    <3>. QED  BY <2>1, <3>1, <3>2, CliGoesOn DEF Asking
  <2>3. CASE ~Cli!createClient
    BY <2>1, <2>3, CliExit DEF Cli!Asks
  <2>. QED  BY <2>2, <2>3
<1>5. CASE Cli!OneFile
  <2>1. PICK f \in Files : cli' = IF Cli!createClient
                                 THEN [Cli!Request("translate") EXCEPT !.files = {f}, !.order = <<f>>]
                                 ELSE [cli EXCEPT !.at = "ended", !.exit = {1}]
    BY <1>5 DEF Cli!OneFile
  <2>2. CASE Cli!createClient
    <3>1. <<f>> \in Seq(Files) /\ <<f>> # <<>> /\ {f} \in SUBSET Files
      OBVIOUS
    <3>2. Cli!Request("translate") \in CliProcess /\ Cli!Request("translate").exit = {}
          /\ Cli!Request("translate").at = "asking" /\ Cli!Request("translate").asked = "translate"
      BY <1>5, CliShapes DEF CliPaths, CliInv, Cli!OneFile
    <3>3. cli' \in CliProcess /\ cli'.at = "asking" /\ cli'.asked = "translate"
          /\ cli'.order # <<>> /\ cli'.exit = {}
      BY <2>1, <2>2, <3>1, <3>2 DEF CliProcess
    <3>. QED  BY <1>5, <3>3, CliGoesOn DEF Cli!OneFile, CliInv, Asking
  <2>3. CASE ~Cli!createClient
    BY <1>5, <2>1, <2>3, CliExit DEF Cli!OneFile
  <2>. QED  BY <2>2, <2>3
<1>6. CASE Cli!getFilesRecursively
  <2>1. PICK found \in SUBSET Files :
          cli' \in {[cli EXCEPT !.at = "ended", !.exit = {0}], [cli EXCEPT !.at = "ended", !.exit = {1}],
                   [Cli!Request("analyze") EXCEPT !.files = found]}
    BY <1>6 DEF Cli!getFilesRecursively
  <2>2. cli.at = "started" /\ argv.command = "modernize" /\ UNCHANGED <<argv, tested>>
    BY <1>6 DEF Cli!getFilesRecursively
  <2>3. CASE cli' = [Cli!Request("analyze") EXCEPT !.files = found]
    <3>0. /\ Cli!Request("analyze") \in CliProcess /\ Cli!Request("analyze").exit = {}
          /\ Cli!Request("analyze").at = "asking" /\ Cli!Request("analyze").asked = "analyze"
          /\ Cli!Request("analyze").passed = 0 /\ Cli!Request("analyze").processed = 0
      BY <2>2, CliShapes DEF CliPaths, CliInv
    <3>1. cli' \in CliProcess /\ cli'.at = "asking" /\ cli'.asked = "analyze" /\ cli'.exit = {}
          /\ cli'.passed = 0 /\ cli'.processed = 0
      BY <2>3, <3>0 DEF CliProcess
    <3>. QED  BY <2>2, <3>1, CliGoesOn DEF CliInv, Asking, AllMeet
  <2>4. AllMeet
    BY <2>2 DEF CliInv, AllMeet
  <2>. QED  BY <2>1, <2>2, <2>3, <2>4, CliExit
<1>7. CASE Cli!SingleAnswers
  BY <1>7, CliExit DEF Cli!SingleAnswers, Cli!Answer, CliInv, Asking
<1>8. CASE Cli!analyzeRepository
  <2>1. PICK named \in SUBSET Files : \E order \in Cli!SetToSeqs(named) :
          cli' = [cli EXCEPT !.at = "walking", !.order = order]
    BY <1>8 DEF Cli!analyzeRepository
  <2>2. PICK order \in Seq(Files) : cli' = [cli EXCEPT !.at = "walking", !.order = order]
    <3>1. Cardinality(named) \in Nat
      BY <2>1, ProgramsAssumption, FS_Subset, FS_CardinalityType
    <3>2. \A order \in Cli!SetToSeqs(named) : order \in Seq(Files)
      <4>1. ASSUME NEW order \in Cli!SetToSeqs(named) PROVE order \in Seq(Files)
        <5>0. Cli!Cardinality(named) = Cardinality(named)
          BY DEF Cli!Cardinality, Cardinality
        <5>1. order \in [1..Cardinality(named) -> named]
          BY <4>1, <5>0 DEF Cli!SetToSeqs
        <5>2. order \in [1..Cardinality(named) -> Files]
          BY <5>1
        <5>. QED  BY <3>1, <5>2
      <4>. QED  BY <4>1
    <3>. QED  BY <2>1, <3>2
  <2>3. cli' \in CliProcess /\ cli'.at = "walking" /\ cli'.exit = cli.exit
        /\ cli'.passed = cli.passed /\ cli'.processed = cli.processed
    BY <2>2 DEF CliInv, CliProcess
  <2>. QED  BY <1>8, <2>3, CliGoesOn DEF Cli!analyzeRepository, Cli!Answer, CliInv, Asking, AllMeet
<1>9. CASE Cli!NextFile
  <2>1. cli.at = "walking" /\ cli.order # <<>> /\ argv.command = "modernize"
        /\ UNCHANGED <<argv, tested>>
    BY <1>9 DEF Cli!NextFile, CliInv
  <2>2. CASE cli' = Cli!Request("translate")
    BY <2>1, <2>2, CliShapes, CliGoesOn DEF CliPaths, CliInv, Asking, AllMeet
  <2>3. CASE cli' = [cli EXCEPT !.order = Tail(@)]
    <3>0. Tail(cli.order) \in Seq(Files) /\ cli \in CliProcess
      BY <2>1 DEF CliInv, CliProcess
    <3>2. cli' = [cli EXCEPT !.order = Tail(cli.order)]
      BY <2>3, <3>0 DEF CliProcess
    <3>1. cli' \in CliProcess /\ cli'.at = "walking" /\ cli'.exit = cli.exit
          /\ cli'.passed = cli.passed /\ cli'.processed = cli.processed
      BY <2>1, <3>0, <3>2 DEF CliProcess
    <3>. QED  BY <2>1, <3>1, CliGoesOn DEF CliInv, Asking, AllMeet
  <2>. QED  BY <1>9, <2>2, <2>3 DEF Cli!NextFile
<1>10. CASE Cli!translateCode
  <2>1. cli.at = "asking" /\ cli.asked = "translate" /\ cli.order # <<>>
        /\ argv.command \in {"translate", "modernize"} /\ UNCHANGED <<argv, tested>>
    BY <1>10 DEF Cli!translateCode, Cli!Answer, CliInv, Asking
  <2>2. CASE argv.verify \/ argv.gate
    <3>1. cli' = Cli!Request("evaluate")
      BY <1>10, <2>2 DEF Cli!translateCode
    <3>. QED  BY <2>1, <3>1, CliShapes, CliGoesOn DEF CliPaths, CliInv, Asking, AllMeet
  <2>3. CASE ~(argv.verify \/ argv.gate) /\ argv.command = "translate"
    BY <1>10, <2>1, <2>3, CliExit DEF Cli!translateCode
  <2>4. CASE ~(argv.verify \/ argv.gate) /\ argv.command = "modernize"
    <3>1. cli' = Cli!Counted(TRUE)
      BY <1>10, <2>4 DEF Cli!translateCode
    <3>2. cli.passed \in Nat /\ cli.processed \in Nat
      BY DEF CliInv, CliProcess
    <3>3. /\ cli' \in CliProcess /\ cli'.at = "walking" /\ cli'.exit = {}
          /\ cli'.processed = cli.processed + 1 /\ cli'.passed = cli.passed + 1
      BY <2>1, <3>1, CliShapes DEF CliInv
    <3>4. cli.passed <= cli.processed /\ (cli.passed = cli.processed => AllMeet)
      BY <2>4 DEF CliInv
    <3>5. AllMeet => AllMeet'
      BY <2>1 DEF AllMeet, Cli!Rounded
    <3>6. \A t \in tested' : t.scores \in SUBSET Scores
      BY <2>1 DEF CliInv
    <3>. QED  BY <2>1, <2>4, <3>2, <3>3, <3>4, <3>5, <3>6, CliGoesOn DEF Asking
  <2>. QED  BY <2>1, <2>2, <2>3, <2>4
<1>11. CASE Cli!evaluateEquivalence
  <2>1. cli.at = "asking" /\ cli.asked = "evaluate" /\ cli.order # <<>>
        /\ argv.command \in {"translate", "modernize"} /\ UNCHANGED argv
    BY <1>11 DEF Cli!evaluateEquivalence, Cli!Answer, CliInv, Asking
  <2>2. PICK scores \in Cli!answers :
          /\ tested' = tested \cup {[file |-> Head(cli.order), scores |-> scores]}
          /\ IF argv.command = "translate"
             THEN Cli!Exit(IF argv.gate /\ Cli!Below(scores) THEN 1 ELSE 0)
             ELSE cli' = Cli!Counted(Cli!Meets(scores))
    BY <1>11 DEF Cli!evaluateEquivalence
  <2>3. Singular(argv.min) /\ Singular(scores) /\ scores \in SUBSET Scores
        /\ \A s \in scores : Cli!Rounded(s) \in Int
    BY <2>1, ProgramsAssumption DEF Cli!Rounded, Cli!answers, CliInv, Singular
  <2>4. \A t \in tested' : t.scores \in SUBSET Scores
    BY <2>2, <2>3 DEF CliInv
  <2>5. CASE argv.command = "translate"
    <3>1. tested = {}
      BY <2>1, <2>5 DEF CliInv
    <3>2. PICK n \in {0, 1} : /\ cli' = [cli EXCEPT !.at = "ended", !.exit = {n}]
                             /\ n = IF argv.gate /\ Cli!Below(scores) THEN 1 ELSE 0
      BY <2>2, <2>5
    <3>3. cli' \in CliProcess /\ cli'.at = "ended" /\ cli'.exit = {n}
      BY <3>2 DEF CliInv, CliProcess
    <3>4. Cli!GateCountsEveryFile'
      <4>1. ~argv.gate \/ n = 1 \/ \A m \in argv.min, s \in scores : Cli!Rounded(s) >= m
        BY <2>3, <3>2 DEF Cli!Below, Singular
      <4>2. \A t \in tested' : t.scores = scores
        BY <2>2, <3>1
      <4>4. Cli!Passed' => argv.gate /\ n = 0
        BY <2>1, <3>3 DEF Cli!Passed
      <4>5. Cli!Passed' => \A m \in argv.min, s \in scores : Cli!Rounded(s) >= m
        BY <4>1, <4>4
      <4>. QED  BY <2>1, <4>2, <4>5 DEF Cli!GateCountsEveryFile, Cli!Rounded
    <3>. QED  BY <2>1, <2>3, <2>4, <2>5, <3>3, <3>4 DEF CliInv, Asking
  <2>6. CASE argv.command = "modernize"
    <3>1. cli' = Cli!Counted(Cli!Meets(scores)) /\ Cli!Meets(scores) \in BOOLEAN
      BY <2>2, <2>6 DEF Cli!Meets
    <3>2. cli.passed \in Nat /\ cli.processed \in Nat /\ cli.passed <= cli.processed
          /\ (cli.passed = cli.processed => AllMeet)
      BY <2>6 DEF CliInv, CliProcess
    <3>3. /\ cli' \in CliProcess /\ cli'.at = "walking" /\ cli'.exit = {}
          /\ cli'.processed = cli.processed + 1
          /\ cli'.passed = IF Cli!Meets(scores) THEN cli.passed + 1 ELSE cli.passed
      BY <2>1, <3>1, CliShapes DEF CliPaths, CliInv
    <3>4. AllMeet /\ Cli!Meets(scores) => AllMeet'
      <4>1. Cli!Meets(scores) => \A m \in argv.min, s \in scores : Cli!Rounded(s) >= m
        BY <2>3 DEF Cli!Meets, Singular
      <4>. QED  BY <2>1, <2>2, <4>1 DEF AllMeet, Cli!Rounded
    <3>. QED  BY <2>1, <2>4, <2>6, <3>2, <3>3, <3>4, CliGoesOn DEF Asking
  <2>. QED  BY <2>1, <2>5, <2>6
<1>12. CASE Cli!Complete
  <2>1. cli.at = "walking" /\ argv.command = "modernize" /\ UNCHANGED <<argv, tested>>
    BY <1>12 DEF Cli!Complete, CliInv
  <2>2. CASE Cli!Gate
    BY <1>12, <2>1, <2>2, CliExit DEF Cli!Complete
  <2>3. CASE ~Cli!Gate
    <3>1. ~argv.gate \/ AllMeet
      BY <2>1, <2>3 DEF Cli!Gate, CliInv, CliProcess
    <3>. QED  BY <1>12, <2>1, <2>3, <3>1, CliExit DEF Cli!Complete
  <2>. QED  BY <2>2, <2>3
<1>. QED
  BY <1>1, <1>2, <1>3, <1>4, <1>5, <1>6, <1>7, <1>8, <1>9, <1>10, <1>11, <1>12 DEF Cli!CliNext

LEMMA CliHolds == ProgramsSpec => [](surface = "command line" => CliInv)
<1>. DEFINE Inv == surface = "command line" => CliInv
<1>1. ProgramsInit => Inv
  BY CliStart DEF ProgramsInit
<1>2. Inv /\ [ProgramsNext]_allVars => Inv'
  <2>1. UNCHANGED cliVars /\ CliInv => CliInv'
    BY DEF cliVars, CliInv, Asking, AllMeet, Singular, Cli!GateCountsEveryFile, Cli!Passed,
           Cli!Rounded
  <2>. QED  BY <2>1, OneProgram, CliSteps
<1>. QED  BY <1>1, <1>2, PTL DEF ProgramsSpec, allVars

(* A gate that was given a number does not pass when the confidence shown for *)
(* a file it evaluated is less, of however many files, with whichever of them *)
(* that could not be evaluated (main and modernizeDirectory of the command    *)
(* line).                                                                     *)
THEOREM GateHoldsEveryFile == ProgramsSpec => []GateCountsEveryFile
<1>1. (surface = "command line" => CliInv) => GateCountsEveryFile
  BY DEF GateCountsEveryFile, CliInv
<1>. QED  BY <1>1, CliHolds, PTL

-----------------------------------------------------------------------------
(* Where the keys of the extension are while they move. To be inductive the  *)
(* property needs what the moving relies on: a key that is being stored is   *)
(* one, and the settings are only cleared once the key is in the secret      *)
(* storage.                                                                  *)
EditorInv ==
  /\ settings \in [Targets -> Nat] /\ secret \in Nat /\ newest \in Nat
  /\ ext \in [at : {"closed", "ready", "storing", "clearing", "failed"},
               left : SUBSET Targets, key : Nat]
  /\ ext.at = "storing" => ext.key # 0
  /\ ext.at = "clearing" => secret # 0
  /\ newest # 0 => secret # 0 \/ \E t \in Targets : settings[t] # 0

(* A key may be in the settings when the extension is installed.             *)
LEMMA EditorStart == Editor!EditorInit => EditorInv
BY DEF Editor!EditorInit, EditorInv

(* Every step of the extension keeps the invariant: the activation, which    *)
(* moves the key, and the commands, which only read it.                      *)
LEMMA EditorSteps == EditorInv /\ Editor!EditorNext => EditorInv'
<1>. SUFFICES ASSUME EditorInv, Editor!EditorNext PROVE EditorInv'
  OBVIOUS
<1>. USE DEF EditorInv
<1>1. CASE Editor!activate
  BY <1>1 DEF Editor!activate, Editor!legacyApiKey
<1>2. CASE Editor!StoreLegacy
  BY <1>2 DEF Editor!StoreLegacy
<1>3. CASE Editor!ClearSettings
  <2>1. PICK t \in ext.left :
          /\ settings' \in {settings, [settings EXCEPT ![t] = 0]}
          /\ ext' \in {Editor!Left(t), [ext EXCEPT !.at = "failed"]}
    BY <1>3 DEF Editor!ClearSettings, Editor!ClearLegacy
  <2>2. settings' \in [Targets -> Nat] /\ UNCHANGED <<secret, newest>> /\ secret # 0
    BY <1>3, <2>1 DEF Editor!ClearSettings
  <2>3. /\ ext' \in [at : {"closed", "ready", "storing", "clearing", "failed"},
                    left : SUBSET Targets, key : Nat]
        /\ ext'.at # "storing"
    <3>1. Editor!Left(t) \in [at : {"ready", "clearing"}, left : SUBSET Targets, key : Nat]
      BY <1>3 DEF Editor!ClearSettings, Editor!Left
    <3>2. [ext EXCEPT !.at = "failed"] \in [at : {"failed"}, left : SUBSET Targets, key : Nat]
      OBVIOUS
    <3>. QED  BY <2>1, <3>1, <3>2
  <2>. QED  BY <2>2, <2>3
<1>4. CASE Editor!Closes
  BY <1>4 DEF Editor!Closes
<1>5. CASE Editor!setApiKey
  BY <1>5 DEF Editor!setApiKey
<1>6. CASE UNCHANGED <<settings, secret, newest, ext>>
  BY <1>6
<1>7. CASE Editor!translateInline \/ Editor!Inserted \/ Editor!EditLine \/ Editor!provideHover
           \/ Editor!CancelHover \/ Editor!HoverSteps
  BY <1>6, <1>7 DEF Editor!translateInline, Editor!Inserted, Editor!EditLine,
     Editor!provideHover, Editor!CancelHover, Editor!HoverSteps, Editor!KeysSame
<1>. QED  BY <1>1, <1>2, <1>3, <1>4, <1>5, <1>7 DEF Editor!EditorNext

(* As long as the editor is what is open, its invariant holds.               *)
LEMMA EditorHolds == ProgramsSpec => [](surface = "editor" => EditorInv)
<1>. DEFINE Inv == surface = "editor" => EditorInv
<1>1. ProgramsInit => Inv
  BY EditorStart DEF ProgramsInit
<1>2. Inv /\ [ProgramsNext]_allVars => Inv'
  <2>1. UNCHANGED editorVars /\ EditorInv => EditorInv'
    BY DEF editorVars, EditorInv
  <2>. QED  BY <2>1, OneProgram, EditorSteps
<1>. QED  BY <1>1, <1>2, PTL DEF ProgramsSpec, allVars

(* A key the user once gave is in the settings or in the store of secrets,   *)
(* whatever step the activation was interrupted at while it moved the key    *)
(* (activate of extension.ts).                                               *)
THEOREM KeyIsKept == ProgramsSpec => []KeyIsNeverLost
<1>1. (surface = "editor" => EditorInv) => KeyIsNeverLost
  BY DEF KeyIsNeverLost, EditorInv, Editor!KeyIsNeverLost, Editor!legacyApiKey
<1>. QED  BY <1>1, EditorHolds, PTL

-----------------------------------------------------------------------------
(* What the queue of the database holds: the reads of the badges and of the  *)
(* selector, and the calls of the forms, some of pages that were left.       *)
Operations ==
  {op \in [kind : {"has", "get", "form", "put", "delete"}, who : Vault!Viewers \cup {"left"}] :
     op.kind = "has" => op.who # "selector"}
Engines == [page : {"translate", "billing"}, mode : {"cloud", "byok", "offline"}]
Selectors == [reads : Nat, shown : Nat, deriving : SUBSET [read : Nat, opens : BOOLEAN]]

(* A viewer is to read again.                                                 *)
Among(x, s) == \E i \in DOMAIN s : s[i] = x
WillRead(v) == Among(Vault!Reads(v), ops)

(* The selector is right in the end: what it shows of the last of its reads,  *)
(* and what is derived for that one, opens, or it is to read again.           *)
Opens == Vault!getByokKey \/ WillRead("selector")
LastReadIsRight ==
  /\ badges["selector"] /\ selector.shown = selector.reads => Opens
  /\ \A d \in selector.deriving : d.read = selector.reads /\ d.opens => Opens

(* A badge that says more than the record is one whose next read waits in    *)
(* the queue of the database: this is what holds while the queue is not      *)
(* empty, and it is the property when it is.                                 *)
VaultInv ==
  /\ vault \in Nat /\ browser \in Nat \ {0} /\ engine \in Engines
  /\ ops \in Seq(Operations)
  /\ badges \in [Vault!Viewers -> BOOLEAN]
  /\ selector \in Selectors /\ selector.shown <= selector.reads
  /\ \A d \in selector.deriving : d.read <= selector.reads
  /\ \A v \in Vault!Viewing \ {"selector"} : badges[v] => Vault!hasByokKey \/ WillRead(v)
  /\ "selector" \in Vault!Viewing => LastReadIsRight

(* What is in a sequence is there when others are added, and in its tail when *)
(* it is not the head.                                                        *)
LEMMA InAppended ==
  ASSUME NEW S, NEW s \in Seq(S), NEW t \in Seq(S), NEW x
  PROVE  s \o t \in Seq(S) /\ (Among(x, s \o t) <=> Among(x, s) \/ Among(x, t))
<1>. USE DEF Among
<1>1. ASSUME NEW i \in DOMAIN s, s[i] = x PROVE i \in DOMAIN (s \o t) /\ (s \o t)[i] = x
  BY <1>1
<1>2. ASSUME NEW i \in DOMAIN t, t[i] = x
      PROVE  Len(s) + i \in DOMAIN (s \o t) /\ (s \o t)[Len(s) + i] = x
  BY <1>2
<1>3. ASSUME NEW i \in DOMAIN (s \o t), (s \o t)[i] = x
      PROVE  (\E k \in DOMAIN s : s[k] = x) \/ (\E k \in DOMAIN t : t[k] = x)
  <2>1. CASE i <= Len(s)
    BY <1>3, <2>1
  <2>2. CASE i > Len(s)
    <3>1. i - Len(s) \in DOMAIN t /\ t[i - Len(s)] = x
      BY <1>3, <2>2
    <3>. QED  BY <3>1
  <2>. QED  BY <2>1, <2>2
<1>. QED  BY <1>1, <1>2, <1>3

(* What waits in the queue and is not its head still waits when the head     *)
(* was served.                                                               *)
LEMMA InTail ==
  ASSUME NEW S, NEW s \in Seq(S), s # <<>>, NEW x, x # Head(s), Among(x, s)
  PROVE  Among(x, Tail(s))
<1>. USE DEF Among
<1>1. PICK i \in DOMAIN s : s[i] = x
  OBVIOUS
<1>2. i # 1 /\ i - 1 \in DOMAIN Tail(s) /\ Tail(s)[i - 1] = x
  BY <1>1
<1>. QED  BY <1>2

(* Who looks at the record, and by which of its two reads.                   *)
LEMMA Named ==
  /\ Vault!Viewing = {"sidebar", Vault!Viewer(engine.page)}
  /\ \A p : Vault!Viewer(p) \in {"billing", "selector"}
  /\ \A v \in Vault!Viewers : Vault!Reads(v) \in Operations
  /\ \A v \in Vault!Viewers : /\ Vault!Reads(v).kind = IF v = "selector" THEN "get" ELSE "has"
                              /\ Vault!Reads(v).who = v
BY DEF Vault!Viewing, Vault!Viewer, Vault!Viewers, Vault!Reads, Vault!Op, Operations

(* The selector that was just shown has asked nothing yet.                   *)
LEMMA MountedShape ==
  /\ Vault!Mounted \in Selectors /\ Vault!Mounted.shown <= Vault!Mounted.reads
  /\ Vault!Mounted.deriving = {}
BY DEF Vault!Mounted, Selectors

(* No badge says anything before the first reads.                            *)
LEMMA NothingSaid ==
  ASSUME vault' \in Nat, browser' \in Nat \ {0}, engine' \in Engines,
         ops' = <<Vault!Reads("sidebar"), Vault!Reads("selector")>>,
         badges' = [v \in Vault!Viewers |-> FALSE], selector' = Vault!Mounted
  PROVE  VaultInv'
<1>1. ops' \in Seq(Operations)
  BY Named DEF Vault!Viewers
<1>2. \A v \in Vault!Viewers : ~badges'[v]
  OBVIOUS
<1>3. Vault!Viewing' \subseteq Vault!Viewers /\ "selector" \in Vault!Viewers
  BY DEF Vault!Viewing, Vault!Viewer, Vault!Viewers
<1>4. badges' \in [Vault!Viewers -> BOOLEAN]
  OBVIOUS
<1>. QED  BY <1>1, <1>2, <1>3, <1>4, MountedShape DEF VaultInv, LastReadIsRight

LEMMA VaultStart == Vault!VaultInit => VaultInv
<1>. SUFFICES ASSUME Vault!VaultInit PROVE VaultInv
  OBVIOUS
<1>1. /\ vault \in Nat /\ browser \in Nat \ {0} /\ engine \in Engines
      /\ badges = [v \in Vault!Viewers |-> FALSE] /\ selector = Vault!Mounted
      /\ ops = <<Vault!Reads("sidebar"), Vault!Reads("selector")>>
  BY DEF Vault!VaultInit, Engines
<1>2. ops \in Seq(Operations)
  BY <1>1, Named DEF Vault!Viewers
<1>3. badges \in [Vault!Viewers -> BOOLEAN] /\ \A v \in Vault!Viewers : ~badges[v]
  BY <1>1
<1>4. Vault!Viewing \subseteq Vault!Viewers /\ "selector" \in Vault!Viewers
  BY Named DEF Vault!Viewers
<1>. QED  BY <1>1, <1>2, <1>3, <1>4, MountedShape DEF VaultInv, LastReadIsRight

(* A step that changes neither the record nor who looks at it, and after     *)
(* which those who were to read again still are.                              *)
LEMMA SameRecord ==
  ASSUME VaultInv, UNCHANGED <<vault, browser, badges, selector>>,
         engine' \in Engines, engine'.page = engine.page,
         ops' \in Seq(Operations), \A v \in Vault!Viewers : WillRead(v) => WillRead(v)'
  PROVE  VaultInv'
<1>1. Vault!Viewing' = Vault!Viewing /\ Vault!Viewing \subseteq Vault!Viewers
      /\ "selector" \in Vault!Viewers
  BY Named DEF Vault!Viewing, Vault!Viewer, Vault!Viewers
<1>2. LastReadIsRight => LastReadIsRight'
  BY <1>1 DEF LastReadIsRight, Opens, Vault!getByokKey
<1>. QED  BY <1>1, <1>2 DEF VaultInv, Vault!hasByokKey

(* A step that asks for more and answers nothing.                             *)
LEMMA AsksMore ==
  ASSUME VaultInv, NEW more \in Seq(Operations), ops' = ops \o more,
         UNCHANGED <<vault, browser, engine, badges, selector>>
  PROVE  VaultInv'
<1>1. ops \in Seq(Operations) /\ engine \in Engines
  BY DEF VaultInv
<1>2. ops' \in Seq(Operations) /\ \A x : Among(x, ops) => Among(x, ops')
  BY <1>1, InAppended
<1>3. \A v : WillRead(v) => WillRead(v)'
  BY <1>2 DEF WillRead, Vault!Reads
<1>. QED  BY <1>1, <1>2, <1>3, SameRecord

(* The oldest operation, served, is no longer there; the others are.          *)
LEMMA Served ==
  ASSUME VaultInv, ops # <<>>, ops' = Tail(ops)
  PROVE  /\ Head(ops) \in Operations /\ ops' \in Seq(Operations)
         /\ \A v : WillRead(v) /\ Vault!Reads(v) # Head(ops) => WillRead(v)'
<1>1. ops \in Seq(Operations)
  BY DEF VaultInv
<1>2. ASSUME NEW v, WillRead(v), Vault!Reads(v) # Head(ops)
      PROVE  Among(Vault!Reads(v), Tail(ops))
  BY <1>1, <1>2, InTail DEF WillRead
<1>3. ASSUME NEW v, Among(Vault!Reads(v), Tail(ops))
      PROVE  WillRead(v)'
  BY <1>3 DEF WillRead, Vault!Reads
<1>. QED  BY <1>1, <1>2, <1>3

(* An operation that is no read of a viewer that is there.                    *)
LEMMA OtherServed ==
  ASSUME VaultInv, ops # <<>>, ops' = Tail(ops),
         Head(ops).kind \in {"form", "put", "delete"} \/ Head(ops).who = "left",
         UNCHANGED <<vault, browser, engine, badges, selector>>
  PROVE  VaultInv'
<1>1. ASSUME NEW v \in Vault!Viewers
      PROVE  Vault!Reads(v) # Head(ops)
  BY Named DEF Vault!Viewers
<1>2. engine \in Engines
  BY DEF VaultInv
<1>. QED  BY <1>1, <1>2, Served, SameRecord

(* The record changed: every viewer is to read again.                         *)
LEMMA Announced ==
  ASSUME VaultInv, ops # <<>>, vault' \in Nat, ops' = Tail(ops) \o Vault!Updated,
         UNCHANGED <<browser, engine, badges, selector>>
  PROVE  VaultInv'
<1>. DEFINE told == Vault!Updated
<1>1. told = <<Vault!Reads("sidebar"), Vault!Reads(Vault!Viewer(engine.page))>>
  BY DEF Vault!Updated
<1>2. told \in Seq(Operations)
  BY <1>1, Named DEF Vault!Viewers
<1>3. \A v \in Vault!Viewing : Among(Vault!Reads(v), told)
  <2>1. told[1] = Vault!Reads("sidebar") /\ told[2] = Vault!Reads(Vault!Viewer(engine.page))
        /\ 1 \in DOMAIN told /\ 2 \in DOMAIN told
    BY <1>1
  <2>. HIDE DEF told
  <2>. QED  BY <2>1, Named DEF Among
<1>. HIDE DEF told
<1>4. Tail(ops) \in Seq(Operations) /\ ops' = Tail(ops) \o told
  BY DEF told, VaultInv
<1>5. \A v \in Vault!Viewing : WillRead(v)'
  <2>1. ASSUME NEW v \in Vault!Viewing
        PROVE  Among(Vault!Reads(v), Tail(ops) \o told)
    BY <1>2, <1>3, <1>4, InAppended
  <2>. QED  BY <1>4, <2>1 DEF WillRead, Vault!Reads
<1>6. ops' \in Seq(Operations)
  BY <1>2, <1>4, InAppended
<1>7. Vault!Viewing' = Vault!Viewing
  BY DEF Vault!Viewing, Vault!Viewer
<1>. QED  BY <1>5, <1>6, <1>7 DEF VaultInv, LastReadIsRight, Opens

(* What a badge hears of the record is what it says, until the next change.  *)
LEMMA BadgeRead == VaultInv /\ Vault!Read => VaultInv'
<1>. SUFFICES ASSUME VaultInv, Vault!Read PROVE VaultInv'
  OBVIOUS
<1>. DEFINE reader == Head(ops).who
<1>0. /\ ops # <<>> /\ Head(ops).kind = "has" /\ ops' = Tail(ops)
      /\ UNCHANGED <<vault, browser, engine, selector>>
  BY DEF Vault!Read
<1>1. Head(ops) \in Operations /\ ops' \in Seq(Operations)
      /\ \A v : WillRead(v) /\ Vault!Reads(v) # Head(ops) => WillRead(v)'
  BY <1>0, Served
<1>2. reader \in {"sidebar", "billing", "left"}
  BY <1>0, <1>1 DEF Operations, Vault!Viewers
<1>3. \A v \in Vault!Viewers : v # reader => Vault!Reads(v) # Head(ops)
  BY Named
<1>4. PICK seen \in BOOLEAN :
        /\ seen => Vault!hasByokKey
        /\ badges' = IF reader \in Vault!Viewing THEN [badges EXCEPT ![reader] = seen] ELSE badges
  BY DEF Vault!Read
<1>. HIDE DEF reader
<1>5. badges \in [Vault!Viewers -> BOOLEAN] /\ Vault!Viewing \subseteq Vault!Viewers
      /\ "selector" \in Vault!Viewers
  BY Named DEF VaultInv, Vault!Viewers
<1>6. /\ badges' \in [Vault!Viewers -> BOOLEAN]
      /\ \A v \in Vault!Viewers \ {reader} : badges'[v] = badges[v]
      /\ reader \in Vault!Viewing => badges'[reader] = seen
  BY <1>4, <1>5
<1>7. Vault!Viewing' = Vault!Viewing
  BY <1>0 DEF Vault!Viewing, Vault!Viewer
<1>8. ASSUME NEW v \in Vault!Viewing \ {"selector"}, badges'[v]
      PROVE  (Vault!hasByokKey \/ WillRead(v))'
  <2>1. CASE v = reader
    BY <1>0, <1>4, <1>6, <1>8, <2>1 DEF Vault!hasByokKey
  <2>2. CASE v # reader
    <3>1. Vault!hasByokKey \/ WillRead(v)
      BY <1>5, <1>6, <1>8, <2>2 DEF VaultInv
    <3>. QED  BY <1>0, <1>1, <1>3, <1>5, <2>2, <3>1 DEF Vault!hasByokKey
  <2>. QED  BY <2>1, <2>2
<1>9. "selector" \in Vault!Viewing => LastReadIsRight'
  <2>1. badges'["selector"] = badges["selector"] /\ (WillRead("selector") => WillRead("selector")')
    BY <1>1, <1>2, <1>3, <1>5, <1>6
  <2>. QED  BY <1>0, <2>1 DEF VaultInv, LastReadIsRight, Opens, Vault!getByokKey
<1>. QED  BY <1>0, <1>1, <1>6, <1>7, <1>8, <1>9 DEF VaultInv

(* A read of the selector is the last of its reads when it is answered: what  *)
(* was shown or derived before no longer counts.                              *)
LEMMA SelectorRead == VaultInv /\ Vault!RecordRead => VaultInv'
<1>. SUFFICES ASSUME VaultInv, Vault!RecordRead PROVE VaultInv'
  OBVIOUS
<1>. DEFINE read == selector.reads + 1
<1>0. /\ ops # <<>> /\ Head(ops).kind = "get" /\ ops' = Tail(ops)
      /\ UNCHANGED <<vault, browser, engine>>
  BY DEF Vault!RecordRead
<1>1. /\ ops' \in Seq(Operations)
      /\ \A v \in Vault!Viewers \ {"selector"} : WillRead(v) => WillRead(v)'
  BY <1>0, Served, Named
<1>9. /\ selector = [reads |-> selector.reads, shown |-> selector.shown,
                     deriving |-> selector.deriving]
      /\ selector.reads \in Nat /\ selector.shown \in Nat /\ read \in Nat
      /\ selector.deriving \in SUBSET [read : Nat, opens : BOOLEAN] /\ selector.reads < read
  BY DEF VaultInv, Selectors
<1>2. /\ selector \in Selectors /\ badges \in [Vault!Viewers -> BOOLEAN]
      /\ "selector" \in Vault!Viewers /\ Vault!Viewing \subseteq Vault!Viewers
  BY Named DEF VaultInv, Vault!Viewers
<1>3. Vault!Viewing' = Vault!Viewing
  BY <1>0 DEF Vault!Viewing, Vault!Viewer
<1>4. ASSUME badges' \in [Vault!Viewers -> BOOLEAN],
             \A v \in Vault!Viewers \ {"selector"} : badges'[v] = badges[v],
             selector' \in Selectors, selector'.shown <= selector'.reads,
             \A d \in selector'.deriving : d.read <= selector'.reads, LastReadIsRight'
      PROVE  VaultInv'
  BY <1>0, <1>1, <1>2, <1>3, <1>4 DEF VaultInv, Vault!hasByokKey
<1>5. CASE Head(ops).who = "left" /\ UNCHANGED <<badges, selector>>
  BY <1>0, <1>5, OtherServed
<1>6. CASE /\ badges' = [badges EXCEPT !["selector"] = FALSE]
           /\ selector' = [selector EXCEPT !.reads = read, !.shown = read]
  <2>1. /\ selector' \in Selectors /\ selector'.shown = read /\ selector'.reads = read
        /\ selector'.deriving = selector.deriving /\ read \in Nat /\ selector.reads < read
    BY <1>6, <1>9 DEF Selectors
  <2>2. \A d \in selector.deriving : d.read < read
    BY <1>2, <2>1 DEF VaultInv, Selectors
  <2>3. ~badges'["selector"]
    BY <1>2, <1>6
  <2>4. LastReadIsRight'
    BY <1>2, <2>1, <2>2, <2>3 DEF LastReadIsRight, Selectors
  <2>. QED  BY <1>2, <1>4, <1>6, <2>1, <2>2, <2>4 DEF Selectors
<1>7. CASE /\ UNCHANGED badges
           /\ selector' = [selector EXCEPT !.reads = read,
                 !.deriving = @ \cup {[read |-> read, opens |-> Vault!getByokKey]}]
  <2>. DEFINE new == [read |-> read, opens |-> Vault!getByokKey]
  <2>1. new \in [read : Nat, opens : BOOLEAN] /\ new.read = read /\ (new.opens => Vault!getByokKey)
    BY <1>9 DEF Vault!getByokKey
  <2>. HIDE DEF new
  <2>2. /\ selector' \in Selectors /\ selector'.shown = selector.shown /\ selector'.reads = read
        /\ selector'.deriving = selector.deriving \cup {new}
        /\ read \in Nat /\ selector.reads < read
    BY <1>7, <1>9, <2>1 DEF Selectors, new
  <2>3. selector.shown < read /\ \A d \in selector.deriving : d.read < read
    BY <1>2, <2>2 DEF VaultInv, Selectors
  <2>4. Vault!getByokKey => Vault!getByokKey'
    BY <1>0 DEF Vault!getByokKey
  <2>5. LastReadIsRight'
    BY <1>2, <2>1, <2>2, <2>3, <2>4 DEF LastReadIsRight, Opens, Selectors
  <2>6. \A d \in selector'.deriving : d.read <= selector'.reads
    BY <1>2, <2>1, <2>2, <2>3 DEF Selectors
  <2>. QED  BY <1>2, <1>4, <1>7, <2>2, <2>3, <2>5, <2>6 DEF Selectors
<1>. QED  BY <1>5, <1>6, <1>7 DEF Vault!RecordRead

(* A key that was derived is what the selector shows; only that of its last   *)
(* read is what was promised.                                                  *)
LEMMA KeyDerived == VaultInv /\ Vault!Derived => VaultInv'
<1>. SUFFICES ASSUME VaultInv, Vault!Derived PROVE VaultInv'
  OBVIOUS
<1>1. PICK d \in selector.deriving, failed \in BOOLEAN :
        /\ badges' = [badges EXCEPT !["selector"] = ~failed /\ d.opens]
        /\ selector' = [selector EXCEPT !.shown = d.read, !.deriving = @ \ {d}]
  BY DEF Vault!Derived
<1>2. UNCHANGED <<vault, browser, ops, engine>>
  BY DEF Vault!Derived
<1>3. /\ selector \in Selectors /\ badges \in [Vault!Viewers -> BOOLEAN]
      /\ "selector" \in Vault!Viewers /\ Vault!Viewing \subseteq Vault!Viewers
      /\ d \in [read : Nat, opens : BOOLEAN] /\ d.read <= selector.reads
  BY Named DEF VaultInv, Vault!Viewers, Selectors
<1>4. /\ selector' \in Selectors /\ selector'.shown = d.read /\ selector'.reads = selector.reads
      /\ selector'.deriving = selector.deriving \ {d}
  BY <1>1, <1>3 DEF Selectors
<1>5. /\ badges' \in [Vault!Viewers -> BOOLEAN] /\ (badges'["selector"] => d.opens)
      /\ \A v \in Vault!Viewers \ {"selector"} : badges'[v] = badges[v]
  BY <1>1, <1>3
<1>6. /\ Vault!Viewing' = Vault!Viewing /\ (\A v : WillRead(v)' <=> WillRead(v))
      /\ (Vault!hasByokKey' <=> Vault!hasByokKey) /\ (Vault!getByokKey' <=> Vault!getByokKey)
  BY <1>2 DEF Vault!Viewing, Vault!Viewer, WillRead, Among, Vault!Reads, Vault!hasByokKey,
              Vault!getByokKey
<1>7. LastReadIsRight => LastReadIsRight'
  BY <1>4, <1>5, <1>6 DEF LastReadIsRight, Opens
<1>. QED  BY <1>2, <1>3, <1>4, <1>5, <1>6, <1>7 DEF VaultInv

(* Another page is shown: its viewer has yet to read, and what the one that   *)
(* was left asked is of no viewer any more.                                   *)
LEMMA PageShown == VaultInv /\ Vault!Navigate => VaultInv'
<1>. SUFFICES ASSUME VaultInv, Vault!Navigate PROVE VaultInv'
  OBVIOUS
<1>. DEFINE to == IF engine.page = "billing" THEN "translate" ELSE "billing"
            shown == Vault!Viewer(to)
<1>0. /\ ops \in Seq(Operations) /\ badges \in [Vault!Viewers -> BOOLEAN]
      /\ engine \in Engines /\ vault \in Nat /\ browser \in Nat \ {0}
  BY DEF VaultInv
<1>1. PICK put \in {<<>>, <<Vault!Op("put", "left")>>} :
        ops' = Append(Vault!Left, Vault!Reads(shown)) \o put
  BY DEF Vault!Navigate
<1>2. /\ engine' = [engine EXCEPT !.page = to] /\ badges' = [badges EXCEPT ![shown] = FALSE]
      /\ selector' = Vault!Mounted /\ UNCHANGED <<vault, browser>>
  BY DEF Vault!Navigate
<1>3. shown \in {"billing", "selector"} /\ shown \in Vault!Viewers
  BY Named DEF Vault!Viewers
<1>4. /\ engine' \in Engines /\ badges' \in [Vault!Viewers -> BOOLEAN]
      /\ Vault!Viewing' = {"sidebar", shown}
  BY <1>0, <1>2 DEF Vault!Viewing, Vault!Viewer, Engines
<1>5. Vault!Left \in Seq(Operations) /\ DOMAIN Vault!Left = DOMAIN ops
      /\ \A i \in DOMAIN ops : ops[i] = Vault!Reads("sidebar")
                                 => Vault!Left[i] = Vault!Reads("sidebar")
  <2>1. \A i \in DOMAIN ops : ops[i] \in Operations
    BY <1>0
  <2>2. \A op \in Operations : [op EXCEPT !.who = "left"] \in Operations
    BY DEF Operations
  <2>3. DOMAIN Vault!Left = DOMAIN ops
        /\ \A i \in DOMAIN ops : Vault!Left[i] \in Operations
    BY <2>1, <2>2 DEF Vault!Left
  <2>4. \A i \in DOMAIN ops : ops[i] = Vault!Reads("sidebar")
                                => Vault!Left[i] = Vault!Reads("sidebar")
    BY Named DEF Vault!Left, Vault!Viewers
  <2>5. Vault!Left \in [1..Len(ops) -> Operations]
    BY <1>0, <2>3 DEF Vault!Left
  <2>. QED  BY <1>0, <2>3, <2>4, <2>5
<1>6. /\ ops' = Vault!Left \o (<<Vault!Reads(shown)>> \o put)
      /\ (<<Vault!Reads(shown)>> \o put) \in Seq(Operations)
  <2>1. Vault!Reads(shown) \in Operations /\ Vault!Op("put", "left") \in Operations
    BY <1>3, Named DEF Vault!Op, Operations
  <2>2. <<Vault!Reads(shown)>> \in Seq(Operations) /\ <<Vault!Op("put", "left")>> \in Seq(Operations)
        /\ <<>> \in Seq(Operations)
    BY <2>1
  <2>. HIDE DEF shown
  <2>3. put \in Seq(Operations)
    BY <1>1, <2>2
  <2>4. Append(Vault!Left, Vault!Reads(shown)) = Vault!Left \o <<Vault!Reads(shown)>>
    BY <1>5, <2>1, AppendIsConcat
  <2>5. (Vault!Left \o <<Vault!Reads(shown)>>) \o put
           = Vault!Left \o (<<Vault!Reads(shown)>> \o put)
    BY <1>5, <2>2, <2>3, ConcatAssociative
  <2>6. <<Vault!Reads(shown)>> \o put \in Seq(Operations)
    BY <2>2, <2>3, InAppended
  <2>. QED  BY <1>1, <2>4, <2>5, <2>6
<1>7. ops' \in Seq(Operations)
  BY <1>5, <1>6, InAppended
<1>8. badges["sidebar"] => (Vault!hasByokKey \/ WillRead("sidebar"))
  BY Named DEF VaultInv
<1>9. WillRead("sidebar") => WillRead("sidebar")'
  <2>1. ASSUME WillRead("sidebar")
        PROVE  Among(Vault!Reads("sidebar"), Vault!Left)
    BY <1>5, <2>1 DEF WillRead, Among
  <2>. HIDE DEF shown
  <2>. QED  BY <1>5, <1>6, <2>1, InAppended DEF WillRead, Vault!Reads
<1>10. ~badges'[shown] /\ badges'["sidebar"] = badges["sidebar"]
  <2>1. shown # "sidebar" /\ "sidebar" \in Vault!Viewers
    BY <1>3 DEF Vault!Viewers
  <2>. HIDE DEF shown
  <2>. QED  BY <1>0, <1>2, <1>3, <2>1
<1>. HIDE DEF shown
<1>11. \A v \in Vault!Viewing' \ {"selector"} : badges'[v] => (Vault!hasByokKey \/ WillRead(v))'
  BY <1>2, <1>4, <1>8, <1>9, <1>10 DEF Vault!hasByokKey
<1>12. "selector" \in Vault!Viewing' => LastReadIsRight'
  BY <1>2, <1>4, <1>10, MountedShape DEF LastReadIsRight
<1>. QED  BY <1>0, <1>2, <1>4, <1>7, <1>11, <1>12, MountedShape DEF VaultInv

(* Every call and every operation the database serves keeps the invariant.   *)
LEMMA VaultSteps == VaultInv /\ Vault!VaultNext => VaultInv'
<1>. SUFFICES ASSUME VaultInv, Vault!VaultNext PROVE VaultInv'
  OBVIOUS
<1>. USE DEF Vault!VaultSame
<1>0. /\ ops \in Seq(Operations) /\ vault \in Nat /\ browser \in Nat \ {0} /\ engine \in Engines
  BY DEF VaultInv
<1>1. ASSUME UNCHANGED <<vault, browser, ops, badges, selector>>, engine' \in Engines,
             engine'.page = engine.page
      PROVE  VaultInv'
  BY <1>0, <1>1, SameRecord DEF WillRead, Vault!Reads
<1>2. ASSUME NEW op \in Operations, ops' = Append(ops, op),
             UNCHANGED <<vault, browser, badges, selector, engine>>
      PROVE  VaultInv'
  <2>1. ops' = ops \o <<op>> /\ <<op>> \in Seq(Operations)
    BY <1>0, <1>2
  <2>. QED  BY <1>2, <2>1, AsksMore
<1>3. \A kind \in {"form", "put", "delete"}, f \in Vault!Forms : Vault!Op(kind, f) \in Operations
  BY DEF Vault!Op, Operations, Vault!Forms, Vault!Viewers
<1>4. CASE Vault!openByokVault
  BY <1>2, <1>3, <1>4 DEF Vault!openByokVault
<1>5. CASE Vault!onClose \/ Vault!setApiKey \/ Vault!handleSave \/ Vault!CloseTimer
  BY <1>0, <1>1, <1>5 DEF Vault!onClose, Vault!setApiKey, Vault!handleSave, Vault!CloseTimer
<1>6. CASE Vault!saveByokKey
  BY <1>0, <1>1, <1>2, <1>3, <1>6 DEF Vault!saveByokKey
<1>7. CASE Vault!handleClear
  BY <1>2, <1>3, <1>7 DEF Vault!handleClear
<1>8. CASE Vault!FormRead
  BY <1>8, OtherServed DEF Vault!FormRead
<1>9. CASE Vault!Stored
  <2>1. CASE vault' = browser /\ ops' = Tail(ops) \o Vault!Updated
    BY <1>0, <1>9, <2>1, Announced DEF Vault!Stored
  <2>2. CASE ops' = Tail(ops) /\ UNCHANGED vault
    BY <1>9, <2>2, OtherServed DEF Vault!Stored
  <2>. QED  BY <1>9, <2>1, <2>2 DEF Vault!Stored
<1>10. CASE Vault!Purged
  BY <1>0, <1>10, Announced DEF Vault!Purged
<1>11. CASE Vault!handleSelect
  <2>1. UNCHANGED <<vault, browser, ops, badges, selector>>
        /\ engine' \in Engines /\ engine'.page = engine.page
    BY <1>0, <1>11 DEF Vault!handleSelect, Engines
  <2>. QED  BY <1>1, <2>1
<1>12. CASE Vault!BrowserRestarts
  BY <1>0, <1>12, NothingSaid DEF Vault!BrowserRestarts, Engines
<1>. QED
  BY <1>4, <1>5, <1>6, <1>7, <1>8, <1>9, <1>10, <1>11, <1>12, BadgeRead, SelectorRead,
     KeyDerived, PageShown DEF Vault!VaultNext

LEMMA VaultHolds == ProgramsSpec => [](surface = "vault" => VaultInv)
<1>. DEFINE Inv == surface = "vault" => VaultInv
<1>1. ProgramsInit => Inv
  BY VaultStart DEF ProgramsInit
<1>2. Inv /\ [ProgramsNext]_allVars => Inv'
  <2>1. UNCHANGED vaultVars /\ VaultInv => VaultInv'
    BY DEF vaultVars, VaultInv, LastReadIsRight, Opens, WillRead, Among, Vault!Viewing,
           Vault!Viewer, Vault!getByokKey, Vault!hasByokKey, Vault!Reads
  <2>. QED  BY <2>1, OneProgram, VaultSteps
<1>. QED  BY <1>1, <1>2, PTL DEF ProgramsSpec, allVars

(* Once the database has served what it was asked, no badge says there is a   *)
(* record when there is none, and a selector that shows the last of its reads *)
(* sees only a key that opens: one that says more has its next read under way *)
(* (byok-vault.ts and its viewers).                                           *)
THEOREM BadgesFollowTheVault == ProgramsSpec => []BadgesSettle
<1>1. VaultInv => Vault!BadgesSettle
  <2>1. ops = <<>> => \A v : ~WillRead(v)
    BY DEF WillRead, Among
  <2>. QED  BY <2>1 DEF VaultInv, LastReadIsRight, Opens, Vault!BadgesSettle
<1>2. (surface = "vault" => VaultInv) => BadgesSettle
  BY <1>1 DEF BadgesSettle
<1>. QED  BY <1>2, VaultHolds, PTL
=============================================================================
