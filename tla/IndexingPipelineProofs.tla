------------------------ MODULE IndexingPipelineProofs ------------------------
(* Theorems about IndexingPipeline, for any tasks, attempts and desired       *)
(* states, with or without Celery.  CompletedRunsEnd carries the argument:    *)
(* what publishes was not complete before, what fails is not complete.        *)
EXTENDS IndexingPipeline, TLAPS

LEMMA InitInv == Init => TypeOK /\ OnlyCompleteIsCurrent /\ CompletedRunsEnd
<1>. SUFFICES ASSUME Init
              PROVE  TypeOK /\ OnlyCompleteIsCurrent /\ CompletedRunsEnd
  OBVIOUS
<1>1. 1 \in Attempts
  BY IndexingAssumption DEF Attempts
<1>2. TypeOK
  BY <1>1, IndexingAssumption DEF Init, TypeOK, States, Statuses
<1>3. OnlyCompleteIsCurrent
  BY DEF Init, OnlyCompleteIsCurrent
<1>4. ASSUME NEW t \in Tasks, NEW a \in Attempts
      PROVE  status[<<t, a>>] # "complete"
  BY DEF Init, Runs
<1>. QED  BY <1>2, <1>3, <1>4 DEF CompletedRunsEnd

(* A task that ends its attempt has a later one, or is dropped. *)
LEMMA EndAttemptEnds ==
  ASSUME TypeOK, NEW t \in Tasks, EndAttempt(t)
  PROVE  /\ pc' \in [Tasks -> States]
         /\ attempt' \in [Tasks -> Attempts]
         /\ \A u \in Tasks \ {t} : pc'[u] = pc[u] /\ attempt'[u] = attempt[u]
         /\ attempt[t] < attempt'[t] \/ (attempt'[t] = attempt[t] /\ pc'[t] = "dropped")
<1>1. attempt[t] \in Attempts /\ attempt[t] \in Nat
  BY IndexingAssumption DEF TypeOK, Attempts
<1>2. CASE Again(t) /\ attempt[t] < MaxAttempts
  <2>1. attempt[t] + 1 \in Attempts
    BY <1>1, <1>2, IndexingAssumption DEF Attempts
  <2>2. pc' = [pc EXCEPT ![t] = "queued"] /\ attempt' = [attempt EXCEPT ![t] = @ + 1]
    BY <1>2 DEF Again, Go
  <2>. QED  BY <1>1, <2>1, <2>2 DEF TypeOK, States
<1>3. CASE Go(t, "dropped") /\ UNCHANGED attempt
  BY <1>3 DEF Go, TypeOK, States
<1>. QED  BY <1>2, <1>3 DEF EndAttempt, Again

(* Every step keeps the types. *)
LEMMA StepType == TypeOK /\ [Next]_vars => TypeOK'
<1>. SUFFICES ASSUME TypeOK, [Next]_vars PROVE TypeOK'
  OBVIOUS
<1>. USE DEF TypeOK, Go, Step, SetStatus, Hold, States, Statuses
<1>0. ASSUME NEW t \in Tasks PROVE Run(t) \in Runs
  BY DEF Run, Runs
<1>1. CASE Desire
  BY <1>1, IndexingAssumption DEF Desire
<1>2. ASSUME NEW t \in Tasks, Dispatch(t) PROVE TypeOK'
  BY <1>2, IndexingAssumption DEF Dispatch
<1>3. ASSUME NEW t \in Tasks, Check(t) PROVE TypeOK'
  BY <1>3 DEF Check
<1>4. ASSUME NEW t \in Tasks, Admit(t) PROVE TypeOK'
  BY <1>0, <1>4 DEF Admit
<1>5. ASSUME NEW t \in Tasks, Start(t) PROVE TypeOK'
  BY <1>0, <1>5 DEF Start
<1>6. ASSUME NEW t \in Tasks, Build(t) PROVE TypeOK'
  BY <1>6 DEF Build
<1>7. ASSUME NEW t \in Tasks, Retire(t) PROVE TypeOK'
  BY <1>7 DEF Retire
<1>8. ASSUME NEW t \in Tasks, Retired(t) PROVE TypeOK'
  BY <1>8 DEF Retired
<1>9. ASSUME NEW t \in Tasks, Publish(t) PROVE TypeOK'
  BY <1>0, <1>9 DEF Publish
<1>10. ASSUME NEW t \in Tasks, PublishConflicts(t) PROVE TypeOK'
  BY <1>10 DEF PublishConflicts
<1>11. ASSUME NEW t \in Tasks, Ack(t) PROVE TypeOK'
  BY <1>11 DEF Ack
<1>12. ASSUME NEW t \in Tasks, Raise(t) PROVE TypeOK'
  BY <1>12 DEF Raise
<1>13. ASSUME NEW t \in Tasks, Fail(t) PROVE TypeOK'
  BY <1>0, <1>13, EndAttemptEnds DEF Fail
<1>14. ASSUME NEW t \in Tasks, Reject(t) PROVE TypeOK'
  BY <1>14, EndAttemptEnds DEF Reject
<1>15. ASSUME NEW t \in Tasks, Crash(t) PROVE TypeOK'
  BY <1>15, EndAttemptEnds DEF Crash
<1>16. CASE UNCHANGED vars
  BY <1>16 DEF vars
<1>. QED  BY <1>1, <1>2, <1>3, <1>4, <1>5, <1>6, <1>7, <1>8, <1>9, <1>10, <1>11,
             <1>12, <1>13, <1>14, <1>15, <1>16 DEF Next, TaskStep, TaskFault

(* What any step of one task does to the two invariants, apart from Publish:  *)
(* nothing becomes current, no run completes, and the task's own attempt goes *)
(* on without having completed or is over.                                    *)
LEMMA QuietStep ==
  ASSUME TypeOK, OnlyCompleteIsCurrent, CompletedRunsEnd,
         NEW t \in Tasks, current' = current,
         \A r \in Runs : (status'[r] = "complete") <=> (status[r] = "complete"),
         \A u \in Tasks \ {t} : pc'[u] = pc[u] /\ attempt'[u] = attempt[u],
         \/ attempt[t] < attempt'[t]
         \/ attempt'[t] = attempt[t] /\ pc'[t] \in {"unacked", "done", "dropped"}
         \/ attempt'[t] = attempt[t] /\ status[Run(t)] # "complete",
         attempt' \in [Tasks -> Attempts]
  PROVE  OnlyCompleteIsCurrent' /\ CompletedRunsEnd'
<1>1. OnlyCompleteIsCurrent'
  BY DEF OnlyCompleteIsCurrent, TypeOK
<1>2. ASSUME NEW u \in Tasks, NEW a \in Attempts, status'[<<u, a>>] = "complete"
      PROVE  a < attempt'[u] \/ (a = attempt'[u] /\ pc'[u] \in {"unacked", "done", "dropped"})
  <2>1. <<u, a>> \in Runs /\ status[<<u, a>>] = "complete"
    BY <1>2 DEF Runs
  <2>2. /\ a \in Nat /\ attempt[u] \in Nat /\ attempt'[u] \in Nat
    BY IndexingAssumption DEF TypeOK, Attempts
  <2>3. a < attempt[u] \/ (a = attempt[u] /\ pc[u] \in {"unacked", "done", "dropped"})
    BY <1>2, <2>1 DEF CompletedRunsEnd
  <2>4. CASE u # t
    BY <2>3, <2>4
  <2>5. CASE u = t
    BY <2>1, <2>2, <2>3, <2>5 DEF Run
  <2>. QED  BY <2>4, <2>5
<1>. QED  BY <1>1, <1>2 DEF CompletedRunsEnd

(* Until it publishes, the run of a task is not a complete one. *)
LEMMA WorkingIsIncomplete ==
  ASSUME TypeOK, CompletedRunsEnd, NEW t \in Tasks,
         pc[t] \notin {"unacked", "done", "dropped"}
  PROVE  status[Run(t)] # "complete"
<1>1. attempt[t] \in Attempts /\ ~(attempt[t] < attempt[t])
  BY IndexingAssumption DEF TypeOK, Attempts
<1>. QED  BY <1>1 DEF CompletedRunsEnd, Run

(* What a publication does: a run that was not complete becomes the only *)
(* searchable one.                                                       *)
LEMMA PublishReplaces ==
  ASSUME TypeOK, CompletedRunsEnd, NEW t \in Tasks, Publish(t)
  PROVE  /\ Run(t) \in Runs /\ status[Run(t)] # "complete"
         /\ current' = {Run(t)}
         /\ status' = [status EXCEPT ![Run(t)] = "complete"]
         /\ pc' = [pc EXCEPT ![t] = "unacked"] /\ attempt' = attempt
<1>1. Run(t) \in Runs
  BY DEF TypeOK, Run, Runs
<1>2. status[Run(t)] # "complete"
  BY WorkingIsIncomplete DEF Publish, Step
<1>. QED  BY <1>1, <1>2 DEF Publish, Step, Go, SetStatus

(* Every other step leaves what is current and which runs completed alone. *)
LEMMA OthersAreQuiet ==
  ASSUME TypeOK, OnlyCompleteIsCurrent, CompletedRunsEnd, [Next]_vars, TypeOK',
         \A t \in Tasks : ~Publish(t)
  PROVE  /\ current' = current
         /\ \A r \in Runs : (status'[r] = "complete") <=> (status[r] = "complete")
         /\ OnlyCompleteIsCurrent' /\ CompletedRunsEnd'
<1>. DEFINE Quiet == /\ current' = current
                     /\ \A r \in Runs : (status'[r] = "complete") <=> (status[r] = "complete")
                     /\ OnlyCompleteIsCurrent' /\ CompletedRunsEnd'
<1>. USE DEF Go, Step, SetStatus, Hold
<1>0. /\ \A t \in Tasks : Run(t) \in Runs
      /\ attempt' \in [Tasks -> Attempts]
      /\ pc \in [Tasks -> States] /\ status \in [Runs -> Statuses]
  BY DEF TypeOK, Run, Runs
<1>1. CASE UNCHANGED <<pc, attempt, status, current>>
  BY <1>1 DEF OnlyCompleteIsCurrent, CompletedRunsEnd
<1>2. ASSUME NEW t \in Tasks, pc[t] \notin {"unacked", "done", "dropped"},
             UNCHANGED <<attempt, current>>, NEW p \in States, pc' = [pc EXCEPT ![t] = p],
             UNCHANGED status \/ \E s \in Statuses \ {"complete"} : SetStatus(t, s)
      PROVE  Quiet
  <2>1. status[Run(t)] # "complete"
    BY <1>2, WorkingIsIncomplete
  <2>2. \A r \in Runs : (status'[r] = "complete") <=> (status[r] = "complete")
    BY <1>0, <1>2, <2>1
  <2>. HIDE DEF SetStatus, Go, Step, Hold
  <2>. QED  BY <1>0, <1>2, <2>1, <2>2, QuietStep
<1>3. ASSUME NEW t \in Tasks, EndAttempt(t), UNCHANGED current,
             \/ UNCHANGED status
             \/ pc[t] = "failing" /\ SetStatus(t, "failed")
      PROVE  Quiet
  <2>1. \A r \in Runs : (status'[r] = "complete") <=> (status[r] = "complete")
    BY <1>0, <1>3, WorkingIsIncomplete
  <2>2. /\ \A u \in Tasks \ {t} : pc'[u] = pc[u] /\ attempt'[u] = attempt[u]
        /\ attempt[t] < attempt'[t] \/ (attempt'[t] = attempt[t] /\ pc'[t] = "dropped")
    BY <1>3, EndAttemptEnds
  <2>. QED  BY <1>0, <1>3, <2>1, <2>2, QuietStep
<1>4. CASE Desire
  BY <1>1, <1>4 DEF Desire
<1>5. ASSUME NEW t \in Tasks, Dispatch(t) \/ TaskStep(t) \/ TaskFault(t)
      PROVE  Quiet
  <2>. USE DEF States, Statuses
  <2>1. CASE Dispatch(t)
    BY <1>2, <2>1 DEF Dispatch
  <2>2. CASE Check(t)
    BY <1>2, <2>2 DEF Check
  <2>3. CASE Admit(t)
    BY <1>2, <2>3 DEF Admit
  <2>4. CASE Start(t)
    BY <1>2, <2>4 DEF Start
  <2>5. CASE Build(t) \/ Retire(t) \/ Retired(t)
    BY <1>2, <2>5 DEF Build, Retire, Retired
  <2>6. CASE PublishConflicts(t) \/ Raise(t)
    BY <1>2, <2>6 DEF PublishConflicts, Raise
  <2>7. CASE Ack(t)
    <3>1. /\ current' = current /\ status' = status /\ attempt' = attempt
          /\ pc' = [pc EXCEPT ![t] = "done"]
      BY <2>7 DEF Ack
    <3>2. /\ \A u \in Tasks \ {t} : pc'[u] = pc[u] /\ attempt'[u] = attempt[u]
          /\ attempt'[t] = attempt[t] /\ pc'[t] = "done"
      BY <1>0, <3>1
    <3>. QED  BY <1>0, <3>1, <3>2, QuietStep
  <2>8. CASE Fail(t)
    BY <1>3, <2>8 DEF Fail
  <2>9. CASE Reject(t)
    BY <1>3, <2>9 DEF Reject
  <2>10. CASE Crash(t)
    <3>1. CASE EndAttempt(t)
      BY <1>3, <2>10, <3>1 DEF Crash
    <3>2. CASE Go(t, "dropped") /\ UNCHANGED attempt
      <4>1. /\ \A u \in Tasks \ {t} : pc'[u] = pc[u] /\ attempt'[u] = attempt[u]
            /\ attempt'[t] = attempt[t] /\ pc'[t] = "dropped"
        BY <1>0, <3>2
      <4>2. current' = current /\ status' = status
        BY <2>10 DEF Crash
      <4>. QED  BY <1>0, <4>1, <4>2, QuietStep
    <3>. QED  BY <2>10, <3>1, <3>2 DEF Crash
  <2>. QED  BY <1>5, <2>1, <2>2, <2>3, <2>4, <2>5, <2>6, <2>7, <2>8, <2>9, <2>10
            DEF TaskStep, TaskFault
<1>6. CASE UNCHANGED vars
  BY <1>1, <1>6 DEF vars
<1>. QED  BY <1>4, <1>5, <1>6 DEF Next

LEMMA StepInv ==
  TypeOK /\ OnlyCompleteIsCurrent /\ CompletedRunsEnd /\ [Next]_vars
    => OnlyCompleteIsCurrent' /\ CompletedRunsEnd'
<1>. SUFFICES ASSUME TypeOK, OnlyCompleteIsCurrent, CompletedRunsEnd, [Next]_vars
              PROVE  OnlyCompleteIsCurrent' /\ CompletedRunsEnd'
  OBVIOUS
<1>1. CASE \A t \in Tasks : ~Publish(t)
  BY <1>1, StepType, OthersAreQuiet
<1>2. ASSUME NEW t \in Tasks, Publish(t)
      PROVE  OnlyCompleteIsCurrent' /\ CompletedRunsEnd'
  <2>1. /\ Run(t) \in Runs
        /\ current' = {Run(t)}
        /\ status' = [status EXCEPT ![Run(t)] = "complete"]
        /\ pc' = [pc EXCEPT ![t] = "unacked"] /\ attempt' = attempt
    BY <1>2, PublishReplaces
  <2>2. OnlyCompleteIsCurrent'
    BY <2>1 DEF OnlyCompleteIsCurrent, TypeOK
  <2>3. ASSUME NEW u \in Tasks, NEW a \in Attempts, status'[<<u, a>>] = "complete"
        PROVE  a < attempt'[u] \/ (a = attempt'[u] /\ pc'[u] \in {"unacked", "done", "dropped"})
    <3>1. CASE <<u, a>> = Run(t)
      BY <2>1, <3>1 DEF Run, TypeOK
    <3>2. CASE <<u, a>> # Run(t)
      <4>1. <<u, a>> \in Runs /\ status[<<u, a>>] = "complete"
        BY <2>1, <2>3, <3>2 DEF Runs, TypeOK
      <4>. QED  BY <2>1, <4>1 DEF CompletedRunsEnd, TypeOK
    <3>. QED  BY <3>1, <3>2
  <2>. QED  BY <2>2, <2>3 DEF CompletedRunsEnd
<1>. QED  BY <1>1, <1>2

-----------------------------------------------------------------------------
(* Every variable keeps its type. *)
THEOREM TypeCorrect == Spec => []TypeOK
<1>1. Init => TypeOK
  BY InitInv
<1>. QED  BY <1>1, StepType, PTL DEF Spec

LEMMA IndexHolds == Spec => [](TypeOK /\ OnlyCompleteIsCurrent /\ CompletedRunsEnd)
<1>1. TypeOK /\ OnlyCompleteIsCurrent /\ CompletedRunsEnd /\ [Next]_vars
        => (TypeOK /\ OnlyCompleteIsCurrent /\ CompletedRunsEnd)'
  BY StepType, StepInv
<1>. QED  BY <1>1, InitInv, PTL DEF Spec

(* Whatever the workers and their failures do, what is searchable comes from *)
(* a run that completed ("Failed or rejected runs never become searchable"). *)
THEOREM CompleteIsCurrent == Spec => []OnlyCompleteIsCurrent
<1>. QED  BY IndexHolds, PTL

(* A run that completed is never taken up again: no retry, redelivery or lost *)
(* acknowledgement starts an attempt at or below it once more.                *)
THEOREM CompletedRunsAreOver == Spec => []CompletedRunsEnd
<1>. QED  BY IndexHolds, PTL

(* An index in use is replaced, never taken away. *)
THEOREM IndexStays == Spec => StaysSearchable
<1>1. TypeOK /\ OnlyCompleteIsCurrent /\ CompletedRunsEnd /\ [Next]_vars
        => [current # {} => current' # {}]_current
  <2>. SUFFICES ASSUME TypeOK, OnlyCompleteIsCurrent, CompletedRunsEnd, [Next]_vars,
                       current' # current
                PROVE  current' # {}
    OBVIOUS
  <2>1. PICK t \in Tasks : Publish(t)
    BY StepType, OthersAreQuiet
  <2>. QED  BY <2>1, PublishReplaces
<1>. QED  BY <1>1, IndexHolds, PTL DEF Spec, StaysSearchable

(* The pipeline implements SearchableIndex: one searchable index at a time,   *)
(* which a run replaces at most once, when it completes.                      *)
THEOREM Implements == Spec => ImplementsIndex
<1>. USE DEF Abstract!Init, Abstract!Next, Abstract!Publish
<1>1. Init => Abstract!Init
  BY DEF Init
<1>2. TypeOK /\ OnlyCompleteIsCurrent /\ CompletedRunsEnd /\ [Next]_vars
        => [Abstract!Next]_<<{r \in Runs : status[r] = "complete"}, current>>
  <2>. SUFFICES ASSUME TypeOK, OnlyCompleteIsCurrent, CompletedRunsEnd, [Next]_vars
                PROVE  [Abstract!Next]_<<{r \in Runs : status[r] = "complete"}, current>>
    OBVIOUS
  <2>1. CASE \A t \in Tasks : ~Publish(t)
    <3>1. /\ current' = current
          /\ \A r \in Runs : (status'[r] = "complete") <=> (status[r] = "complete")
      BY <2>1, StepType, OthersAreQuiet
    <3>. QED  BY <3>1
  <2>2. ASSUME NEW t \in Tasks, Publish(t)
        PROVE  Abstract!Next
    <3>1. /\ Run(t) \in Runs /\ status[Run(t)] # "complete"
          /\ current' = {Run(t)}
          /\ status' = [status EXCEPT ![Run(t)] = "complete"]
      BY <2>2, PublishReplaces
    <3>2. {r \in Runs : status'[r] = "complete"}
            = {r \in Runs : status[r] = "complete"} \cup {Run(t)}
      BY <3>1 DEF TypeOK
    <3>. QED  BY <3>1, <3>2
  <2>. QED  BY <2>1, <2>2
<1>. QED  BY <1>1, <1>2, IndexHolds, PTL
          DEF Spec, ImplementsIndex, Abstract!Spec
==============================================================================
