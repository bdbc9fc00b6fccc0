--------------------------- MODULE IndexingPipeline ---------------------------
(* RepositoryIndexingPipeline.run for one repository import: tasks, run side  *)
(* by side by several workers, index the desired states of the import and     *)
(* publish what they built.  A run is one attempt of a task.                  *)
EXTENDS Naturals, FiniteSets

CONSTANTS
  Tasks,         \* tasks run_repository_indexing
  MaxAttempts,   \* bound: attempts of a task, retries and redeliveries
  MaxDesired,    \* bound: desired states of the import
  UseCelery      \* config.USE_CELERY: a failed task is retried

ASSUME IndexingAssumption ==
  /\ MaxAttempts \in Nat \ {0}
  /\ MaxDesired \in Nat \ {0}
  /\ UseCelery \in BOOLEAN

Attempts == 1..MaxAttempts
Runs == Tasks \X Attempts

VARIABLES
  desired,   \* desired states created so far; the last is the desired one
  pc,        \* where each task is
  target,    \* the desired state it is for
  attempt,   \* its current attempt
  status,    \* the row of index_runs of each run
  held,      \* the materialization each task's UPDATE found current
  current    \* runs whose materialization is_current

vars == <<desired, pc, target, attempt, status, held, current>>

States == {"idle", "queued", "checked", "pending", "running", "built",
           "retiring", "retired", "failing", "unacked", "done", "dropped"}
Statuses == {"none", "pending", "running", "complete", "failed"}

Active == States \ {"idle", "done", "dropped"}

TypeOK ==
  /\ desired \in 0..MaxDesired
  /\ pc \in [Tasks -> States]
  /\ target \in [Tasks -> 0..MaxDesired]
  /\ attempt \in [Tasks -> Attempts]
  /\ status \in [Runs -> Statuses]
  /\ held \in [Tasks -> SUBSET Runs]
  /\ current \subseteq Runs

Init ==
  /\ desired = 0
  /\ pc = [t \in Tasks |-> "idle"]
  /\ target = [t \in Tasks |-> 0]
  /\ attempt = [t \in Tasks |-> 1]
  /\ status = [r \in Runs |-> "none"]
  /\ held = [t \in Tasks |-> {}]
  /\ current = {}

Go(t, s) == pc' = [pc EXCEPT ![t] = s]
Step(t, s, u) == pc[t] = s /\ Go(t, u)
Run(t) == <<t, attempt[t]>>
SetStatus(t, s) == status' = [status EXCEPT ![Run(t)] = s]
Hold(t, S) == held' = [held EXCEPT ![t] = S]

(* The desired state a run was made for. *)
DesiredOf(r) == target[r[1]]

(* Mutants: the forms a plausible mistake would give these actions. *)

(* Without the partial unique index nothing objects to a second current row. *)
PublishUnchecked(t) ==
  /\ Step(t, "retired", "unacked")
  /\ current' = (current \ held[t]) \cup {Run(t)}
  /\ SetStatus(t, "complete")
  /\ Hold(t, {})
  /\ UNCHANGED <<desired, target, attempt>>

(* The old materialization is retired in a transaction of its own. *)
RetiredCommitted(t) ==
  /\ Step(t, "retiring", "retired")
  /\ Hold(t, {})
  /\ current' = current \ held[t]
  /\ UNCHANGED <<desired, target, attempt, status>>

(* A run whose worker died is reported as failed whatever it has reached. *)
CrashReports(t) ==
  /\ pc[t] \in Active
  /\ Go(t, "dropped") /\ UNCHANGED attempt
  /\ SetStatus(t, "failed")
  /\ Hold(t, {})
  /\ UNCHANGED <<desired, target, current>>

(* The attempts are not limited, or not even counted. *)
AgainUnlimited(t) == Go(t, "queued") /\ attempt' = [attempt EXCEPT ![t] = @ + 1]
AgainUncounted(t) == Go(t, "queued") /\ UNCHANGED attempt

(* create_desired_state *)
Desire ==
  /\ desired < MaxDesired
  /\ desired' = desired + 1
  /\ UNCHANGED <<pc, target, attempt, status, held, current>>

(* A task is given any desired state there is. *)
Dispatch(t) ==
  /\ Step(t, "idle", "queued")
  /\ \E d \in 1..desired : target' = [target EXCEPT ![t] = d]
  /\ UNCHANGED <<desired, attempt, status, held, current>>

(* _load_context and _published_for_desired. *)
Check(t) ==
  /\ Step(t, "queued", IF \E r \in current : DesiredOf(r) = target[t] THEN "done" ELSE "checked")
  /\ UNCHANGED <<desired, target, attempt, status, held, current>>

(* The row of the run, pending and then running. *)
Admit(t) ==
  /\ Step(t, "checked", "pending")
  /\ SetStatus(t, "pending")
  /\ UNCHANGED <<desired, target, attempt, held, current>>

Start(t) ==
  /\ Step(t, "pending", "running")
  /\ SetStatus(t, "running")
  /\ UNCHANGED <<desired, target, attempt, held, current>>

(* Fetching, admission of the content, chunking, embedding, and the rows of *)
(* the materialization, flushed in an open transaction.                     *)
Build(t) ==
  /\ Step(t, "running", "built")
  /\ UNCHANGED <<desired, target, attempt, status, held, current>>

(* UPDATE ... SET is_current = false: the statement sees the row that was   *)
(* current when it began ...                                                *)
Retire(t) ==
  /\ Step(t, "built", "retiring")
  /\ Hold(t, current)
  /\ UNCHANGED <<desired, target, attempt, status, current>>

(* ... waits for a transaction that has retired the same row, and then      *)
(* finds it still current or not.                                           *)
Retired(t) ==
  /\ Step(t, "retiring", "retired")
  /\ \A u \in Tasks \ {t} : pc[u] = "retired" => held[u] \cap held[t] = {}
  /\ Hold(t, held[t] \cap current)
  /\ UNCHANGED <<desired, target, attempt, status, current>>

(* The commit, unless the partial unique index finds another current row.  A *)
(* commit that raises (Raise) is assumed not to have taken effect: had it,   *)
(* _fail would write the run "failed" whose materialization is current.      *)
Publish(t) ==
  /\ current \subseteq held[t]
  /\ Step(t, "retired", "unacked")
  /\ current' = (current \ held[t]) \cup {Run(t)}
  /\ SetStatus(t, "complete")
  /\ Hold(t, {})
  /\ UNCHANGED <<desired, target, attempt>>

PublishConflicts(t) ==
  /\ ~(current \subseteq held[t])
  /\ Step(t, "retired", "failing")
  /\ Hold(t, {})
  /\ UNCHANGED <<desired, target, attempt, status, current>>

Ack(t) ==
  /\ Step(t, "unacked", "done")
  /\ UNCHANGED <<desired, target, attempt, status, held, current>>

(* Admission, the provider, the embedder or the database raised. *)
Raise(t) ==
  /\ pc[t] \in {"pending", "running", "built", "retiring", "retired"}
  /\ Go(t, "failing")
  /\ Hold(t, {})
  /\ UNCHANGED <<desired, target, attempt, status, current>>

(* The task ends for now: Celery tries again, a new run, while it may. *)
Again(t) ==
  IF attempt[t] < MaxAttempts
    THEN Go(t, "queued") /\ attempt' = [attempt EXCEPT ![t] = @ + 1]
    ELSE Go(t, "dropped") /\ UNCHANGED attempt
EndAttempt(t) == IF UseCelery THEN Again(t) ELSE Go(t, "dropped") /\ UNCHANGED attempt

(* _fail: the row says so, unless that write fails as well. *)
Fail(t) ==
  /\ pc[t] = "failing"
  /\ EndAttempt(t)
  /\ SetStatus(t, "failed") \/ UNCHANGED status
  /\ UNCHANGED <<desired, target, held, current>>

(* Before there is a row nothing but the task fails. *)
Reject(t) ==
  /\ pc[t] \in {"queued", "checked"}
  /\ EndAttempt(t)
  /\ UNCHANGED <<desired, target, status, held, current>>

(* The worker dies: its transaction is rolled back, the row stays as it is, *)
(* the task is delivered again or lost.                                     *)
Crash(t) ==
  /\ pc[t] \in Active
  /\ EndAttempt(t) \/ (Go(t, "dropped") /\ UNCHANGED attempt)
  /\ Hold(t, {})
  /\ UNCHANGED <<desired, target, status, current>>

TaskStep(t) ==
  \/ Check(t) \/ Admit(t) \/ Start(t) \/ Build(t) \/ Retire(t) \/ Retired(t)
  \/ Publish(t) \/ PublishConflicts(t) \/ Ack(t) \/ Fail(t)
TaskFault(t) == Raise(t) \/ Reject(t) \/ Crash(t)

Next == Desire \/ \E t \in Tasks : Dispatch(t) \/ TaskStep(t) \/ TaskFault(t)

Spec == Init /\ [][Next]_vars

-----------------------------------------------------------------------------
(* "Failed or rejected runs never become searchable"                          *)
(* (PHASE_3_INDEXING_PIPELINE.md): what is searchable is a complete run's,    *)
(* and a run that completed is not reported as anything else.                 *)
OnlyCompleteIsCurrent == \A r \in current : status[r] = "complete"

(* A completed run is over: its attempt is never taken up again, by a retry   *)
(* or by a redelivery.                                                        *)
CompletedRunsEnd ==
  \A t \in Tasks, a \in Attempts :
    status[<<t, a>>] = "complete" =>
      \/ a < attempt[t]
      \/ a = attempt[t] /\ pc[t] \in {"unacked", "done", "dropped"}

(* A repository that is searchable stays searchable: the old index serves     *)
(* until the new one is there, whatever fails in between.                     *)
StaysSearchable == [][current # {} => current' # {}]_current

(* "Only a completed run targeting the current desired materialization ...    *)
(* may become searchable" (ARCHITECTURE_DECISION.md).                         *)
PublishesDesired ==
  [][\A r \in current' \ current : DesiredOf(r) = desired]_current

(* The promise: at most one searchable index ("SINGLE CURRENT SEARCHABLE      *)
(* INVARIANT"), which a run that had not been published before replaces.      *)
Abstract == INSTANCE SearchableIndex
              WITH published <- {r \in Runs : status[r] = "complete"}
ImplementsIndex == Abstract!Spec
==============================================================================
