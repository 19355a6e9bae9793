------------------------------ MODULE Scheduler ------------------------------
(***************************************************************************)
(* kernel/process/scheduler.cpp: a fixed table of tasks run round-robin,   *)
(* one step at a time.  A step runs between RunNext and Return; the task   *)
(* itself, and interrupt handlers at any moment, may create, block and     *)
(* wake tasks.  Tasks do not call run_next() themselves.                   *)
(***************************************************************************)
EXTENDS Integers

CONSTANTS
    max_tasks,
    MaxId       \* the largest task identifier handed out (a bound)

ASSUME SchedulerAssumption ==
    /\ max_tasks \in Nat \ {0}
    /\ MaxId \in Nat

Slots == 0 .. max_tasks - 1
invalid_task == 0
None == -1      \* no slot
States == {"Ready", "Running", "Blocked", "Finished"}

VARIABLES
    id,       \* tasks[i].id
    state,    \* tasks[i].state
    next_id,
    active,   \* current_task()
    cursor,
    running,  \* the slot whose step run_next() is in, or None
    passed    \* steps of other tasks since the task in slot i became ready

task_vars == <<id, state, next_id, active, cursor, running, passed>>

\* find(): the slot of a task that is there
IsTask(i) == id[i] # invalid_task

InitTasks ==
    /\ id = [i \in Slots |-> invalid_task]
    /\ state = [i \in Slots |-> "Finished"]
    /\ next_id = 1
    /\ active = invalid_task
    /\ cursor = 0
    /\ running = None
    /\ passed = [i \in Slots |-> 0]

\* create(): the first slot without a task
create(i) ==
    /\ ~ IsTask(i) /\ \A j \in 0 .. i - 1 : IsTask(j)
    /\ next_id <= MaxId
    /\ id' = [id EXCEPT ![i] = next_id]
    /\ state' = [state EXCEPT ![i] = "Ready"]
    /\ next_id' = next_id + 1
    /\ passed' = [passed EXCEPT ![i] = 0]
    /\ UNCHANGED <<active, cursor, running>>

Ready(i) == IsTask(i) /\ state[i] = "Ready"

\* slots from the cursor to i, going round
Distance(i) == IF i >= cursor THEN i - cursor ELSE i - cursor + max_tasks

\* the task that has just run comes first again
NextCursor_Same(i) == i

NextCursor(i) == IF i + 1 = max_tasks THEN 0 ELSE i + 1

\* passed[i] is counted up to max_tasks (a bound)
More(n) == IF n < max_tasks THEN n + 1 ELSE n

\* run_next() up to the call of the task: the first ready slot from the cursor
RunNext(i) ==
    /\ running = None
    /\ Ready(i) /\ \A j \in Slots : Ready(j) => Distance(i) <= Distance(j)
    /\ cursor' = NextCursor(i)
    /\ active' = id[i]
    /\ state' = [state EXCEPT ![i] = "Running"]
    /\ running' = i
    /\ passed' = [j \in Slots |-> IF Ready(j) /\ j # i THEN More(passed[j]) ELSE 0]
    /\ UNCHANGED <<id, next_id>>

ActiveAfter == invalid_task

\* run_next() from the task's return: Running asks to go on like Ready does
Return(result) ==
    /\ running # None
    /\ active' = ActiveAfter
    /\ running' = None
    /\ id' = [id EXCEPT ![running] = IF result = "Finished" THEN invalid_task ELSE @]
    /\ state' = [state EXCEPT ![running] = IF result = "Running" THEN "Ready" ELSE result]
    /\ passed' = [passed EXCEPT ![running] = 0]
    /\ UNCHANGED <<next_id, cursor>>

block(i) ==
    /\ IsTask(i) /\ state[i] # "Finished"
    /\ state' = [state EXCEPT ![i] = "Blocked"]
    /\ passed' = [passed EXCEPT ![i] = 0]
    /\ UNCHANGED <<id, next_id, active, cursor, running>>

Wakeable(i) == state[i] = "Blocked"

wake(i) ==
    /\ IsTask(i) /\ Wakeable(i)
    /\ state' = [state EXCEPT ![i] = "Ready"]
    /\ passed' = [passed EXCEPT ![i] = 0]
    /\ UNCHANGED <<id, next_id, active, cursor, running>>

run_next == \E i \in Slots : RunNext(i)
task_returns == \E result \in States : Return(result)

NextTasks ==
    \/ run_next \/ task_returns
    \/ \E i \in Slots : create(i) \/ block(i) \/ wake(i)

\* The caller's loop keeps calling run_next(), and a task's step ends.
TaskFairness == WF_task_vars(run_next) /\ WF_task_vars(task_returns)

TaskSpec == InitTasks /\ [][NextTasks]_task_vars /\ TaskFairness
-----------------------------------------------------------------------------
\* Every variable has its type.
TypeOK ==
    /\ id \in [Slots -> 0 .. MaxId] /\ state \in [Slots -> States]
    /\ next_id \in 1 .. MaxId + 1 /\ active \in 0 .. MaxId
    /\ cursor \in Slots /\ running \in Slots \cup {None}
    /\ passed \in [Slots -> 0 .. max_tasks]

\* One task runs at a time and current_task() names it, from the call of its
\* step to its return and at no other time, whatever is created, blocked or
\* woken meanwhile; no two tasks share an identifier.
OneRuns ==
    /\ active = IF running = None THEN invalid_task ELSE id[running]
    /\ \A i \in Slots : state[i] = "Running" => i = running
    /\ \A i, j \in Slots : IsTask(i) /\ id[i] = id[j] => i = j

\* Round-robin: a task that is ready waits for at most one step of each other
\* slot, although tasks come, go, block and wake in between.
BoundedWait == \A i \in Slots : passed[i] <= max_tasks - 1

\* A ready task does not stay ready for ever without being run: it runs, or
\* somebody blocks it.
ReadyRuns == \A i \in Slots : Ready(i) ~> ~ Ready(i)
==============================================================================
