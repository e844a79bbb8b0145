--------------------------------- MODULE Tasks ---------------------------------
(* The task registry (service/tasks.go) and the goroutines that feed it: Upsert *)
(* decides under the lock what to publish and sends it after the unlock, a     *)
(* finished task is removed after a delay, and the sweeper ends the tasks that *)
(* nobody updates.  A browser shows what was sent to it last.                  *)
EXTENDS Naturals

CONSTANTS
    Producers,      \* goroutines that report on a task
    TaskOf,         \* the task each one reports on
    MaxUpdates      \* bound on the updates of a producer while it runs

VARIABLES
    task,       \* status of a task in the registry, "" when it has none
    lastSt,     \* the status last decided to be published
    fresh,      \* was the task updated in the last taskStaleTimeout
    producer,   \* step of a producer, and its updates
    sending,    \* the status a producer or the sweeper has yet to send
    shown       \* the status the browsers show

tkVars == <<task, lastSt, fresh, producer, sending, shown>>

TaskIds == {TaskOf[p] : p \in Producers}
Nothing == ""

TkInit ==
    /\ task = [t \in TaskIds |-> Nothing] /\ lastSt = task /\ shown = task
    /\ fresh = [t \in TaskIds |-> FALSE]
    /\ producer = [p \in Producers |-> [pc |-> "run", updates |-> 0]]
    /\ sending = [x \in Producers \cup TaskIds |-> Nothing]

\* Mutant: an update within half a second of the last is dropped whatever its status.
TaskUpsertThrottles(p, status) ==
    LET t == TaskOf[p] IN
    /\ sending[p] = Nothing
    /\ task' = [task EXCEPT ![t] = status] /\ fresh' = [fresh EXCEPT ![t] = TRUE]
    /\ \E publish \in (IF lastSt[t] = Nothing THEN {TRUE} ELSE BOOLEAN) :
         /\ lastSt' = IF publish THEN [lastSt EXCEPT ![t] = status] ELSE lastSt
         /\ sending' = IF publish THEN [sending EXCEPT ![p] = status] ELSE sending

\* A new task or status is published, an equal one when its progress or the time says so.
TaskUpsert(p, status) ==
    LET t == TaskOf[p] IN
    /\ sending[p] = Nothing
    /\ task' = [task EXCEPT ![t] = status] /\ fresh' = [fresh EXCEPT ![t] = TRUE]
    /\ \E publish \in (IF status # lastSt[t] THEN {TRUE} ELSE BOOLEAN) :
         /\ lastSt' = IF publish THEN [lastSt EXCEPT ![t] = status] ELSE lastSt
         /\ sending' = IF publish THEN [sending EXCEPT ![p] = status] ELSE sending

Progress(p) ==
    /\ producer[p].pc = "run" /\ producer[p].updates < MaxUpdates
    /\ TaskUpsert(p, "running")
    /\ producer' = [producer EXCEPT ![p].updates = @ + 1]
    /\ UNCHANGED shown

\* done or error, and the goroutine that waits taskCleanupDelay.
Final(p) ==
    /\ producer[p].pc = "run"
    /\ TaskUpsert(p, "final")
    /\ producer' = [producer EXCEPT ![p].pc = "cleanup"]
    /\ UNCHANGED shown

Drop(t) == /\ task' = [task EXCEPT ![t] = Nothing] /\ lastSt' = [lastSt EXCEPT ![t] = Nothing]
           /\ fresh' = [fresh EXCEPT ![t] = FALSE]

Remove(p) ==
    /\ producer[p].pc = "cleanup" /\ sending[p] = Nothing
    /\ producer' = [producer EXCEPT ![p].pc = "over"]
    /\ Drop(TaskOf[p])
    /\ UNCHANGED <<sending, shown>>

\* A cancelled context, or a call that never returns: no final status.  A send is short
\* against taskStaleTimeout.
Hang(p) ==
    /\ producer[p].pc = "run" /\ sending[p] = Nothing /\ fresh[TaskOf[p]]
    /\ producer' = [producer EXCEPT ![p].pc = "hung"]
    /\ UNCHANGED <<task, lastSt, fresh, sending, shown>>

\* A call that took longer than taskStaleTimeout returns after all.
Wake(p) ==
    /\ producer[p].pc = "hung" /\ ~fresh[TaskOf[p]]
    /\ producer' = [producer EXCEPT ![p].pc = "run"]
    /\ UNCHANGED <<task, lastSt, fresh, sending, shown>>

\* The bus client's call, by a producer or by the sweeper for a task.
Send(x) ==
    LET t == IF x \in Producers THEN TaskOf[x] ELSE x IN
    /\ sending[x] # Nothing
    /\ shown' = [shown EXCEPT ![t] = sending[x]]
    /\ sending' = [sending EXCEPT ![x] = Nothing]
    /\ UNCHANGED <<task, lastSt, fresh, producer>>

\* taskStaleTimeout passes without an update: the running producers of the task hang.
GrowsStale(t) ==
    /\ fresh[t]
    /\ \A p \in Producers : TaskOf[p] = t => producer[p].pc # "run"
    /\ fresh' = [fresh EXCEPT ![t] = FALSE]
    /\ UNCHANGED <<task, lastSt, producer, sending, shown>>

\* Mutant: the sweeper forgets the task without a word to the browsers.
SweepSilently(t) ==
    /\ task[t] = "running" /\ ~fresh[t]
    /\ Drop(t)
    /\ UNCHANGED <<producer, sending, shown>>

sweepStale(t) ==
    /\ task[t] = "running" /\ ~fresh[t] /\ sending[t] = Nothing
    /\ Drop(t)
    /\ sending' = [sending EXCEPT ![t] = "final"]
    /\ UNCHANGED <<producer, shown>>

TkRuns(x) ==
    \/ x \in Producers /\ (Progress(x) \/ Final(x) \/ Remove(x) \/ Send(x))
    \/ x \in TaskIds /\ (Send(x) \/ GrowsStale(x) \/ sweepStale(x))

TkNext == \/ \E x \in Producers \cup TaskIds : TkRuns(x)
          \/ \E p \in Producers : Hang(p) \/ Wake(p)

TkSpec == TkInit /\ [][TkNext]_tkVars /\ \A x \in Producers \cup TaskIds : WF_tkVars(TkRuns(x))

--------------------------------------------------------------------------------
TkTypeOK ==
    /\ task \in [TaskIds -> {Nothing, "running", "final"}] /\ shown \in [TaskIds -> {Nothing, "running", "final"}]
    /\ lastSt \in [TaskIds -> {Nothing, "running", "final"}]
    /\ \A p \in Producers : producer[p].pc \in {"run", "hung", "cleanup", "over"}

\* No progress bar stays for ever: whatever its producers do, hang included, a task
\* leaves the registry and the browsers end up with its final status.
TaskSettled == \A t \in TaskIds : task[t] = Nothing /\ shown[t] # "running"
TaskSettles == <>[]TaskSettled
================================================================================
