----------------------------- MODULE SystemTask -----------------------------
(***************************************************************************)
(* The background-job framework of the gateway: model/system_task.go (the  *)
(* two tables and the statements on them) and service/system_task.go (the  *)
(* runner loop of every master node, the scheduler, the handlers and their *)
(* lease heartbeat).                                                       *)
(*                                                                         *)
(* Every SQL statement is one atomic step; what the Go code does between   *)
(* two statements can be interleaved with any other node.  Time is         *)
(* relative: a lock row keeps the ticks that remain until locked_until     *)
(* (negative once it is in the past) and an operation in progress keeps    *)
(* the ticks elapsed since it read its own "now".  A comparison of         *)
(* locked_until with a remembered "now" is then exact:                     *)
(*       locked_until < now    <=>    rem + elapsed < 0.                   *)
(***************************************************************************)
EXTENDS Integers, FiniteSets

CONSTANTS
    Types,       \* task types with a registered handler
    Runners,     \* runner processes (an id is never reused: it is random per start)
    MaxTasks,    \* bound: rows of system_tasks
    TTL,         \* systemTaskLockTTL, in ticks
    MaxPause,    \* bound: ticks one claim or one stale-lock pass may take
    Interval,    \* a scheduled handler's Interval(), in ticks
    MaxFaults    \* bound: crashes and failed statements, together

ASSUME SystemTaskAssumption ==
    /\ MaxTasks \in Nat
    /\ TTL \in Nat
    /\ MaxPause \in Nat
    /\ Interval \in Nat
    /\ MaxFaults \in Nat
    /\ "none" \notin Types \cup Runners

VARIABLES
    tasks,    \* system_tasks: id -> [type, status, by]
    next,     \* the next row id (auto increment)
    locks,    \* system_task_locks: type -> [task, by, rem], or NoLock
    run,      \* runner -> where its loop is: the claim, scheduler or stale-lock pass
    exec,     \* task id -> the handler goroutine dispatched for it: [by, mode]
    idle,     \* type -> ticks since the updated_at of its last finished row
    alive,    \* runners that have not crashed
    faults    \* faults so far

vars == <<tasks, next, locks, run, exec, idle, alive, faults>>

-----------------------------------------------------------------------------
TaskIds == 1 .. MaxTasks

NoTask == 0

NoType == "none"

NoRunner == "none"

Active == {"pending", "running"}

Terminal == {"succeeded", "failed"}

Floor == -(MaxPause + 1)

Lock == [task : TaskIds, by : Runners, rem : Floor .. TTL]

NoLock == [task |-> NoTask, by |-> NoRunner, rem |-> Floor]

Stale == [type : Types, task : TaskIds, by : Runners]

\* Where a runner's goroutine stands between two statements.
Phases == {"idle", "create",
           "insert", "existing", "steal", "failOld", "mark", "reread", "release",
           "staleMark", "staleDelete"}

Op == [pc : Phases, type : Types \cup {NoType}, task : TaskIds \cup {NoTask},
       old : TaskIds \cup {NoTask}, elapsed : 0 .. MaxPause,
       snap : SUBSET Stale, cur : SUBSET Stale]

\* An operation just begun: its "now" is the present.
Begin(pc, k, t, snap) ==
    [pc |-> pc, type |-> k, task |-> t, old |-> NoTask,
     elapsed |-> 0, snap |-> snap, cur |-> {}]

NoOp == Begin("idle", NoType, NoTask, {})

Row == [type : Types \cup {NoType}, status : {"absent"} \cup Active \cup Terminal,
        by : Runners \cup {NoRunner}]

Work == [by : Runners \cup {NoRunner},
         mode : {"none", "running", "cancelled", "releasing", "ended"}]

\* The two operations that compare locked_until with a remembered "now".
Timed(r) == run[r].pc \notin {"idle", "create"}

ActiveRow(k) == \E t \in TaskIds : tasks[t].type = k /\ tasks[t].status \in Active

\* The type invariant: every column and every goroutine holds a value of its type.
TypeOK ==
    /\ tasks \in [TaskIds -> Row]
    /\ next \in 1 .. MaxTasks + 1
    /\ locks \in [Types -> Lock \cup {NoLock}]
    /\ run \in [Runners -> Op]
    /\ exec \in [TaskIds -> Work]
    /\ idle \in [Types -> 0 .. Interval]
    /\ alive \in SUBSET Runners
    /\ faults \in 0 .. MaxFaults

Init ==
    /\ tasks = [t \in TaskIds |-> [type |-> NoType, status |-> "absent", by |-> NoRunner]]
    /\ next = 1
    /\ locks = [k \in Types |-> NoLock]
    /\ run = [r \in Runners |-> NoOp]
    /\ exec = [t \in TaskIds |-> [by |-> NoRunner, mode |-> "none"]]
    /\ idle = [k \in Types |-> Interval]
    /\ alive = Runners
    /\ faults = 0

-----------------------------------------------------------------------------
(* Statements shared by several operations.                                *)

Goto(r, pc) == run' = [run EXCEPT ![r].pc = pc]

Return(r) == run' = [run EXCEPT ![r] = NoOp]

\* A statement fails, or a process dies.
Fault ==
    /\ faults < MaxFaults
    /\ faults' = faults + 1

\* Variant: the status condition of MarkSystemTaskLeaseExpired is missing.
MarkAnyStatus(t) ==
    /\ tasks' = [tasks EXCEPT ![t].status = "failed"]
    /\ idle' = [idle EXCEPT ![tasks[t].type] = 0]

\* MarkSystemTaskLeaseExpired: only a running row is failed; clearing
\* active_key is leaving the Active statuses.
MarkSystemTaskLeaseExpired(t) ==
    IF tasks[t].status = "running"
    THEN /\ tasks' = [tasks EXCEPT ![t].status = "failed"]
         /\ idle' = [idle EXCEPT ![tasks[t].type] = 0]
    ELSE UNCHANGED <<tasks, idle>>

\* ReleaseSystemTaskLock deletes by task_id and locked_by, live or not.
ReleaseSystemTaskLock(t, r) ==
    locks' = [k \in Types |-> IF locks[k].task = t /\ locks[k].by = r
                              THEN NoLock ELSE locks[k]]

\* The WHERE clause of UpdateSystemTaskState and FinishSystemTask, evaluated d
\* ticks after the caller read "now".
HoldsLease(t, r, d) ==
    /\ tasks[t].status = "running"
    /\ tasks[t].by = r
    /\ \E k \in Types : locks[k].task = t /\ locks[k].by = r /\ locks[k].rem + d >= 0

-----------------------------------------------------------------------------
(* Creating rows.                                                          *)

\* Variant: no unique index on active_key.
CreateUnindexed(k) ==
    /\ next <= MaxTasks
    /\ tasks' = [tasks EXCEPT ![next] = [type |-> k, status |-> "pending", by |-> NoRunner]]
    /\ next' = next + 1

\* INSERT of a pending row; the unique index on active_key refuses it while
\* the type has an active row.
CreateSystemTask(k) ==
    /\ next <= MaxTasks
    /\ ~ActiveRow(k)
    /\ tasks' = [tasks EXCEPT ![next] = [type |-> k, status |-> "pending", by |-> NoRunner]]
    /\ next' = next + 1

\* StartLogCleanupTask and EnqueueSystemTask, from any node's API: the lookup
\* before the INSERT only decides which answer a refused request gets.
EnqueueSystemTask(k) ==
    /\ CreateSystemTask(k)
    /\ UNCHANGED <<locks, run, exec, idle, alive, faults>>

\* runSystemTaskScheduler, first statement: the latest row of the type is not
\* active and is old enough.
SchedulerDue(k) == ~ActiveRow(k) /\ idle[k] >= Interval

SchedulerLookup(r, k) ==
    /\ run[r].pc = "idle"
    /\ r \in alive
    /\ SchedulerDue(k)
    /\ run' = [run EXCEPT ![r] = Begin("create", k, NoTask, {})]
    /\ UNCHANGED <<tasks, next, locks, exec, idle, alive, faults>>

\* Its second statement; a refused INSERT is dropped.
SchedulerCreate(r) ==
    /\ run[r].pc = "create"
    /\ CreateSystemTask(run[r].type)
    /\ Return(r)
    /\ UNCHANGED <<locks, exec, idle, alive, faults>>

SchedulerRefused(r) ==
    /\ run[r].pc = "create"
    /\ ActiveRow(run[r].type) \/ next > MaxTasks
    /\ Return(r)
    /\ UNCHANGED <<tasks, next, locks, exec, idle, alive, faults>>

-----------------------------------------------------------------------------
(* ClaimSystemTask.                                                        *)

\* runSystemTaskClaimPass found t, ClaimSystemTask read "now" and saw t pending.
ClaimRead(r, t) ==
    /\ run[r].pc = "idle"
    /\ r \in alive
    /\ tasks[t].status = "pending"
    /\ run' = [run EXCEPT ![r] = Begin("insert", tasks[t].type, t, {})]
    /\ UNCHANGED <<tasks, next, locks, exec, idle, alive, faults>>

\* The lock row written by a claim: locked_until was computed before the claim.
LockOf(r) == [task |-> run[r].task, by |-> r, rem |-> TTL - run[r].elapsed]

\* acquireSystemTaskLock, INSERT.
ClaimInsert(r) ==
    /\ run[r].pc = "insert"
    /\ IF locks[run[r].type] = NoLock
       THEN /\ locks' = [locks EXCEPT ![run[r].type] = LockOf(r)]
            /\ Goto(r, "mark")
       ELSE /\ Goto(r, "existing")
            /\ UNCHANGED locks
    /\ UNCHANGED <<tasks, next, exec, idle, alive, faults>>

\* Any error of the INSERT is taken for a duplicate key.
ClaimInsertFails(r) ==
    /\ run[r].pc = "insert"
    /\ Fault
    /\ Goto(r, "existing")
    /\ UNCHANGED <<tasks, next, locks, exec, idle, alive>>

\* A lock row that a claim of r may take over, by r's remembered "now".
LapsedFor(r, k) == locks[k] # NoLock /\ locks[k].rem + run[r].elapsed < 0

\* acquireSystemTaskLock, SELECT of the row in the way.
ClaimExisting(r) ==
    /\ run[r].pc = "existing"
    /\ IF LapsedFor(r, run[r].type)
       THEN run' = [run EXCEPT ![r].pc = "steal", ![r].old = locks[run[r].type].task]
       ELSE Return(r)
    /\ UNCHANGED <<tasks, next, locks, exec, idle, alive, faults>>

\* Variant: the UPDATE no longer repeats the expiry condition.
StealBlindly(r) ==
    /\ run[r].pc = "steal"
    /\ locks' = [locks EXCEPT ![run[r].type] = LockOf(r)]
    /\ Goto(r, IF run[r].old # run[r].task THEN "failOld" ELSE "mark")
    /\ UNCHANGED <<tasks, next, exec, idle, alive, faults>>

\* acquireSystemTaskLock, conditional UPDATE.
ClaimSteal(r) ==
    /\ run[r].pc = "steal"
    /\ IF LapsedFor(r, run[r].type)
       THEN /\ locks' = [locks EXCEPT ![run[r].type] = LockOf(r)]
            /\ Goto(r, IF run[r].old # run[r].task THEN "failOld" ELSE "mark")
       ELSE /\ Return(r)
            /\ UNCHANGED locks
    /\ UNCHANGED <<tasks, next, exec, idle, alive, faults>>

\* The run the lapsed lock belonged to is failed.
ClaimFailOld(r) ==
    /\ run[r].pc = "failOld"
    /\ MarkSystemTaskLeaseExpired(run[r].old)
    /\ Goto(r, "mark")
    /\ UNCHANGED <<next, locks, exec, alive, faults>>

\* Variant: the row is marked by id alone, whatever its status.
MarkWithoutStatus(r) ==
    /\ run[r].pc = "mark"
    /\ tasks' = [tasks EXCEPT ![run[r].task].status = "running", ![run[r].task].by = r]
    /\ Goto(r, "reread")
    /\ UNCHANGED <<next, locks, exec, idle, alive, faults>>

\* UPDATE ... SET status = running WHERE status = pending.
ClaimMark(r) ==
    /\ run[r].pc = "mark"
    /\ IF tasks[run[r].task].status = "pending"
       THEN /\ tasks' = [tasks EXCEPT ![run[r].task].status = "running",
                                      ![run[r].task].by = r]
            /\ Goto(r, "reread")
       ELSE /\ Goto(r, "release")
            /\ UNCHANGED tasks
    /\ UNCHANGED <<next, locks, exec, idle, alive, faults>>

\* The statement fails: the claim gives its lock back.
ClaimStatementFails(r) ==
    /\ run[r].pc \in {"failOld", "mark"}
    /\ Fault
    /\ Goto(r, "release")
    /\ UNCHANGED <<tasks, next, locks, exec, idle, alive>>

ClaimRelease(r) ==
    /\ run[r].pc = "release"
    /\ ReleaseSystemTaskLock(run[r].task, r)
    /\ Return(r)
    /\ UNCHANGED <<tasks, next, exec, idle, alive, faults>>

\* A SELECT, the takeover or the release fails: the claim just returns.
ClaimAborts(r) ==
    /\ run[r].pc \in {"existing", "steal", "release", "reread"}
    /\ Fault
    /\ Return(r)
    /\ UNCHANGED <<tasks, next, locks, exec, idle, alive>>

\* The claimed row is read back and its handler is dispatched on a goroutine.
ClaimDispatch(r) ==
    /\ run[r].pc = "reread"
    /\ exec' = [exec EXCEPT ![run[r].task] = [by |-> r, mode |-> "running"]]
    /\ Return(r)
    /\ UNCHANGED <<tasks, next, locks, idle, alive, faults>>

-----------------------------------------------------------------------------
(* ExpireStaleSystemTaskLocks.                                             *)

StaleLocks == {s \in Stale : /\ locks[s.type].task = s.task
                             /\ locks[s.type].by = s.by
                             /\ locks[s.type].rem < 0}

StaleFind(r) ==
    /\ run[r].pc = "idle"
    /\ r \in alive
    /\ StaleLocks # {}
    /\ run' = [run EXCEPT ![r] = Begin("staleMark", NoType, NoTask, StaleLocks)]
    /\ UNCHANGED <<tasks, next, locks, exec, idle, alive, faults>>

\* Variant: the pass drops the lock without failing its row.
StaleSkipsMark(r) ==
    /\ run[r].pc = "staleMark"
    /\ \E s \in run[r].snap :
          run' = [run EXCEPT ![r].pc = "staleDelete", ![r].cur = {s}]
    /\ UNCHANGED <<tasks, next, locks, exec, idle, alive, faults>>

\* The loop body, first statement: the row is failed without another look at
\* the lock.
StaleMark(r) ==
    /\ run[r].pc = "staleMark"
    /\ \E s \in run[r].snap :
          /\ MarkSystemTaskLeaseExpired(s.task)
          /\ run' = [run EXCEPT ![r].pc = "staleDelete", ![r].cur = {s}]
    /\ UNCHANGED <<next, locks, exec, alive, faults>>

\* Second statement: DELETE, if it is still the same stale lock.
StaleDelete(r) ==
    /\ run[r].pc = "staleDelete"
    /\ \E s \in run[r].cur :
          locks' = [locks EXCEPT ![s.type] =
                       IF @.task = s.task /\ @.by = s.by /\ @.rem + run[r].elapsed < 0
                       THEN NoLock ELSE @]
    /\ IF run[r].snap \subseteq run[r].cur
       THEN Return(r)
       ELSE run' = [run EXCEPT ![r].pc = "staleMark",
                               ![r].snap = @ \ run[r].cur, ![r].cur = {}]
    /\ UNCHANGED <<tasks, next, exec, idle, alive, faults>>

\* A statement fails: the pass ends and the rest waits for the next one.
StaleAborts(r) ==
    /\ run[r].pc \in {"staleMark", "staleDelete"}
    /\ Fault
    /\ Return(r)
    /\ UNCHANGED <<tasks, next, locks, exec, idle, alive>>

-----------------------------------------------------------------------------
(* A dispatched handler and its heartbeat (runWithLeaseHeartbeat).         *)

Executing(t) == exec[t].mode \in {"running", "cancelled"}

\* RenewSystemTaskLock, d ticks after its "now"; a lost lock cancels the context.
Heartbeat(t) ==
    /\ exec[t].mode = "running"
    /\ \E d \in 0 .. MaxPause :
          IF \E k \in Types : locks[k].task = t /\ locks[k].by = exec[t].by
                              /\ locks[k].rem + d >= 0
          THEN /\ locks' = [k \in Types |->
                              IF locks[k].task = t /\ locks[k].by = exec[t].by
                                 /\ locks[k].rem + d >= 0
                              THEN [locks[k] EXCEPT !.rem = TTL - d] ELSE locks[k]]
               /\ UNCHANGED exec
          ELSE /\ exec' = [exec EXCEPT ![t].mode = "cancelled"]
               /\ UNCHANGED locks
    /\ UNCHANGED <<tasks, next, run, idle, alive, faults>>

\* UpdateSystemTaskState of the log cleanup loop answers ErrSystemTaskLockLost
\* and the handler returns without finishing its row.
HandlerLosesLock(t) ==
    /\ Executing(t)
    /\ ~HoldsLease(t, exec[t].by, 0)
    /\ exec' = [exec EXCEPT ![t].mode = "ended"]
    /\ UNCHANGED <<tasks, next, locks, run, idle, alive, faults>>

\* FinishSystemTask, first statement.
HandlerFinish(t, status) ==
    /\ Executing(t)
    /\ \E d \in 0 .. MaxPause :
          IF HoldsLease(t, exec[t].by, d)
          THEN /\ tasks' = [tasks EXCEPT ![t].status = status]
               /\ idle' = [idle EXCEPT ![tasks[t].type] = 0]
               /\ exec' = [exec EXCEPT ![t].mode = "releasing"]
          ELSE /\ exec' = [exec EXCEPT ![t].mode = "ended"]
               /\ UNCHANGED <<tasks, idle>>
    /\ UNCHANGED <<next, locks, run, alive, faults>>

\* FinishSystemTask, second statement.
HandlerRelease(t) ==
    /\ exec[t].mode = "releasing"
    /\ ReleaseSystemTaskLock(t, exec[t].by)
    /\ exec' = [exec EXCEPT ![t].mode = "ended"]
    /\ UNCHANGED <<tasks, next, run, idle, alive, faults>>

\* A failed statement, or a panic caught by the goroutine pool.
HandlerAborts(t) ==
    /\ Executing(t) \/ exec[t].mode = "releasing"
    /\ Fault
    /\ exec' = [exec EXCEPT ![t].mode = "ended"]
    /\ UNCHANGED <<tasks, next, locks, run, idle, alive>>

-----------------------------------------------------------------------------
\* A master node dies, with everything its goroutines had in memory.  Another
\* master stays up.
Crash(r) ==
    /\ r \in alive
    /\ alive # {r}
    /\ Fault
    /\ alive' = alive \ {r}
    /\ Return(r)
    /\ exec' = [t \in TaskIds |-> IF exec[t].by = r THEN [exec[t] EXCEPT !.mode = "ended"]
                                                    ELSE exec[t]]
    /\ UNCHANGED <<tasks, next, locks, idle>>

\* One tick of the (common) clock.
Tick ==
    /\ \A r \in Runners : Timed(r) => run[r].elapsed < MaxPause
    /\ locks' = [k \in Types |-> IF locks[k].rem > Floor
                                 THEN [locks[k] EXCEPT !.rem = @ - 1] ELSE locks[k]]
    /\ run' = [r \in Runners |-> IF Timed(r) THEN [run[r] EXCEPT !.elapsed = @ + 1]
                                             ELSE run[r]]
    /\ idle' = [k \in Types |-> IF idle[k] < Interval THEN idle[k] + 1 ELSE idle[k]]
    /\ UNCHANGED <<tasks, next, exec, alive, faults>>

Claim(r) ==
    \/ ClaimInsert(r) \/ ClaimExisting(r) \/ ClaimSteal(r) \/ ClaimFailOld(r)
    \/ ClaimMark(r) \/ ClaimRelease(r) \/ ClaimDispatch(r)

Scheduler(r) == SchedulerCreate(r) \/ SchedulerRefused(r)

StalePass(r) == StaleMark(r) \/ StaleDelete(r)

StatementFails(r) ==
    ClaimInsertFails(r) \/ ClaimStatementFails(r) \/ ClaimAborts(r) \/ StaleAborts(r)

Handler(t) ==
    \/ \E status \in Terminal : HandlerFinish(t, status)
    \/ HandlerRelease(t)

Next ==
    \/ \E k \in Types : EnqueueSystemTask(k)
    \/ \E r \in Runners :
          \/ \E k \in Types : SchedulerLookup(r, k)
          \/ Scheduler(r)
          \/ \E t \in TaskIds : ClaimRead(r, t)
          \/ Claim(r)
          \/ StaleFind(r)
          \/ StalePass(r)
          \/ StatementFails(r)
          \/ Crash(r)
    \/ \E t \in TaskIds :
          \/ Heartbeat(t)
          \/ HandlerLosesLock(t)
          \/ Handler(t)
          \/ HandlerAborts(t)
    \/ Tick

Spec == Init /\ [][Next]_vars

\* A live runner's loop never stops: an operation in progress goes on, and the
\* ticker brings both passes round again and again (strong fairness, because
\* the loop may be inside the other pass whenever one of them has work).  A
\* handler ends, and time passes.
Fairness ==
    /\ WF_vars(Tick)
    /\ \A r \in Runners :
          /\ WF_vars(Scheduler(r) \/ Claim(r) \/ StalePass(r))
          /\ SF_vars(\E t \in TaskIds : ClaimRead(r, t))
          /\ SF_vars(StaleFind(r))
    /\ \A t \in TaskIds : WF_vars(Handler(t)) /\ WF_vars(Heartbeat(t))

FairSpec == Spec /\ Fairness
-----------------------------------------------------------------------------
(* Properties.                                                             *)

\* The unique index on active_key, the status CAS and the fenced updates keep
\* at most one pending or running row of a type, whatever the interleaving of
\* EnqueueSystemTask, the schedulers, claims and expiries.
OneActivePerType ==
    \A t, u \in TaskIds :
        /\ tasks[t].status \in Active
        /\ tasks[u].status \in Active
        /\ tasks[t].type = tasks[u].type
        => t = u

\* A running row can always be recovered: its type's lock row names it and the
\* runner that claimed it, so that ExpireStaleSystemTaskLocks or the next claim
\* will find it once its lease lapses.  True as long as no claim takes as long
\* as the lock's TTL.
RunningHasLock ==
    MaxPause < TTL =>
        \A t \in TaskIds : tasks[t].status = "running" =>
            /\ locks[tasks[t].type].task = t
            /\ locks[tasks[t].type].by = tasks[t].by

\* FinishSystemTask, MarkSystemTaskLeaseExpired and ClaimSystemTask race on a
\* row; the first terminal status stays, with its executor (active_key is gone
\* and nothing may set it again).
TerminalIsFinal ==
    [][\A t \in TaskIds : tasks[t].status \in Terminal => tasks'[t] = tasks[t]]_vars

\* A row is executed at most once: a handler is dispatched only by the claim
\* that moved the row from pending to running, and no claim of a row that was
\* already dispatched ever succeeds, also after a lease was lost or a node died.
DispatchedOnce ==
    [][\A t \in TaskIds : exec[t].mode # "none" =>
          /\ exec'[t].by = exec[t].by
          /\ exec[t].mode \in {"ended", "releasing"} => exec'[t].mode # "running"]_vars

\* The lock of a type never changes hands while its lease is live by the clock,
\* unless the holder itself gives it back.
LiveLeaseIsKept ==
    [][\A k \in Types : locks[k].rem >= 0 =>
          \/ locks'[k].task = locks[k].task /\ locks'[k].by = locks[k].by
          \/ locks'[k] = NoLock /\ (run[locks[k].by].pc = "release"
                                    \/ exec[locks[k].task].mode = "releasing")]_vars

\* A pending row is claimed: no crash, lost claim or abandoned lock blocks a type
\* for good.
PendingIsClaimed ==
    \A t \in TaskIds : tasks[t].status = "pending" ~> tasks[t].status # "pending"

\* A running row ends, also when its runner died or lost its lease: the TTL is a
\* crash-detection window.
RunningEnds ==
    \A t \in TaskIds : tasks[t].status = "running" ~> tasks[t].status \in Terminal

\* Both: every row that was created comes to its end.
TasksAreDone == PendingIsClaimed /\ RunningEnds
=============================================================================
