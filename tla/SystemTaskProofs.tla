-------------------------- MODULE SystemTaskProofs --------------------------
(***************************************************************************)
(* Theorems about SystemTask, for every set of types and runners and every *)
(* bound: type correctness, at most one active row per type, that a        *)
(* running row never loses its lock row when claims are shorter than the   *)
(* TTL, and what no step does: change a finished row, start a handler      *)
(* twice, or take a live lease away.                                       *)
(***************************************************************************)
EXTENDS SystemTask, TLAPS

\* Phases of a claim of run[r].task by r before the row is marked running.
Claiming == {"insert", "existing", "steal", "failOld", "mark", "release"}

\* What a row's status says about its id, its type, its claimer and its handler.
Rows ==
    \A t \in TaskIds :
        /\ t >= next => tasks[t].status = "absent"
        /\ tasks[t].status # "absent" => tasks[t].type \in Types
        /\ tasks[t].status \in {"absent", "pending"} =>
              tasks[t].by = NoRunner /\ exec[t].by = NoRunner /\ exec[t].mode = "none"
        /\ exec[t].by # NoRunner => exec[t].by = tasks[t].by
        /\ exec[t].mode # "none" => exec[t].by # NoRunner
        /\ exec[t].mode = "releasing" => tasks[t].status \in Terminal

\* What a runner in the middle of a claim knows of its row.
Claims ==
    \A r \in Runners :
        /\ run[r].pc \in Claiming \cup {"reread"} =>
              /\ run[r].task \in TaskIds
              /\ tasks[run[r].task].status # "absent"
              /\ run[r].type = tasks[run[r].task].type
        /\ run[r].pc \in Claiming => tasks[run[r].task].by # r
        /\ run[r].pc \in {"failOld", "steal"} => run[r].old \in TaskIds
        /\ run[r].pc = "reread" => /\ tasks[run[r].task].by = r
                                   /\ exec[run[r].task].mode = "none"
        /\ run[r].pc = "create" => run[r].type \in Types

\* A lock row names a row of its own type.
LockRows ==
    \A k \in Types : locks[k] # NoLock =>
        /\ tasks[locks[k].task].status # "absent"
        /\ tasks[locks[k].task].type = k

\* A claim that has acquired the lock still holds it, with the time left that
\* it has not spent.
Acquired ==
    \A r \in Runners : run[r].pc \in {"failOld", "mark"} =>
        locks[run[r].type] = LockOf(r)

\* r's operation in progress may overwrite or delete the lock row of t.
Watches(r, t) ==
    \/ run[r].pc \in {"insert", "existing", "steal"} /\ tasks[t].type = run[r].type
    \/ run[r].pc = "staleDelete" /\ \E s \in run[r].cur : s.task = t

\* The lock row of a running row was live at the "now" of every operation that
\* might take it away.
Protected ==
    \A r \in Runners, t \in TaskIds :
        tasks[t].status = "running" /\ Watches(r, t) =>
            locks[tasks[t].type].rem + run[r].elapsed >= 0

\* The lock row of a running row names it and its claimer.
Held ==
    \A t \in TaskIds : tasks[t].status = "running" =>
        /\ locks[tasks[t].type].task = t
        /\ locks[tasks[t].type].by = tasks[t].by

Shape == TypeOK /\ Rows /\ Claims /\ LockRows /\ OneActivePerType

Lease == Acquired /\ Protected /\ Held

-----------------------------------------------------------------------------
\* An operation just begun is well typed.
LEMMA BeginType ==
    ASSUME NEW p \in Phases, NEW k \in Types \cup {NoType},
           NEW t \in TaskIds \cup {NoTask}, NEW s \in SUBSET Stale
    PROVE  Begin(p, k, t, s) \in Op
BY SystemTaskAssumption DEF Begin, Op, NoTask

\* A runner that returns, begins an operation or moves on stays well typed.
LEMMA LoopType ==
    ASSUME TypeOK, NEW r \in Runners,
           \/ Return(r)
           \/ \E p \in Phases : Goto(r, p)
           \/ \E o \in Op : run' = [run EXCEPT ![r] = o]
    PROVE  run' \in [Runners -> Op]
<1>1. run \in [Runners -> Op]
  BY DEF TypeOK
<1>2. NoOp \in Op
  BY BeginType DEF NoOp, Phases
<1>3. \A p \in Phases : [run[r] EXCEPT !.pc = p] \in Op
  BY <1>1 DEF Op
<1>4. CASE Return(r)
  BY <1>1, <1>2, <1>4 DEF Return
<1>5. CASE \E p \in Phases : Goto(r, p)
  BY <1>1, <1>3, <1>5 DEF Goto
<1>6. CASE \E o \in Op : run' = [run EXCEPT ![r] = o]
  BY <1>1, <1>6
<1> QED
  BY <1>4, <1>5, <1>6

\* The lock row a claim writes is well typed.
LEMMA LockOfType ==
    ASSUME TypeOK, NEW r \in Runners, run[r].task \in TaskIds
    PROVE  LockOf(r) \in Lock
<1>1. run[r].elapsed \in 0 .. MaxPause
  BY DEF TypeOK, Op
<1>2. TTL - run[r].elapsed \in Floor .. TTL
  BY <1>1, SystemTaskAssumption DEF Floor
<1> QED
  BY <1>2 DEF LockOf, Lock

\* Failing a row and dropping a lock keep the tables well typed.
LEMMA StatementTypes ==
    ASSUME TypeOK
    PROVE  /\ \A t \in TaskIds : MarkSystemTaskLeaseExpired(t) =>
                 tasks' \in [TaskIds -> Row] /\ idle' \in [Types -> 0 .. Interval]
           /\ \A t \in TaskIds \cup {NoTask}, r \in Runners \cup {NoRunner} :
                 ReleaseSystemTaskLock(t, r) => locks' \in [Types -> Lock \cup {NoLock}]
<1>1. ASSUME NEW t \in TaskIds, MarkSystemTaskLeaseExpired(t)
      PROVE  tasks' \in [TaskIds -> Row] /\ idle' \in [Types -> 0 .. Interval]
  <2>1. [tasks[t] EXCEPT !.status = "failed"] \in Row
    BY DEF TypeOK, Row, Terminal
  <2> QED
    BY <1>1, <2>1, SystemTaskAssumption DEF MarkSystemTaskLeaseExpired, TypeOK
<1>2. ASSUME NEW t \in TaskIds \cup {NoTask}, NEW r \in Runners \cup {NoRunner},
             ReleaseSystemTaskLock(t, r)
      PROVE  locks' \in [Types -> Lock \cup {NoLock}]
  BY <1>2 DEF ReleaseSystemTaskLock, TypeOK
<1> QED
  BY <1>1, <1>2

\* A handler that changes its mode stays well typed.
LEMMA WorkType ==
    ASSUME TypeOK, NEW t \in TaskIds,
           NEW m \in {"none", "running", "cancelled", "releasing", "ended"},
           exec' = [exec EXCEPT ![t].mode = m]
    PROVE  exec' \in [TaskIds -> Work]
BY DEF TypeOK, Work

LEMMA TypeInductive ==
    ASSUME TypeOK, Claims, [Next]_vars
    PROVE  TypeOK'
<1>1. ASSUME NEW k \in Types, CreateSystemTask(k)
      PROVE  tasks' \in [TaskIds -> Row] /\ next' \in 1 .. MaxTasks + 1
  <2>1. [type |-> k, status |-> "pending", by |-> NoRunner] \in Row
    BY DEF Row, Active
  <2>2. tasks' \in [TaskIds -> Row]
    BY <1>1, <2>1 DEF CreateSystemTask, TypeOK
  <2>3. next' \in 1 .. MaxTasks + 1
    BY <1>1, SystemTaskAssumption DEF CreateSystemTask, TypeOK
  <2> QED
    BY <2>2, <2>3
<1>2. ASSUME NEW k \in Types, EnqueueSystemTask(k) PROVE TypeOK'
  BY <1>1, <1>2 DEF EnqueueSystemTask, TypeOK
<1>3. ASSUME NEW r \in Runners, NEW k \in Types, SchedulerLookup(r, k) PROVE TypeOK'
  <2>1. Begin("create", k, NoTask, {}) \in Op
    BY BeginType DEF Phases
  <2> QED
    BY <1>3, <2>1, LoopType DEF SchedulerLookup, TypeOK
<1>4. ASSUME NEW r \in Runners, Scheduler(r) PROVE TypeOK'
  <2>1. run' \in [Runners -> Op]
    BY <1>4, LoopType DEF Scheduler, SchedulerCreate, SchedulerRefused
  <2>2. tasks' \in [TaskIds -> Row] /\ next' \in 1 .. MaxTasks + 1
    BY <1>1, <1>4 DEF Scheduler, SchedulerCreate, SchedulerRefused, TypeOK, Claims
  <2> QED
    BY <1>4, <2>1, <2>2 DEF Scheduler, SchedulerCreate, SchedulerRefused, TypeOK
<1>5. ASSUME NEW r \in Runners, NEW t \in TaskIds, ClaimRead(r, t) PROVE TypeOK'
  <2>1. tasks[t].type \in Types \cup {NoType}
    BY DEF TypeOK, Row
  <2>2. Begin("insert", tasks[t].type, t, {}) \in Op
    BY <2>1, BeginType DEF Phases
  <2> QED
    BY <1>5, <2>2, LoopType DEF ClaimRead, TypeOK
<1>6. ASSUME NEW r \in Runners, ClaimInsert(r) PROVE TypeOK'
  <2>1. run' \in [Runners -> Op]
    BY <1>6, LoopType DEF ClaimInsert, Phases
  <2>2. LockOf(r) \in Lock
    BY <1>6, LockOfType DEF ClaimInsert, Claims, Claiming
  <2> QED
    BY <1>6, <2>1, <2>2 DEF ClaimInsert, TypeOK
<1>7. ASSUME NEW r \in Runners, ClaimExisting(r) PROVE TypeOK'
  <2>1. CASE Return(r)
    BY <1>7, <2>1, LoopType DEF ClaimExisting, TypeOK
  <2>2. CASE LapsedFor(r, run[r].type)
    <3>1. locks[run[r].type].task \in TaskIds \cup {NoTask}
      BY <1>7, <2>2 DEF ClaimExisting, LapsedFor, TypeOK, Lock, NoLock, Op, Claims, Claiming
    <3>2. [run[r] EXCEPT !.pc = "steal", !.old = locks[run[r].type].task] \in Op
      BY <3>1 DEF TypeOK, Op, Phases
    <3> QED
      BY <1>7, <2>2, <3>2 DEF ClaimExisting, TypeOK
  <2> QED
    BY <1>7, <2>1, <2>2 DEF ClaimExisting
<1>8. ASSUME NEW r \in Runners, ClaimSteal(r) PROVE TypeOK'
  <2>1. run' \in [Runners -> Op]
    BY <1>8, LoopType DEF ClaimSteal, Phases
  <2>2. LockOf(r) \in Lock
    BY <1>8, LockOfType DEF ClaimSteal, Claims, Claiming
  <2> QED
    BY <1>8, <2>1, <2>2 DEF ClaimSteal, TypeOK
<1>9. ASSUME NEW r \in Runners, ClaimFailOld(r) PROVE TypeOK'
  <2>1. run' \in [Runners -> Op]
    BY <1>9, LoopType DEF ClaimFailOld, Phases
  <2>2. run[r].old \in TaskIds
    BY <1>9 DEF ClaimFailOld, Claims
  <2> QED
    BY <1>9, <2>1, <2>2, StatementTypes DEF ClaimFailOld, TypeOK
<1>10. ASSUME NEW r \in Runners, ClaimMark(r) PROVE TypeOK'
  <2>1. run' \in [Runners -> Op]
    BY <1>10, LoopType DEF ClaimMark, Phases
  <2>2. run[r].task \in TaskIds
    BY <1>10 DEF ClaimMark, Claims, Claiming
  <2>3. [tasks[run[r].task] EXCEPT !.status = "running", !.by = r] \in Row
    BY <2>2 DEF TypeOK, Row, Active
  <2>4. tasks' \in [TaskIds -> Row]
    BY <1>10, <2>2, <2>3 DEF ClaimMark, TypeOK
  <2> QED
    BY <1>10, <2>1, <2>4 DEF ClaimMark, TypeOK
<1>11. ASSUME NEW r \in Runners, ClaimRelease(r) PROVE TypeOK'
  <2>1. run[r].task \in TaskIds
    BY <1>11 DEF ClaimRelease, Claims, Claiming
  <2> QED
    BY <1>11, <2>1, LoopType, StatementTypes DEF ClaimRelease, TypeOK
<1>12. ASSUME NEW r \in Runners, ClaimDispatch(r) PROVE TypeOK'
  <2>1. [by |-> r, mode |-> "running"] \in Work
    BY DEF Work
  <2>2. run' \in [Runners -> Op]
    BY <1>12, LoopType DEF ClaimDispatch
  <2>3. exec' \in [TaskIds -> Work]
    BY <1>12, <2>1 DEF ClaimDispatch, TypeOK
  <2> QED
    BY <1>12, <2>2, <2>3 DEF ClaimDispatch, TypeOK
<1>13. ASSUME NEW r \in Runners, StaleFind(r) PROVE TypeOK'
  <2>1. Begin("staleMark", NoType, NoTask, StaleLocks) \in Op
    BY BeginType DEF Phases, StaleLocks
  <2> QED
    BY <1>13, <2>1, LoopType DEF StaleFind, TypeOK
<1>14. ASSUME NEW r \in Runners, StaleMark(r) PROVE TypeOK'
  <2>1. PICK s \in run[r].snap :
           /\ MarkSystemTaskLeaseExpired(s.task)
           /\ run' = [run EXCEPT ![r].pc = "staleDelete", ![r].cur = {s}]
    BY <1>14 DEF StaleMark
  <2>2. s \in Stale /\ s.task \in TaskIds
    BY DEF TypeOK, Op, Stale
  <2>3. [run[r] EXCEPT !.pc = "staleDelete", !.cur = {s}] \in Op
    BY <2>2 DEF TypeOK, Op, Phases
  <2>4. run' \in [Runners -> Op]
    BY <2>1, <2>3 DEF TypeOK
  <2> QED
    BY <1>14, <2>1, <2>2, <2>4, StatementTypes DEF StaleMark, TypeOK
<1>15. ASSUME NEW r \in Runners, StaleDelete(r) PROVE TypeOK'
  <2>1. run' \in [Runners -> Op]
    <3>1. [run[r] EXCEPT !.pc = "staleMark", !.snap = run[r].snap \ run[r].cur, !.cur = {}] \in Op
      BY DEF TypeOK, Op, Phases
    <3>2. CASE Return(r)
      BY <3>2, LoopType
    <3>3. CASE run' = [run EXCEPT ![r].pc = "staleMark",
                                  ![r].snap = @ \ run[r].cur, ![r].cur = {}]
      BY <3>1, <3>3 DEF TypeOK
    <3> QED
      BY <1>15, <3>2, <3>3 DEF StaleDelete
  <2>2. locks' \in [Types -> Lock \cup {NoLock}]
    BY <1>15 DEF StaleDelete, TypeOK
  <2> QED
    BY <1>15, <2>1, <2>2 DEF StaleDelete, TypeOK
<1>16. ASSUME NEW r \in Runners, StatementFails(r) PROVE TypeOK'
  <2>1. run' \in [Runners -> Op]
    BY <1>16, LoopType
       DEF StatementFails, ClaimInsertFails, ClaimStatementFails, ClaimAborts, StaleAborts, Phases
  <2>2. faults' \in 0 .. MaxFaults
    BY <1>16, SystemTaskAssumption
       DEF StatementFails, ClaimInsertFails, ClaimStatementFails, ClaimAborts, StaleAborts, Fault, TypeOK
  <2> QED
    BY <1>16, <2>1, <2>2
       DEF StatementFails, ClaimInsertFails, ClaimStatementFails, ClaimAborts, StaleAborts, TypeOK
<1>17. ASSUME NEW r \in Runners, Crash(r) PROVE TypeOK'
  <2>1. \A t \in TaskIds : [exec[t] EXCEPT !.mode = "ended"] \in Work
    BY DEF TypeOK, Work
  <2>2. exec' \in [TaskIds -> Work]
    BY <1>17, <2>1 DEF Crash, TypeOK
  <2>3. faults' \in 0 .. MaxFaults
    BY <1>17, SystemTaskAssumption DEF Crash, Fault, TypeOK
  <2>4. run' \in [Runners -> Op]
    BY <1>17, LoopType DEF Crash
  <2> QED
    BY <1>17, <2>2, <2>3, <2>4 DEF Crash, TypeOK
<1>18. ASSUME NEW t \in TaskIds, Heartbeat(t) PROVE TypeOK'
  <2>1. PICK d \in 0 .. MaxPause :
          IF \E k \in Types : locks[k].task = t /\ locks[k].by = exec[t].by
                              /\ locks[k].rem + d >= 0
          THEN /\ locks' = [k \in Types |->
                              IF locks[k].task = t /\ locks[k].by = exec[t].by
                                 /\ locks[k].rem + d >= 0
                              THEN [locks[k] EXCEPT !.rem = TTL - d] ELSE locks[k]]
               /\ UNCHANGED exec
          ELSE /\ exec' = [exec EXCEPT ![t].mode = "cancelled"]
               /\ UNCHANGED locks
    BY <1>18 DEF Heartbeat
  <2>2. TTL - d \in Floor .. TTL
    BY SystemTaskAssumption DEF Floor
  <2>3. \A k \in Types : locks[k].task = t => [locks[k] EXCEPT !.rem = TTL - d] \in Lock
    <3> TAKE k \in Types
    <3> HAVE locks[k].task = t
    <3>1. locks[k] \in Lock
      BY DEF TypeOK, NoLock, NoTask, TaskIds
    <3> QED
      BY <2>2, <3>1 DEF Lock
  <2>4. locks' \in [Types -> Lock \cup {NoLock}]
    BY <2>1, <2>3 DEF TypeOK
  <2>5. exec' \in [TaskIds -> Work]
    BY <2>1, WorkType DEF TypeOK
  <2> QED
    BY <1>18, <2>4, <2>5 DEF Heartbeat, TypeOK
<1>19. ASSUME NEW t \in TaskIds, HandlerLosesLock(t) PROVE TypeOK'
  BY <1>19, WorkType DEF HandlerLosesLock, TypeOK
<1>20. ASSUME NEW t \in TaskIds, NEW status \in Terminal, HandlerFinish(t, status)
       PROVE  TypeOK'
  <2>1. [tasks[t] EXCEPT !.status = status] \in Row
    BY DEF TypeOK, Row, Terminal
  <2>2. tasks' \in [TaskIds -> Row]
    BY <1>20, <2>1 DEF HandlerFinish, TypeOK
  <2>3. exec' \in [TaskIds -> Work]
    BY <1>20, WorkType DEF HandlerFinish
  <2>4. idle' \in [Types -> 0 .. Interval]
    BY <1>20, SystemTaskAssumption DEF HandlerFinish, TypeOK
  <2> QED
    BY <1>20, <2>2, <2>3, <2>4 DEF HandlerFinish, TypeOK
<1>21. ASSUME NEW t \in TaskIds, HandlerRelease(t) PROVE TypeOK'
  <2>1. exec[t].by \in Runners \cup {NoRunner}
    BY DEF TypeOK, Work
  <2> QED
    BY <1>21, <2>1, WorkType, StatementTypes DEF HandlerRelease, TypeOK
<1>22. ASSUME NEW t \in TaskIds, HandlerAborts(t) PROVE TypeOK'
  <2>1. faults' \in 0 .. MaxFaults
    BY <1>22, SystemTaskAssumption DEF HandlerAborts, Fault, TypeOK
  <2> QED
    BY <1>22, <2>1, WorkType DEF HandlerAborts, TypeOK
<1>23. ASSUME Tick PROVE TypeOK'
  <2>1. \A k \in Types : locks[k].rem > Floor => [locks[k] EXCEPT !.rem = @ - 1] \in Lock
    <3> TAKE k \in Types
    <3> HAVE locks[k].rem > Floor
    <3>1. locks[k] \in Lock
      BY SystemTaskAssumption DEF TypeOK, NoLock, Floor
    <3> QED
      BY <3>1, SystemTaskAssumption DEF Lock, Floor
  <2>2. locks' \in [Types -> Lock \cup {NoLock}]
    BY <1>23, <2>1 DEF Tick, TypeOK
  <2>3. \A r \in Runners : run[r].elapsed < MaxPause => [run[r] EXCEPT !.elapsed = @ + 1] \in Op
    BY SystemTaskAssumption DEF TypeOK, Op
  <2>4. run' \in [Runners -> Op]
    BY <1>23, <2>3 DEF Tick, TypeOK
  <2>5. idle' \in [Types -> 0 .. Interval]
    BY <1>23, SystemTaskAssumption DEF Tick, TypeOK
  <2> QED
    BY <1>23, <2>2, <2>4, <2>5 DEF Tick, TypeOK
<1>24. ASSUME UNCHANGED vars PROVE TypeOK'
  BY <1>24 DEF vars, TypeOK
<1> QED
  BY <1>2, <1>3, <1>4, <1>5, <1>6, <1>7, <1>8, <1>9, <1>10, <1>11, <1>12, <1>13, <1>14,
     <1>15, <1>16, <1>17, <1>18, <1>19, <1>20, <1>21, <1>22, <1>23, <1>24
     DEF Next, Claim, StalePass, Handler

-----------------------------------------------------------------------------
\* The actions that touch neither the rows nor the handlers.
LoopOnly(r) ==
    \/ \E k \in Types : SchedulerLookup(r, k)
    \/ SchedulerRefused(r)
    \/ \E t \in TaskIds : ClaimRead(r, t)
    \/ ClaimInsert(r) \/ ClaimExisting(r) \/ ClaimSteal(r) \/ ClaimRelease(r)
    \/ StaleFind(r) \/ StaleDelete(r) \/ StatementFails(r)

LEMMA LoopOnlyRows ==
    ASSUME NEW r \in Runners, LoopOnly(r)
    PROVE  UNCHANGED <<tasks, next, exec>>
BY DEF LoopOnly, SchedulerLookup, SchedulerRefused, ClaimRead, ClaimInsert, ClaimExisting,
       ClaimSteal, ClaimRelease, StaleFind, StaleDelete, StatementFails, ClaimInsertFails,
       ClaimStatementFails, ClaimAborts, StaleAborts

\* What MarkSystemTaskLeaseExpired does to the rows.
LEMMA MarkEffect ==
    ASSUME TypeOK, NEW t \in TaskIds, MarkSystemTaskLeaseExpired(t)
    PROVE  \A u \in TaskIds :
              /\ tasks'[u].type = tasks[u].type
              /\ tasks'[u].by = tasks[u].by
              /\ tasks'[u].status = tasks[u].status
                 \/ (u = t /\ tasks[u].status = "running" /\ tasks'[u].status = "failed")
              /\ tasks'[t].status # "running"
BY DEF MarkSystemTaskLeaseExpired, TypeOK, Row

LEMMA RowsInductive ==
    ASSUME TypeOK, Claims, Rows, [Next]_vars
    PROVE  Rows'
<1>1. ASSUME NEW k \in Types, CreateSystemTask(k), UNCHANGED exec PROVE Rows'
  <2>1. next \in TaskIds /\ tasks[next].status = "absent"
    BY <1>1 DEF CreateSystemTask, Rows, TypeOK, TaskIds
  <2>2. \A t \in TaskIds : t >= next' => t > next
    BY <1>1, SystemTaskAssumption DEF CreateSystemTask, TypeOK, TaskIds
  <2>3. \A t \in TaskIds : t > next => t # next /\ t >= next
    BY SystemTaskAssumption DEF TypeOK, TaskIds
  <2>4. tasks'[next] = [type |-> k, status |-> "pending", by |-> NoRunner]
    BY <1>1, <2>1 DEF CreateSystemTask, TypeOK
  <2>5. \A t \in TaskIds : t # next => tasks'[t] = tasks[t]
    BY <1>1 DEF CreateSystemTask, TypeOK
  <2> QED
    BY <1>1, <2>1, <2>2, <2>3, <2>4, <2>5 DEF Rows, Terminal
<1>2. ASSUME NEW k \in Types, EnqueueSystemTask(k) PROVE Rows'
  BY <1>1, <1>2 DEF EnqueueSystemTask
<1>3. ASSUME NEW r \in Runners, SchedulerCreate(r) PROVE Rows'
  BY <1>1, <1>3 DEF SchedulerCreate, Claims
<1>4. ASSUME NEW r \in Runners, LoopOnly(r) PROVE Rows'
  BY <1>4, LoopOnlyRows DEF Rows
<1>5. ASSUME NEW t \in TaskIds, MarkSystemTaskLeaseExpired(t), UNCHANGED <<next, exec>>
      PROVE  Rows'
  BY <1>5, MarkEffect DEF Rows, Terminal
<1>6. ASSUME NEW r \in Runners, ClaimFailOld(r) PROVE Rows'
  BY <1>5, <1>6 DEF ClaimFailOld, Claims
<1>7. ASSUME NEW r \in Runners, StaleMark(r) PROVE Rows'
  <2>1. PICK s \in run[r].snap : MarkSystemTaskLeaseExpired(s.task)
    BY <1>7 DEF StaleMark
  <2>2. s.task \in TaskIds
    BY DEF TypeOK, Op, Stale
  <2> QED
    BY <1>5, <1>7, <2>1, <2>2 DEF StaleMark
<1>8. ASSUME NEW r \in Runners, ClaimMark(r) PROVE Rows'
  <2> DEFINE c == run[r].task
  <2>1. c \in TaskIds
    BY <1>8 DEF ClaimMark, Claims, Claiming
  <2>2. CASE tasks[c].status = "pending"
    <3>1. /\ tasks'[c].status = "running" /\ tasks'[c].by = r /\ tasks'[c].type = tasks[c].type
          /\ \A u \in TaskIds : u # c => tasks'[u] = tasks[u]
      BY <1>8, <2>1, <2>2 DEF ClaimMark, TypeOK, Row
    <3> QED
      BY <1>8, <2>1, <2>2, <3>1 DEF ClaimMark, Rows, Terminal
  <2>3. CASE tasks[c].status # "pending"
    BY <1>8, <2>3 DEF ClaimMark, Rows
  <2> QED
    BY <2>2, <2>3
<1>9. ASSUME NEW r \in Runners, ClaimDispatch(r) PROVE Rows'
  <2> DEFINE c == run[r].task
  <2>1. c \in TaskIds /\ tasks[c].by = r /\ r # NoRunner
    BY <1>9, SystemTaskAssumption DEF ClaimDispatch, Claims, NoRunner
  <2>2. /\ exec'[c] = [by |-> r, mode |-> "running"]
        /\ \A u \in TaskIds : u # c => exec'[u] = exec[u]
    BY <1>9, <2>1 DEF ClaimDispatch, TypeOK
  <2> QED
    BY <1>9, <2>1, <2>2 DEF ClaimDispatch, Rows
<1>10. ASSUME NEW r \in Runners, Crash(r) PROVE Rows'
  <2>1. r # NoRunner
    BY SystemTaskAssumption DEF NoRunner
  <2>2. \A t \in TaskIds :
           /\ exec'[t].by = exec[t].by
           /\ exec'[t].mode = (IF exec[t].by = r THEN "ended" ELSE exec[t].mode)
    BY <1>10 DEF Crash, TypeOK, Work
  <2> QED
    BY <1>10, <2>1, <2>2 DEF Crash, Rows
<1>11. ASSUME NEW t \in TaskIds, NEW m \in {"cancelled", "ended"},
              exec[t].mode # "none", exec' = [exec EXCEPT ![t].mode = m],
              UNCHANGED <<tasks, next>>
       PROVE  Rows'
  <2>1. /\ exec'[t].mode = m /\ exec'[t].by = exec[t].by
        /\ \A u \in TaskIds : u # t => exec'[u] = exec[u]
    BY <1>11 DEF TypeOK, Work
  <2> QED
    BY <1>11, <2>1 DEF Rows
<1>12. ASSUME NEW t \in TaskIds, Heartbeat(t) PROVE Rows'
  <2>1. CASE UNCHANGED exec
    BY <1>12, <2>1 DEF Heartbeat, Rows
  <2>2. CASE exec' = [exec EXCEPT ![t].mode = "cancelled"]
    BY <1>11, <1>12, <2>2 DEF Heartbeat
  <2> QED
    BY <1>12, <2>1, <2>2 DEF Heartbeat
<1>13. ASSUME NEW t \in TaskIds, HandlerLosesLock(t) \/ HandlerRelease(t) \/ HandlerAborts(t)
       PROVE  Rows'
  BY <1>11, <1>13 DEF HandlerLosesLock, HandlerRelease, HandlerAborts, Executing
<1>14. ASSUME NEW t \in TaskIds, NEW status \in Terminal, HandlerFinish(t, status)
       PROVE  Rows'
  <2>1. CASE exec' = [exec EXCEPT ![t].mode = "ended"] /\ UNCHANGED <<tasks, idle>>
    BY <1>11, <1>14, <2>1 DEF HandlerFinish, Executing
  <2>2. CASE /\ tasks' = [tasks EXCEPT ![t].status = status]
             /\ exec' = [exec EXCEPT ![t].mode = "releasing"]
             /\ tasks[t].status = "running"
    <3>1. /\ tasks'[t].status = status /\ tasks'[t].by = tasks[t].by
          /\ tasks'[t].type = tasks[t].type
          /\ \A u \in TaskIds : u # t => tasks'[u] = tasks[u] /\ exec'[u] = exec[u]
          /\ exec'[t].mode = "releasing" /\ exec'[t].by = exec[t].by
      BY <2>2 DEF TypeOK, Row, Work
    <3>2. exec[t].mode # "none"
      BY <1>14 DEF HandlerFinish, Executing
    <3> QED
      BY <1>14, <2>2, <3>1, <3>2 DEF HandlerFinish, Rows, Terminal
  <2> QED
    BY <1>14, <2>1, <2>2 DEF HandlerFinish, HoldsLease
<1>15. ASSUME Tick \/ UNCHANGED vars PROVE Rows'
  BY <1>15 DEF Tick, vars, Rows
<1> QED
  BY <1>2, <1>3, <1>4, <1>6, <1>7, <1>8, <1>9, <1>10, <1>12, <1>13, <1>14, <1>15
     DEF Next, Claim, Scheduler, StalePass, Handler, LoopOnly

\* At most one active row per type: the INSERT checks the index, and no other
\* statement makes a row active or changes a type.
LEMMA OneActiveInductive ==
    ASSUME TypeOK, Claims, Rows, OneActivePerType, [Next]_vars
    PROVE  OneActivePerType'
<1>1. ASSUME NEW k \in Types, CreateSystemTask(k) PROVE OneActivePerType'
  <2>1. next \in TaskIds
    BY <1>1 DEF CreateSystemTask, TypeOK, TaskIds
  <2>2. tasks'[next] = [type |-> k, status |-> "pending", by |-> NoRunner]
    BY <1>1, <2>1 DEF CreateSystemTask, TypeOK
  <2>3. \A t \in TaskIds : t # next => tasks'[t] = tasks[t]
    BY <1>1 DEF CreateSystemTask, TypeOK
  <2>4. \A t \in TaskIds : ~(tasks[t].type = k /\ tasks[t].status \in Active)
    BY <1>1 DEF CreateSystemTask, ActiveRow
  <2> QED
    BY <2>1, <2>2, <2>3, <2>4 DEF OneActivePerType
<1>2. ASSUME \A t \in TaskIds :
                /\ tasks'[t].type = tasks[t].type
                /\ tasks'[t].status \in Active => tasks[t].status \in Active
      PROVE  OneActivePerType'
  BY <1>2 DEF OneActivePerType
<1>3. ASSUME NEW k \in Types, EnqueueSystemTask(k) PROVE OneActivePerType'
  BY <1>1, <1>3 DEF EnqueueSystemTask
<1>4. ASSUME NEW r \in Runners, SchedulerCreate(r) PROVE OneActivePerType'
  BY <1>1, <1>4 DEF SchedulerCreate, Claims
<1>5. ASSUME NEW t \in TaskIds, MarkSystemTaskLeaseExpired(t) PROVE OneActivePerType'
  BY <1>2, <1>5, MarkEffect DEF Active
<1>6. ASSUME NEW r \in Runners, ClaimFailOld(r) PROVE OneActivePerType'
  BY <1>5, <1>6 DEF ClaimFailOld, Claims
<1>7. ASSUME NEW r \in Runners, StaleMark(r) PROVE OneActivePerType'
  <2>1. PICK s \in run[r].snap : MarkSystemTaskLeaseExpired(s.task)
    BY <1>7 DEF StaleMark
  <2>2. s.task \in TaskIds
    BY DEF TypeOK, Op, Stale
  <2> QED
    BY <1>5, <2>1, <2>2
<1>8. ASSUME NEW r \in Runners, ClaimMark(r) PROVE OneActivePerType'
  <2>1. run[r].task \in TaskIds
    BY <1>8 DEF ClaimMark, Claims, Claiming
  <2> QED
    BY <1>2, <1>8, <2>1 DEF ClaimMark, TypeOK, Row, Active
<1>9. ASSUME NEW t \in TaskIds, NEW status \in Terminal, HandlerFinish(t, status)
      PROVE  OneActivePerType'
  BY <1>2, <1>9 DEF HandlerFinish, TypeOK, Row, Active, Terminal
<1>10. ASSUME UNCHANGED tasks PROVE OneActivePerType'
  BY <1>10 DEF OneActivePerType
<1>11. ASSUME NEW r \in Runners, LoopOnly(r) PROVE OneActivePerType'
  BY <1>10, <1>11, LoopOnlyRows
<1>12. ASSUME NEW r \in Runners, ClaimDispatch(r) \/ Crash(r) PROVE OneActivePerType'
  BY <1>10, <1>12 DEF ClaimDispatch, Crash
<1>13. ASSUME NEW t \in TaskIds,
              Heartbeat(t) \/ HandlerLosesLock(t) \/ HandlerRelease(t) \/ HandlerAborts(t)
       PROVE  OneActivePerType'
  BY <1>10, <1>13 DEF Heartbeat, HandlerLosesLock, HandlerRelease, HandlerAborts
<1>14. ASSUME Tick \/ UNCHANGED vars PROVE OneActivePerType'
  BY <1>10, <1>14 DEF Tick, vars
<1> QED
  BY <1>3, <1>4, <1>6, <1>7, <1>8, <1>9, <1>11, <1>12, <1>13, <1>14
     DEF Next, Claim, Scheduler, StalePass, Handler, LoopOnly

-----------------------------------------------------------------------------
\* How a step moves the loop of a runner, seen from the other runners.
LEMMA GotoEffect ==
    ASSUME TypeOK, NEW r \in Runners, NEW p \in Phases, Goto(r, p)
    PROVE  /\ \A q \in Runners : q # r => run'[q] = run[q]
           /\ run'[r].pc = p
           /\ run'[r].type = run[r].type /\ run'[r].task = run[r].task
           /\ run'[r].old = run[r].old /\ run'[r].elapsed = run[r].elapsed
           /\ run'[r].snap = run[r].snap /\ run'[r].cur = run[r].cur
BY DEF Goto, TypeOK, Op

LEMMA ReturnEffect ==
    ASSUME TypeOK, NEW r \in Runners, Return(r)
    PROVE  /\ \A q \in Runners : q # r => run'[q] = run[q]
           /\ run'[r].pc = "idle"
BY DEF Return, NoOp, Begin, TypeOK

\* The part of Claims about one runner.
ClaimOf(r) ==
    /\ run[r].pc \in Claiming \cup {"reread"} =>
          /\ run[r].task \in TaskIds
          /\ tasks[run[r].task].status # "absent"
          /\ run[r].type = tasks[run[r].task].type
    /\ run[r].pc \in Claiming => tasks[run[r].task].by # r
    /\ run[r].pc \in {"failOld", "steal"} => run[r].old \in TaskIds
    /\ run[r].pc = "reread" => /\ tasks[run[r].task].by = r
                               /\ exec[run[r].task].mode = "none"
    /\ run[r].pc = "create" => run[r].type \in Types

LEMMA ClaimsInductive ==
    ASSUME TypeOK, Rows, Claims, LockRows, [Next]_vars
    PROVE  Claims'
<1> SUFFICES \A q \in Runners : ClaimOf(q)'
  BY DEF ClaimOf, Claims
<1>0. \A q \in Runners : ClaimOf(q)
  BY DEF ClaimOf, Claims
\* A step that keeps q's place, the identity and the claimer of its row, and the
\* handler of a row q has marked, keeps ClaimOf(q).
<1>1. ASSUME NEW q \in Runners, run'[q] = run[q],
             \A t \in TaskIds : tasks[t].status # "absent" =>
                /\ tasks'[t].status # "absent"
                /\ tasks'[t].type = tasks[t].type
                /\ tasks'[t].by = tasks[t].by,
             \A t \in TaskIds : exec[t].mode = "none" => exec'[t].mode = "none"
      PROVE  ClaimOf(q)'
  BY <1>0, <1>1 DEF ClaimOf, Claiming
<1>2. ASSUME NEW k \in Types, CreateSystemTask(k)
      PROVE  \A t \in TaskIds : tasks[t].status # "absent" => tasks'[t] = tasks[t]
  <2>0. next >= next
    BY SystemTaskAssumption DEF TypeOK
  <2>1. \A t \in TaskIds : tasks[t].status # "absent" => t # next
    BY <2>0 DEF Rows
  <2> QED
    BY <1>2, <2>1 DEF CreateSystemTask, TypeOK
<1>3. ASSUME NEW k \in Types, EnqueueSystemTask(k) PROVE \A q \in Runners : ClaimOf(q)'
  BY <1>1, <1>2, <1>3 DEF EnqueueSystemTask
\* Steps of one runner that leave the rows and the handlers alone.
<1>4. ASSUME NEW r \in Runners, UNCHANGED <<tasks, exec>>,
             \A q \in Runners : q # r => run'[q] = run[q], ClaimOf(r)'
      PROVE  \A q \in Runners : ClaimOf(q)'
  BY <1>1, <1>4
<1>5. ASSUME NEW r \in Runners, Return(r) PROVE ClaimOf(r)'
  BY <1>5, ReturnEffect DEF ClaimOf, Claiming
<1>6. ASSUME NEW r \in Runners, NEW p \in Claiming, run[r].pc \in Claiming, Goto(r, p),
             UNCHANGED <<tasks, exec>>, p \in {"failOld", "steal"} => run[r].old \in TaskIds
      PROVE  ClaimOf(r)'
  <2>1. p \in Phases
    BY DEF Claiming, Phases
  <2> QED
    BY <1>0, <1>6, <2>1, GotoEffect DEF ClaimOf, Claiming
<1>7. ASSUME NEW r \in Runners, NEW k \in Types, SchedulerLookup(r, k)
      PROVE  \A q \in Runners : ClaimOf(q)'
  <2>1. run'[r].pc = "create" /\ run'[r].type = k
    BY <1>7 DEF SchedulerLookup, Begin, TypeOK
  <2>2. ClaimOf(r)'
    BY <2>1 DEF ClaimOf, Claiming
  <2> QED
    BY <1>4, <1>7, <2>2 DEF SchedulerLookup, TypeOK
<1>8. ASSUME NEW r \in Runners, SchedulerCreate(r) PROVE \A q \in Runners : ClaimOf(q)'
  <2>1. run[r].type \in Types
    BY <1>8 DEF SchedulerCreate, Claims
  <2> QED
    BY <1>1, <1>2, <1>5, <1>8, <2>1, ReturnEffect DEF SchedulerCreate
<1>9. ASSUME NEW r \in Runners, SchedulerRefused(r) \/ ClaimRelease(r)
      PROVE  \A q \in Runners : ClaimOf(q)'
  BY <1>4, <1>5, <1>9, ReturnEffect DEF SchedulerRefused, ClaimRelease
<1>10. ASSUME NEW r \in Runners, NEW t \in TaskIds, ClaimRead(r, t)
       PROVE  \A q \in Runners : ClaimOf(q)'
  <2>1. run'[r].pc = "insert" /\ run'[r].task = t /\ run'[r].type = tasks[t].type
    BY <1>10 DEF ClaimRead, Begin, TypeOK
  <2>2. tasks[t].by # r
    BY <1>10, SystemTaskAssumption DEF ClaimRead, Rows, NoRunner
  <2>3. ClaimOf(r)'
    BY <1>10, <2>1, <2>2 DEF ClaimOf, Claiming, ClaimRead
  <2> QED
    BY <1>4, <1>10, <2>3 DEF ClaimRead, TypeOK
<1>11. ASSUME NEW r \in Runners, ClaimInsert(r) PROVE \A q \in Runners : ClaimOf(q)'
  <2>1. CASE Goto(r, "mark")
    BY <1>4, <1>6, <1>11, <2>1, GotoEffect DEF ClaimInsert, Claiming, Phases
  <2>2. CASE Goto(r, "existing")
    BY <1>4, <1>6, <1>11, <2>2, GotoEffect DEF ClaimInsert, Claiming, Phases
  <2> QED
    BY <1>11, <2>1, <2>2 DEF ClaimInsert
<1>12. ASSUME NEW r \in Runners, ClaimExisting(r) PROVE \A q \in Runners : ClaimOf(q)'
  <2>1. CASE Return(r)
    BY <1>4, <1>5, <1>12, <2>1, ReturnEffect DEF ClaimExisting
  <2>2. CASE LapsedFor(r, run[r].type)
    <3> DEFINE k == run[r].type
    <3>1. run[r].task \in TaskIds /\ tasks[run[r].task].status # "absent"
          /\ k = tasks[run[r].task].type /\ tasks[run[r].task].by # r
      BY <1>12 DEF ClaimExisting, Claims, Claiming
    <3>2. k \in Types
      BY <3>1 DEF Rows
    <3>3. locks[k].task \in TaskIds
      BY <2>2, <3>2 DEF LapsedFor, TypeOK, Lock
    <3>4. /\ run'[r].pc = "steal" /\ run'[r].old = locks[k].task
          /\ run'[r].type = k /\ run'[r].task = run[r].task
          /\ \A q \in Runners : q # r => run'[q] = run[q]
      BY <1>12, <2>2 DEF ClaimExisting, TypeOK, Op
    <3>5. ClaimOf(r)'
      BY <1>12, <3>1, <3>3, <3>4 DEF ClaimOf, Claiming, ClaimExisting
    <3> QED
      BY <1>4, <1>12, <3>4, <3>5 DEF ClaimExisting
  <2> QED
    BY <1>12, <2>1, <2>2 DEF ClaimExisting
<1>13. ASSUME NEW r \in Runners, ClaimSteal(r) PROVE \A q \in Runners : ClaimOf(q)'
  <2>1. CASE Return(r)
    BY <1>4, <1>5, <1>13, <2>1, ReturnEffect DEF ClaimSteal
  <2>2. ASSUME NEW p \in {"failOld", "mark"}, Goto(r, p) PROVE \A q \in Runners : ClaimOf(q)'
    <3>1. run[r].old \in TaskIds
      BY <1>13 DEF ClaimSteal, Claims
    <3> QED
      BY <1>4, <1>6, <1>13, <2>2, <3>1, GotoEffect DEF ClaimSteal, Claiming, Phases
  <2> QED
    BY <1>13, <2>1, <2>2 DEF ClaimSteal
\* Failing a row keeps its type and its claimer, and no handler starts.
<1>14. ASSUME NEW t \in TaskIds, MarkSystemTaskLeaseExpired(t), UNCHANGED exec,
              NEW q \in Runners, run'[q] = run[q]
       PROVE  ClaimOf(q)'
  BY <1>1, <1>14, MarkEffect
<1>15. ASSUME NEW r \in Runners, ClaimFailOld(r) PROVE \A q \in Runners : ClaimOf(q)'
  <2>1. run[r].old \in TaskIds /\ run[r].task \in TaskIds
    BY <1>15 DEF ClaimFailOld, Claims, Claiming
  <2>2. ClaimOf(r)'
    BY <1>0, <1>15, <2>1, MarkEffect, GotoEffect DEF ClaimFailOld, ClaimOf, Claiming, Phases
  <2> QED
    BY <1>14, <1>15, <2>1, <2>2, GotoEffect DEF ClaimFailOld, Phases
<1>16. ASSUME NEW r \in Runners, StaleMark(r) PROVE \A q \in Runners : ClaimOf(q)'
  <2>1. PICK s \in run[r].snap :
           /\ MarkSystemTaskLeaseExpired(s.task)
           /\ run' = [run EXCEPT ![r].pc = "staleDelete", ![r].cur = {s}]
    BY <1>16 DEF StaleMark
  <2>2. s.task \in TaskIds
    BY DEF TypeOK, Op, Stale
  <2>3. run'[r].pc = "staleDelete" /\ \A q \in Runners : q # r => run'[q] = run[q]
    BY <2>1 DEF TypeOK, Op
  <2>4. ClaimOf(r)'
    BY <2>3 DEF ClaimOf, Claiming
  <2> QED
    BY <1>14, <1>16, <2>1, <2>2, <2>3, <2>4 DEF StaleMark
<1>17. ASSUME NEW r \in Runners, StaleFind(r) PROVE \A q \in Runners : ClaimOf(q)'
  <2>1. run'[r].pc = "staleMark"
    BY <1>17 DEF StaleFind, Begin, TypeOK
  <2>2. ClaimOf(r)'
    BY <2>1 DEF ClaimOf, Claiming
  <2> QED
    BY <1>4, <1>17, <2>2 DEF StaleFind, TypeOK
<1>18. ASSUME NEW r \in Runners, StaleDelete(r) PROVE \A q \in Runners : ClaimOf(q)'
  <2>1. CASE Return(r)
    BY <1>4, <1>5, <1>18, <2>1, ReturnEffect DEF StaleDelete
  <2>2. CASE run' = [run EXCEPT ![r].pc = "staleMark",
                                ![r].snap = @ \ run[r].cur, ![r].cur = {}]
    <3>1. run'[r].pc = "staleMark" /\ \A q \in Runners : q # r => run'[q] = run[q]
      BY <2>2 DEF TypeOK, Op
    <3>2. ClaimOf(r)'
      BY <3>1 DEF ClaimOf, Claiming
    <3> QED
      BY <1>4, <1>18, <3>1, <3>2 DEF StaleDelete
  <2> QED
    BY <1>18, <2>1, <2>2 DEF StaleDelete
<1>19. ASSUME NEW r \in Runners, ClaimMark(r) PROVE \A q \in Runners : ClaimOf(q)'
  <2> DEFINE c == run[r].task
  <2>1. c \in TaskIds
    BY <1>19 DEF ClaimMark, Claims, Claiming
  <2>2. CASE tasks[c].status # "pending"
    BY <1>4, <1>6, <1>19, <2>2, GotoEffect DEF ClaimMark, Claiming, Phases
  <2>3. CASE tasks[c].status = "pending"
    <3>1. /\ tasks'[c].status = "running" /\ tasks'[c].by = r /\ tasks'[c].type = tasks[c].type
          /\ \A u \in TaskIds : u # c => tasks'[u] = tasks[u]
      BY <1>19, <2>1, <2>3 DEF ClaimMark, TypeOK, Row
    <3>2. Goto(r, "reread") /\ exec[c].mode = "none" /\ tasks[c].by = NoRunner
      BY <1>19, <2>1, <2>3 DEF ClaimMark, Rows
    <3>3. ClaimOf(r)'
      BY <1>0, <1>19, <2>1, <2>3, <3>1, <3>2, GotoEffect DEF ClaimMark, ClaimOf, Claiming, Phases
    <3>4. ASSUME NEW q \in Runners, q # r PROVE ClaimOf(q)'
      <4>1. run'[q] = run[q]
        BY <3>2, <3>4, GotoEffect DEF Phases
      <4>2. q # NoRunner
        BY SystemTaskAssumption DEF NoRunner
      <4> QED
        BY <1>0, <1>19, <2>3, <3>1, <3>2, <3>4, <4>1, <4>2 DEF ClaimOf, Claiming, ClaimMark
    <3> QED
      BY <3>3, <3>4
  <2> QED
    BY <2>2, <2>3
<1>20. ASSUME NEW r \in Runners, ClaimDispatch(r) PROVE \A q \in Runners : ClaimOf(q)'
  <2> DEFINE c == run[r].task
  <2>1. c \in TaskIds /\ tasks[c].by = r
    BY <1>20 DEF ClaimDispatch, Claims
  <2>2. \A u \in TaskIds : u # c => exec'[u] = exec[u]
    BY <1>20, <2>1 DEF ClaimDispatch, TypeOK
  <2>3. ASSUME NEW q \in Runners, q # r PROVE ClaimOf(q)'
    <3>1. run'[q] = run[q]
      BY <1>20, <2>3, ReturnEffect DEF ClaimDispatch
    <3>2. run[q].pc = "reread" => run[q].task # c
      BY <1>0, <2>1, <2>3 DEF ClaimOf
    <3> QED
      BY <1>0, <1>20, <2>2, <3>1, <3>2 DEF ClaimOf, Claiming, ClaimDispatch
  <2> QED
    BY <1>5, <1>20, <2>3 DEF ClaimDispatch
<1>21. ASSUME NEW r \in Runners, StatementFails(r) PROVE \A q \in Runners : ClaimOf(q)'
  <2>1. CASE ClaimInsertFails(r)
    BY <1>4, <1>6, <2>1, GotoEffect DEF ClaimInsertFails, Claiming, Phases
  <2>2. CASE ClaimStatementFails(r)
    BY <1>4, <1>6, <2>2, GotoEffect DEF ClaimStatementFails, Claiming, Phases
  <2>3. CASE ClaimAborts(r) \/ StaleAborts(r)
    BY <1>4, <1>5, <2>3, ReturnEffect DEF ClaimAborts, StaleAborts
  <2> QED
    BY <1>21, <2>1, <2>2, <2>3 DEF StatementFails
<1>22. ASSUME NEW r \in Runners, Crash(r) PROVE \A q \in Runners : ClaimOf(q)'
  <2>1. r # NoRunner
    BY SystemTaskAssumption DEF NoRunner
  <2>2. \A t \in TaskIds : exec[t].mode = "none" /\ exec[t].by # r => exec'[t].mode = "none"
    BY <1>22 DEF Crash, TypeOK, Work
  <2>3. ASSUME NEW q \in Runners, q # r PROVE ClaimOf(q)'
    <3>1. run'[q] = run[q]
      BY <1>22, <2>3, ReturnEffect DEF Crash
    <3>2. run[q].pc = "reread" => exec[run[q].task].by # r
      BY <1>0, <2>1, <2>3 DEF ClaimOf, Rows
    <3> QED
      BY <1>0, <1>22, <2>2, <3>1, <3>2 DEF ClaimOf, Claiming, Crash
  <2> QED
    BY <1>5, <1>22, <2>3 DEF Crash
\* Steps of a handler: every row keeps its type and claimer.
<1>23. ASSUME NEW t \in TaskIds, Heartbeat(t) \/ HandlerLosesLock(t) \/ HandlerRelease(t)
                                 \/ HandlerAborts(t)
       PROVE  \A q \in Runners : ClaimOf(q)'
  <2>1. \A u \in TaskIds : exec[u].mode = "none" => exec'[u].mode = "none"
    BY <1>23 DEF Heartbeat, HandlerLosesLock, HandlerRelease, HandlerAborts, Executing, TypeOK, Work
  <2>2. UNCHANGED <<tasks, run>>
    BY <1>23 DEF Heartbeat, HandlerLosesLock, HandlerRelease, HandlerAborts
  <2> QED
    BY <1>1, <2>1, <2>2
<1>24. ASSUME NEW t \in TaskIds, NEW status \in Terminal, HandlerFinish(t, status)
       PROVE  \A q \in Runners : ClaimOf(q)'
  <2>1. \A u \in TaskIds : exec[u].mode = "none" => exec'[u].mode = "none"
    BY <1>24 DEF HandlerFinish, Executing, TypeOK, Work
  <2>2. \A u \in TaskIds : /\ tasks'[u].type = tasks[u].type /\ tasks'[u].by = tasks[u].by
                           /\ tasks[u].status # "absent" => tasks'[u].status # "absent"
    BY <1>24 DEF HandlerFinish, TypeOK, Row, Terminal
  <2> QED
    BY <1>1, <1>24, <2>1, <2>2 DEF HandlerFinish
<1>25. ASSUME Tick PROVE \A q \in Runners : ClaimOf(q)'
  <2>1. \A q \in Runners : /\ run'[q].pc = run[q].pc /\ run'[q].task = run[q].task
                           /\ run'[q].type = run[q].type /\ run'[q].old = run[q].old
    BY <1>25 DEF Tick, TypeOK, Op
  <2> QED
    BY <1>0, <1>25, <2>1 DEF ClaimOf, Claiming, Tick
<1>26. ASSUME UNCHANGED vars PROVE \A q \in Runners : ClaimOf(q)'
  BY <1>1, <1>26 DEF vars
<1> QED
  BY <1>3, <1>7, <1>8, <1>9, <1>10, <1>11, <1>12, <1>13, <1>15, <1>16, <1>17, <1>18,
     <1>19, <1>20, <1>21, <1>22, <1>23, <1>24, <1>25, <1>26
     DEF Next, Claim, Scheduler, StalePass, Handler

-----------------------------------------------------------------------------
\* A lock row names a row of its own type: a claim writes the row it has read,
\* and rows keep their types.
LEMMA LockRowsInductive ==
    ASSUME TypeOK, Rows, Claims, LockRows, [Next]_vars
    PROVE  LockRows'
<1> DEFINE Keeps == \A t \in TaskIds : tasks[t].status # "absent" =>
                       tasks'[t].status # "absent" /\ tasks'[t].type = tasks[t].type
<1>0. \A k \in Types : locks[k] # NoLock => locks[k].task \in TaskIds
  BY DEF TypeOK, Lock
<1>1. ASSUME Keeps,
             \A k \in Types : locks'[k] # NoLock =>
                locks[k] # NoLock /\ locks'[k].task = locks[k].task
      PROVE  LockRows'
  BY <1>0, <1>1 DEF LockRows
<1>2. ASSUME NEW r \in Runners, run[r].pc \in Claiming, UNCHANGED tasks,
             locks' = [locks EXCEPT ![run[r].type] = LockOf(r)]
      PROVE  LockRows'
  <2>1. /\ run[r].task \in TaskIds /\ tasks[run[r].task].status # "absent"
        /\ run[r].type = tasks[run[r].task].type
    BY <1>2 DEF Claims
  <2>2. LockOf(r).task = run[r].task
    BY DEF LockOf
  <2> QED
    BY <1>2, <2>1, <2>2 DEF LockRows, TypeOK
<1>3. ASSUME NEW k \in Types, CreateSystemTask(k), UNCHANGED locks PROVE LockRows'
  <2>0. next >= next
    BY SystemTaskAssumption DEF TypeOK
  <2>1. \A t \in TaskIds : tasks[t].status # "absent" => t # next
    BY <2>0 DEF Rows
  <2>2. Keeps
    BY <1>3, <2>1 DEF CreateSystemTask, TypeOK
  <2> QED
    BY <1>1, <1>3, <2>2
<1>4. ASSUME NEW k \in Types, EnqueueSystemTask(k) PROVE LockRows'
  BY <1>3, <1>4 DEF EnqueueSystemTask
<1>5. ASSUME NEW r \in Runners, SchedulerCreate(r) PROVE LockRows'
  BY <1>3, <1>5 DEF SchedulerCreate, Claims
<1>6. ASSUME UNCHANGED <<tasks, locks>> PROVE LockRows'
  BY <1>6 DEF LockRows
<1>7. ASSUME NEW r \in Runners,
             \/ \E k \in Types : SchedulerLookup(r, k)
             \/ \E t \in TaskIds : ClaimRead(r, t)
             \/ SchedulerRefused(r) \/ ClaimExisting(r) \/ ClaimDispatch(r) \/ StaleFind(r)
             \/ StatementFails(r) \/ Crash(r)
      PROVE  LockRows'
  BY <1>6, <1>7
     DEF SchedulerLookup, ClaimRead, SchedulerRefused, ClaimExisting, ClaimDispatch, StaleFind,
         StatementFails, ClaimInsertFails, ClaimStatementFails, ClaimAborts, StaleAborts, Crash
<1>8. ASSUME NEW r \in Runners, ClaimInsert(r) PROVE LockRows'
  BY <1>2, <1>6, <1>8 DEF ClaimInsert, Claiming
<1>9. ASSUME NEW r \in Runners, ClaimSteal(r) PROVE LockRows'
  BY <1>2, <1>6, <1>9 DEF ClaimSteal, Claiming
<1>10. ASSUME NEW t \in TaskIds, MarkSystemTaskLeaseExpired(t), UNCHANGED locks PROVE LockRows'
  BY <1>1, <1>10, MarkEffect
<1>11. ASSUME NEW r \in Runners, ClaimFailOld(r) PROVE LockRows'
  BY <1>10, <1>11 DEF ClaimFailOld, Claims
<1>12. ASSUME NEW r \in Runners, StaleMark(r) PROVE LockRows'
  <2>1. PICK s \in run[r].snap : MarkSystemTaskLeaseExpired(s.task)
    BY <1>12 DEF StaleMark
  <2>2. s.task \in TaskIds
    BY DEF TypeOK, Op, Stale
  <2> QED
    BY <1>10, <1>12, <2>1, <2>2 DEF StaleMark
<1>13. ASSUME NEW r \in Runners, ClaimMark(r) PROVE LockRows'
  <2>1. run[r].task \in TaskIds
    BY <1>13 DEF ClaimMark, Claims, Claiming
  <2>2. Keeps
    BY <1>13, <2>1 DEF ClaimMark, TypeOK, Row
  <2> QED
    BY <1>1, <1>13, <2>2 DEF ClaimMark
<1>14. ASSUME NEW t, NEW r, ReleaseSystemTaskLock(t, r), UNCHANGED tasks PROVE LockRows'
  BY <1>1, <1>14 DEF ReleaseSystemTaskLock
<1>15. ASSUME NEW r \in Runners, ClaimRelease(r) PROVE LockRows'
  BY <1>14, <1>15 DEF ClaimRelease
<1>16. ASSUME NEW r \in Runners, StaleDelete(r) PROVE LockRows'
  BY <1>1, <1>16 DEF StaleDelete, TypeOK
<1>17. ASSUME NEW t \in TaskIds, Heartbeat(t) PROVE LockRows'
  <2>1. \A k \in Types : locks'[k] # NoLock =>
           locks[k] # NoLock /\ locks'[k].task = locks[k].task
    <3>1. \A k \in Types, n \in Int : locks[k].task = t =>
             locks[k] # NoLock /\ [locks[k] EXCEPT !.rem = n].task = locks[k].task
      BY DEF NoLock, NoTask, TaskIds, TypeOK, Lock
    <3>2. \A d \in 0 .. MaxPause : TTL - d \in Int
      BY SystemTaskAssumption
    <3> QED
      BY <1>17, <3>1, <3>2 DEF Heartbeat
  <2> QED
    BY <1>1, <1>17, <2>1 DEF Heartbeat
<1>18. ASSUME NEW t \in TaskIds, HandlerLosesLock(t) \/ HandlerAborts(t) PROVE LockRows'
  BY <1>6, <1>18 DEF HandlerLosesLock, HandlerAborts
<1>19. ASSUME NEW t \in TaskIds, HandlerRelease(t) PROVE LockRows'
  BY <1>14, <1>19 DEF HandlerRelease
<1>20. ASSUME NEW t \in TaskIds, NEW status \in Terminal, HandlerFinish(t, status)
       PROVE  LockRows'
  <2>1. Keeps
    BY <1>20 DEF HandlerFinish, TypeOK, Row, Terminal
  <2> QED
    BY <1>1, <1>20, <2>1 DEF HandlerFinish
<1>21. ASSUME Tick PROVE LockRows'
  <2>1. \A k \in Types : locks[k].rem > Floor =>
           locks[k] # NoLock /\ [locks[k] EXCEPT !.rem = @ - 1].task = locks[k].task
    BY SystemTaskAssumption DEF NoLock, Floor, TypeOK, Lock
  <2>2. \A k \in Types : locks'[k] # NoLock =>
           locks[k] # NoLock /\ locks'[k].task = locks[k].task
    BY <1>21, <2>1 DEF Tick
  <2> QED
    BY <1>1, <1>21, <2>2 DEF Tick
<1>22. ASSUME UNCHANGED vars PROVE LockRows'
  BY <1>6, <1>22 DEF vars
<1> QED
  BY <1>4, <1>5, <1>7, <1>8, <1>9, <1>11, <1>12, <1>13, <1>15, <1>16, <1>17, <1>18, <1>19,
     <1>20, <1>21, <1>22
     DEF Next, Claim, Scheduler, StalePass, Handler

LEMMA ShapeInductive ==
    ASSUME Shape, [Next]_vars
    PROVE  Shape'
BY TypeInductive, RowsInductive, ClaimsInductive, LockRowsInductive, OneActiveInductive DEF Shape

LEMMA ShapeInit ==
    ASSUME Init
    PROVE  Shape
<1>1. TypeOK
  <2>1. NoOp \in Op
    BY BeginType DEF NoOp, Phases
  <2> QED
    BY <2>1, SystemTaskAssumption DEF Init, TypeOK, Row, Work
<1>2. Rows /\ LockRows /\ OneActivePerType
  BY DEF Init, Rows, LockRows, OneActivePerType, Active
<1>3. Claims
  BY DEF Init, Claims, Claiming, NoOp, Begin
<1> QED
  BY <1>1, <1>2, <1>3 DEF Shape

\* Every table, loop and handler of the system-task framework stays well typed.
THEOREM TypeCorrect == Spec => []TypeOK
<1>1. Init => Shape
  BY ShapeInit
<1>2. Shape /\ [Next]_vars => Shape'
  BY ShapeInductive
<1>3. Shape => TypeOK
  BY DEF Shape
<1> QED
  BY <1>1, <1>2, <1>3, PTL DEF Spec

\* However nodes, requests and crashes interleave, a type never has two active
\* rows.
THEOREM OneActive == Spec => []OneActivePerType
<1>1. Init => Shape
  BY ShapeInit
<1>2. Shape /\ [Next]_vars => Shape'
  BY ShapeInductive
<1>3. Shape => OneActivePerType
  BY DEF Shape
<1> QED
  BY <1>1, <1>2, <1>3, PTL DEF Spec

-----------------------------------------------------------------------------
(* A running row keeps its lock row.  The argument is about time: a claim  *)
(* marks its row running while the lock it wrote is still live, and every  *)
(* operation that could take the lock away compares locked_until with a    *)
(* "now" at which the lock was not yet stale.                              *)

\* Claims are shorter than the TTL.
Timely == MaxPause < TTL

\* A lock that a claim has just acquired is live.
LEMMA AcquiredIsLive ==
    ASSUME Timely, TypeOK, Rows, Claims, Acquired,
           NEW r \in Runners, run[r].pc \in {"failOld", "mark"}
    PROVE  /\ run[r].task \in TaskIds /\ run[r].type \in Types
           /\ run[r].type = tasks[run[r].task].type
           /\ locks[run[r].type] = LockOf(r)
           /\ locks[run[r].type].task = run[r].task
           /\ locks[run[r].type].by = r
           /\ locks[run[r].type].rem = TTL - run[r].elapsed
           /\ locks[run[r].type].rem > 0
           /\ locks[run[r].type] # NoLock
           /\ tasks[run[r].task].by # r
<1>1. /\ run[r].task \in TaskIds /\ run[r].type = tasks[run[r].task].type
      /\ run[r].type \in Types /\ tasks[run[r].task].by # r
  BY DEF Claims, Claiming, Rows
<1>2. locks[run[r].type] = LockOf(r)
  BY DEF Acquired
<1>3. /\ locks[run[r].type].task = run[r].task /\ locks[run[r].type].by = r
      /\ locks[run[r].type].rem = TTL - run[r].elapsed
  BY <1>2 DEF LockOf
<1>4. run[r].elapsed \in 0 .. MaxPause
  BY DEF TypeOK, Op
<1>5. locks[run[r].type].rem > 0
  BY <1>3, <1>4, SystemTaskAssumption DEF Timely
<1>6. locks[run[r].type] # NoLock
  BY <1>1, <1>3 DEF NoLock, NoTask, TaskIds
<1> QED
  BY <1>1, <1>2, <1>3, <1>5, <1>6

\* Numbers the comparisons are made of.
LEMMA TimeTypes ==
    ASSUME TypeOK
    PROVE  /\ \A r \in Runners : run[r].elapsed \in Nat /\ run[r].elapsed <= MaxPause
           /\ \A k \in Types : locks[k].rem \in Int /\ locks[k].rem >= Floor
           /\ Floor \in Int /\ Floor < 0 /\ MaxPause \in Nat /\ TTL \in Nat
<1>1. Floor \in Int /\ Floor < 0 /\ MaxPause \in Nat /\ TTL \in Nat
  BY SystemTaskAssumption DEF Floor
<1>2. \A r \in Runners : run[r].elapsed \in 0 .. MaxPause
  BY DEF TypeOK, Op
<1>3. \A k \in Types : locks[k].rem \in Floor .. TTL
  BY <1>1 DEF TypeOK, Lock, NoLock
<1> QED
  BY <1>1, <1>2, <1>3

LEMMA AcquiredInductive ==
    ASSUME Timely, Shape, Lease, [Next]_vars
    PROVE  Acquired'
<1> DEFINE Done(q) == run[q].pc \in {"failOld", "mark"} => locks[run[q].type] = LockOf(q)
<1> SUFFICES \A q \in Runners : Done(q)'
  BY DEF Acquired
<1>0. TypeOK /\ Rows /\ Claims /\ LockRows /\ Acquired
  BY DEF Shape, Lease
\* A step that leaves q's place and the lock q has acquired alone.
<1>1. ASSUME NEW q \in Runners, run'[q] = run[q],
             run[q].pc \in {"failOld", "mark"} => locks'[run[q].type] = locks[run[q].type]
      PROVE  Done(q)'
  BY <1>0, <1>1 DEF Acquired, LockOf
<1>2. ASSUME UNCHANGED <<run, locks>> PROVE \A q \in Runners : Done(q)'
  BY <1>1, <1>2
<1>3. ASSUME NEW r \in Runners, UNCHANGED locks, \A q \in Runners : q # r => run'[q] = run[q],
             run'[r].pc \notin {"failOld", "mark"}
      PROVE  \A q \in Runners : Done(q)'
  BY <1>1, <1>3
<1>4. ASSUME NEW r \in Runners, NEW k \in Types, SchedulerLookup(r, k)
      PROVE  \A q \in Runners : Done(q)'
  BY <1>0, <1>3, <1>4 DEF SchedulerLookup, Begin, TypeOK
<1>5. ASSUME NEW r \in Runners, Scheduler(r) \/ ClaimExisting(r) \/ ClaimDispatch(r)
                                \/ StaleMark(r) \/ Crash(r)
      PROVE  \A q \in Runners : Done(q)'
  <2>1. CASE Return(r)
    BY <1>0, <1>3, <1>5, <2>1, ReturnEffect
       DEF Scheduler, SchedulerCreate, SchedulerRefused, ClaimExisting, ClaimDispatch, StaleMark, Crash
  <2>2. CASE ClaimExisting(r) /\ ~Return(r)
    <3>1. run'[r].pc = "steal" /\ \A q \in Runners : q # r => run'[q] = run[q]
      BY <1>0, <2>2 DEF ClaimExisting, TypeOK, Op
    <3> QED
      BY <1>3, <2>2, <3>1 DEF ClaimExisting
  <2>3. CASE StaleMark(r)
    <3>1. run'[r].pc = "staleDelete" /\ \A q \in Runners : q # r => run'[q] = run[q]
      BY <1>0, <2>3 DEF StaleMark, TypeOK, Op
    <3> QED
      BY <1>3, <2>3, <3>1 DEF StaleMark
  <2> QED
    BY <1>5, <2>1, <2>2, <2>3
       DEF Scheduler, SchedulerCreate, SchedulerRefused, ClaimDispatch, Crash
<1>6. ASSUME NEW r \in Runners, NEW t \in TaskIds, ClaimRead(r, t)
      PROVE  \A q \in Runners : Done(q)'
  BY <1>0, <1>3, <1>6 DEF ClaimRead, Begin, TypeOK
<1>7. ASSUME NEW r \in Runners, StaleFind(r) PROVE \A q \in Runners : Done(q)'
  BY <1>0, <1>3, <1>7 DEF StaleFind, Begin, TypeOK
\* r takes a lock that no other claim holds.
<1>8. ASSUME NEW r \in Runners, run[r].pc \in {"insert", "steal"}, NEW p \in {"failOld", "mark"},
             Goto(r, p), locks' = [locks EXCEPT ![run[r].type] = LockOf(r)],
             \A q \in Runners : q # r /\ run[q].pc \in {"failOld", "mark"} =>
                run[q].type # run[r].type
      PROVE  \A q \in Runners : Done(q)'
  <2>1. run[r].type \in Types
    BY <1>0, <1>8 DEF Claims, Claiming, Rows
  <2>2. Done(r)'
    BY <1>0, <1>8, <2>1, GotoEffect DEF LockOf, Phases, TypeOK
  <2>3. ASSUME NEW q \in Runners, q # r PROVE Done(q)'
    <3>1. run'[q] = run[q]
      BY <1>0, <1>8, <2>3, GotoEffect DEF Phases
    <3>2. run[q].pc \in {"failOld", "mark"} => locks'[run[q].type] = locks[run[q].type]
      BY <1>0, <1>8, <2>3, AcquiredIsLive DEF TypeOK
    <3> QED
      BY <1>1, <3>1, <3>2
  <2> QED
    BY <2>2, <2>3
<1>9. ASSUME NEW r \in Runners, ClaimInsert(r) PROVE \A q \in Runners : Done(q)'
  <2>1. CASE locks[run[r].type] = NoLock
    <3>1. \A q \in Runners : q # r /\ run[q].pc \in {"failOld", "mark"} => run[q].type # run[r].type
      BY <1>0, <2>1, AcquiredIsLive
    <3> QED
      BY <1>8, <1>9, <2>1, <3>1 DEF ClaimInsert
  <2>2. CASE locks[run[r].type] # NoLock
    BY <1>0, <1>3, <1>9, <2>2, GotoEffect DEF ClaimInsert, Phases
  <2> QED
    BY <2>1, <2>2
<1>10. ASSUME NEW r \in Runners, ClaimSteal(r) PROVE \A q \in Runners : Done(q)'
  <2>1. CASE LapsedFor(r, run[r].type)
    <3>1. ASSUME NEW q \in Runners, q # r, run[q].pc \in {"failOld", "mark"},
                 run[q].type = run[r].type
          PROVE  FALSE
      <4>1. locks[run[r].type].rem > 0 /\ run[r].type \in Types
        BY <1>0, <3>1, AcquiredIsLive
      <4>2. locks[run[r].type].rem + run[r].elapsed >= 0
        BY <1>0, <4>1, TimeTypes
      <4> QED
        BY <1>0, <2>1, <4>1, <4>2, TimeTypes DEF LapsedFor
    <3> QED
      BY <1>8, <1>10, <2>1, <3>1 DEF ClaimSteal
  <2>2. CASE ~LapsedFor(r, run[r].type)
    BY <1>0, <1>3, <1>10, <2>2, ReturnEffect DEF ClaimSteal
  <2> QED
    BY <2>1, <2>2
<1>11. ASSUME NEW r \in Runners, ClaimFailOld(r) PROVE \A q \in Runners : Done(q)'
  <2>1. Done(r)'
    BY <1>0, <1>11, GotoEffect DEF ClaimFailOld, Acquired, LockOf, Phases
  <2> QED
    BY <1>0, <1>1, <1>11, <2>1, GotoEffect DEF ClaimFailOld, Phases
<1>12. ASSUME NEW r \in Runners, ClaimMark(r) PROVE \A q \in Runners : Done(q)'
  <2>1. ASSUME NEW p \in {"reread", "release"}, Goto(r, p) PROVE \A q \in Runners : Done(q)'
    BY <1>0, <1>3, <1>12, <2>1, GotoEffect DEF ClaimMark, Phases
  <2> QED
    BY <1>12, <2>1 DEF ClaimMark
<1>13. ASSUME NEW r \in Runners, ClaimRelease(r) PROVE \A q \in Runners : Done(q)'
  <2>1. ASSUME NEW q \in Runners, q # r PROVE Done(q)'
    <3>1. run'[q] = run[q]
      BY <1>0, <1>13, <2>1, ReturnEffect DEF ClaimRelease
    <3>2. run[q].pc \in {"failOld", "mark"} => locks'[run[q].type] = locks[run[q].type]
      BY <1>0, <1>13, <2>1, AcquiredIsLive DEF ClaimRelease, ReleaseSystemTaskLock
    <3> QED
      BY <1>1, <3>1, <3>2
  <2>2. Done(r)'
    BY <1>0, <1>13, ReturnEffect DEF ClaimRelease
  <2> QED
    BY <2>1, <2>2
<1>14. ASSUME NEW r \in Runners, StaleDelete(r) PROVE \A q \in Runners : Done(q)'
  <2>1. run'[r].pc \in {"idle", "staleMark"} /\ \A q \in Runners : q # r => run'[q] = run[q]
    BY <1>0, <1>14, ReturnEffect DEF StaleDelete, TypeOK, Op
  <2>2. ASSUME NEW q \in Runners, run[q].pc \in {"failOld", "mark"}
        PROVE  locks'[run[q].type] = locks[run[q].type]
    <3>1. locks[run[q].type].rem > 0 /\ run[q].type \in Types
      BY <1>0, <2>2, AcquiredIsLive
    <3>2. ~(locks[run[q].type].rem + run[r].elapsed < 0)
      BY <1>0, <3>1, TimeTypes
    <3> QED
      BY <1>0, <1>14, <3>1, <3>2 DEF StaleDelete, TypeOK
  <2>3. ASSUME NEW q \in Runners, q # r PROVE Done(q)'
    BY <1>1, <2>1, <2>2, <2>3
  <2> QED
    BY <2>1, <2>3
<1>15. ASSUME NEW r \in Runners, StatementFails(r) PROVE \A q \in Runners : Done(q)'
  BY <1>0, <1>3, <1>15, GotoEffect, ReturnEffect
     DEF StatementFails, ClaimInsertFails, ClaimStatementFails, ClaimAborts, StaleAborts, Phases
\* A handler touches only locks of its own row and claimer; a runner never
\* claims a row that it has already claimed.
<1>16. ASSUME NEW t \in TaskIds, exec[t].mode # "none", UNCHANGED run,
              \A k \in Types : locks'[k] # locks[k] => locks[k].task = t /\ locks[k].by = exec[t].by
       PROVE  \A q \in Runners : Done(q)'
  <2>1. exec[t].by = tasks[t].by
    BY <1>0, <1>16 DEF Rows
  <2>2. ASSUME NEW q \in Runners, run[q].pc \in {"failOld", "mark"}
        PROVE  locks'[run[q].type] = locks[run[q].type]
    BY <1>0, <1>16, <2>1, <2>2, AcquiredIsLive
  <2> QED
    BY <1>1, <1>16, <2>2
<1>17. ASSUME NEW t \in TaskIds, Heartbeat(t) PROVE \A q \in Runners : Done(q)'
  <2>1. \A k \in Types : locks'[k] # locks[k] => locks[k].task = t /\ locks[k].by = exec[t].by
    BY <1>17 DEF Heartbeat
  <2> QED
    BY <1>16, <1>17, <2>1 DEF Heartbeat
<1>18. ASSUME NEW t \in TaskIds, HandlerRelease(t) PROVE \A q \in Runners : Done(q)'
  <2>1. \A k \in Types : locks'[k] # locks[k] => locks[k].task = t /\ locks[k].by = exec[t].by
    BY <1>18 DEF HandlerRelease, ReleaseSystemTaskLock
  <2> QED
    BY <1>16, <1>18, <2>1 DEF HandlerRelease
<1>19. ASSUME Tick PROVE \A q \in Runners : Done(q)'
  <2>1. ASSUME NEW q \in Runners, run'[q].pc \in {"failOld", "mark"}
        PROVE  locks'[run'[q].type] = LockOf(q)'
    <3>1. /\ Timed(q) /\ run'[q].pc = run[q].pc /\ run'[q].type = run[q].type
          /\ run'[q].task = run[q].task /\ run'[q].elapsed = run[q].elapsed + 1
      BY <1>0, <1>19, <2>1 DEF Tick, Timed, TypeOK, Op
    <3>2. /\ run[q].type \in Types /\ locks[run[q].type].rem > 0
          /\ locks[run[q].type] = LockOf(q)
      BY <1>0, <2>1, <3>1, AcquiredIsLive
    <3>3. locks[run[q].type].rem > Floor
      BY <1>0, <3>2, TimeTypes
    <3>4. locks'[run[q].type] = [LockOf(q) EXCEPT !.rem = @ - 1]
      BY <1>19, <3>2, <3>3 DEF Tick
    <3>5. TTL - run[q].elapsed - 1 = TTL - (run[q].elapsed + 1)
      BY <1>0, TimeTypes
    <3> QED
      BY <3>1, <3>4, <3>5 DEF LockOf
  <2> QED
    BY <2>1
<1>20. ASSUME NEW t \in TaskIds, NEW status \in Terminal,
              HandlerLosesLock(t) \/ HandlerAborts(t) \/ HandlerFinish(t, status)
       PROVE  \A q \in Runners : Done(q)'
  BY <1>2, <1>20 DEF HandlerLosesLock, HandlerAborts, HandlerFinish
<1>21. ASSUME NEW k \in Types, EnqueueSystemTask(k) PROVE \A q \in Runners : Done(q)'
  BY <1>2, <1>21 DEF EnqueueSystemTask
<1>22. ASSUME UNCHANGED vars PROVE \A q \in Runners : Done(q)'
  BY <1>2, <1>22 DEF vars
<1>23. \E status : status \in Terminal
  BY DEF Terminal
<1> QED
  BY <1>4, <1>5, <1>6, <1>7, <1>9, <1>10, <1>11, <1>12, <1>13, <1>14, <1>15, <1>17, <1>18,
     <1>19, <1>20, <1>21, <1>22, <1>23
     DEF Next, Claim, StalePass, Handler

\* What a step other than Tick does to a running row's lock: the lock still names
\* the row and its claimer, and it is live or untouched.
Keeps(t) ==
    LET k == tasks[t].type IN
    /\ tasks'[t].type = k
    /\ locks'[k].task = t
    /\ locks'[k].by = tasks'[t].by
    /\ locks'[k].rem >= 0 \/ (tasks[t].status = "running" /\ locks'[k].rem = locks[k].rem)

\* A step other than Tick begins to watch no row that is and stays running.
WatchesNoMore ==
    \A r \in Runners, t \in TaskIds :
        tasks[t].status = "running" /\ tasks'[t].status = "running" /\ Watches(r, t)' =>
            Watches(r, t) /\ run'[r].elapsed = run[r].elapsed

LEMMA KeepsRunning ==
    ASSUME Timely, Shape, Lease, [Next]_vars, ~Tick
    PROVE  \A u \in TaskIds : tasks'[u].status = "running" => Keeps(u)
<1>0. /\ TypeOK /\ Rows /\ Claims /\ LockRows /\ Acquired /\ Protected /\ Held
      /\ OneActivePerType
  BY DEF Shape, Lease
<1>a. \A u \in TaskIds : tasks[u].status = "running" => tasks[u].type \in Types
  BY <1>0 DEF Rows
\* The rows and the locks of running rows are left alone.
<1>1. ASSUME NEW u \in TaskIds, tasks[u].status = "running",
             tasks'[u].type = tasks[u].type, tasks'[u].by = tasks[u].by,
             locks'[tasks[u].type] = locks[tasks[u].type]
      PROVE  Keeps(u)
  BY <1>0, <1>1 DEF Keeps, Held
<1>2. ASSUME UNCHANGED <<tasks, locks>>, NEW u \in TaskIds, tasks'[u].status = "running"
      PROVE  Keeps(u)
  BY <1>1, <1>2
<1>3. ASSUME NEW k \in Types, CreateSystemTask(k), UNCHANGED locks,
             NEW u \in TaskIds, tasks'[u].status = "running"
      PROVE  Keeps(u)
  <2>1. u # next
    BY <1>0, <1>3 DEF CreateSystemTask, TypeOK
  <2>2. tasks'[u] = tasks[u]
    BY <1>0, <1>3, <2>1 DEF CreateSystemTask, TypeOK
  <2> QED
    BY <1>1, <1>3, <2>2
<1>4. ASSUME NEW t \in TaskIds, MarkSystemTaskLeaseExpired(t), UNCHANGED locks,
             NEW u \in TaskIds, tasks'[u].status = "running"
      PROVE  Keeps(u)
  BY <1>0, <1>1, <1>4, MarkEffect
\* A claim takes the lock row of a type that has no running row.
<1>5. ASSUME NEW r \in Runners, UNCHANGED tasks,
             locks' = [locks EXCEPT ![run[r].type] = LockOf(r)],
             \A u \in TaskIds : tasks[u].status = "running" => tasks[u].type # run[r].type,
             NEW u \in TaskIds, tasks'[u].status = "running"
      PROVE  Keeps(u)
  BY <1>0, <1>1, <1>5, <1>a DEF TypeOK
<1>6. ASSUME NEW r \in Runners, ClaimInsert(r), NEW u \in TaskIds, tasks'[u].status = "running"
      PROVE  Keeps(u)
  <2>1. CASE locks[run[r].type] = NoLock
    <3>1. \A v \in TaskIds : tasks[v].status = "running" => tasks[v].type # run[r].type
      BY <1>0, <2>1 DEF Held, NoLock, NoTask, TaskIds
    <3> QED
      BY <1>5, <1>6, <2>1, <3>1 DEF ClaimInsert
  <2>2. CASE locks[run[r].type] # NoLock
    BY <1>2, <1>6, <2>2 DEF ClaimInsert
  <2> QED
    BY <2>1, <2>2
<1>7. ASSUME NEW r \in Runners, ClaimSteal(r), NEW u \in TaskIds, tasks'[u].status = "running"
      PROVE  Keeps(u)
  <2>1. CASE LapsedFor(r, run[r].type)
    <3>1. ASSUME NEW v \in TaskIds, tasks[v].status = "running", tasks[v].type = run[r].type
          PROVE  FALSE
      <4>1. locks[run[r].type].rem + run[r].elapsed >= 0
        BY <1>0, <1>7, <3>1 DEF Protected, Watches, ClaimSteal
      <4>2. run[r].type \in Types
        BY <1>a, <3>1
      <4> QED
        BY <1>0, <2>1, <4>1, <4>2, TimeTypes DEF LapsedFor
    <3> QED
      BY <1>5, <1>7, <2>1, <3>1 DEF ClaimSteal
  <2>2. CASE ~LapsedFor(r, run[r].type)
    BY <1>2, <1>7, <2>2 DEF ClaimSteal
  <2> QED
    BY <2>1, <2>2
\* The claim that marks its row running still holds the lock.
<1>8. ASSUME NEW r \in Runners, ClaimMark(r), NEW u \in TaskIds, tasks'[u].status = "running"
      PROVE  Keeps(u)
  <2> DEFINE c == run[r].task
  <2>1. /\ c \in TaskIds /\ run[r].type = tasks[c].type /\ run[r].type \in Types
        /\ locks[tasks[c].type].task = c /\ locks[tasks[c].type].by = r
        /\ locks[tasks[c].type].rem > 0
    BY <1>0, <1>8, AcquiredIsLive DEF ClaimMark
  <2>2. CASE tasks[c].status # "pending"
    BY <1>2, <1>8, <2>2 DEF ClaimMark
  <2>3. CASE tasks[c].status = "pending" /\ u = c
    <3>1. tasks'[c].by = r /\ tasks'[c].type = tasks[c].type
      BY <1>0, <1>8, <2>1, <2>3 DEF ClaimMark, TypeOK, Row
    <3>2. locks'[tasks[c].type].rem >= 0
      BY <1>0, <1>8, <2>1, TimeTypes DEF ClaimMark
    <3> QED
      BY <1>8, <2>1, <2>3, <3>1, <3>2 DEF ClaimMark, Keeps
  <2>4. CASE tasks[c].status = "pending" /\ u # c
    <3>1. tasks'[u] = tasks[u]
      BY <1>0, <1>8, <2>4 DEF ClaimMark, TypeOK
    <3> QED
      BY <1>1, <1>8, <3>1 DEF ClaimMark
  <2> QED
    BY <2>2, <2>3, <2>4
<1>9. ASSUME NEW r \in Runners, ClaimFailOld(r), NEW u \in TaskIds, tasks'[u].status = "running"
      PROVE  Keeps(u)
  BY <1>0, <1>4, <1>9 DEF ClaimFailOld, Claims
<1>10. ASSUME NEW r \in Runners, StaleMark(r), NEW u \in TaskIds, tasks'[u].status = "running"
       PROVE  Keeps(u)
  <2>1. PICK s \in run[r].snap : MarkSystemTaskLeaseExpired(s.task)
    BY <1>10 DEF StaleMark
  <2>2. s.task \in TaskIds
    BY <1>0 DEF TypeOK, Op, Stale
  <2> QED
    BY <1>4, <1>10, <2>1, <2>2 DEF StaleMark
\* A claim that gives its lock back has not marked its row.
<1>11. ASSUME NEW r \in Runners, ClaimRelease(r), NEW u \in TaskIds, tasks'[u].status = "running"
       PROVE  Keeps(u)
  <2>1. tasks[run[r].task].by # r
    BY <1>0, <1>11 DEF ClaimRelease, Claims, Claiming
  <2>2. tasks'[u] = tasks[u]
    BY <1>11 DEF ClaimRelease
  <2>3. ~(locks[tasks[u].type].task = run[r].task /\ locks[tasks[u].type].by = r)
    BY <1>0, <1>11, <2>1, <2>2 DEF Held
  <2>4. locks'[tasks[u].type] = locks[tasks[u].type]
    BY <1>11, <1>a, <2>2, <2>3 DEF ClaimRelease, ReleaseSystemTaskLock
  <2> QED
    BY <1>1, <1>11, <2>2, <2>4
\* The stale-lock pass deletes no lock of a running row.
<1>12. ASSUME NEW r \in Runners, StaleDelete(r), NEW u \in TaskIds, tasks'[u].status = "running"
       PROVE  Keeps(u)
  <2>1. PICK s \in run[r].cur :
           locks' = [locks EXCEPT ![s.type] =
                       IF @.task = s.task /\ @.by = s.by /\ @.rem + run[r].elapsed < 0
                       THEN NoLock ELSE @]
    BY <1>12 DEF StaleDelete
  <2>2. tasks'[u] = tasks[u]
    BY <1>12 DEF StaleDelete
  <2>3. locks[tasks[u].type].task = u
    BY <1>0, <1>12, <2>2 DEF Held
  <2>4. CASE s.task = u
    <3>1. locks[tasks[u].type].rem + run[r].elapsed >= 0
      BY <1>0, <1>12, <2>2, <2>4 DEF Protected, Watches, StaleDelete
    <3>2. ~(locks[tasks[u].type].rem + run[r].elapsed < 0)
      BY <1>0, <1>12, <1>a, <2>2, <3>1, TimeTypes
    <3>3. locks'[tasks[u].type] = locks[tasks[u].type]
      BY <1>0, <1>12, <1>a, <2>1, <2>2, <3>2 DEF TypeOK
    <3> QED
      BY <1>1, <1>12, <2>2, <3>3
  <2>5. CASE s.task # u
    <3>1. locks'[tasks[u].type] = locks[tasks[u].type]
      BY <1>0, <1>12, <1>a, <2>1, <2>2, <2>3, <2>5 DEF TypeOK
    <3> QED
      BY <1>1, <1>12, <2>2, <3>1
  <2> QED
    BY <2>4, <2>5
\* A renewed lock is live; the others are untouched.
<1>13. ASSUME NEW t \in TaskIds, Heartbeat(t), NEW u \in TaskIds, tasks'[u].status = "running"
       PROVE  Keeps(u)
  <2> DEFINE k == tasks[u].type
  <2>1. tasks'[u] = tasks[u] /\ k \in Types /\ locks[k].task = u /\ locks[k].by = tasks[u].by
    BY <1>0, <1>13, <1>a DEF Heartbeat, Held
  <2>2. CASE locks'[k] = locks[k]
    BY <1>1, <1>13, <2>1, <2>2
  <2>3. CASE locks'[k] # locks[k]
    <3>1. PICK d \in 0 .. MaxPause : locks'[k] = [locks[k] EXCEPT !.rem = TTL - d]
      BY <1>13, <2>1, <2>3 DEF Heartbeat
    <3>2. TTL - d >= 0
      BY SystemTaskAssumption DEF Timely
    <3>3. locks[k] \in Lock
      BY <1>0, <2>1 DEF TypeOK, NoLock, NoTask, TaskIds
    <3>4. /\ locks'[k].task = u /\ locks'[k].by = tasks[u].by /\ locks'[k].rem >= 0
      BY <2>1, <3>1, <3>2, <3>3 DEF Lock
    <3> QED
      BY <2>1, <3>4 DEF Keeps
  <2> QED
    BY <2>2, <2>3
\* A handler releases its lock after its row has become terminal.
<1>14. ASSUME NEW t \in TaskIds, HandlerRelease(t), NEW u \in TaskIds, tasks'[u].status = "running"
       PROVE  Keeps(u)
  <2>1. tasks'[u] = tasks[u] /\ u # t
    BY <1>0, <1>14 DEF HandlerRelease, Rows, Terminal
  <2>2. locks[tasks[u].type].task = u
    BY <1>0, <1>14, <2>1 DEF Held
  <2>3. locks'[tasks[u].type] = locks[tasks[u].type]
    BY <1>14, <1>a, <2>1, <2>2 DEF HandlerRelease, ReleaseSystemTaskLock
  <2> QED
    BY <1>1, <1>14, <2>1, <2>3
<1>15. ASSUME NEW t \in TaskIds, NEW status \in Terminal, HandlerFinish(t, status),
              NEW u \in TaskIds, tasks'[u].status = "running"
       PROVE  Keeps(u)
  <2>1. tasks'[u] = tasks[u]
    BY <1>0, <1>15 DEF HandlerFinish, TypeOK, Row, Terminal
  <2> QED
    BY <1>1, <1>15, <2>1 DEF HandlerFinish
<1>16. ASSUME NEW k \in Types, EnqueueSystemTask(k), NEW u \in TaskIds, tasks'[u].status = "running"
       PROVE  Keeps(u)
  BY <1>3, <1>16 DEF EnqueueSystemTask
<1>17. ASSUME NEW r \in Runners, SchedulerCreate(r), NEW u \in TaskIds, tasks'[u].status = "running"
       PROVE  Keeps(u)
  BY <1>0, <1>3, <1>17 DEF SchedulerCreate, Claims
<1>18. ASSUME NEW r \in Runners,
              \/ \E k \in Types : SchedulerLookup(r, k)
              \/ \E t \in TaskIds : ClaimRead(r, t)
              \/ SchedulerRefused(r) \/ ClaimExisting(r) \/ ClaimDispatch(r) \/ StaleFind(r)
              \/ StatementFails(r) \/ Crash(r),
              NEW u \in TaskIds, tasks'[u].status = "running"
       PROVE  Keeps(u)
  BY <1>2, <1>18
     DEF SchedulerLookup, ClaimRead, SchedulerRefused, ClaimExisting, ClaimDispatch, StaleFind,
         StatementFails, ClaimInsertFails, ClaimStatementFails, ClaimAborts, StaleAborts, Crash
<1>19. ASSUME NEW t \in TaskIds, HandlerLosesLock(t) \/ HandlerAborts(t),
              NEW u \in TaskIds, tasks'[u].status = "running"
       PROVE  Keeps(u)
  BY <1>2, <1>19 DEF HandlerLosesLock, HandlerAborts
<1>20. ASSUME UNCHANGED vars, NEW u \in TaskIds, tasks'[u].status = "running"
       PROVE  Keeps(u)
  BY <1>2, <1>20 DEF vars
<1> QED
  BY <1>6, <1>7, <1>8, <1>9, <1>10, <1>11, <1>12, <1>13, <1>14, <1>15, <1>16, <1>17, <1>18,
     <1>19, <1>20
     DEF Next, Claim, Scheduler, StalePass, Handler

LEMMA WatchersKnown ==
    ASSUME Timely, Shape, Lease, [Next]_vars, ~Tick
    PROVE  WatchesNoMore
<1>0. /\ TypeOK /\ Rows /\ Claims /\ LockRows /\ OneActivePerType
  BY DEF Shape
<1> DEFINE W(q, t) == tasks[t].status = "running" /\ tasks'[t].status = "running" /\ Watches(q, t)' =>
                        Watches(q, t) /\ run'[q].elapsed = run[q].elapsed
<1>a. \A t \in TaskIds : tasks[t].status = "running" /\ tasks'[t].status = "running" =>
         tasks'[t].type = tasks[t].type
  <2>1. \A t \in TaskIds : tasks'[t].status = "running" => Keeps(t)
    BY KeepsRunning
  <2> QED
    BY <2>1 DEF Keeps
<1>1. ASSUME NEW q \in Runners, NEW t \in TaskIds, run'[q] = run[q] PROVE W(q, t)
  BY <1>1, <1>a DEF Watches
<1>2. ASSUME NEW r \in Runners, \A q \in Runners : q # r => run'[q] = run[q],
             run'[r].pc \notin {"insert", "existing", "steal", "staleDelete"}
      PROVE  \A q \in Runners, t \in TaskIds : W(q, t)
  BY <1>1, <1>2 DEF Watches
\* A claim goes on to its next statement.
<1>3. ASSUME NEW r \in Runners, run[r].pc \in {"insert", "existing"},
             \A q \in Runners : q # r => run'[q] = run[q],
             run'[r].pc \in {"existing", "steal"}, run'[r].type = run[r].type,
             run'[r].elapsed = run[r].elapsed
      PROVE  \A q \in Runners, t \in TaskIds : W(q, t)
  BY <1>1, <1>3, <1>a DEF Watches
<1>4. ASSUME UNCHANGED run PROVE \A q \in Runners, t \in TaskIds : W(q, t)
  BY <1>1, <1>4
<1>5. ASSUME NEW r \in Runners, NEW k \in Types, SchedulerLookup(r, k)
      PROVE  \A q \in Runners, t \in TaskIds : W(q, t)
  BY <1>0, <1>2, <1>5 DEF SchedulerLookup, Begin, TypeOK
\* A claim begins: its row is pending, so no row of the type is running.
<1>6. ASSUME NEW r \in Runners, NEW c \in TaskIds, ClaimRead(r, c)
      PROVE  \A q \in Runners, t \in TaskIds : W(q, t)
  <2>1. /\ run'[r].pc = "insert" /\ run'[r].type = tasks[c].type
        /\ \A q \in Runners : q # r => run'[q] = run[q]
    BY <1>0, <1>6 DEF ClaimRead, Begin, TypeOK
  <2>2. \A t \in TaskIds : tasks[t].status = "running" => tasks[t].type # tasks[c].type
    BY <1>0, <1>6 DEF ClaimRead, OneActivePerType, Active
  <2>3. \A t \in TaskIds : W(r, t)
    BY <1>a, <2>1, <2>2 DEF Watches
  <2> QED
    BY <1>1, <2>1, <2>3
<1>7. ASSUME NEW r \in Runners, ClaimInsert(r) PROVE \A q \in Runners, t \in TaskIds : W(q, t)
  <2>1. CASE Goto(r, "mark")
    BY <1>0, <1>2, <2>1, GotoEffect DEF Phases
  <2>2. CASE Goto(r, "existing")
    BY <1>0, <1>3, <1>7, <2>2, GotoEffect DEF ClaimInsert, Phases
  <2> QED
    BY <1>7, <2>1, <2>2 DEF ClaimInsert
<1>8. ASSUME NEW r \in Runners, Return(r) PROVE \A q \in Runners, t \in TaskIds : W(q, t)
  BY <1>0, <1>2, <1>8, ReturnEffect
<1>9. ASSUME NEW r \in Runners, ClaimExisting(r) PROVE \A q \in Runners, t \in TaskIds : W(q, t)
  <2>1. CASE LapsedFor(r, run[r].type)
    <3>1. /\ run'[r].pc = "steal" /\ run'[r].type = run[r].type
          /\ run'[r].elapsed = run[r].elapsed
          /\ \A q \in Runners : q # r => run'[q] = run[q]
      BY <1>0, <1>9, <2>1 DEF ClaimExisting, TypeOK, Op
    <3> QED
      BY <1>3, <1>9, <3>1 DEF ClaimExisting
  <2> QED
    BY <1>8, <1>9, <2>1 DEF ClaimExisting
<1>10. ASSUME NEW r \in Runners, NEW p \in {"failOld", "mark", "reread", "release"}, Goto(r, p)
       PROVE  \A q \in Runners, t \in TaskIds : W(q, t)
  BY <1>0, <1>2, <1>10, GotoEffect DEF Phases
<1>11. ASSUME NEW r \in Runners,
              Scheduler(r) \/ ClaimSteal(r) \/ ClaimFailOld(r) \/ ClaimMark(r) \/ ClaimRelease(r)
                 \/ ClaimDispatch(r) \/ Crash(r)
       PROVE  \A q \in Runners, t \in TaskIds : W(q, t)
  BY <1>8, <1>10, <1>11
     DEF Scheduler, SchedulerCreate, SchedulerRefused, ClaimSteal, ClaimFailOld, ClaimMark,
         ClaimRelease, ClaimDispatch, Crash
<1>12. ASSUME NEW r \in Runners, StaleFind(r) PROVE \A q \in Runners, t \in TaskIds : W(q, t)
  BY <1>0, <1>2, <1>12 DEF StaleFind, Begin, TypeOK
\* The pass turns to a lock: its row, if it was running, has just been failed.
<1>13. ASSUME NEW r \in Runners, StaleMark(r) PROVE \A q \in Runners, t \in TaskIds : W(q, t)
  <2>1. PICK s \in run[r].snap :
           /\ MarkSystemTaskLeaseExpired(s.task)
           /\ run' = [run EXCEPT ![r].pc = "staleDelete", ![r].cur = {s}]
    BY <1>13 DEF StaleMark
  <2>2. s.task \in TaskIds
    BY <1>0 DEF TypeOK, Op, Stale
  <2>3. /\ run'[r].pc = "staleDelete" /\ run'[r].cur = {s}
        /\ \A q \in Runners : q # r => run'[q] = run[q]
    BY <1>0, <2>1 DEF TypeOK, Op
  <2>4. tasks'[s.task].status # "running"
    BY <1>0, <2>1, <2>2, MarkEffect
  <2>5. \A t \in TaskIds : W(r, t)
    BY <2>3, <2>4 DEF Watches
  <2> QED
    BY <1>1, <2>3, <2>5
<1>14. ASSUME NEW r \in Runners, StaleDelete(r) PROVE \A q \in Runners, t \in TaskIds : W(q, t)
  <2>1. run'[r].pc \in {"idle", "staleMark"} /\ \A q \in Runners : q # r => run'[q] = run[q]
    BY <1>0, <1>14, ReturnEffect DEF StaleDelete, TypeOK, Op
  <2> QED
    BY <1>2, <2>1
<1>15. ASSUME NEW r \in Runners, StatementFails(r) PROVE \A q \in Runners, t \in TaskIds : W(q, t)
  <2>1. CASE ClaimInsertFails(r)
    BY <1>0, <1>3, <2>1, GotoEffect DEF ClaimInsertFails, Phases
  <2>2. CASE ClaimStatementFails(r) \/ ClaimAborts(r) \/ StaleAborts(r)
    BY <1>8, <1>10, <2>2 DEF ClaimStatementFails, ClaimAborts, StaleAborts
  <2> QED
    BY <1>15, <2>1, <2>2 DEF StatementFails
<1>16. ASSUME NEW t \in TaskIds,
              \/ Heartbeat(t) \/ HandlerLosesLock(t) \/ HandlerRelease(t) \/ HandlerAborts(t)
              \/ \E status \in Terminal : HandlerFinish(t, status)
       PROVE  UNCHANGED run
  BY <1>16 DEF Heartbeat, HandlerLosesLock, HandlerRelease, HandlerAborts, HandlerFinish
<1>17. ASSUME NEW k \in Types, EnqueueSystemTask(k) PROVE UNCHANGED run
  BY <1>17 DEF EnqueueSystemTask
<1>18. ASSUME UNCHANGED vars PROVE UNCHANGED run
  BY <1>18 DEF vars
<1>19. \A q \in Runners, t \in TaskIds : W(q, t)
  BY <1>4, <1>5, <1>6, <1>7, <1>9, <1>11, <1>12, <1>13, <1>14, <1>15, <1>16, <1>17, <1>18
     DEF Next, Claim, StalePass, Handler
<1> QED
  BY <1>19 DEF WatchesNoMore

LEMMA LeaseInductive ==
    ASSUME Timely, Shape, Lease, [Next]_vars
    PROVE  Lease'
<1>0. TypeOK /\ Rows /\ Protected /\ Held /\ TypeOK'
  BY ShapeInductive DEF Shape, Lease
<1>1. Acquired'
  BY AcquiredInductive
<1>2. CASE ~Tick
  <2>1. /\ \A u \in TaskIds : tasks'[u].status = "running" => Keeps(u)
        /\ WatchesNoMore
    BY <1>2, KeepsRunning, WatchersKnown
  <2>2. Held'
    BY <2>1 DEF Held, Keeps
  <2>3. ASSUME NEW r \in Runners, NEW t \in TaskIds,
               tasks'[t].status = "running", Watches(r, t)'
        PROVE  locks'[tasks'[t].type].rem + run'[r].elapsed >= 0
    <3>1. Keeps(t) /\ tasks'[t].type \in Types
      BY <2>1, <2>3, ShapeInductive DEF Shape, Rows
    <3>2. run'[r].elapsed \in Nat /\ locks'[tasks'[t].type].rem \in Int
      BY <1>0, <3>1, SystemTaskAssumption DEF TypeOK, Op, Lock, NoLock, Floor
    <3>3. CASE locks'[tasks'[t].type].rem >= 0
      BY <3>2, <3>3
    <3>4. CASE /\ tasks[t].status = "running"
               /\ locks'[tasks[t].type].rem = locks[tasks[t].type].rem
      BY <1>0, <2>1, <2>3, <3>1, <3>4 DEF WatchesNoMore, Protected, Keeps
    <3> QED
      BY <3>1, <3>3, <3>4 DEF Keeps
  <2> QED
    BY <1>1, <2>2, <2>3 DEF Lease, Protected
<1>3. CASE Tick
  <2>1. UNCHANGED tasks
    BY <1>3 DEF Tick
  <2>2. \A k \in Types : locks'[k].task = locks[k].task /\ locks'[k].by = locks[k].by
    BY <1>0, <1>3 DEF Tick, TypeOK, Lock, NoLock
  <2>3. Held'
    BY <1>0, <2>1, <2>2 DEF Held, Rows
  <2>4. ASSUME NEW r \in Runners, NEW t \in TaskIds,
               tasks'[t].status = "running", Watches(r, t)'
        PROVE  locks'[tasks'[t].type].rem + run'[r].elapsed >= 0
    <3> DEFINE k == tasks[t].type
    <3>1. k \in Types
      BY <1>0, <2>1, <2>4 DEF Rows
    <3>2. /\ Timed(r) /\ run'[r].pc = run[r].pc /\ run'[r].type = run[r].type
          /\ run'[r].cur = run[r].cur /\ run'[r].elapsed = run[r].elapsed + 1
      BY <1>0, <1>3, <2>4 DEF Tick, Timed, TypeOK, Op, Watches
    <3>3. locks[k].rem + run[r].elapsed >= 0
      BY <1>0, <2>1, <2>4, <3>2 DEF Protected, Watches
    <3>4. run[r].elapsed < MaxPause
      BY <1>3, <3>2 DEF Tick
    <3>5. locks[k].rem > Floor
      BY <1>0, <3>1, <3>3, <3>4, TimeTypes, SystemTaskAssumption DEF Floor
    <3>6. locks'[k].rem = locks[k].rem - 1
      <4>1. locks[k] \in Lock
        BY <1>0, <3>1, <3>5, TimeTypes DEF TypeOK, NoLock
      <4> QED
        BY <1>3, <3>1, <3>5, <4>1 DEF Tick, Lock
    <3> QED
      BY <1>0, <2>1, <3>1, <3>2, <3>3, <3>6, TimeTypes
  <2> QED
    BY <1>1, <2>3, <2>4 DEF Lease, Protected
<1> QED
  BY <1>2, <1>3

\* If no claim or stale-lock pass takes as long as the lock's TTL, a running row
\* always has the lock row that names it and its runner: the crash-detection
\* window of runWithLeaseHeartbeat covers every running task.
THEOREM RunningRecoverable == Spec => []RunningHasLock
<1>1. Init => Shape
  BY ShapeInit
<1>2. Shape /\ [Next]_vars => Shape'
  BY ShapeInductive
<1>3. Init => Lease
  BY DEF Init, Lease, Acquired, Protected, Held, NoOp, Begin
<1>4. Timely /\ Shape /\ Lease /\ [Next]_vars => Lease'
  BY LeaseInductive
<1>5. Timely /\ Lease => RunningHasLock
  BY DEF Lease, Held, RunningHasLock
<1>6. ~Timely => RunningHasLock
  BY DEF Timely, RunningHasLock
<1>7. Timely <=> Timely'
  BY DEF Timely
<1>8. CASE Timely
  <2>1. Init => Shape /\ Lease
    BY <1>1, <1>3
  <2>2. (Shape /\ Lease) /\ [Next]_vars => (Shape /\ Lease)'
    BY <1>2, <1>4, <1>8
  <2>3. Shape /\ Lease => RunningHasLock
    BY <1>5, <1>8
  <2> QED
    BY <2>1, <2>2, <2>3, PTL DEF Spec
<1>9. CASE ~Timely
  <2>1. RunningHasLock
    BY <1>6, <1>9
  <2> QED
    BY <2>1, PTL
<1> QED
  BY <1>8, <1>9

-----------------------------------------------------------------------------
(* What a step may never do.                                               *)

\* The steps that write a row: an INSERT at an id that has no row yet, the two
\* statements that ask for the status they replace, and MarkSystemTaskLeaseExpired.
LEMMA TerminalStep ==
    ASSUME Shape, [Next]_vars, NEW t \in TaskIds, tasks[t].status \in Terminal
    PROVE  tasks'[t] = tasks[t]
<1>0. TypeOK /\ Rows /\ Claims
  BY DEF Shape
<1>1. tasks[t].status \notin {"absent", "pending", "running"}
  BY DEF Terminal
<1>2. ASSUME UNCHANGED tasks PROVE tasks'[t] = tasks[t]
  BY <1>2
<1>3. ASSUME NEW k, CreateSystemTask(k) PROVE tasks'[t] = tasks[t]
  <2>1. t # next
    BY <1>0, <1>1 DEF Rows, TypeOK, TaskIds
  <2> QED
    BY <1>0, <1>3, <2>1 DEF CreateSystemTask, TypeOK
<1>4. ASSUME NEW u, MarkSystemTaskLeaseExpired(u) PROVE tasks'[t] = tasks[t]
  BY <1>0, <1>1, <1>4 DEF MarkSystemTaskLeaseExpired, TypeOK
<1>5. ASSUME NEW k \in Types, EnqueueSystemTask(k) PROVE tasks'[t] = tasks[t]
  BY <1>3, <1>5 DEF EnqueueSystemTask
<1>6. ASSUME NEW r \in Runners, Scheduler(r) PROVE tasks'[t] = tasks[t]
  BY <1>3, <1>6 DEF Scheduler, SchedulerCreate, SchedulerRefused
<1>7. ASSUME NEW r \in Runners, LoopOnly(r) PROVE tasks'[t] = tasks[t]
  BY <1>7, LoopOnlyRows
<1>8. ASSUME NEW r \in Runners, ClaimFailOld(r) \/ StaleMark(r) PROVE tasks'[t] = tasks[t]
  BY <1>4, <1>8 DEF ClaimFailOld, StaleMark
<1>9. ASSUME NEW r \in Runners, ClaimMark(r) PROVE tasks'[t] = tasks[t]
  BY <1>0, <1>1, <1>9 DEF ClaimMark, TypeOK
<1>10. ASSUME NEW r \in Runners, ClaimDispatch(r) \/ Crash(r) PROVE tasks'[t] = tasks[t]
  BY <1>10 DEF ClaimDispatch, Crash
<1>11. ASSUME NEW u \in TaskIds, NEW status \in Terminal, HandlerFinish(u, status)
       PROVE  tasks'[t] = tasks[t]
  BY <1>0, <1>1, <1>11 DEF HandlerFinish, HoldsLease, TypeOK
<1>12. ASSUME NEW u \in TaskIds,
              Heartbeat(u) \/ HandlerLosesLock(u) \/ HandlerRelease(u) \/ HandlerAborts(u)
       PROVE  tasks'[t] = tasks[t]
  BY <1>12 DEF Heartbeat, HandlerLosesLock, HandlerRelease, HandlerAborts
<1>13. ASSUME Tick \/ UNCHANGED vars PROVE tasks'[t] = tasks[t]
  BY <1>13 DEF Tick, vars
<1> QED
  BY <1>5, <1>6, <1>7, <1>8, <1>9, <1>10, <1>11, <1>12, <1>13
     DEF Next, Claim, StalePass, Handler, LoopOnly

\* A dispatch meets a row whose handler was never started; every other step of a
\* handler only moves its mode forward.
LEMMA DispatchStep ==
    ASSUME Shape, [Next]_vars, NEW t \in TaskIds, exec[t].mode # "none"
    PROVE  /\ exec'[t].by = exec[t].by
           /\ exec[t].mode \in {"ended", "releasing"} => exec'[t].mode # "running"
<1> DEFINE Goal == /\ exec'[t].by = exec[t].by
                   /\ exec[t].mode \in {"ended", "releasing"} => exec'[t].mode # "running"
<1>0. TypeOK /\ Rows /\ Claims
  BY DEF Shape
<1>1. ASSUME UNCHANGED exec PROVE Goal
  BY <1>1
<1>2. ASSUME NEW u \in TaskIds, NEW m \in {"cancelled", "releasing", "ended"},
             exec' = [exec EXCEPT ![u].mode = m]
      PROVE  Goal
  BY <1>0, <1>2 DEF TypeOK, Work
<1>3. ASSUME NEW k \in Types, EnqueueSystemTask(k) PROVE Goal
  BY <1>1, <1>3 DEF EnqueueSystemTask
<1>4. ASSUME NEW r \in Runners, Scheduler(r) \/ ClaimFailOld(r) \/ StaleMark(r) \/ ClaimMark(r)
      PROVE  Goal
  BY <1>1, <1>4 DEF Scheduler, SchedulerCreate, SchedulerRefused, ClaimFailOld, StaleMark,
                    ClaimMark
<1>5. ASSUME NEW r \in Runners, LoopOnly(r) PROVE Goal
  BY <1>1, <1>5, LoopOnlyRows
<1>6. ASSUME NEW r \in Runners, ClaimDispatch(r) PROVE Goal
  <2>1. run[r].task # t
    BY <1>0, <1>6 DEF ClaimDispatch, Claims
  <2> QED
    BY <1>0, <1>6, <2>1 DEF ClaimDispatch, TypeOK
<1>7. ASSUME NEW r \in Runners, Crash(r) PROVE Goal
  BY <1>0, <1>7 DEF Crash, TypeOK, Work
<1>8. ASSUME NEW u \in TaskIds, NEW status \in Terminal, HandlerFinish(u, status) PROVE Goal
  BY <1>2, <1>8 DEF HandlerFinish
<1>9. ASSUME NEW u \in TaskIds,
             Heartbeat(u) \/ HandlerLosesLock(u) \/ HandlerRelease(u) \/ HandlerAborts(u)
      PROVE  Goal
  BY <1>1, <1>2, <1>9 DEF Heartbeat, HandlerLosesLock, HandlerRelease, HandlerAborts
<1>10. ASSUME Tick \/ UNCHANGED vars PROVE Goal
  BY <1>1, <1>10 DEF Tick, vars
<1> QED
  BY <1>3, <1>4, <1>5, <1>6, <1>7, <1>8, <1>9, <1>10
     DEF Next, Claim, StalePass, Handler, LoopOnly

\* A lock row is overwritten or deleted by others only when locked_until lies
\* before a "now" that is not in the future.
LEMMA LeaseStep ==
    ASSUME Shape, [Next]_vars, NEW k \in Types, locks[k].rem >= 0
    PROVE  \/ locks'[k].task = locks[k].task /\ locks'[k].by = locks[k].by
           \/ locks'[k] = NoLock /\ (run[locks[k].by].pc = "release"
                                     \/ exec[locks[k].task].mode = "releasing")
<1> DEFINE Kept == locks'[k].task = locks[k].task /\ locks'[k].by = locks[k].by
           Returned == locks'[k] = NoLock /\ (run[locks[k].by].pc = "release"
                                              \/ exec[locks[k].task].mode = "releasing")
<1>0. TypeOK
  BY DEF Shape
<1>1. \A r \in Runners : ~(locks[k].rem + run[r].elapsed < 0)
  BY <1>0, TimeTypes
<1>2. locks[k] # NoLock
  BY <1>0, TimeTypes DEF NoLock
<1>3. locks[k] \in Lock
  BY <1>0, <1>2 DEF TypeOK
<1>4. \A n : [locks[k] EXCEPT !.rem = n].task = locks[k].task
             /\ [locks[k] EXCEPT !.rem = n].by = locks[k].by
  BY <1>3 DEF Lock
<1>5. ASSUME UNCHANGED locks PROVE Kept
  BY <1>5
<1>6. ASSUME NEW r \in Runners, ClaimInsert(r) \/ ClaimSteal(r) PROVE Kept
  <2>1. CASE run[r].type = k
    BY <1>1, <1>2, <1>6, <2>1 DEF ClaimInsert, ClaimSteal, LapsedFor
  <2>2. CASE run[r].type # k
    BY <1>0, <1>6, <2>2 DEF ClaimInsert, ClaimSteal, TypeOK
  <2> QED
    BY <2>1, <2>2
<1>7. ASSUME NEW r \in Runners, ClaimRelease(r) PROVE Kept \/ Returned
  BY <1>7 DEF ClaimRelease, ReleaseSystemTaskLock
<1>8. ASSUME NEW r \in Runners, StaleDelete(r) PROVE Kept
  BY <1>0, <1>1, <1>8 DEF StaleDelete, TypeOK
<1>9. ASSUME NEW u \in TaskIds, HandlerRelease(u) PROVE Kept \/ Returned
  BY <1>9 DEF HandlerRelease, ReleaseSystemTaskLock
<1>10. ASSUME NEW u \in TaskIds, Heartbeat(u) PROVE Kept
  <2>1. PICK d \in 0 .. MaxPause :
           \/ locks' = [j \in Types |->
                          IF locks[j].task = u /\ locks[j].by = exec[u].by
                             /\ locks[j].rem + d >= 0
                          THEN [locks[j] EXCEPT !.rem = TTL - d] ELSE locks[j]]
           \/ UNCHANGED locks
    BY <1>10 DEF Heartbeat
  <2>2. locks'[k] = [locks[k] EXCEPT !.rem = TTL - d] \/ locks'[k] = locks[k]
    BY <2>1
  <2> QED
    BY <1>4, <2>2
<1>11. ASSUME Tick PROVE Kept
  BY <1>4, <1>11 DEF Tick
<1>12. ASSUME NEW r \in Runners,
              \/ \E j \in Types : SchedulerLookup(r, j)
              \/ Scheduler(r)
              \/ \E u \in TaskIds : ClaimRead(r, u)
              \/ ClaimExisting(r) \/ ClaimFailOld(r) \/ ClaimMark(r) \/ ClaimDispatch(r)
              \/ StaleFind(r) \/ StaleMark(r) \/ StatementFails(r) \/ Crash(r)
       PROVE  Kept
  BY <1>12 DEF SchedulerLookup, Scheduler, SchedulerCreate, SchedulerRefused, ClaimRead,
               ClaimExisting, ClaimFailOld, ClaimMark, ClaimDispatch, StaleFind, StaleMark,
               StatementFails, ClaimInsertFails, ClaimStatementFails, ClaimAborts, StaleAborts,
               Crash
<1>13. ASSUME \/ \E j \in Types : EnqueueSystemTask(j)
              \/ \E u \in TaskIds :
                    \/ HandlerLosesLock(u)
                    \/ \E status \in Terminal : HandlerFinish(u, status)
                    \/ HandlerAborts(u)
              \/ UNCHANGED vars
       PROVE  Kept
  BY <1>13 DEF EnqueueSystemTask, HandlerLosesLock, HandlerFinish, HandlerAborts, vars
<1> QED
  BY <1>6, <1>7, <1>8, <1>9, <1>10, <1>11, <1>12, <1>13
     DEF Next, Claim, StalePass, Handler

\* FinishSystemTask, MarkSystemTaskLeaseExpired, the stale-lock passes and the
\* claims of any number of nodes race on a row; its first terminal status stays.
THEOREM FirstEndStays == Spec => TerminalIsFinal
<1>1. Init => Shape
  BY ShapeInit
<1>2. Shape /\ [Next]_vars => Shape'
  BY ShapeInductive
<1>3. Shape /\ [Next]_vars =>
         [\A t \in TaskIds : tasks[t].status \in Terminal => tasks'[t] = tasks[t]]_vars
  BY TerminalStep
<1> QED
  BY <1>1, <1>2, <1>3, PTL DEF Spec, TerminalIsFinal

\* However often leases lapse and nodes die, the handler of a row is started by
\* one runner and, once it has ended, never again.
THEOREM HandledOnce == Spec => DispatchedOnce
<1>1. Init => Shape
  BY ShapeInit
<1>2. Shape /\ [Next]_vars => Shape'
  BY ShapeInductive
<1>3. Shape /\ [Next]_vars =>
         [\A t \in TaskIds : exec[t].mode # "none" =>
            /\ exec'[t].by = exec[t].by
            /\ exec[t].mode \in {"ended", "releasing"} => exec'[t].mode # "running"]_vars
  BY DispatchStep
<1> QED
  BY <1>1, <1>2, <1>3, PTL DEF Spec, DispatchedOnce

\* acquireSystemTaskLock and ExpireStaleSystemTaskLocks compare with a "now" that
\* may be old by any number of ticks, and still no live lease changes hands
\* unless its holder gives it back.
THEOREM LeaseIsRespected == Spec => LiveLeaseIsKept
<1>1. Init => Shape
  BY ShapeInit
<1>2. Shape /\ [Next]_vars => Shape'
  BY ShapeInductive
<1>3. Shape /\ [Next]_vars =>
         [\A k \in Types : locks[k].rem >= 0 =>
            \/ locks'[k].task = locks[k].task /\ locks'[k].by = locks[k].by
            \/ locks'[k] = NoLock /\ (run[locks[k].by].pc = "release"
                                      \/ exec[locks[k].task].mode = "releasing")]_vars
  BY LeaseStep
<1> QED
  BY <1>1, <1>2, <1>3, PTL DEF Spec, LiveLeaseIsKept
=============================================================================
