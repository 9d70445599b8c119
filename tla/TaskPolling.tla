----------------------------- MODULE TaskPolling -----------------------------
(***************************************************************************)
(* Asynchronous (Suno and video) tasks after their submission:             *)
(* service/task_polling.go moves a task's row to its final status,         *)
(* service/task_billing.go refunds or settles its charge, and              *)
(* relay/relay_task.go lets a user's GET refresh a Gemini or Vertex row.   *)
(*                                                                         *)
(* A poller is one execution of the async_task_poll handler.  The job's    *)
(* lease does not stop a statement or an HTTP call in progress, so the     *)
(* passes of two pollers may overlap.  Every SQL statement is one step.    *)
(* A poller works on the copies its SELECT returned; the answer of the     *)
(* upstream service is any answer, whatever it said before.                *)
(***************************************************************************)
EXTENDS Integers, FiniteSets

CONSTANTS
    Tasks,           \* rows of the tasks table
    Pollers,         \* executions of RunTaskPollingOnce that may overlap
    Kinds,           \* which of AllKinds are submitted
    Legacy,          \* are there rows from before TaskRefundLegacyCutoff?
    Charge,          \* the quota pre-consumed for a task
    Actuals,         \* what a completed task may really cost
    MaxFaults,       \* bound: crashes and failed statements, together
    MaxFetches       \* bound: GETs of a Gemini or Vertex task

\* "gemini": a video row of a Gemini or Vertex channel.
AllKinds == {"video", "suno", "gemini"}

ASSUME TaskPollingAssumption ==
    /\ Kinds \subseteq AllKinds
    /\ Charge \in Nat \ {0}
    /\ Actuals \subseteq Nat \ {0}
    /\ Legacy \in BOOLEAN
    /\ MaxFaults \in Nat
    /\ MaxFetches \in Nat

VARIABLES
    row,      \* task -> [kind, status, quota, full, time]: its row in tasks; full:
              \* progress is "100%"; time: what its submit_time is to a sweep
    books,    \* task -> [fund, token, used]: what is charged for it, net, to the
              \* wallet or subscription, to the token, and in the usage statistics
    stage,    \* poller -> "idle", "sweep" or "poll"
    work,     \* poller -> task -> its copy of the row and where it stands
    fetch,    \* task -> the copy held by a user's GET
    fetches,  \* GETs so far
    exempt,   \* the tasks whose row was written by its id or by a GET, or whose
              \* charge was not settled when they were inserted
    faults    \* faults so far

vars == <<row, books, stage, work, fetch, fetches, exempt, faults>>

-----------------------------------------------------------------------------
\* SUBMITTED, QUEUED and UNKNOWN behave as IN_PROGRESS does.
Unfinished == {"NOT_START", "IN_PROGRESS"}

Terminal == {"SUCCESS", "FAILURE"}

Quotas == {0, Charge} \cup Actuals

Refunding == {"refundFunding", "refundToken", "refundUsed", "refundClear"}

Settling == {"settleFunding", "settleToken", "settleQuota", "settleUsed"}

\* After the sweep's cutoff, before it, or before TaskRefundLegacyCutoff.
Times == {"new", "old", "legacy"}

Row == [kind : AllKinds, status : {"absent"} \cup Unfinished \cup Terminal, quota : Quotas,
        full : BOOLEAN, time : Times]

\* status, quota, time: the copy, whose progress is not "100%".  to: the quota a
\* settlement ends with.  "hung": its upstream call never returns.
Job == [pc : {"none", "held", "hung"} \cup Refunding \cup Settling,
        status : {"none"} \cup Unfinished, quota : Quotas, time : Times, to : Quotas]

NoJob == [pc |-> "none", status |-> "none", quota |-> 0, time |-> "new", to |-> 0]

Copy == [held : BOOLEAN, status : {"none"} \cup Unfinished \cup Terminal, quota : Quotas]

NoCopy == [held |-> FALSE, status |-> "none", quota |-> 0]

\* The type invariant: rows, working copies and books hold values of their types.
TypeOK ==
    /\ row \in [Tasks -> Row]
    /\ books \in [Tasks -> [fund : Int, token : Int, used : Int]]
    /\ stage \in [Pollers -> {"idle", "sweep", "poll"}]
    /\ work \in [Pollers -> [Tasks -> Job]]
    /\ fetch \in [Tasks -> Copy]
    /\ fetches \in 0 .. MaxFetches
    /\ exempt \subseteq Tasks
    /\ faults \in 0 .. MaxFaults

Init ==
    /\ row \in [Tasks -> {[kind |-> k, status |-> "absent", quota |-> 0, full |-> FALSE,
                            time |-> "new"] : k \in Kinds}]
    /\ books = [t \in Tasks |-> [fund |-> 0, token |-> 0, used |-> 0]]
    /\ stage = [p \in Pollers |-> "idle"]
    /\ work = [p \in Pollers |-> [t \in Tasks |-> NoJob]]
    /\ fetch = [t \in Tasks |-> NoCopy]
    /\ fetches = 0
    /\ exempt = {}
    /\ faults = 0

\* A statement fails, or a process dies.
Fault ==
    /\ faults < MaxFaults
    /\ faults' = faults + 1

Billing(p, t) == work[p][t].pc \in Refunding \cup Settling

Goto(p, t, pc) == work' = [work EXCEPT ![p][t].pc = pc]

Drop(p, t) == work' = [work EXCEPT ![p][t] = NoJob]

-----------------------------------------------------------------------------
(* The end of RelayTask.                                                   *)

\* A row, of a task submitted now or long ago; a synchronous answer is inserted
\* as a success.
InsertRow(t) ==
    /\ row[t].status = "absent"
    /\ \E s \in {"NOT_START", "SUCCESS"},
          time \in IF Legacy THEN {"new", "legacy"} ELSE {"new"} :
          row' = [row EXCEPT ![t] = [@ EXCEPT !.status = s, !.quota = Charge,
                                              !.full = (s = "SUCCESS"), !.time = time]]

\* SettleBilling and LogTaskConsumption have charged the quota of the row.
InsertTask(t) ==
    /\ InsertRow(t)
    /\ books' = [books EXCEPT ![t] = [fund |-> Charge, token |-> Charge, used |-> Charge]]
    /\ UNCHANGED <<stage, work, fetch, fetches, exempt, faults>>

\* SettleBilling failed, which is only logged: the charge is the estimate.
InsertUnsettled(t) ==
    /\ InsertRow(t)
    /\ Fault
    /\ \E e \in Actuals :
          books' = [books EXCEPT ![t] = [fund |-> e, token |-> e, used |-> Charge]]
    /\ exempt' = exempt \cup {t}
    /\ UNCHANGED <<stage, work, fetch, fetches>>

\* Time passes: submit_time is before now - TaskTimeoutMinutes.
Age(t) ==
    /\ row[t].status # "absent"
    /\ row[t].time = "new"
    /\ row' = [row EXCEPT ![t].time = "old"]
    /\ UNCHANGED <<books, stage, work, fetch, fetches, exempt, faults>>

-----------------------------------------------------------------------------
(* Statements on the tasks table.                                          *)

\* Variant: no status condition in the UPDATE.
UpdateUnguarded(t, from, r) == row' = [row EXCEPT ![t] = r]

\* UpdateWithStatus: the whole copy is written, if the row still has the status
\* the copy was made from.
Matches(t, from) == row[t].status = from

UpdateWithStatus(t, from, r) ==
    row' = [row EXCEPT ![t] = IF Matches(t, from) THEN r ELSE @]

\* The row that a copy becomes.
Written(t, status, quota, full, time) ==
    [kind |-> row[t].kind, status |-> status, quota |-> quota, full |-> full, time |-> time]

\* TaskBulkUpdateByID with status FAILURE: no condition, and quota is not written.
TaskBulkUpdateByID(t) ==
    row' = [row EXCEPT ![t] = [@ EXCEPT !.status = "FAILURE", !.full = TRUE]]

\* Both SELECTs leave out rows with progress "100%".
UnfinishedRows == {t \in Tasks : row[t].status \in Unfinished /\ ~row[t].full}

\* Variant: rows that have started are not swept.
TimedOutNotStarted ==
    {t \in UnfinishedRows : row[t].time # "new" /\ row[t].status = "NOT_START"}

GetTimedOutUnfinishedTasks == {t \in UnfinishedRows : row[t].time # "new"}

GetAllUnFinishSyncTasks == UnfinishedRows

\* The copies a SELECT of the rows in s returns.
CopiesOf(s) ==
    [t \in Tasks |-> IF t \in s
                     THEN [pc |-> "held", status |-> row[t].status, quota |-> row[t].quota,
                           time |-> row[t].time, to |-> 0]
                     ELSE NoJob]

-----------------------------------------------------------------------------
(* RunTaskPollingOnce and sweepTimedOutTasks.                              *)

SweepRead(p) ==
    /\ stage[p] = "idle"
    /\ stage' = [stage EXCEPT ![p] = "sweep"]
    /\ work' = [work EXCEPT ![p] = CopiesOf(GetTimedOutUnfinishedTasks)]
    /\ UNCHANGED <<row, books, fetch, fetches, exempt, faults>>

\* Variant: the sweep refunds a row another process has already moved.
SweepIgnoresLoss(p, t) ==
    LET copy == work[p][t] IN
    /\ stage[p] = "sweep"
    /\ copy.pc = "held"
    /\ \A u \in Tasks : ~Billing(p, u)
    /\ UpdateWithStatus(t, copy.status, Written(t, "FAILURE", copy.quota, TRUE, copy.time))
    /\ IF copy.quota # 0 THEN Goto(p, t, "refundFunding") ELSE Drop(p, t)
    /\ UNCHANGED <<books, stage, fetch, fetches, exempt, faults>>

\* Variant: the sweep fails the row and forgets the refund.
SweepWithoutRefund(p, t) ==
    LET copy == work[p][t] IN
    /\ stage[p] = "sweep"
    /\ copy.pc = "held"
    /\ UpdateWithStatus(t, copy.status, Written(t, "FAILURE", copy.quota, TRUE, copy.time))
    /\ Drop(p, t)
    /\ UNCHANGED <<books, stage, fetch, fetches, exempt, faults>>

\* One iteration of the sweep: rows are handled one after the other.  A legacy
\* row is failed with its quota cleared and without a refund.
SweepWrite(p, t) ==
    LET copy  == work[p][t]
        quota == IF copy.time = "legacy" THEN 0 ELSE copy.quota
    IN
    /\ stage[p] = "sweep"
    /\ copy.pc = "held"
    /\ \A u \in Tasks : ~Billing(p, u)
    /\ UpdateWithStatus(t, copy.status, Written(t, "FAILURE", quota, TRUE, copy.time))
    /\ IF Matches(t, copy.status) /\ quota # 0 THEN Goto(p, t, "refundFunding") ELSE Drop(p, t)
    /\ UNCHANGED <<books, stage, fetch, fetches, exempt, faults>>

\* The UPDATE fails: the row is left to the next pass.
SweepWriteFails(p, t) ==
    /\ stage[p] = "sweep"
    /\ work[p][t].pc = "held"
    /\ \A u \in Tasks : ~Billing(p, u)
    /\ Fault
    /\ Drop(p, t)
    /\ UNCHANGED <<row, books, stage, fetch, fetches, exempt>>

PollRead(p) ==
    /\ stage[p] = "sweep"
    /\ \A t \in Tasks : work[p][t].pc = "none"
    /\ stage' = [stage EXCEPT ![p] = "poll"]
    /\ work' = [work EXCEPT ![p] = CopiesOf(GetAllUnFinishSyncTasks)]
    /\ UNCHANGED <<row, books, fetch, fetches, exempt, faults>>

\* The pass is over when every channel's goroutine has returned.
PollEnd(p) ==
    /\ stage[p] = "poll"
    /\ \A t \in Tasks : work[p][t].pc = "none"
    /\ stage' = [stage EXCEPT ![p] = "idle"]
    /\ UNCHANGED <<row, books, work, fetch, fetches, exempt, faults>>

-----------------------------------------------------------------------------
(* updateVideoTasks, updateVideoSingleTask and updateSunoTasks.            *)

Polls(p, t) == stage[p] = "poll" /\ work[p][t].pc = "held"

\* CacheGetChannel fails, because the channel was deleted, is not in this node's
\* cache yet, or could not be read: the row is failed by id and nothing is refunded.
FailById(p, t) ==
    /\ TaskBulkUpdateByID(t)
    /\ exempt' = exempt \cup {t}
    /\ Drop(p, t)
    /\ UNCHANGED <<books, stage, fetch, fetches, faults>>

VideoChannelMissing(p, t) == Polls(p, t) /\ row[t].kind # "suno" /\ FailById(p, t)

SunoChannelMissing(p, t) == Polls(p, t) /\ row[t].kind = "suno" /\ FailById(p, t)

\* The provider keeps the connection and never answers: the client has a timeout
\* only if RELAY_TIMEOUT is set.
PollHangs(p, t) ==
    /\ Polls(p, t)
    /\ Goto(p, t, "hung")
    /\ UNCHANGED <<row, books, stage, fetch, fetches, exempt, faults>>

\* No usable answer (network or parse error, rate limit, UNKNOWN in its grace
\* period, nothing new), a failed UPDATE, or the context was cancelled.
PollSkips(p, t) ==
    /\ Polls(p, t)
    /\ Drop(p, t)
    /\ UNCHANGED <<row, books, stage, fetch, fetches, exempt, faults>>

\* What the copy of p becomes with status s.  Suno's answer may move submit_time
\* to any time; that of a video task may name any progress.
Answered(p, t, s) ==
    {Written(t, s, work[p][t].quota, full, time) :
        full \in IF row[t].kind # "suno" /\ s \in Unfinished THEN BOOLEAN
                 ELSE {s \in Terminal},
        time \in IF row[t].kind = "suno" THEN Times ELSE {row[t].time}}

\* A status that is not final is written and nothing is billed.
PollProgress(p, t) ==
    /\ Polls(p, t)
    /\ \E s \in IF row[t].kind = "suno" THEN Unfinished ELSE {"IN_PROGRESS"} :
          \E r \in Answered(p, t, s) : UpdateWithStatus(t, work[p][t].status, r)
    /\ Drop(p, t)
    /\ UNCHANGED <<books, stage, fetch, fetches, exempt, faults>>

\* Variant: the poller that lost the UPDATE refunds as well.
PollFailureIgnoresLoss(p, t) ==
    /\ Polls(p, t)
    /\ \E r \in Answered(p, t, "FAILURE") : UpdateWithStatus(t, work[p][t].status, r)
    /\ IF work[p][t].quota # 0 THEN Goto(p, t, "refundFunding") ELSE Drop(p, t)
    /\ UNCHANGED <<books, stage, fetch, fetches, exempt, faults>>

\* A failure: the poller whose UPDATE moved the row refunds it.
PollFailure(p, t) ==
    /\ Polls(p, t)
    /\ \E r \in Answered(p, t, "FAILURE") : UpdateWithStatus(t, work[p][t].status, r)
    /\ IF Matches(t, work[p][t].status) /\ work[p][t].quota # 0
       THEN Goto(p, t, "refundFunding")
       ELSE Drop(p, t)
    /\ UNCHANGED <<books, stage, fetch, fetches, exempt, faults>>

\* updateSunoTasks: a success is written and keeps its pre-consumed quota.
SunoSuccess(p, t) ==
    /\ Polls(p, t)
    /\ row[t].kind = "suno"
    /\ \E r \in Answered(p, t, "SUCCESS") : UpdateWithStatus(t, work[p][t].status, r)
    /\ Drop(p, t)
    /\ UNCHANGED <<books, stage, fetch, fetches, exempt, faults>>

\* What settleTaskBillingOnComplete decides the task costs; 0: no adjustment.
ActualQuota == {0} \cup Actuals

\* updateVideoSingleTask: the poller whose UPDATE moved the row settles it;
\* RecalculateTaskQuota returns at once when nothing is to be adjusted.
VideoSuccess(p, t) ==
    /\ Polls(p, t)
    /\ row[t].kind # "suno"
    /\ \E r \in Answered(p, t, "SUCCESS") : UpdateWithStatus(t, work[p][t].status, r)
    /\ \E actual \in ActualQuota :
          IF Matches(t, work[p][t].status) /\ actual > 0 /\ actual # work[p][t].quota
          THEN work' = [work EXCEPT ![p][t].pc = "settleFunding", ![p][t].to = actual]
          ELSE Drop(p, t)
    /\ UNCHANGED <<books, stage, fetch, fetches, exempt, faults>>

-----------------------------------------------------------------------------
(* RefundTaskQuota.                                                        *)

\* taskAdjustFunding, taskAdjustTokenQuota and the usage statistics: delta > 0
\* charges, delta < 0 gives back.
Adjust(t, book, delta) == books' = [books EXCEPT ![t][book] = @ + delta]

\* Variant: the marker is cleared before the money is given back.
RefundClearsFirst(p, t) ==
    /\ work[p][t].pc = "refundFunding"
    /\ row' = [row EXCEPT ![t].quota = 0]
    /\ IF row[t].quota # 0
       THEN UNCHANGED <<books, work>>
       ELSE Adjust(t, "fund", -work[p][t].quota) /\ Goto(p, t, "refundToken")
    /\ UNCHANGED <<stage, fetch, fetches, exempt, faults>>

RefundFunding(p, t) ==
    /\ work[p][t].pc = "refundFunding"
    /\ Adjust(t, "fund", -work[p][t].quota)
    /\ Goto(p, t, "refundToken")
    /\ UNCHANGED <<row, stage, fetch, fetches, exempt, faults>>

\* The funding source cannot be adjusted: nothing else is done, quota stays.
RefundFundingFails(p, t) ==
    /\ work[p][t].pc = "refundFunding"
    /\ Fault
    /\ Drop(p, t)
    /\ UNCHANGED <<row, books, stage, fetch, fetches, exempt>>

RefundToken(p, t) ==
    /\ work[p][t].pc = "refundToken"
    /\ Adjust(t, "token", -work[p][t].quota)
    /\ Goto(p, t, "refundUsed")
    /\ UNCHANGED <<row, stage, fetch, fetches, exempt, faults>>

RefundUsed(p, t) ==
    /\ work[p][t].pc = "refundUsed"
    /\ Adjust(t, "used", -work[p][t].quota)
    /\ Goto(p, t, "refundClear")
    /\ UNCHANGED <<row, stage, fetch, fetches, exempt, faults>>

\* UpdateQuota(0), by primary key.
RefundClear(p, t) ==
    /\ work[p][t].pc = "refundClear"
    /\ row' = [row EXCEPT ![t].quota = 0]
    /\ Drop(p, t)
    /\ UNCHANGED <<books, stage, fetch, fetches, exempt, faults>>

\* A failure after the funding source was adjusted is logged, and the next
\* statement follows.
RefundStepFails(p, t) ==
    /\ Fault
    /\ \/ work[p][t].pc = "refundToken" /\ Goto(p, t, "refundUsed")
       \/ work[p][t].pc = "refundUsed" /\ Goto(p, t, "refundClear")
       \/ work[p][t].pc = "refundClear" /\ Drop(p, t)
    /\ UNCHANGED <<row, books, stage, fetch, fetches, exempt>>

-----------------------------------------------------------------------------
(* RecalculateTaskQuota.                                                   *)

Delta(p, t) == work[p][t].to - work[p][t].quota

SettleFunding(p, t) ==
    /\ work[p][t].pc = "settleFunding"
    /\ Adjust(t, "fund", Delta(p, t))
    /\ Goto(p, t, "settleToken")
    /\ UNCHANGED <<row, stage, fetch, fetches, exempt, faults>>

SettleFundingFails(p, t) ==
    /\ work[p][t].pc = "settleFunding"
    /\ Fault
    /\ Drop(p, t)
    /\ UNCHANGED <<row, books, stage, fetch, fetches, exempt>>

SettleToken(p, t) ==
    /\ work[p][t].pc = "settleToken"
    /\ Adjust(t, "token", Delta(p, t))
    /\ Goto(p, t, "settleQuota")
    /\ UNCHANGED <<row, stage, fetch, fetches, exempt, faults>>

\* Variant: the settled quota is not written back.
SettleKeepsQuota(p, t) ==
    /\ work[p][t].pc = "settleQuota"
    /\ Goto(p, t, "settleUsed")
    /\ UNCHANGED <<row, books, stage, fetch, fetches, exempt, faults>>

SettleQuota(p, t) ==
    /\ work[p][t].pc = "settleQuota"
    /\ row' = [row EXCEPT ![t].quota = work[p][t].to]
    /\ Goto(p, t, "settleUsed")
    /\ UNCHANGED <<books, stage, fetch, fetches, exempt, faults>>

SettleUsed(p, t) ==
    /\ work[p][t].pc = "settleUsed"
    /\ Adjust(t, "used", Delta(p, t))
    /\ Drop(p, t)
    /\ UNCHANGED <<row, stage, fetch, fetches, exempt, faults>>

SettleStepFails(p, t) ==
    /\ Fault
    /\ \/ work[p][t].pc = "settleToken" /\ Goto(p, t, "settleQuota")
       \/ work[p][t].pc = "settleQuota" /\ Goto(p, t, "settleUsed")
       \/ work[p][t].pc = "settleUsed" /\ Drop(p, t)
    /\ UNCHANGED <<row, books, stage, fetch, fetches, exempt>>

\* Between any two statements.
Crash(p) ==
    /\ stage[p] # "idle"
    /\ Fault
    /\ stage' = [stage EXCEPT ![p] = "idle"]
    /\ work' = [work EXCEPT ![p] = [t \in Tasks |-> NoJob]]
    /\ UNCHANGED <<row, books, fetch, fetches, exempt>>

-----------------------------------------------------------------------------
(* tryRealtimeFetch.                                                       *)

\* The GET has read the row, whatever its status.
FetchRead(t) ==
    /\ row[t].kind = "gemini"
    /\ row[t].status # "absent"
    /\ ~fetch[t].held
    /\ fetches < MaxFetches
    /\ fetches' = fetches + 1
    /\ fetch' = [fetch EXCEPT ![t] = [held |-> TRUE, status |-> row[t].status,
                                      quota |-> row[t].quota]]
    /\ UNCHANGED <<row, books, stage, work, exempt, faults>>

\* The upstream status and progress are written over the copy; nothing is billed.
FetchWrite(t) ==
    /\ fetch[t].held
    /\ \E s \in {"IN_PROGRESS", "SUCCESS", "FAILURE"}, full \in BOOLEAN :
          UpdateWithStatus(t, fetch[t].status,
                           Written(t, s, fetch[t].quota, full, row[t].time))
    /\ exempt' = exempt \cup {u \in {t} : Matches(u, fetch[t].status)}
    /\ fetch' = [fetch EXCEPT ![t] = NoCopy]
    /\ UNCHANGED <<books, stage, work, fetches, faults>>

\* No answer, or nothing new.
FetchSkips(t) ==
    /\ fetch[t].held
    /\ fetch' = [fetch EXCEPT ![t] = NoCopy]
    /\ UNCHANGED <<row, books, stage, work, fetches, exempt, faults>>

-----------------------------------------------------------------------------
Pass(p) == SweepRead(p) \/ PollRead(p) \/ PollEnd(p)

Refund(p, t) ==
    RefundFunding(p, t) \/ RefundToken(p, t) \/ RefundUsed(p, t) \/ RefundClear(p, t)

Settle(p, t) ==
    SettleFunding(p, t) \/ SettleToken(p, t) \/ SettleQuota(p, t) \/ SettleUsed(p, t)

\* What a poller does next with a row it holds.
Handle(p, t) ==
    \/ SweepWrite(p, t)
    \/ VideoChannelMissing(p, t) \/ SunoChannelMissing(p, t)
    \/ PollSkips(p, t) \/ PollProgress(p, t) \/ PollFailure(p, t)
    \/ SunoSuccess(p, t) \/ VideoSuccess(p, t)
    \/ Refund(p, t) \/ Settle(p, t)

StatementFails(p, t) ==
    \/ SweepWriteFails(p, t)
    \/ RefundFundingFails(p, t) \/ RefundStepFails(p, t)
    \/ SettleFundingFails(p, t) \/ SettleStepFails(p, t)

Next ==
    \/ \E t \in Tasks : InsertTask(t) \/ InsertUnsettled(t) \/ Age(t)
    \/ \E t \in Tasks : FetchRead(t) \/ FetchWrite(t) \/ FetchSkips(t)
    \/ \E p \in Pollers : Pass(p) \/ Crash(p)
    \/ \E p \in Pollers, t \in Tasks : Handle(p, t) \/ PollHangs(p, t) \/ StatementFails(p, t)

Spec == Init /\ [][Next]_vars

\* The scheduler starts pass after pass, and a pass goes on, unless a call hangs.
FairSpec ==
    /\ Spec
    /\ \A p \in Pollers : WF_vars(Pass(p))
    /\ \A p \in Pollers, t \in Tasks : WF_vars(Handle(p, t))

-----------------------------------------------------------------------------
(* Properties.                                                             *)

\* Two writes pass by the billing that goes with the conditional UPDATE: rows whose
\* channel could not be looked up are failed by their ids, and a GET of a Gemini row
\* writes a whole copy of it.  And a row whose settlement failed starts with
\* another charge.  For all other tasks:
Guarded(t) == t \notin exempt

\* At most one poller at a time refunds or settles a task: winning the
\* conditional UPDATE to a final status is what gives the right to bill.
OneBiller ==
    \A t \in Tasks, p, q \in Pollers :
        Guarded(t) /\ Billing(p, t) /\ Billing(q, t) => p = q

PaidStatus(t) ==
    IF ~Guarded(t) THEN "released"
    ELSE IF row[t].status \in Unfinished THEN "running" ELSE row[t].status

PaidCharge(t) == IF Guarded(t) THEN books[t].fund ELSE 0

Paid == INSTANCE PaidTask WITH status  <- [t \in Tasks |-> PaidStatus(t)],
                               charged <- [t \in Tasks |-> PaidCharge(t)]

\* The tasks and their money implement PaidTask: a task ends once, its charge is
\* given back whole and once if it failed, corrected once if it succeeded, and
\* moved by nothing else.  No two refunds or settlements ever add up.
IsPaidTask == Paid!Spec

\* The quota column is the marker of an open charge (RefundTaskQuota clears it
\* last): whatever crashes or fails, it is 0 only when the money is back.  Legacy
\* rows are cleared without a refund, on purpose.
ClearedMeansRefunded ==
    \A t \in Tasks :
        Guarded(t) /\ row[t].time # "legacy" /\ row[t].quota = 0 => books[t].fund = 0

\* With no failed statement and no crash, a task nobody is billing has the same
\* amount in its row, in the funding source, in the token and in the statistics.
BooksAgree ==
    \A t \in Tasks :
        /\ Guarded(t)
        /\ faults = 0
        /\ \A p \in Pollers : ~Billing(p, t)
        /\ ~(row[t].time = "legacy" /\ row[t].status = "FAILURE")
        => books[t] = [fund |-> row[t].quota, token |-> row[t].quota,
                       used |-> row[t].quota]

\* No poller, however late, moves a row out of a final status: the promise of the
\* conditional UPDATE ("or overwrite a terminal state", updateSunoTasks).
TerminalIsFinal ==
    [][\A t \in Tasks : Guarded(t)' /\ row[t].status \in Terminal
                            => row'[t].status = row[t].status]_vars

\* RefundTaskQuota is the one path for failures: a charge of a failed task is
\* given back in the end, if no statement fails and no process dies.
FailedIsRefunded ==
    \A t \in Tasks :
        row[t].status = "FAILURE" /\ row[t].time # "legacy"
            ~> books[t].fund <= 0 \/ faults > 0 \/ ~Guarded(t)

\* The passes do not overlap, as long as the job's lease is kept, and no upstream
\* call waits for ever, as it may without RELAY_TIMEOUT.
OnePass == \A p, q \in Pollers : stage[p] # "idle" /\ stage[q] # "idle" => p = q

NoneHangs == \A p \in Pollers, t \in Tasks : work[p][t].pc # "hung"

\* A task past its deadline ends, whatever the upstream service answers, lookups
\* fail, users ask, statements fail or pollers die, if passes overlap only for a
\* while (two that overlap for ever may each undo what the other relies on) and
\* hung ones are killed; unless an answer gives the row a progress of 100%, which
\* hides it from every pass, or makes it a recent one.
TimedOutEnds ==
    <>[]OnePass /\ []<>NoneHangs =>
        \A t \in Tasks :
            (row[t].time # "new" /\ row[t].status \in Unfinished)
                ~> (row[t].status \in Terminal \/ row[t].full \/ row[t].time = "new")
=============================================================================
