-------------------------- MODULE TaskPollingProofs --------------------------
(***************************************************************************)
(* Theorems about TaskPolling, for every set of tasks and pollers and      *)
(* every number of faults: the conditional UPDATE gives at most one poller *)
(* the right to bill a task, final statuses stay, and what is charged for  *)
(* a task fits its row.                                                    *)
(***************************************************************************)
EXTENDS TaskPolling, TLAPS

\* A poller between two passes holds no row.
IdleHoldsNone ==
    \A p \in Pollers : stage[p] = "idle" => \A t \in Tasks : work[p][t].pc = "none"

\* What a poller is about to do with a task fits its row r and its books b.  A copy
\* is one of an unfinished row, whose quota is the pre-consumed one; the row of a
\* task that is being billed keeps that quota up to the statement that changes it.
JobFits(j, r, b) ==
    /\ j.pc = "held" => j.status \in Unfinished /\ j.quota = Charge
    /\ j.pc \in Refunding =>
        /\ r.status = "FAILURE" /\ r.quota = Charge /\ j.quota = Charge
        /\ b.fund = IF j.pc = "refundFunding" THEN Charge ELSE 0
    /\ j.pc \in Settling =>
        /\ r.status = "SUCCESS" /\ j.quota = Charge /\ j.to \in Actuals
        /\ r.quota = Charge \/ (j.pc = "settleUsed" /\ r.quota = j.to)
        /\ b.fund = IF j.pc = "settleFunding" THEN Charge ELSE j.to

\* As long as no statement failed, every book is known at every step.
JobExact(j, r, b) ==
    /\ j.pc \in Refunding =>
        /\ b.token = IF j.pc \in {"refundFunding", "refundToken"} THEN Charge ELSE 0
        /\ b.used = IF j.pc # "refundClear" THEN Charge ELSE 0
    /\ j.pc \in Settling =>
        /\ b.token = IF j.pc \in {"settleFunding", "settleToken"} THEN Charge ELSE j.to
        /\ b.used = Charge
        /\ r.quota = IF j.pc = "settleUsed" THEN j.to ELSE Charge

RowFits(r, b) ==
    /\ r.status = "absent" => r.quota = 0 /\ b.fund = 0
    /\ r.status \in Unfinished => r.quota = Charge /\ b.fund = Charge
    /\ r.status = "FAILURE" =>
        /\ r.quota \in {0, Charge}
        /\ b.fund \in {0, Charge}
        /\ r.quota = 0 /\ r.time # "legacy" => b.fund = 0
    /\ r.status = "SUCCESS" =>
        r.quota \in {Charge} \cup Actuals /\ b.fund \in {Charge} \cup Actuals

RowExact(r, b) ==
    ~(r.time = "legacy" /\ r.status = "FAILURE")
        => b.fund = r.quota /\ b.token = r.quota /\ b.used = r.quota

TaskOK(t) ==
    Guarded(t) =>
        /\ \A p, q \in Pollers : Billing(p, t) /\ Billing(q, t) => p = q
        /\ \A p \in Pollers : JobFits(work[p][t], row[t], books[t])
        /\ RowFits(row[t], books[t])
        /\ faults = 0 =>
            /\ \A p \in Pollers : JobExact(work[p][t], row[t], books[t])
            /\ (\A p \in Pollers : ~Billing(p, t)) => RowExact(row[t], books[t])

Inv ==
    /\ TypeOK
    /\ IdleHoldsNone
    /\ \A t \in Tasks : TaskOK(t)

-----------------------------------------------------------------------------
(* What the statements of the model change.                                *)

PCs == {"none", "held", "hung"} \cup Refunding \cup Settling

\* Goto changes the place of one job.
LEMMA GotoAt ==
    ASSUME TypeOK, NEW p \in Pollers, NEW t \in Tasks, NEW pc \in PCs, Goto(p, t, pc)
    PROVE  /\ work' \in [Pollers -> [Tasks -> Job]]
           /\ work'[p][t].pc = pc
           /\ work'[p][t].status = work[p][t].status
           /\ work'[p][t].quota = work[p][t].quota
           /\ work'[p][t].to = work[p][t].to
           /\ \A q \in Pollers, u \in Tasks : q # p \/ u # t => work'[q][u] = work[q][u]
<1>1. work \in [Pollers -> [Tasks -> Job]]
  BY DEF TypeOK
<1>2. PICK j : j = [work[p][t] EXCEPT !.pc = pc]
  OBVIOUS
<1>3. /\ j \in Job /\ j.pc = pc /\ j.status = work[p][t].status
      /\ j.quota = work[p][t].quota /\ j.to = work[p][t].to
  <2>1. work[p][t] \in Job
    BY <1>1
  <2>2. pc \in {"none", "held", "hung"} \cup Refunding \cup Settling
    BY DEF PCs
  <2> QED
    BY <1>2, <2>1, <2>2 DEF Job
<1>4. work' = [work EXCEPT ![p] = [work[p] EXCEPT ![t] = j]]
  BY <1>1, <1>2 DEF Goto
<1> QED
  BY <1>1, <1>3, <1>4

\* Drop forgets one job.
LEMMA DropAt ==
    ASSUME TypeOK, NEW p \in Pollers, NEW t \in Tasks, Drop(p, t)
    PROVE  /\ work' \in [Pollers -> [Tasks -> Job]]
           /\ work'[p][t] = NoJob
           /\ \A q \in Pollers, u \in Tasks : q # p \/ u # t => work'[q][u] = work[q][u]
<1>1. NoJob \in Job
  BY DEF NoJob, Job, Quotas, Times
<1> QED
  BY <1>1 DEF TypeOK, Drop

\* UpdateWithStatus writes a row that still has the status of the copy.
LEMMA UpdateAt ==
    ASSUME TypeOK, NEW t \in Tasks, NEW from, NEW r \in Row, UpdateWithStatus(t, from, r)
    PROVE  /\ row' \in [Tasks -> Row]
           /\ Matches(t, from) => row'[t] = r
           /\ ~Matches(t, from) => row'[t] = row[t]
           /\ \A u \in Tasks : u # t => row'[u] = row[u]
<1>1. row \in [Tasks -> Row]
  BY DEF TypeOK
<1>2. CASE Matches(t, from)
  BY <1>1, <1>2 DEF UpdateWithStatus
<1>3. CASE ~Matches(t, from)
  BY <1>1, <1>3 DEF UpdateWithStatus
<1> QED
  BY <1>2, <1>3

\* The books of a task.
Books == [fund : Int, token : Int, used : Int]

\* Adjust changes one of the books of one task.
LEMMA AdjustAt ==
    ASSUME TypeOK, NEW t \in Tasks, NEW d \in Int
    PROVE  /\ Adjust(t, "fund", d) =>
                /\ books' \in [Tasks -> Books]
                /\ books'[t].fund = books[t].fund + d
                /\ books'[t].token = books[t].token
                /\ books'[t].used = books[t].used
                /\ \A u \in Tasks : u # t => books'[u] = books[u]
           /\ Adjust(t, "token", d) =>
                /\ books' \in [Tasks -> Books]
                /\ books'[t].fund = books[t].fund
                /\ books'[t].token = books[t].token + d
                /\ books'[t].used = books[t].used
                /\ \A u \in Tasks : u # t => books'[u] = books[u]
           /\ Adjust(t, "used", d) =>
                /\ books' \in [Tasks -> Books]
                /\ books'[t].fund = books[t].fund
                /\ books'[t].token = books[t].token
                /\ books'[t].used = books[t].used + d
                /\ \A u \in Tasks : u # t => books'[u] = books[u]
<1>1. books \in [Tasks -> Books]
  BY DEF TypeOK, Books
<1> QED
  BY <1>1 DEF Adjust, Books

\* The exceptions to the conditional UPDATE are never taken back.
LEMMA GuardedBefore ==
    ASSUME NEW t \in Tasks, Guarded(t)', exempt \subseteq exempt'
    PROVE  Guarded(t)
BY DEF Guarded

\* Status, quota and books of the task stay; pollers only read it, drop it, or die.
LEMMA TaskUnmoved ==
    ASSUME TypeOK, TypeOK', NEW t \in Tasks, TaskOK(t),
           row'[t].status = row[t].status, row'[t].quota = row[t].quota,
           row'[t].time = row[t].time \/ (row'[t].time # "legacy" /\ row[t].time # "legacy"),
           books'[t] = books[t], faults' = faults \/ faults' # 0, exempt \subseteq exempt',
           \A q \in Pollers :
              \/ work'[q][t] = work[q][t]
              \/ work'[q][t].pc \in {"none", "hung"} /\ (Billing(q, t) => faults' # 0)
              \/ /\ work'[q][t].pc = "held" /\ ~Billing(q, t)
                 /\ row[t].status \in Unfinished
                 /\ work'[q][t].status = row[t].status
                 /\ work'[q][t].quota = row[t].quota
    PROVE  TaskOK(t)'
<1> SUFFICES ASSUME Guarded(t)'
             PROVE  /\ \A p, q \in Pollers : Billing(p, t)' /\ Billing(q, t)' => p = q
                    /\ \A p \in Pollers : JobFits(work[p][t], row[t], books[t])'
                    /\ RowFits(row[t], books[t])'
                    /\ (faults = 0)' =>
                        /\ \A p \in Pollers : JobExact(work[p][t], row[t], books[t])'
                        /\ (\A p \in Pollers : ~Billing(p, t)') => RowExact(row[t], books[t])'
  BY DEF TaskOK
<1>1. Guarded(t)
  BY GuardedBefore
<1>2. \A q \in Pollers : Billing(q, t)' => work'[q][t] = work[q][t] /\ Billing(q, t)
  BY DEF Billing, Refunding, Settling
<1>3. \A p, q \in Pollers : Billing(p, t)' /\ Billing(q, t)' => p = q
  BY <1>1, <1>2 DEF TaskOK
<1>4. RowFits(row[t], books[t])'
  BY <1>1 DEF TaskOK, RowFits
<1>5. ASSUME NEW p \in Pollers
      PROVE  JobFits(work[p][t], row[t], books[t])'
  <2>1. JobFits(work[p][t], row[t], books[t]) /\ RowFits(row[t], books[t])
    BY <1>1 DEF TaskOK
  <2>2. CASE work'[p][t] = work[p][t]
    BY <2>1, <2>2 DEF JobFits
  <2>3. CASE work'[p][t].pc \in {"none", "hung"}
    BY <2>3 DEF JobFits, Refunding, Settling
  <2>4. CASE /\ work'[p][t].pc = "held" /\ row[t].status \in Unfinished
             /\ work'[p][t].status = row[t].status
             /\ work'[p][t].quota = row[t].quota
    BY <2>1, <2>4 DEF JobFits, RowFits, Refunding, Settling
  <2> QED
    BY <2>2, <2>3, <2>4
<1>6. ASSUME faults' = 0, NEW p \in Pollers
      PROVE  JobExact(work[p][t], row[t], books[t])'
  <2>1. JobExact(work[p][t], row[t], books[t])
    BY <1>1, <1>6 DEF TaskOK
  <2>2. CASE work'[p][t] = work[p][t]
    BY <2>1, <2>2 DEF JobExact
  <2>3. CASE work'[p][t].pc \in {"none", "held", "hung"}
    BY <2>3 DEF JobExact, Refunding, Settling
  <2> QED
    BY <2>2, <2>3
<1>7. ASSUME faults' = 0, \A p \in Pollers : ~Billing(p, t)'
      PROVE  RowExact(row[t], books[t])'
  <2>1. \A p \in Pollers : ~Billing(p, t)
    BY <1>7 DEF Billing
  <2>2. RowExact(row[t], books[t])
    BY <1>1, <1>7, <2>1 DEF TaskOK
  <2> QED
    BY <2>2 DEF RowExact
<1> QED
  BY <1>3, <1>4, <1>5, <1>6, <1>7

\* One poller moves the row or the books of a task; nobody else is billing it.
LEMMA TaskMoved ==
    ASSUME NEW t \in Tasks, TaskOK(t), Guarded(t), NEW p \in Pollers,
           \A q \in Pollers : q # p => work'[q][t] = work[q][t],
           \A q \in Pollers : q # p => ~Billing(q, t),
           JobFits(work[p][t], row[t], books[t])',
           RowFits(row[t], books[t])',
           (faults = 0)' => /\ JobExact(work[p][t], row[t], books[t])'
                            /\ ~Billing(p, t)' => RowExact(row[t], books[t])'
    PROVE  TaskOK(t)'
<1>1. \A q \in Pollers : q # p => ~Billing(q, t)'
  BY DEF Billing
<1>2. \A q, u \in Pollers : Billing(q, t)' /\ Billing(u, t)' => q = u
  BY <1>1
<1>3. ASSUME NEW q \in Pollers
      PROVE  JobFits(work[q][t], row[t], books[t])' /\ (q # p => JobExact(work[q][t], row[t], books[t])')
  <2>1. CASE q # p
    <3>1. work'[q][t] = work[q][t] /\ work[q][t].pc \notin Refunding \cup Settling
      BY <2>1 DEF Billing
    <3>2. JobFits(work[q][t], row[t], books[t])
      BY DEF TaskOK
    <3> QED
      BY <3>1, <3>2 DEF JobFits, JobExact
  <2> QED
    BY <2>1
<1> QED
  BY <1>1, <1>2, <1>3 DEF TaskOK

-----------------------------------------------------------------------------
(* Steps of a poller with one of its tasks.                                *)

\* Only the job of p on t, the row and the books of t change.
JobFrame(p, t) ==
    /\ \A q \in Pollers, u \in Tasks : q # p \/ u # t => work'[q][u] = work[q][u]
    /\ \A u \in Tasks : u # t => row'[u] = row[u] /\ books'[u] = books[u]
    /\ UNCHANGED <<stage, fetch, fetches>>
    /\ exempt \subseteq exempt'
    /\ faults' = faults \/ (Fault /\ row' = row /\ books' = books)

LEMMA FaultType ==
    ASSUME TypeOK, Fault
    PROVE  faults' \in 0 .. MaxFaults /\ faults' # 0
BY TaskPollingAssumption DEF TypeOK, Fault

\* The invariant is kept if it is for the task itself.
LEMMA JobStep ==
    ASSUME Inv, TypeOK', NEW p \in Pollers, NEW t \in Tasks, work[p][t].pc # "none",
           JobFrame(p, t), TaskOK(t)'
    PROVE  Inv'
<1>t. TypeOK /\ IdleHoldsNone
  BY DEF Inv
<1>1. IdleHoldsNone'
  BY <1>t DEF IdleHoldsNone, JobFrame
<1>3. ASSUME NEW u \in Tasks, u # t
      PROVE  TaskOK(u)'
  <2>1. /\ \A q \in Pollers : work'[q][u] = work[q][u]
        /\ row'[u] = row[u] /\ books'[u] = books[u] /\ exempt \subseteq exempt'
    BY <1>3 DEF JobFrame
  <2>2. faults' = faults \/ faults' # 0
    BY <1>t, FaultType DEF JobFrame
  <2>3. TaskOK(u)
    BY DEF Inv
  <2> QED
    BY <1>t, <2>1, <2>2, <2>3, TaskUnmoved
<1> QED
  BY <1>t, <1>1, <1>3 DEF Inv

\* A copy that still matches its row is one of a task nobody has billed yet.
LEMMA WinnerFindsCharge ==
    ASSUME Inv, NEW p \in Pollers, NEW t \in Tasks, Guarded(t),
           work[p][t].pc = "held", Matches(t, work[p][t].status)
    PROVE  /\ row[t].status \in Unfinished /\ row[t].quota = Charge
           /\ work[p][t].quota = Charge
           /\ \A q \in Pollers : ~Billing(q, t)
           /\ books[t].fund = Charge
           /\ faults = 0 => books[t].token = Charge /\ books[t].used = Charge
<1>1. /\ \A q \in Pollers : JobFits(work[q][t], row[t], books[t])
      /\ RowFits(row[t], books[t])
      /\ faults = 0 /\ (\A q \in Pollers : ~Billing(q, t)) => RowExact(row[t], books[t])
  BY DEF Inv, TaskOK
<1>2. row[t].status \in Unfinished /\ work[p][t].quota = Charge
  BY <1>1 DEF JobFits, Matches
<1>3. row[t].quota = Charge /\ books[t].fund = Charge
  BY <1>1, <1>2 DEF RowFits
<1>4. \A q \in Pollers : ~Billing(q, t)
  BY <1>1, <1>2 DEF JobFits, Billing, Unfinished
<1> QED
  BY <1>1, <1>2, <1>3, <1>4 DEF RowExact, Unfinished

\* What a poller may make of its copy: only a legacy row loses its quota.
CopyOf(p, t) ==
    {r \in Row : /\ r.status \in Unfinished \cup Terminal
                 /\ \/ r.quota = work[p][t].quota
                    \/ r.quota = 0 /\ r.status = "FAILURE" /\ r.time = "legacy"}

\* A poller writes its copy with the status the upstream service gave, and
\* drops the task, or starts to bill it if its UPDATE moved the row.
LEMMA UpdateStep ==
    ASSUME Inv, TypeOK', NEW p \in Pollers, NEW t \in Tasks, work[p][t].pc = "held",
           NEW r \in CopyOf(p, t), UpdateWithStatus(t, work[p][t].status, r),
           JobFrame(p, t), books' = books, faults' = faults,
           \/ work'[p][t].pc = "none"
           \/ /\ work'[p][t].pc = "refundFunding" /\ r.status = "FAILURE"
              /\ work'[p][t].quota = work[p][t].quota
              /\ r.quota = work[p][t].quota
              /\ Matches(t, work[p][t].status)
           \/ /\ work'[p][t].pc = "settleFunding" /\ r.status = "SUCCESS"
              /\ work'[p][t].quota = work[p][t].quota
              /\ r.quota = work[p][t].quota
              /\ work'[p][t].to \in Actuals
              /\ Matches(t, work[p][t].status)
    PROVE  Inv'
<1>t. TypeOK /\ TaskOK(t)
  BY DEF Inv
<1>c. /\ r \in Row /\ r.status \in Unfinished \cup Terminal
      /\ r.quota = work[p][t].quota \/ (r.quota = 0 /\ r.status = "FAILURE" /\ r.time = "legacy")
  BY DEF CopyOf
<1>u. /\ Matches(t, work[p][t].status) => row'[t] = r
      /\ ~Matches(t, work[p][t].status) => row'[t] = row[t]
  BY <1>t, <1>c, UpdateAt
<1>f. /\ \A v \in Pollers : v # p => work'[v][t] = work[v][t]
      /\ exempt \subseteq exempt'
  BY DEF JobFrame
<1>1. CASE ~Matches(t, work[p][t].status)
  <2>1. ~Billing(p, t)
    BY DEF Billing, Refunding, Settling
  <2>2. work'[p][t].pc = "none"
    BY <1>1
  <2>3. TaskOK(t)'
    BY <1>t, <1>u, <1>f, <1>1, <2>1, <2>2, TaskUnmoved
  <2> QED
    BY <2>3, JobStep
<1>2. CASE Matches(t, work[p][t].status) /\ Guarded(t)
  <2>1. /\ row[t].status \in Unfinished /\ work[p][t].quota = Charge
        /\ \A v \in Pollers : ~Billing(v, t)
        /\ books[t].fund = Charge
        /\ faults = 0 => books[t].token = Charge /\ books[t].used = Charge
    BY <1>2, WinnerFindsCharge
  <2>2. row'[t] = r /\ books'[t] = books[t]
    BY <1>u, <1>2
  <2>3. RowFits(row[t], books[t])'
    BY <1>c, <2>1, <2>2, TaskPollingAssumption DEF RowFits, Unfinished, Terminal
  <2>4. JobFits(work[p][t], row[t], books[t])'
    BY <2>1, <2>2 DEF JobFits, Refunding, Settling
  <2>5. (faults = 0)' => JobExact(work[p][t], row[t], books[t])'
    BY <2>1, <2>2 DEF JobExact, Refunding, Settling
  <2>6. (faults = 0)' => RowExact(row[t], books[t])'
    BY <1>c, <2>1, <2>2 DEF RowExact
  <2>7. TaskOK(t)'
    BY <1>t, <1>f, <1>2, <2>1, <2>3, <2>4, <2>5, <2>6, TaskMoved
  <2> QED
    BY <2>7, JobStep
<1>3. CASE ~Guarded(t)
  <2>1. ~Guarded(t)'
    BY <1>f, <1>3, GuardedBefore
  <2>2. TaskOK(t)'
    BY <2>1 DEF TaskOK
  <2> QED
    BY <2>2, JobStep
<1> QED
  BY <1>1, <1>2, <1>3

\* The biller of a task takes a step.
LEMMA BillStep ==
    ASSUME Inv, TypeOK', NEW p \in Pollers, NEW t \in Tasks, Billing(p, t), JobFrame(p, t),
           Guarded(t) =>
              /\ JobFits(work[p][t], row[t], books[t])'
              /\ RowFits(row[t], books[t])'
              /\ (faults = 0)' => /\ JobExact(work[p][t], row[t], books[t])'
                                  /\ ~Billing(p, t)' => RowExact(row[t], books[t])'
    PROVE  Inv'
<1>t. TypeOK /\ TaskOK(t)
  BY DEF Inv
<1>1. work[p][t].pc # "none"
  BY DEF Billing, Refunding, Settling
<1>2. CASE Guarded(t)
  <2>1. \A q \in Pollers : q # p => work'[q][t] = work[q][t] /\ ~Billing(q, t)
    BY <1>t, <1>2 DEF JobFrame, TaskOK
  <2>2. TaskOK(t)'
    BY <1>t, <1>2, <2>1, TaskMoved
  <2> QED
    BY <1>1, <2>2, JobStep
<1>3. CASE ~Guarded(t)
  <2>1. ~Guarded(t)'
    BY <1>3, GuardedBefore DEF JobFrame
  <2>2. TaskOK(t)'
    BY <2>1 DEF TaskOK
  <2> QED
    BY <1>1, <2>2, JobStep
<1> QED
  BY <1>2, <1>3

\* The types of what a poller's step changes.
LEMMA FrameType ==
    ASSUME TypeOK, UNCHANGED <<stage, fetch, fetches>>, exempt' \subseteq exempt \cup Tasks,
           row' \in [Tasks -> Row], books' \in [Tasks -> Books],
           work' \in [Pollers -> [Tasks -> Job]], faults' = faults \/ Fault
    PROVE  TypeOK'
<1>1. faults' \in 0 .. MaxFaults
  BY FaultType DEF TypeOK
<1> QED
  BY <1>1 DEF TypeOK, Books

\* The poller leaves a row it holds to the next pass, or waits for ever.
LEMMA SkipStep ==
    ASSUME Inv, NEW p \in Pollers, NEW t \in Tasks, work[p][t].pc = "held",
           Drop(p, t) \/ Goto(p, t, "hung"),
           UNCHANGED <<row, books, stage, fetch, fetches, exempt>>,
           faults' = faults \/ Fault
    PROVE  Inv'
<1>t. TypeOK /\ TaskOK(t)
  BY DEF Inv
<1>1. /\ work' \in [Pollers -> [Tasks -> Job]]
      /\ work'[p][t].pc \in {"none", "hung"}
      /\ \A q \in Pollers, u \in Tasks : q # p \/ u # t => work'[q][u] = work[q][u]
  <2>1. CASE Drop(p, t)
    BY <1>t, <2>1, DropAt DEF NoJob
  <2>2. CASE Goto(p, t, "hung")
    BY <1>t, <2>2, GotoAt DEF PCs
  <2> QED
    BY <2>1, <2>2
<1>2. TypeOK'
  BY <1>t, <1>1, FrameType DEF TypeOK, Books
<1>3. JobFrame(p, t)
  BY <1>1 DEF JobFrame
<1>4. ~Billing(p, t) /\ (faults' = faults \/ faults' # 0)
  BY <1>t, FaultType DEF Billing, Refunding, Settling
<1>5. TaskOK(t)'
  BY <1>t, <1>1, <1>2, <1>4, TaskUnmoved
<1> QED
  BY <1>2, <1>3, <1>5, JobStep

LEMMA HandleHeldKeepsInv ==
    ASSUME Inv, NEW p \in Pollers, NEW t \in Tasks,
           \/ SweepWrite(p, t) \/ SweepWriteFails(p, t)
           \/ VideoChannelMissing(p, t) \/ SunoChannelMissing(p, t)
           \/ PollSkips(p, t) \/ PollHangs(p, t) \/ PollProgress(p, t) \/ PollFailure(p, t)
           \/ SunoSuccess(p, t) \/ VideoSuccess(p, t)
    PROVE  Inv'
<1>t. TypeOK /\ TaskOK(t)
  BY DEF Inv
<1>h. work[p][t].pc = "held"
  BY DEF SweepWrite, SweepWriteFails, VideoChannelMissing, SunoChannelMissing, PollSkips,
         PollHangs, PollProgress, PollFailure, SunoSuccess, VideoSuccess, Polls
<1>q. /\ work[p][t].quota \in Quotas /\ work[p][t].time \in Times /\ 0 \in Quotas
      /\ row[t].kind \in AllKinds /\ row[t].time \in Times
  BY <1>t DEF TypeOK, Job, Row, Quotas
<1>b. books \in [Tasks -> Books]
  BY <1>t DEF TypeOK, Books
\* An UPDATE after which the poller drops the task or bills it.
<1>u. ASSUME NEW r \in CopyOf(p, t), UpdateWithStatus(t, work[p][t].status, r),
             UNCHANGED <<books, stage, fetch, fetches, exempt, faults>>,
             work' \in [Pollers -> [Tasks -> Job]],
             \A v \in Pollers, u \in Tasks : v # p \/ u # t => work'[v][u] = work[v][u],
             \/ work'[p][t].pc = "none"
             \/ /\ work'[p][t].pc = "refundFunding" /\ r.status = "FAILURE"
                /\ work'[p][t].quota = work[p][t].quota
                /\ r.quota = work[p][t].quota
                /\ Matches(t, work[p][t].status)
             \/ /\ work'[p][t].pc = "settleFunding" /\ r.status = "SUCCESS"
                /\ work'[p][t].quota = work[p][t].quota
                /\ r.quota = work[p][t].quota
                /\ work'[p][t].to \in Actuals
                /\ Matches(t, work[p][t].status)
      PROVE  Inv'
  <2>1. row' \in [Tasks -> Row] /\ \A u \in Tasks : u # t => row'[u] = row[u]
    BY <1>t, <1>u, UpdateAt DEF CopyOf
  <2>2. TypeOK'
    BY <1>t, <1>b, <1>u, <2>1, FrameType
  <2>3. JobFrame(p, t)
    BY <1>u, <2>1 DEF JobFrame
  <2> QED
    BY <1>h, <1>u, <2>2, <2>3, UpdateStep
<1>d. ASSUME Drop(p, t)
      PROVE  /\ work' \in [Pollers -> [Tasks -> Job]]
             /\ work'[p][t].pc = "none"
             /\ \A v \in Pollers, u \in Tasks : v # p \/ u # t => work'[v][u] = work[v][u]
  BY <1>t, <1>d, DropAt DEF NoJob
<1>g. ASSUME Goto(p, t, "refundFunding")
      PROVE  /\ work' \in [Pollers -> [Tasks -> Job]]
             /\ work'[p][t].pc = "refundFunding"
             /\ work'[p][t].quota = work[p][t].quota
             /\ \A v \in Pollers, u \in Tasks : v # p \/ u # t => work'[v][u] = work[v][u]
  <2>1. "refundFunding" \in PCs
    BY DEF PCs, Refunding
  <2> QED
    BY <1>t, <1>g, <2>1, GotoAt
\* An answer makes such a copy.
<1>a. ASSUME NEW s \in Unfinished \cup Terminal, NEW r \in Answered(p, t, s)
      PROVE  r \in CopyOf(p, t) /\ r.status = s /\ r.quota = work[p][t].quota
  <2>1. PICK full \in BOOLEAN, time \in Times : r = Written(t, s, work[p][t].quota, full, time)
    BY <1>q, <1>a DEF Answered
  <2> QED
    BY <1>q, <2>1 DEF Written, CopyOf, Row
<1>1. CASE SweepWriteFails(p, t) \/ PollSkips(p, t) \/ PollHangs(p, t)
  BY <1>h, <1>1, SkipStep DEF SweepWriteFails, PollSkips, PollHangs
<1>2. CASE VideoChannelMissing(p, t) \/ SunoChannelMissing(p, t)
  <2>1. /\ exempt' = exempt \cup {t} /\ TaskBulkUpdateByID(t) /\ Drop(p, t)
        /\ UNCHANGED <<books, stage, fetch, fetches, faults>>
    BY <1>2 DEF VideoChannelMissing, SunoChannelMissing, FailById
  <2>2. row' \in [Tasks -> Row] /\ \A u \in Tasks : u # t => row'[u] = row[u]
    <3>1. row \in [Tasks -> Row]
      BY <1>t DEF TypeOK
    <3> QED
      BY <2>1, <3>1 DEF TaskBulkUpdateByID, Row, Terminal
  <2>3. TypeOK'
    BY <1>t, <1>b, <1>d, <2>1, <2>2, FrameType
  <2>4. JobFrame(p, t)
    BY <1>d, <2>1, <2>2 DEF JobFrame
  <2>5. TaskOK(t)'
    BY <2>1 DEF TaskOK, Guarded
  <2> QED
    BY <1>h, <2>3, <2>4, <2>5, JobStep
<1>3. CASE SweepWrite(p, t)
  <2>1. PICK q : /\ q = IF work[p][t].time = "legacy" THEN 0 ELSE work[p][t].quota
                 /\ UpdateWithStatus(t, work[p][t].status,
                                     Written(t, "FAILURE", q, TRUE, work[p][t].time))
                 /\ IF Matches(t, work[p][t].status) /\ q # 0
                    THEN Goto(p, t, "refundFunding")
                    ELSE Drop(p, t)
    BY <1>3 DEF SweepWrite
  <2>2. UNCHANGED <<books, stage, fetch, fetches, exempt, faults>>
    BY <1>3 DEF SweepWrite
  <2>r. PICK r : r = Written(t, "FAILURE", q, TRUE, work[p][t].time)
    OBVIOUS
  <2>3. /\ r \in CopyOf(p, t) /\ r.status = "FAILURE" /\ r.quota = q
        /\ q # 0 => q = work[p][t].quota
    BY <1>q, <2>1, <2>r DEF Written, CopyOf, Row, Terminal
  <2>4. CASE Matches(t, work[p][t].status) /\ q # 0
    BY <1>u, <1>g, <2>1, <2>r, <2>2, <2>3, <2>4
  <2>5. CASE ~(Matches(t, work[p][t].status) /\ q # 0)
    BY <1>u, <1>d, <2>1, <2>r, <2>2, <2>3, <2>5
  <2> QED
    BY <2>4, <2>5
<1>4. CASE PollProgress(p, t)
  <2>0. PICK s \in Unfinished :
             \E r \in Answered(p, t, s) : UpdateWithStatus(t, work[p][t].status, r)
    BY <1>4 DEF PollProgress, Unfinished
  <2>1. PICK r \in Answered(p, t, s) : UpdateWithStatus(t, work[p][t].status, r)
    BY <2>0
  <2> QED
    BY <1>u, <1>d, <1>a, <1>4, <2>1 DEF PollProgress
<1>5. CASE PollFailure(p, t)
  <2>0. "FAILURE" \in Unfinished \cup Terminal
    BY DEF Terminal
  <2>1. PICK r \in Answered(p, t, "FAILURE") :
             /\ UpdateWithStatus(t, work[p][t].status, r)
             /\ UNCHANGED <<books, stage, fetch, fetches, exempt, faults>>
    BY <1>5 DEF PollFailure
  <2>2. CASE Matches(t, work[p][t].status) /\ Goto(p, t, "refundFunding")
    BY <1>u, <1>g, <1>a, <2>0, <2>1, <2>2
  <2>3. CASE Drop(p, t)
    BY <1>u, <1>d, <1>a, <2>0, <2>1, <2>3
  <2> QED
    BY <1>5, <2>2, <2>3 DEF PollFailure
<1>6. CASE SunoSuccess(p, t)
  <2>1. "SUCCESS" \in Unfinished \cup Terminal
    BY DEF Terminal
  <2>2. PICK r \in Answered(p, t, "SUCCESS") : UpdateWithStatus(t, work[p][t].status, r)
    BY <1>6 DEF SunoSuccess
  <2> QED
    BY <1>u, <1>d, <1>a, <1>6, <2>1, <2>2 DEF SunoSuccess
<1>7. CASE VideoSuccess(p, t)
  <2>0. "SUCCESS" \in Unfinished \cup Terminal
    BY DEF Terminal
  <2>1. PICK r \in Answered(p, t, "SUCCESS") :
             /\ UpdateWithStatus(t, work[p][t].status, r)
             /\ UNCHANGED <<books, stage, fetch, fetches, exempt, faults>>
    BY <1>7 DEF VideoSuccess
  <2>2. CASE Drop(p, t)
    BY <1>u, <1>d, <1>a, <2>0, <2>1, <2>2
  <2>3. ASSUME NEW actual \in ActualQuota, actual > 0, Matches(t, work[p][t].status),
               work' = [work EXCEPT ![p][t].pc = "settleFunding", ![p][t].to = actual]
        PROVE  Inv'
    <3>1. actual \in Actuals
      BY <2>3 DEF ActualQuota
    <3>2. work \in [Pollers -> [Tasks -> Job]]
      BY <1>t DEF TypeOK
    <3>3. PICK j : j = [work[p][t] EXCEPT !.pc = "settleFunding", !.to = actual]
      OBVIOUS
    <3>4. /\ j \in Job /\ j.pc = "settleFunding" /\ j.to = actual
          /\ j.quota = work[p][t].quota
      <4>1. work[p][t] \in Job
        BY <3>2
      <4> QED
        BY <3>1, <3>3, <4>1 DEF Job, Settling, Quotas
    <3>5. work' = [work EXCEPT ![p] = [work[p] EXCEPT ![t] = j]]
      BY <2>3, <3>2, <3>3
    <3>6. /\ work' \in [Pollers -> [Tasks -> Job]]
          /\ work'[p][t].pc = "settleFunding" /\ work'[p][t].to \in Actuals
          /\ work'[p][t].quota = work[p][t].quota
          /\ \A v \in Pollers, u \in Tasks : v # p \/ u # t => work'[v][u] = work[v][u]
      BY <3>1, <3>2, <3>4, <3>5
    <3> QED
      BY <1>u, <1>a, <2>0, <2>1, <2>3, <3>6
  <2> QED
    BY <1>7, <2>2, <2>3 DEF VideoSuccess
<1> QED
  BY <1>1, <1>2, <1>3, <1>4, <1>5, <1>6, <1>7

\* What the biller of a guarded task knows about it.
LEMMA BillerKnows ==
    ASSUME Inv, NEW p \in Pollers, NEW t \in Tasks, Guarded(t)
    PROVE  /\ JobFits(work[p][t], row[t], books[t])
           /\ RowFits(row[t], books[t])
           /\ faults = 0 => JobExact(work[p][t], row[t], books[t])
           /\ Charge \in Int /\ Charge # 0
           /\ Billing(p, t) => work[p][t].quota = Charge
BY TaskPollingAssumption DEF Inv, TaskOK, Billing, JobFits

LEMMA RefundKeepsInv ==
    ASSUME Inv, NEW p \in Pollers, NEW t \in Tasks,
           Refund(p, t) \/ RefundFundingFails(p, t) \/ RefundStepFails(p, t)
    PROVE  Inv'
<1>t. TypeOK
  BY DEF Inv
<1>b. work[p][t].pc \in Refunding /\ Billing(p, t)
  BY DEF Refund, RefundFunding, RefundToken, RefundUsed, RefundClear, RefundFundingFails,
         RefundStepFails, Billing, Refunding
<1>s. row \in [Tasks -> Row] /\ books \in [Tasks -> Books]
  BY <1>t DEF TypeOK, Books
<1>i. -work[p][t].quota \in Int
  <2>1. work[p][t].quota \in Quotas
    BY <1>t DEF TypeOK, Job
  <2>2. Quotas \subseteq Nat
    BY TaskPollingAssumption DEF Quotas
  <2>3. work[p][t].quota \in Nat
    BY <2>1, <2>2
  <2> QED
    BY <2>3
<1>d. ASSUME Drop(p, t)
      PROVE  /\ work' \in [Pollers -> [Tasks -> Job]]
             /\ work'[p][t].pc = "none"
             /\ \A v \in Pollers, u \in Tasks : v # p \/ u # t => work'[v][u] = work[v][u]
             /\ JobFits(work'[p][t], row'[t], books'[t])
             /\ JobExact(work'[p][t], row'[t], books'[t])
  BY <1>t, <1>d, DropAt DEF NoJob, JobFits, JobExact, Refunding, Settling
<1>g. ASSUME NEW pc \in Refunding, Goto(p, t, pc)
      PROVE  /\ work' \in [Pollers -> [Tasks -> Job]]
             /\ work'[p][t].pc = pc
             /\ work'[p][t].quota = work[p][t].quota
             /\ \A v \in Pollers, u \in Tasks : v # p \/ u # t => work'[v][u] = work[v][u]
             /\ Billing(p, t)'
  <2>1. pc \in PCs
    BY DEF PCs
  <2> QED
    BY <1>t, <1>g, <2>1, GotoAt DEF Billing
<1>1. CASE RefundFunding(p, t)
  <2>1. /\ Adjust(t, "fund", -work[p][t].quota) /\ Goto(p, t, "refundToken")
        /\ UNCHANGED <<row, stage, fetch, fetches, exempt, faults>>
        /\ work[p][t].pc = "refundFunding" /\ "refundToken" \in Refunding
    BY <1>1 DEF RefundFunding, Refunding
  <2>2. /\ books' \in [Tasks -> Books]
        /\ books'[t].fund = books[t].fund + (-work[p][t].quota)
        /\ books'[t].token = books[t].token /\ books'[t].used = books[t].used
        /\ \A u \in Tasks : u # t => books'[u] = books[u]
    BY <1>t, <1>i, <2>1, AdjustAt
  <2>3. TypeOK' /\ JobFrame(p, t)
    BY <1>t, <1>s, <1>g, <2>1, <2>2, FrameType DEF JobFrame
  <2>4. ASSUME Guarded(t)
        PROVE  /\ JobFits(work[p][t], row[t], books[t])'
               /\ RowFits(row[t], books[t])'
               /\ (faults = 0)' => JobExact(work[p][t], row[t], books[t])'
    <3>1. books'[t].fund = 0
      BY <1>b, <2>1, <2>2, <2>4, BillerKnows DEF JobFits
    <3> QED
      BY <1>b, <1>g, <2>1, <2>2, <2>4, <3>1, BillerKnows
         DEF JobFits, RowFits, JobExact, Refunding, Settling, Unfinished
  <2> QED
    BY <1>b, <1>g, <2>1, <2>3, <2>4, BillStep
<1>2. CASE RefundToken(p, t)
  <2>1. /\ Adjust(t, "token", -work[p][t].quota) /\ Goto(p, t, "refundUsed")
        /\ UNCHANGED <<row, stage, fetch, fetches, exempt, faults>>
        /\ work[p][t].pc = "refundToken" /\ "refundUsed" \in Refunding
    BY <1>2 DEF RefundToken, Refunding
  <2>2. /\ books' \in [Tasks -> Books]
        /\ books'[t].token = books[t].token + (-work[p][t].quota)
        /\ books'[t].fund = books[t].fund /\ books'[t].used = books[t].used
        /\ \A u \in Tasks : u # t => books'[u] = books[u]
    BY <1>t, <1>i, <2>1, AdjustAt
  <2>3. TypeOK' /\ JobFrame(p, t)
    BY <1>t, <1>s, <1>g, <2>1, <2>2, FrameType DEF JobFrame
  <2>4. ASSUME Guarded(t)
        PROVE  /\ JobFits(work[p][t], row[t], books[t])'
               /\ RowFits(row[t], books[t])'
               /\ (faults = 0)' => JobExact(work[p][t], row[t], books[t])'
    <3>1. faults = 0 => books'[t].token = 0
      BY <1>b, <2>1, <2>2, <2>4, BillerKnows DEF JobExact
    <3> QED
      BY <1>b, <1>g, <2>1, <2>2, <2>4, <3>1, BillerKnows
         DEF JobFits, RowFits, JobExact, Refunding, Settling, Unfinished
  <2> QED
    BY <1>b, <1>g, <2>1, <2>3, <2>4, BillStep
<1>3. CASE RefundUsed(p, t)
  <2>1. /\ Adjust(t, "used", -work[p][t].quota) /\ Goto(p, t, "refundClear")
        /\ UNCHANGED <<row, stage, fetch, fetches, exempt, faults>>
        /\ work[p][t].pc = "refundUsed" /\ "refundClear" \in Refunding
    BY <1>3 DEF RefundUsed, Refunding
  <2>2. /\ books' \in [Tasks -> Books]
        /\ books'[t].used = books[t].used + (-work[p][t].quota)
        /\ books'[t].fund = books[t].fund /\ books'[t].token = books[t].token
        /\ \A u \in Tasks : u # t => books'[u] = books[u]
    BY <1>t, <1>i, <2>1, AdjustAt
  <2>3. TypeOK' /\ JobFrame(p, t)
    BY <1>t, <1>s, <1>g, <2>1, <2>2, FrameType DEF JobFrame
  <2>4. ASSUME Guarded(t)
        PROVE  /\ JobFits(work[p][t], row[t], books[t])'
               /\ RowFits(row[t], books[t])'
               /\ (faults = 0)' => JobExact(work[p][t], row[t], books[t])'
    <3>1. faults = 0 => books'[t].used = 0
      BY <1>b, <2>1, <2>2, <2>4, BillerKnows DEF JobExact
    <3> QED
      BY <1>b, <1>g, <2>1, <2>2, <2>4, <3>1, BillerKnows
         DEF JobFits, RowFits, JobExact, Refunding, Settling, Unfinished
  <2> QED
    BY <1>b, <1>g, <2>1, <2>3, <2>4, BillStep
<1>4. CASE RefundClear(p, t)
  <2>1. /\ row' = [row EXCEPT ![t].quota = 0] /\ Drop(p, t)
        /\ UNCHANGED <<books, stage, fetch, fetches, exempt, faults>>
        /\ work[p][t].pc = "refundClear"
    BY <1>4 DEF RefundClear
  <2>2. /\ row' \in [Tasks -> Row] /\ row'[t].quota = 0
        /\ row'[t].time = row[t].time /\ row'[t].status = row[t].status
        /\ \A u \in Tasks : u # t => row'[u] = row[u]
    <3>1. 0 \in Quotas
      BY DEF Quotas
    <3> QED
      BY <1>s, <2>1, <3>1 DEF Row
  <2>3. TypeOK' /\ JobFrame(p, t)
    BY <1>t, <1>s, <1>d, <2>1, <2>2, FrameType DEF JobFrame
  <2>4. ASSUME Guarded(t)
        PROVE  /\ RowFits(row[t], books[t])'
               /\ (faults = 0)' => RowExact(row[t], books[t])'
    BY <1>b, <2>1, <2>2, <2>4, BillerKnows
       DEF JobFits, RowFits, RowExact, JobExact, Refunding, Unfinished
  <2> QED
    BY <1>b, <1>d, <2>1, <2>3, <2>4, BillStep
<1>5. CASE RefundFundingFails(p, t) \/ RefundStepFails(p, t)
  <2>1. /\ UNCHANGED <<row, books, stage, fetch, fetches, exempt>>
        /\ Fault /\ faults' # 0
    BY <1>5, <1>t, FaultType DEF RefundFundingFails, RefundStepFails
  <2>2. CASE Drop(p, t)
    <3>1. TypeOK' /\ JobFrame(p, t)
      BY <1>t, <1>s, <1>d, <2>1, <2>2, FrameType DEF JobFrame
    <3>2. Guarded(t) => RowFits(row[t], books[t])'
      BY <2>1, BillerKnows DEF RowFits
    <3> QED
      BY <1>b, <1>d, <2>1, <2>2, <3>1, <3>2, BillStep
  <2>3. ASSUME NEW pc \in {"refundUsed", "refundClear"}, Goto(p, t, pc),
               work[p][t].pc # "refundFunding"
        PROVE  Inv'
    <3>0. pc \in Refunding
      BY DEF Refunding
    <3>1. TypeOK' /\ JobFrame(p, t)
      BY <1>t, <1>s, <1>g, <2>1, <2>3, <3>0, FrameType DEF JobFrame
    <3>2. Guarded(t) => JobFits(work[p][t], row[t], books[t])' /\ RowFits(row[t], books[t])'
      BY <1>b, <1>g, <2>1, <2>3, <3>0, BillerKnows DEF JobFits, RowFits, Refunding, Settling
    <3> QED
      BY <1>b, <2>1, <3>1, <3>2, BillStep
  <2> QED
    BY <1>5, <2>2, <2>3 DEF RefundFundingFails, RefundStepFails
<1> QED
  BY <1>1, <1>2, <1>3, <1>4, <1>5 DEF Refund

LEMMA SettleKeepsInv ==
    ASSUME Inv, NEW p \in Pollers, NEW t \in Tasks,
           Settle(p, t) \/ SettleFundingFails(p, t) \/ SettleStepFails(p, t)
    PROVE  Inv'
<1>t. TypeOK
  BY DEF Inv
<1>b. work[p][t].pc \in Settling /\ Billing(p, t)
  BY DEF Settle, SettleFunding, SettleToken, SettleQuota, SettleUsed, SettleFundingFails,
         SettleStepFails, Billing, Settling
<1>s. row \in [Tasks -> Row] /\ books \in [Tasks -> Books] /\ work[p][t].to \in Quotas
  BY <1>t DEF TypeOK, Books, Job
<1>i. work[p][t].quota \in Int /\ work[p][t].to \in Int /\ Delta(p, t) \in Int
  <2>1. work[p][t].quota \in Quotas
    BY <1>t DEF TypeOK, Job
  <2>2. Quotas \subseteq Nat
    BY TaskPollingAssumption DEF Quotas
  <2>3. work[p][t].quota \in Nat /\ work[p][t].to \in Nat
    BY <1>s, <2>1, <2>2
  <2> QED
    BY <2>3 DEF Delta
<1>d. ASSUME Drop(p, t)
      PROVE  /\ work' \in [Pollers -> [Tasks -> Job]]
             /\ work'[p][t].pc = "none"
             /\ \A v \in Pollers, u \in Tasks : v # p \/ u # t => work'[v][u] = work[v][u]
             /\ JobFits(work'[p][t], row'[t], books'[t])
             /\ JobExact(work'[p][t], row'[t], books'[t])
  BY <1>t, <1>d, DropAt DEF NoJob, JobFits, JobExact, Refunding, Settling
<1>g. ASSUME NEW pc \in Settling, Goto(p, t, pc)
      PROVE  /\ work' \in [Pollers -> [Tasks -> Job]]
             /\ work'[p][t].pc = pc
             /\ work'[p][t].quota = work[p][t].quota
             /\ work'[p][t].to = work[p][t].to
             /\ \A v \in Pollers, u \in Tasks : v # p \/ u # t => work'[v][u] = work[v][u]
             /\ Billing(p, t)'
  <2>1. pc \in PCs
    BY DEF PCs
  <2> QED
    BY <1>t, <1>g, <2>1, GotoAt DEF Billing
<1>k. ASSUME Guarded(t)
      PROVE  /\ Charge \in Int /\ Charge # 0 /\ work[p][t].to \in Actuals
             /\ Charge + Delta(p, t) = work[p][t].to
             /\ row[t].status = "SUCCESS" /\ work[p][t].quota = Charge
  <2>1. /\ Charge \in Int /\ Charge # 0 /\ work[p][t].to \in Actuals
        /\ row[t].status = "SUCCESS" /\ work[p][t].quota = Charge
    BY <1>b, <1>k, BillerKnows DEF JobFits
  <2>2. Charge + (work[p][t].to - Charge) = work[p][t].to
    BY <1>i, <2>1
  <2> QED
    BY <2>1, <2>2 DEF Delta
<1>1. CASE SettleFunding(p, t)
  <2>1. /\ Adjust(t, "fund", Delta(p, t)) /\ Goto(p, t, "settleToken")
        /\ UNCHANGED <<row, stage, fetch, fetches, exempt, faults>>
        /\ work[p][t].pc = "settleFunding" /\ "settleToken" \in Settling
    BY <1>1 DEF SettleFunding, Settling
  <2>2. /\ books' \in [Tasks -> Books]
        /\ books'[t].fund = books[t].fund + Delta(p, t)
        /\ books'[t].token = books[t].token /\ books'[t].used = books[t].used
        /\ \A u \in Tasks : u # t => books'[u] = books[u]
    BY <1>t, <1>i, <2>1, AdjustAt
  <2>3. TypeOK' /\ JobFrame(p, t)
    BY <1>t, <1>s, <1>g, <2>1, <2>2, FrameType DEF JobFrame
  <2>4. ASSUME Guarded(t)
        PROVE  /\ JobFits(work[p][t], row[t], books[t])'
               /\ RowFits(row[t], books[t])'
               /\ (faults = 0)' => JobExact(work[p][t], row[t], books[t])'
    <3>1. books'[t].fund = work[p][t].to
      BY <1>b, <1>k, <2>1, <2>2, <2>4, BillerKnows DEF JobFits
    <3> QED
      BY <1>b, <1>g, <1>k, <2>1, <2>2, <2>4, <3>1, BillerKnows
         DEF JobFits, RowFits, JobExact, Refunding, Settling, Unfinished
  <2> QED
    BY <1>b, <1>g, <2>1, <2>3, <2>4, BillStep
<1>2. CASE SettleToken(p, t)
  <2>1. /\ Adjust(t, "token", Delta(p, t)) /\ Goto(p, t, "settleQuota")
        /\ UNCHANGED <<row, stage, fetch, fetches, exempt, faults>>
        /\ work[p][t].pc = "settleToken" /\ "settleQuota" \in Settling
    BY <1>2 DEF SettleToken, Settling
  <2>2. /\ books' \in [Tasks -> Books]
        /\ books'[t].token = books[t].token + Delta(p, t)
        /\ books'[t].fund = books[t].fund /\ books'[t].used = books[t].used
        /\ \A u \in Tasks : u # t => books'[u] = books[u]
    BY <1>t, <1>i, <2>1, AdjustAt
  <2>3. TypeOK' /\ JobFrame(p, t)
    BY <1>t, <1>s, <1>g, <2>1, <2>2, FrameType DEF JobFrame
  <2>4. ASSUME Guarded(t)
        PROVE  /\ JobFits(work[p][t], row[t], books[t])'
               /\ RowFits(row[t], books[t])'
               /\ (faults = 0)' => JobExact(work[p][t], row[t], books[t])'
    <3>1. faults = 0 => books'[t].token = work[p][t].to
      BY <1>b, <1>k, <2>1, <2>2, <2>4, BillerKnows DEF JobExact
    <3> QED
      BY <1>b, <1>g, <1>k, <2>1, <2>2, <2>4, <3>1, BillerKnows
         DEF JobFits, RowFits, JobExact, Refunding, Settling, Unfinished
  <2> QED
    BY <1>b, <1>g, <2>1, <2>3, <2>4, BillStep
<1>3. CASE SettleQuota(p, t)
  <2>1. /\ row' = [row EXCEPT ![t].quota = work[p][t].to] /\ Goto(p, t, "settleUsed")
        /\ UNCHANGED <<books, stage, fetch, fetches, exempt, faults>>
        /\ work[p][t].pc = "settleQuota" /\ "settleUsed" \in Settling
    BY <1>3 DEF SettleQuota, Settling
  <2>2. /\ row' \in [Tasks -> Row] /\ row'[t].quota = work[p][t].to
        /\ row'[t].time = row[t].time /\ row'[t].status = row[t].status
        /\ \A u \in Tasks : u # t => row'[u] = row[u]
    BY <1>s, <2>1 DEF Row
  <2>3. TypeOK' /\ JobFrame(p, t)
    BY <1>t, <1>s, <1>g, <2>1, <2>2, FrameType DEF JobFrame
  <2>4. ASSUME Guarded(t)
        PROVE  /\ JobFits(work[p][t], row[t], books[t])'
               /\ RowFits(row[t], books[t])'
               /\ (faults = 0)' => JobExact(work[p][t], row[t], books[t])'
    BY <1>b, <1>g, <1>k, <2>1, <2>2, <2>4, BillerKnows
       DEF JobFits, RowFits, JobExact, Refunding, Settling, Unfinished
  <2> QED
    BY <1>b, <1>g, <2>1, <2>3, <2>4, BillStep
<1>4. CASE SettleUsed(p, t)
  <2>1. /\ Adjust(t, "used", Delta(p, t)) /\ Drop(p, t)
        /\ UNCHANGED <<row, stage, fetch, fetches, exempt, faults>>
        /\ work[p][t].pc = "settleUsed"
    BY <1>4 DEF SettleUsed
  <2>2. /\ books' \in [Tasks -> Books]
        /\ books'[t].used = books[t].used + Delta(p, t)
        /\ books'[t].fund = books[t].fund /\ books'[t].token = books[t].token
        /\ \A u \in Tasks : u # t => books'[u] = books[u]
    BY <1>t, <1>i, <2>1, AdjustAt
  <2>3. TypeOK' /\ JobFrame(p, t)
    BY <1>t, <1>s, <1>d, <2>1, <2>2, FrameType DEF JobFrame
  <2>4. ASSUME Guarded(t)
        PROVE  /\ RowFits(row[t], books[t])'
               /\ (faults = 0)' => RowExact(row[t], books[t])'
    <3>1. faults = 0 => books'[t].used = work[p][t].to
      BY <1>b, <1>k, <2>1, <2>2, <2>4, BillerKnows DEF JobExact
    <3> QED
      BY <1>b, <1>k, <2>1, <2>2, <2>4, <3>1, BillerKnows
         DEF JobFits, RowFits, RowExact, JobExact, Settling, Unfinished
  <2> QED
    BY <1>b, <1>d, <2>1, <2>3, <2>4, BillStep
<1>5. CASE SettleFundingFails(p, t) \/ SettleStepFails(p, t)
  <2>1. /\ UNCHANGED <<row, books, stage, fetch, fetches, exempt>>
        /\ Fault /\ faults' # 0
    BY <1>5, <1>t, FaultType DEF SettleFundingFails, SettleStepFails
  <2>2. CASE Drop(p, t)
    <3>1. TypeOK' /\ JobFrame(p, t)
      BY <1>t, <1>s, <1>d, <2>1, <2>2, FrameType DEF JobFrame
    <3>2. Guarded(t) => RowFits(row[t], books[t])'
      BY <2>1, BillerKnows DEF RowFits
    <3> QED
      BY <1>b, <1>d, <2>1, <2>2, <3>1, <3>2, BillStep
  <2>3. ASSUME NEW pc \in {"settleQuota", "settleUsed"}, Goto(p, t, pc),
               work[p][t].pc \notin {"settleFunding", "settleUsed"}
        PROVE  Inv'
    <3>0. pc \in Settling
      BY DEF Settling
    <3>1. TypeOK' /\ JobFrame(p, t)
      BY <1>t, <1>s, <1>g, <2>1, <2>3, <3>0, FrameType DEF JobFrame
    <3>2. Guarded(t) => JobFits(work[p][t], row[t], books[t])' /\ RowFits(row[t], books[t])'
      BY <1>b, <1>g, <2>1, <2>3, <3>0, BillerKnows DEF JobFits, RowFits, Refunding, Settling
    <3> QED
      BY <1>b, <2>1, <3>1, <3>2, BillStep
  <2> QED
    BY <1>5, <2>2, <2>3 DEF SettleFundingFails, SettleStepFails
<1> QED
  BY <1>1, <1>2, <1>3, <1>4, <1>5 DEF Settle

-----------------------------------------------------------------------------
(* Steps of everybody else.                                                *)

\* A task is inserted or ages.
LEMMA TaskKeepsInv ==
    ASSUME Inv, NEW t \in Tasks, InsertTask(t) \/ InsertUnsettled(t) \/ Age(t)
    PROVE  Inv'
<1>t. TypeOK /\ IdleHoldsNone
  BY DEF Inv
<1>s. /\ row \in [Tasks -> Row] /\ books \in [Tasks -> Books]
      /\ UNCHANGED <<stage, work, fetch, fetches>>
  BY <1>t DEF TypeOK, Books, InsertTask, InsertUnsettled, Age
<1>i. IdleHoldsNone'
  BY <1>t, <1>s DEF IdleHoldsNone
<1>f. faults' \in 0 .. MaxFaults /\ (faults' = faults \/ faults' # 0)
  BY <1>t, FaultType DEF TypeOK, InsertTask, InsertUnsettled, Age
<1>e. exempt \subseteq exempt' /\ exempt' \subseteq Tasks
  BY <1>t DEF TypeOK, InsertTask, InsertUnsettled, Age
\* The other tasks are left alone.
<1>o. ASSUME TypeOK', \A u \in Tasks : u # t => row'[u] = row[u] /\ books'[u] = books[u],
             TaskOK(t)'
      PROVE  Inv'
  <2>1. ASSUME NEW u \in Tasks, u # t
        PROVE  TaskOK(u)'
    <3>1. TaskOK(u) /\ row'[u] = row[u] /\ books'[u] = books[u]
      BY <1>o, <2>1 DEF Inv
    <3> QED
      BY <1>t, <1>s, <1>f, <1>e, <1>o, <3>1, TaskUnmoved
  <2> QED
    BY <1>i, <1>o, <2>1 DEF Inv
<1>1. CASE InsertTask(t) \/ InsertUnsettled(t)
  <2>0. PICK s \in {"NOT_START", "SUCCESS"}, time \in Times :
             row' = [row EXCEPT ![t] = [row[t] EXCEPT !.status = s, !.quota = Charge,
                                            !.full = (s = "SUCCESS"), !.time = time]]
    BY <1>1 DEF InsertTask, InsertUnsettled, InsertRow, Times
  <2>b. PICK full \in BOOLEAN : full = (s = "SUCCESS")
    OBVIOUS
  <2>1. row' = [row EXCEPT ![t] = [row[t] EXCEPT !.status = s, !.quota = Charge,
                                                 !.full = full, !.time = time]]
    BY <2>0, <2>b
  <2>2. row[t].status = "absent"
    BY <1>1 DEF InsertTask, InsertUnsettled, InsertRow
  <2>3. /\ row' \in [Tasks -> Row]
        /\ row'[t].status = s /\ row'[t].quota = Charge
        /\ \A u \in Tasks : u # t => row'[u] = row[u]
    <3>1. Charge \in Quotas /\ s \in Unfinished \cup Terminal
      BY DEF Quotas, Unfinished, Terminal
    <3>2. [row[t] EXCEPT !.status = s, !.quota = Charge, !.full = full, !.time = time] \in Row
      BY <1>s, <3>1 DEF Row
    <3> QED
      BY <1>s, <2>1, <3>2 DEF Row
  <2>4. PICK e \in {Charge} \cup Actuals :
             /\ books' = [books EXCEPT ![t] = [fund |-> e, token |-> e, used |-> Charge]]
             /\ e = Charge \/ exempt' = exempt \cup {t}
    BY <1>1 DEF InsertTask, InsertUnsettled
  <2>5. /\ books' \in [Tasks -> Books] /\ \A u \in Tasks : u # t => books'[u] = books[u]
        /\ books'[t].fund = e /\ books'[t].token = e /\ books'[t].used = Charge
    <3>1. [fund |-> e, token |-> e, used |-> Charge] \in Books
      BY TaskPollingAssumption DEF Books
    <3> QED
      BY <1>s, <2>4, <3>1
  <2>6. TypeOK'
    BY <1>t, <1>s, <1>f, <1>e, <2>3, <2>5 DEF TypeOK, Books
  <2>7. TaskOK(t)'
    <3> SUFFICES ASSUME Guarded(t)'
                 PROVE  TaskOK(t)'
      BY DEF TaskOK
    <3>0. e = Charge
      BY <2>4 DEF Guarded
    <3>1. Guarded(t) /\ e = Charge
      BY <1>e, <3>0, GuardedBefore
    <3>2. \A p \in Pollers : /\ JobFits(work[p][t], row[t], books[t])
                             /\ work'[p][t] = work[p][t]
      BY <1>s, <3>1 DEF Inv, TaskOK
    <3>3. \A p \in Pollers : work[p][t].pc \notin Refunding \cup Settling
      BY <2>2, <3>2 DEF JobFits
    <3>4. \A p \in Pollers : /\ ~Billing(p, t)'
                             /\ JobFits(work[p][t], row[t], books[t])'
                             /\ JobExact(work[p][t], row[t], books[t])'
      BY <3>2, <3>3 DEF Billing, JobFits, JobExact
    <3>5. RowFits(row[t], books[t])' /\ RowExact(row[t], books[t])'
      BY <2>3, <2>5, <3>1 DEF RowFits, RowExact, Unfinished
    <3> QED
      BY <3>4, <3>5 DEF TaskOK
  <2> QED
    BY <1>o, <2>3, <2>5, <2>6, <2>7
<1>2. CASE Age(t)
  <2>1. /\ row[t].time = "new" /\ row' = [row EXCEPT ![t].time = "old"]
        /\ books' = books /\ faults' = faults
    BY <1>2 DEF Age
  <2>2. /\ row' \in [Tasks -> Row] /\ row'[t].time = "old"
        /\ row'[t].status = row[t].status /\ row'[t].quota = row[t].quota
        /\ \A u \in Tasks : u # t => row'[u] = row[u]
    BY <1>s, <2>1 DEF Row, Times
  <2>3. TypeOK'
    BY <1>t, <1>s, <1>f, <1>e, <2>1, <2>2 DEF TypeOK
  <2>4. TaskOK(t)
    BY DEF Inv
  <2>5. TaskOK(t)'
    BY <1>t, <1>s, <1>e, <2>1, <2>2, <2>3, <2>4, TaskUnmoved
  <2> QED
    BY <1>o, <2>1, <2>2, <2>3, <2>5
<1> QED
  BY <1>1, <1>2

\* A user's GET; a row it has written is one of the exceptions.
LEMMA FetchKeepsInv ==
    ASSUME Inv, NEW t \in Tasks, FetchRead(t) \/ FetchWrite(t) \/ FetchSkips(t)
    PROVE  Inv'
<1>t. TypeOK /\ IdleHoldsNone
  BY DEF Inv
<1>m. fetches \in Nat /\ MaxFetches \in Nat /\ fetches \in 0 .. MaxFetches
  BY <1>t, TaskPollingAssumption DEF TypeOK
<1>n. fetches' \in 0 .. MaxFetches
  BY <1>m DEF FetchRead, FetchWrite, FetchSkips
<1>s. UNCHANGED <<books, stage, work, faults>>
  BY DEF FetchRead, FetchWrite, FetchSkips
<1>f. fetch \in [Tasks -> Copy] /\ row \in [Tasks -> Row]
  BY <1>t DEF TypeOK
<1>e. exempt \subseteq exempt' /\ exempt' \subseteq Tasks
  BY <1>t DEF TypeOK, FetchRead, FetchWrite, FetchSkips
<1>1. /\ row' \in [Tasks -> Row] /\ \A u \in Tasks : u # t => row'[u] = row[u]
      /\ row'[t] = row[t] \/ t \in exempt'
  <2>1. CASE row' = row
    BY <1>f, <2>1
  <2>2. CASE FetchWrite(t)
    <3>1. PICK s \in {"IN_PROGRESS", "SUCCESS", "FAILURE"}, full \in BOOLEAN :
               UpdateWithStatus(t, fetch[t].status,
                                Written(t, s, fetch[t].quota, full, row[t].time))
      BY <2>2 DEF FetchWrite
    <3>2. /\ Written(t, s, fetch[t].quota, full, row[t].time) \in Row
          /\ Matches(t, fetch[t].status) => t \in exempt'
      BY <1>f, <2>2 DEF Unfinished, Terminal, Copy, Row, Written, FetchWrite
    <3> QED
      BY <1>t, <3>1, <3>2, UpdateAt
  <2> QED
    BY <2>1, <2>2 DEF FetchRead, FetchSkips
<1>2. fetch' \in [Tasks -> Copy]
  <2>1. NoCopy \in Copy
    BY DEF NoCopy, Copy, Quotas
  <2>2. CASE fetch' = [fetch EXCEPT ![t] = NoCopy]
    BY <1>f, <2>1, <2>2
  <2>3. CASE FetchRead(t)
    <3>1. PICK c : c = [held |-> TRUE, status |-> row[t].status, quota |-> row[t].quota]
      OBVIOUS
    <3>2. row[t].status # "absent" /\ fetch' = [fetch EXCEPT ![t] = c]
      BY <2>3, <3>1 DEF FetchRead
    <3>3. c \in Copy
      BY <1>f, <3>1, <3>2 DEF Copy, Row
    <3> QED
      BY <1>f, <3>2, <3>3
  <2> QED
    BY <2>2, <2>3 DEF FetchWrite, FetchSkips
<1>3. TypeOK'
  BY <1>t, <1>n, <1>s, <1>e, <1>1, <1>2 DEF TypeOK
<1>4. ASSUME NEW u \in Tasks
      PROVE  TaskOK(u)'
  <2>1. CASE row'[u] = row[u]
    <3>1. TaskOK(u)
      BY DEF Inv
    <3> QED
      BY <1>t, <1>s, <1>e, <1>3, <2>1, <3>1, TaskUnmoved
  <2>2. CASE row'[u] # row[u]
    BY <1>1, <2>2 DEF TaskOK, Guarded
  <2> QED
    BY <2>1, <2>2
<1>5. IdleHoldsNone'
  BY <1>t, <1>s DEF IdleHoldsNone
<1> QED
  BY <1>3, <1>4, <1>5 DEF Inv

\* A poller starts a pass, goes on to the second SELECT, ends, or dies.
LEMMA PassKeepsInv ==
    ASSUME Inv, NEW p \in Pollers, Pass(p) \/ Crash(p)
    PROVE  Inv'
<1>t. TypeOK /\ IdleHoldsNone
  BY DEF Inv
<1>w. /\ work \in [Pollers -> [Tasks -> Job]]
      /\ stage \in [Pollers -> {"idle", "sweep", "poll"}]
  BY <1>t DEF TypeOK
<1>s. UNCHANGED <<row, books, fetch, fetches, exempt>>
  BY DEF Pass, SweepRead, PollRead, PollEnd, Crash
<1>f. faults' \in 0 .. MaxFaults /\ (faults' = faults \/ (faults' # 0 /\ Crash(p)))
  BY <1>t, FaultType DEF Pass, SweepRead, PollRead, PollEnd, Crash, TypeOK
<1>c. ASSUME NEW s \in SUBSET Tasks, \A t \in s : row[t].status \in Unfinished
      PROVE  /\ CopiesOf(s) \in [Tasks -> Job]
             /\ \A t \in Tasks :
                   \/ CopiesOf(s)[t].pc = "none"
                   \/ /\ CopiesOf(s)[t].pc = "held" /\ row[t].status \in Unfinished
                      /\ CopiesOf(s)[t].status = row[t].status
                      /\ CopiesOf(s)[t].quota = row[t].quota
  <2>1. NoJob \in Job /\ NoJob.pc = "none"
    BY DEF NoJob, Job, Quotas, Times
  <2>2. ASSUME NEW t \in s, NEW j,
               j = [pc |-> "held", status |-> row[t].status, quota |-> row[t].quota,
                    time |-> row[t].time, to |-> 0]
        PROVE  j \in Job /\ j.pc = "held" /\ j.status = row[t].status /\ j.quota = row[t].quota
    <3>1. /\ row[t].quota \in Quotas /\ row[t].status \in Unfinished /\ 0 \in Quotas
          /\ row[t].time \in Times
      BY <1>t, <1>c DEF TypeOK, Row, Quotas
    <3> QED
      BY <2>2, <3>1 DEF Job
  <2>3. \A t \in Tasks : CopiesOf(s)[t] =
            IF t \in s
            THEN [pc |-> "held", status |-> row[t].status, quota |-> row[t].quota,
                  time |-> row[t].time, to |-> 0]
            ELSE NoJob
    BY DEF CopiesOf
  <2>4. ASSUME NEW t \in Tasks
        PROVE  /\ CopiesOf(s)[t] \in Job
               /\ \/ CopiesOf(s)[t].pc = "none"
                  \/ /\ CopiesOf(s)[t].pc = "held" /\ row[t].status \in Unfinished
                     /\ CopiesOf(s)[t].status = row[t].status
                     /\ CopiesOf(s)[t].quota = row[t].quota
    <3>1. CASE t \in s
      BY <1>c, <2>2, <2>3, <3>1
    <3>2. CASE t \notin s
      BY <2>1, <2>3, <3>2
    <3> QED
      BY <3>1, <3>2
  <2>5. CopiesOf(s) \in [Tasks -> Job]
    BY <2>4 DEF CopiesOf
  <2> QED
    BY <2>4, <2>5
\* The jobs of p become copies, or are gone.
<1>j. ASSUME NEW jobs \in [Tasks -> Job], work' = [work EXCEPT ![p] = jobs],
             \A t \in Tasks : \/ jobs[t].pc = "none"
                              \/ /\ jobs[t].pc = "held" /\ row[t].status \in Unfinished
                                 /\ jobs[t].status = row[t].status
                                 /\ jobs[t].quota = row[t].quota,
             (\A t \in Tasks : work[p][t].pc = "none")
                \/ (faults' # 0 /\ \A t \in Tasks : jobs[t].pc = "none"),
             NEW st \in {"idle", "sweep", "poll"}, stage' = [stage EXCEPT ![p] = st],
             st = "idle" => \A t \in Tasks : jobs[t].pc = "none"
      PROVE  Inv'
  <2>1. /\ work' \in [Pollers -> [Tasks -> Job]]
        /\ work'[p] = jobs /\ \A q \in Pollers : q # p => work'[q] = work[q]
    BY <1>w, <1>j
  <2>2. /\ stage' \in [Pollers -> {"idle", "sweep", "poll"}]
        /\ stage'[p] = st /\ \A q \in Pollers : q # p => stage'[q] = stage[q]
    BY <1>w, <1>j
  <2>3. TypeOK'
    BY <1>t, <1>s, <1>f, <2>1, <2>2 DEF TypeOK
  <2>4. ASSUME NEW t \in Tasks
        PROVE  TaskOK(t)'
    <3>1. TaskOK(t)
      BY DEF Inv
    <3>2. \/ work'[p][t].pc = "none" /\ (Billing(p, t) => faults' # 0)
          \/ /\ work'[p][t].pc = "held" /\ ~Billing(p, t)
             /\ row[t].status \in Unfinished
             /\ work'[p][t].status = row[t].status
             /\ work'[p][t].quota = row[t].quota
      BY <1>j, <2>1 DEF Billing, Refunding, Settling
    <3>3. \A q \in Pollers :
              \/ work'[q][t] = work[q][t]
              \/ work'[q][t].pc = "none" /\ (Billing(q, t) => faults' # 0)
              \/ /\ work'[q][t].pc = "held" /\ ~Billing(q, t)
                 /\ row[t].status \in Unfinished
                 /\ work'[q][t].status = row[t].status
                 /\ work'[q][t].quota = row[t].quota
      BY <2>1, <3>2
    <3>4. row'[t] = row[t] /\ books'[t] = books[t] /\ exempt \subseteq exempt'
      BY <1>s
    <3>5. faults' = faults \/ faults' # 0
      BY <1>f
    <3> QED
      BY <1>t, <2>3, <3>1, <3>3, <3>4, <3>5, TaskUnmoved
  <2>5. IdleHoldsNone'
    BY <1>t, <1>j, <2>1, <2>2 DEF IdleHoldsNone
  <2> QED
    BY <2>3, <2>4, <2>5 DEF Inv
<1>1. CASE SweepRead(p)
  <2>1. /\ stage[p] = "idle" /\ stage' = [stage EXCEPT ![p] = "sweep"]
        /\ work' = [work EXCEPT ![p] = CopiesOf(GetTimedOutUnfinishedTasks)]
    BY <1>1 DEF SweepRead
  <2>2. /\ GetTimedOutUnfinishedTasks \in SUBSET Tasks
        /\ \A t \in GetTimedOutUnfinishedTasks : row[t].status \in Unfinished
    BY DEF GetTimedOutUnfinishedTasks, UnfinishedRows
  <2>3. \A t \in Tasks : work[p][t].pc = "none"
    BY <1>t, <2>1 DEF IdleHoldsNone
  <2> QED
    BY <1>c, <1>j, <2>1, <2>2, <2>3
<1>2. CASE PollRead(p)
  <2>1. /\ \A t \in Tasks : work[p][t].pc = "none"
        /\ stage' = [stage EXCEPT ![p] = "poll"]
        /\ work' = [work EXCEPT ![p] = CopiesOf(GetAllUnFinishSyncTasks)]
    BY <1>2 DEF PollRead
  <2>2. /\ GetAllUnFinishSyncTasks \in SUBSET Tasks
        /\ \A t \in GetAllUnFinishSyncTasks : row[t].status \in Unfinished
    BY DEF GetAllUnFinishSyncTasks, UnfinishedRows
  <2> QED
    BY <1>c, <1>j, <2>1, <2>2
<1>3. CASE PollEnd(p)
  <2>1. /\ \A t \in Tasks : work[p][t].pc = "none"
        /\ stage' = [stage EXCEPT ![p] = "idle"] /\ work' = work
    BY <1>3 DEF PollEnd
  <2>2. work[p] \in [Tasks -> Job] /\ work' = [work EXCEPT ![p] = work[p]]
    BY <1>w, <2>1
  <2> QED
    BY <1>j, <2>1, <2>2
<1>4. CASE Crash(p)
  <2>1. PICK jobs : jobs = [t \in Tasks |-> NoJob]
    OBVIOUS
  <2>2. jobs \in [Tasks -> Job] /\ \A t \in Tasks : jobs[t].pc = "none"
    <3>1. NoJob \in Job /\ NoJob.pc = "none"
      BY DEF NoJob, Job, Quotas, Times
    <3> QED
      BY <2>1, <3>1
  <2>3. work' = [work EXCEPT ![p] = jobs] /\ stage' = [stage EXCEPT ![p] = "idle"]
    BY <1>4, <2>1 DEF Crash
  <2>4. faults' # 0
    BY <1>4, <1>t, FaultType DEF Crash
  <2> QED
    BY <1>j, <2>2, <2>3, <2>4
<1> QED
  BY <1>1, <1>2, <1>3, <1>4 DEF Pass

LEMMA InvInit == Init => Inv
<1> SUFFICES ASSUME Init
             PROVE  Inv
  OBVIOUS
<1>1. /\ \A t \in Tasks : row[t] \in Row /\ row[t].status = "absent" /\ row[t].quota = 0
      /\ row \in [Tasks -> Row]
  <2>1. \A k \in Kinds : [kind |-> k, status |-> "absent", quota |-> 0, full |-> FALSE,
                          time |-> "new"] \in Row
    BY TaskPollingAssumption DEF Row, Quotas, Times
  <2> QED
    BY <2>1 DEF Init
<1>2. \A t \in Tasks : books[t].fund = 0 /\ books[t].token = 0 /\ books[t].used = 0
  BY DEF Init
<1>3. \A p \in Pollers, t \in Tasks : work[p][t] = NoJob /\ work[p][t].pc = "none"
  BY DEF Init, NoJob
<1>4. TypeOK
  <2>1. NoJob \in Job /\ NoCopy \in Copy
    BY DEF NoJob, Job, NoCopy, Copy, Quotas, Times
  <2>2. [fund |-> 0, token |-> 0, used |-> 0] \in [fund : Int, token : Int, used : Int]
    OBVIOUS
  <2> QED
    BY <1>1, <2>1, <2>2, TaskPollingAssumption DEF Init, TypeOK
<1>5. IdleHoldsNone
  BY <1>3 DEF IdleHoldsNone
<1>6. ASSUME NEW t \in Tasks
      PROVE  TaskOK(t)
  <2>1. \A p \in Pollers : /\ ~Billing(p, t)
                           /\ JobFits(work[p][t], row[t], books[t])
                           /\ JobExact(work[p][t], row[t], books[t])
    BY <1>3 DEF Billing, JobFits, JobExact, Refunding, Settling
  <2>2. RowFits(row[t], books[t]) /\ RowExact(row[t], books[t])
    BY <1>1, <1>2 DEF RowFits, RowExact, Unfinished
  <2> QED
    BY <2>1, <2>2 DEF TaskOK
<1> QED
  BY <1>4, <1>5, <1>6 DEF Inv

LEMMA InvInductive == Inv /\ [Next]_vars => Inv'
<1> SUFFICES ASSUME Inv, [Next]_vars
             PROVE  Inv'
  OBVIOUS
<1>1. ASSUME NEW t \in Tasks, InsertTask(t) \/ InsertUnsettled(t) \/ Age(t)
      PROVE  Inv'
  BY <1>1, TaskKeepsInv
<1>2. ASSUME NEW t \in Tasks, FetchRead(t) \/ FetchWrite(t) \/ FetchSkips(t)
      PROVE  Inv'
  BY <1>2, FetchKeepsInv
<1>3. ASSUME NEW p \in Pollers, Pass(p) \/ Crash(p)
      PROVE  Inv'
  BY <1>3, PassKeepsInv
<1>4. ASSUME NEW p \in Pollers, NEW t \in Tasks,
             Handle(p, t) \/ PollHangs(p, t) \/ StatementFails(p, t)
      PROVE  Inv'
  BY <1>4, HandleHeldKeepsInv, RefundKeepsInv, SettleKeepsInv DEF Handle, StatementFails
<1>5. CASE UNCHANGED vars
  <2>1. ASSUME NEW t \in Tasks
        PROVE  TaskOK(t)'
    <3>1. TaskOK(t)
      BY DEF Inv
    <3> QED
      BY <1>5, <3>1
         DEF vars, TaskOK, Guarded, Billing, JobFits, JobExact, RowFits, RowExact
  <2> QED
    BY <1>5, <2>1 DEF Inv, vars, TypeOK, IdleHoldsNone
<1> QED
  BY <1>1, <1>2, <1>3, <1>4, <1>5 DEF Next

LEMMA InvAlways == Spec => []Inv
BY InvInit, InvInductive, PTL DEF Spec

-----------------------------------------------------------------------------
(* Theorems.                                                               *)

\* Rows, working copies and books keep their types.
THEOREM TypeCorrect == Spec => []TypeOK
<1>1. Inv => TypeOK
  BY DEF Inv
<1> QED
  BY <1>1, InvAlways, PTL

\* Winning the conditional UPDATE (UpdateWithStatus) gives at most one poller the
\* right to refund or settle a task, however many passes overlap or die.
THEOREM BilledByOne == Spec => []OneBiller
<1>1. Inv => OneBiller
  BY DEF Inv, TaskOK, OneBiller
<1> QED
  BY <1>1, InvAlways, PTL

\* RefundTaskQuota clears the quota column last: a row whose charge is marked as
\* given back was given it back, whatever failed or died in between.
THEOREM ClearedIsRefunded == Spec => []ClearedMeansRefunded
<1>1. Inv => ClearedMeansRefunded
  <2> SUFFICES ASSUME Inv, NEW t \in Tasks, Guarded(t), row[t].time # "legacy",
                      row[t].quota = 0
               PROVE  books[t].fund = 0
    BY DEF ClearedMeansRefunded
  <2>1. RowFits(row[t], books[t]) /\ row[t] \in Row
    BY DEF Inv, TaskOK, TypeOK
  <2>2. row[t].status \in {"absent"} \cup Unfinished \cup Terminal
    BY <2>1 DEF Row
  <2>3. 0 # Charge /\ 0 \notin Actuals
    BY TaskPollingAssumption
  <2> QED
    BY <2>1, <2>2, <2>3 DEF RowFits, Terminal
<1> QED
  BY <1>1, InvAlways, PTL

\* Without faults the row, the funding source, the token and the statistics
\* show the same amount whenever nobody is billing the task.
THEOREM BooksBalance == Spec => []BooksAgree
<1>1. Inv => BooksAgree
  <2> SUFFICES ASSUME Inv, NEW t \in Tasks, Guarded(t), faults = 0,
                      \A p \in Pollers : ~Billing(p, t),
                      ~(row[t].time = "legacy" /\ row[t].status = "FAILURE")
               PROVE  books[t] = [fund |-> row[t].quota, token |-> row[t].quota,
                                  used |-> row[t].quota]
    BY DEF BooksAgree
  <2>1. books[t].fund = row[t].quota /\ books[t].token = row[t].quota
        /\ books[t].used = row[t].quota
    BY DEF Inv, TaskOK, RowExact
  <2>2. books[t] \in [fund : Int, token : Int, used : Int]
    BY DEF Inv, TypeOK
  <2> QED
    BY <2>1, <2>2
<1> QED
  BY <1>1, InvAlways, PTL

\* No step, of a poller or of anybody else, moves a row out of a final status, the
\* writes by id and the GETs of Gemini rows aside, which enter exempt as they do.
THEOREM FinalStatusStays == Spec => TerminalIsFinal
<1> DEFINE Final == \A t \in Tasks : Guarded(t)' /\ row[t].status \in Terminal
                                         => row'[t].status = row[t].status
<1>1. ASSUME Inv, [Next]_vars
      PROVE  [Final]_vars
  <2> SUFFICES ASSUME NEW t \in Tasks, Guarded(t)', row[t].status \in Terminal
               PROVE  row'[t].status = row[t].status
    OBVIOUS
  <2>e. exempt \subseteq exempt'
    <3>1. ASSUME NEW u \in Tasks,
                 \/ InsertTask(u) \/ InsertUnsettled(u) \/ Age(u)
                 \/ FetchRead(u) \/ FetchWrite(u) \/ FetchSkips(u)
          PROVE  exempt \subseteq exempt'
      BY <3>1 DEF InsertTask, InsertUnsettled, Age, FetchRead, FetchWrite, FetchSkips
    <3>2. ASSUME NEW p \in Pollers, Pass(p) \/ Crash(p)
          PROVE  exempt \subseteq exempt'
      BY <3>2 DEF Pass, SweepRead, PollRead, PollEnd, Crash
    <3>3. ASSUME NEW p \in Pollers, NEW u \in Tasks, Refund(p, u) \/ Settle(p, u)
          PROVE  exempt \subseteq exempt'
      BY <3>3 DEF Refund, Settle, RefundFunding, RefundToken, RefundUsed, RefundClear,
                  SettleFunding, SettleToken, SettleQuota, SettleUsed
    <3>4. ASSUME NEW p \in Pollers, NEW u \in Tasks, StatementFails(p, u)
          PROVE  exempt \subseteq exempt'
      BY <3>4 DEF StatementFails, SweepWriteFails, RefundFundingFails, RefundStepFails,
                  SettleFundingFails, SettleStepFails
    <3>5. ASSUME NEW p \in Pollers, NEW u \in Tasks,
                 \/ SweepWrite(p, u) \/ VideoChannelMissing(p, u) \/ SunoChannelMissing(p, u)
                 \/ PollSkips(p, u) \/ PollHangs(p, u) \/ PollProgress(p, u)
                 \/ PollFailure(p, u) \/ SunoSuccess(p, u) \/ VideoSuccess(p, u)
          PROVE  exempt \subseteq exempt'
      BY <3>5 DEF SweepWrite, VideoChannelMissing, SunoChannelMissing, FailById, PollSkips,
                  PollHangs, PollProgress, PollFailure, SunoSuccess, VideoSuccess
    <3>6. CASE UNCHANGED vars
      BY <3>6 DEF vars
    <3> QED
      BY <1>1, <3>1, <3>2, <3>3, <3>4, <3>5, <3>6 DEF Next, Handle
  <2>g. Guarded(t)
    BY <2>e, GuardedBefore
  <2>t. TypeOK /\ row \in [Tasks -> Row]
    BY <1>1 DEF Inv, TypeOK
  <2>u. row[t].status \notin Unfinished /\ row[t].status # "absent"
    BY DEF Terminal, Unfinished
  \* A copy that a poller holds does not match the row.
  <2>1. ASSUME NEW p \in Pollers, NEW u \in Tasks, work[p][u].pc = "held", NEW r,
               UpdateWithStatus(u, work[p][u].status, r)
        PROVE  row'[t].status = row[t].status
    <3>1. CASE u = t
      <4>1. JobFits(work[p][t], row[t], books[t])
        BY <1>1, <2>g DEF Inv, TaskOK
      <4>2. ~Matches(t, work[p][t].status)
        BY <2>u, <2>1, <3>1, <4>1 DEF JobFits, Matches
      <4> QED
        BY <2>t, <2>1, <3>1, <4>2 DEF UpdateWithStatus
    <3>2. CASE u # t
      BY <2>t, <2>1, <3>2 DEF UpdateWithStatus
    <3> QED
      BY <3>1, <3>2
  <2>2. ASSUME NEW p \in Pollers, NEW u \in Tasks, SweepWrite(p, u) \/ PollProgress(p, u)
               \/ PollFailure(p, u) \/ SunoSuccess(p, u) \/ VideoSuccess(p, u)
        PROVE  row'[t].status = row[t].status
    <3>1. /\ work[p][u].pc = "held"
          /\ \E r : UpdateWithStatus(u, work[p][u].status, r)
      BY <2>2 DEF SweepWrite, PollProgress, PollFailure, SunoSuccess, VideoSuccess, Polls
    <3> QED
      BY <2>1, <3>1
  <2>3. ASSUME NEW p \in Pollers, NEW u \in Tasks,
               VideoChannelMissing(p, u) \/ SunoChannelMissing(p, u)
        PROVE  row'[t].status = row[t].status
    <3>1. u \in exempt' /\ TaskBulkUpdateByID(u)
      BY <2>3 DEF VideoChannelMissing, SunoChannelMissing, FailById
    <3>2. u # t
      BY <3>1 DEF Guarded
    <3> QED
      BY <2>t, <3>1, <3>2 DEF TaskBulkUpdateByID
  <2>4. ASSUME NEW u \in Tasks, FetchWrite(u)
        PROVE  row'[t].status = row[t].status
    <3>1. CASE u = t
      <4>1. ~Matches(t, fetch[t].status)
        BY <2>4, <3>1 DEF FetchWrite, Guarded
      <4> QED
        BY <2>t, <2>4, <3>1, <4>1 DEF FetchWrite, UpdateWithStatus
    <3>2. CASE u # t
      BY <2>t, <2>4, <3>2 DEF FetchWrite, UpdateWithStatus
    <3> QED
      BY <3>1, <3>2
  <2>5. ASSUME NEW u \in Tasks, InsertTask(u) \/ InsertUnsettled(u) \/ Age(u)
        PROVE  row'[t].status = row[t].status
    <3>1. CASE InsertTask(u) \/ InsertUnsettled(u)
      <4>1. InsertRow(u) /\ u # t
        BY <2>u, <3>1 DEF InsertTask, InsertUnsettled, InsertRow
      <4> QED
        BY <2>t, <4>1 DEF InsertRow
    <3>2. CASE Age(u)
      BY <2>t, <3>2 DEF Age, Row
    <3> QED
      BY <2>5, <3>1, <3>2
  <2>6. ASSUME NEW p \in Pollers, NEW u \in Tasks, RefundClear(p, u) \/ SettleQuota(p, u)
        PROVE  row'[t].status = row[t].status
    BY <2>t, <2>6 DEF RefundClear, SettleQuota, Row
  <2>7. CASE row' = row
    BY <2>7
  <2> QED
    BY <1>1, <2>2, <2>3, <2>4, <2>5, <2>6, <2>7
       DEF Next, vars, PollHangs, FetchRead, FetchSkips, Pass, SweepRead, PollRead,
           PollEnd, Crash, Handle, PollSkips, Refund, Settle, RefundFunding, RefundToken,
           RefundUsed, SettleFunding, SettleToken, SettleUsed, StatementFails,
           SweepWriteFails, RefundFundingFails, RefundStepFails, SettleFundingFails,
           SettleStepFails
<1> QED
  BY <1>1, InvAlways, PTL DEF Spec, TerminalIsFinal

-----------------------------------------------------------------------------
(* The refinement of PaidTask.                                             *)

\* What a step may do to the promise made about one task.
PaidStep(t) ==
    \/ PaidStatus(t)' = PaidStatus(t) /\ PaidCharge(t)' = PaidCharge(t)
    \/ /\ PaidStatus(t) = "absent" /\ PaidStatus(t)' \in {"running", "SUCCESS"}
       /\ PaidCharge(t)' = Charge
    \/ /\ PaidStatus(t) = "running" /\ PaidStatus(t)' \in {"SUCCESS", "FAILURE"}
       /\ PaidCharge(t)' = PaidCharge(t)
    \/ /\ PaidStatus(t) = "FAILURE" /\ PaidStatus(t)' = PaidStatus(t)
       /\ PaidCharge(t) = Charge /\ PaidCharge(t)' = 0
    \/ /\ PaidStatus(t) = "SUCCESS" /\ PaidStatus(t)' = PaidStatus(t)
       /\ PaidCharge(t) = Charge /\ PaidCharge(t)' \in Actuals

\* Such a step with one task, while the others stay, is a step of PaidTask.
LEMMA PaidByOne ==
    ASSUME NEW t \in Tasks, PaidStep(t),
           \A u \in Tasks : u # t =>
               PaidStatus(u)' = PaidStatus(u) /\ PaidCharge(u)' = PaidCharge(u)
    PROVE  [Paid!Next]_(Paid!vars)
<1> DEFINE st == [u \in Tasks |-> PaidStatus(u)]
           ch == [u \in Tasks |-> PaidCharge(u)]
<1>1. st' = [st EXCEPT ![t] = PaidStatus(t)'] /\ ch' = [ch EXCEPT ![t] = PaidCharge(t)']
  OBVIOUS
<1>2. st[t] = PaidStatus(t) /\ ch[t] = PaidCharge(t)
  OBVIOUS
<1>3. st = [st EXCEPT ![t] = PaidStatus(t)] /\ ch = [ch EXCEPT ![t] = PaidCharge(t)]
  OBVIOUS
<1> HIDE DEF st, ch
<1>4. CASE PaidStatus(t)' = PaidStatus(t) /\ PaidCharge(t)' = PaidCharge(t)
  <2>1. st' = st /\ ch' = ch
    BY <1>1, <1>3, <1>4
  <2> QED
    BY <2>1 DEF Paid!vars, st, ch
<1>5. CASE /\ PaidStatus(t) = "absent" /\ PaidStatus(t)' \in {"running", "SUCCESS"}
           /\ PaidCharge(t)' = Charge
  <2>1. Paid!Submit(t)
    BY <1>1, <1>2, <1>5 DEF Paid!Submit, st, ch
  <2> QED
    BY <2>1 DEF Paid!Next
<1>6. CASE /\ PaidStatus(t) = "running" /\ PaidStatus(t)' \in {"SUCCESS", "FAILURE"}
           /\ PaidCharge(t)' = PaidCharge(t)
  <2>1. Paid!Finish(t)
    BY <1>1, <1>2, <1>3, <1>6 DEF Paid!Finish, st, ch
  <2> QED
    BY <2>1 DEF Paid!Next
<1>7. CASE /\ PaidStatus(t) = "FAILURE" /\ PaidStatus(t)' = PaidStatus(t)
           /\ PaidCharge(t) = Charge /\ PaidCharge(t)' = 0
  <2>1. Paid!Refund(t)
    BY <1>1, <1>2, <1>3, <1>7 DEF Paid!Refund, st, ch
  <2> QED
    BY <2>1 DEF Paid!Next
<1>8. CASE /\ PaidStatus(t) = "SUCCESS" /\ PaidStatus(t)' = PaidStatus(t)
           /\ PaidCharge(t) = Charge /\ PaidCharge(t)' \in Actuals
  <2>1. Paid!Settle(t)
    BY <1>1, <1>2, <1>3, <1>8 DEF Paid!Settle, st, ch
  <2> QED
    BY <2>1 DEF Paid!Next
<1> QED
  BY <1>4, <1>5, <1>6, <1>7, <1>8 DEF PaidStep

\* A task that a step does not touch, and one it may.
LEMMA PaidSame ==
    ASSUME UNCHANGED exempt, NEW t \in Tasks
    PROVE  /\ Guarded(t)' = Guarded(t)
           /\ row'[t].status = row[t].status => PaidStatus(t)' = PaidStatus(t)
           /\ books'[t].fund = books[t].fund => PaidCharge(t)' = PaidCharge(t)
<1>1. Guarded(t)' = Guarded(t)
  BY DEF Guarded
<1> QED
  BY <1>1 DEF PaidStatus, PaidCharge

\* The step of a poller with task t.
LEMMA PaidByPoller ==
    ASSUME UNCHANGED exempt, NEW t \in Tasks,
           \A u \in Tasks : u # t =>
               row'[u].status = row[u].status /\ books'[u].fund = books[u].fund,
           Guarded(t) => PaidStep(t)
    PROVE  [Paid!Next]_(Paid!vars)
<1>1. \A u \in Tasks : u # t =>
         PaidStatus(u)' = PaidStatus(u) /\ PaidCharge(u)' = PaidCharge(u)
  BY PaidSame
<1>2. PaidStep(t)
  <2>1. CASE ~Guarded(t)
    <3>1. ~Guarded(t)'
      BY <2>1, PaidSame
    <3> QED
      BY <2>1, <3>1 DEF PaidStep, PaidStatus, PaidCharge
  <2> QED
    BY <2>1
<1> QED
  BY <1>1, <1>2, PaidByOne

\* The tasks that keep their guard stay as they are.
LEMMA PaidReleased ==
    ASSUME exempt \subseteq exempt',
           \A u \in Tasks : Guarded(u)' =>
               row'[u].status = row[u].status /\ books'[u].fund = books[u].fund
    PROVE  [Paid!Next]_(Paid!vars)
<1> DEFINE S == {u \in Tasks : ~Guarded(u)'}
<1>1. ASSUME NEW u \in Tasks, u \in S
      PROVE  PaidStatus(u)' = "released" /\ PaidCharge(u)' = 0
  BY <1>1 DEF PaidStatus, PaidCharge
<1>2. ASSUME NEW u \in Tasks, u \notin S
      PROVE  PaidStatus(u)' = PaidStatus(u) /\ PaidCharge(u)' = PaidCharge(u)
  <2>1. Guarded(u)' /\ Guarded(u)
    BY <1>2, GuardedBefore
  <2> QED
    BY <2>1 DEF PaidStatus, PaidCharge
<1>3. S \in SUBSET Tasks
  OBVIOUS
<1> HIDE DEF S
<1>4. Paid!Release(S)
  BY <1>1, <1>2 DEF Paid!Release
<1> QED
  BY <1>3, <1>4 DEF Paid!Next

\* A poller writes its copy: the task ends, goes on, or has been moved by another.
LEMMA PaidWrite ==
    ASSUME Inv, NEW p \in Pollers, NEW t \in Tasks, work[p][t].pc = "held",
           NEW r, r.status \in Unfinished \cup Terminal,
           UpdateWithStatus(t, work[p][t].status, r), UNCHANGED <<books, exempt>>
    PROVE  [Paid!Next]_(Paid!vars)
<1>1. row \in [Tasks -> Row]
  BY DEF Inv, TypeOK
<1>2. /\ Matches(t, work[p][t].status) => row'[t].status = r.status
      /\ ~Matches(t, work[p][t].status) => row'[t] = row[t]
      /\ \A u \in Tasks : u # t => row'[u] = row[u]
  BY <1>1 DEF UpdateWithStatus
<1>3. ASSUME Guarded(t) PROVE PaidStep(t)
  <2>1. Guarded(t)' /\ PaidCharge(t)' = PaidCharge(t)
    BY <1>2, <1>3, PaidSame
  <2>2. CASE ~Matches(t, work[p][t].status)
    BY <1>2, <2>1, <2>2, PaidSame DEF PaidStep
  <2>3. CASE Matches(t, work[p][t].status)
    <3>1. row[t].status \in Unfinished /\ row'[t].status = r.status
      BY <1>2, <1>3, <2>3, WinnerFindsCharge
    <3>2. PaidStatus(t) = "running"
      BY <1>3, <3>1 DEF PaidStatus
    <3>3. PaidStatus(t)' \in {"running", "SUCCESS", "FAILURE"}
      BY <2>1, <3>1 DEF PaidStatus, Terminal
    <3> QED
      BY <2>1, <3>2, <3>3 DEF PaidStep
  <2> QED
    BY <2>2, <2>3
<1> QED
  BY <1>2, <1>3, PaidByPoller

\* The steps of a poller that holds a row it has not billed.
LEMMA PaidHandled ==
    ASSUME Inv, NEW p \in Pollers, NEW t \in Tasks,
           \/ SweepWrite(p, t) \/ PollProgress(p, t) \/ PollFailure(p, t)
           \/ SunoSuccess(p, t) \/ VideoSuccess(p, t)
           \/ VideoChannelMissing(p, t) \/ SunoChannelMissing(p, t)
    PROVE  [Paid!Next]_(Paid!vars)
<1>t. row \in [Tasks -> Row]
  BY DEF Inv, TypeOK
<1>1. CASE SweepWrite(p, t)
  <2>1. PICK q : UpdateWithStatus(t, work[p][t].status,
                                  Written(t, "FAILURE", q, TRUE, work[p][t].time))
    BY <1>1 DEF SweepWrite
  <2>2. Written(t, "FAILURE", q, TRUE, work[p][t].time).status \in Unfinished \cup Terminal
    BY DEF Written, Terminal
  <2>3. work[p][t].pc = "held" /\ UNCHANGED <<books, exempt>>
    BY <1>1 DEF SweepWrite
  <2> QED
    BY <2>1, <2>2, <2>3, PaidWrite
<1>2. CASE PollProgress(p, t) \/ PollFailure(p, t) \/ SunoSuccess(p, t) \/ VideoSuccess(p, t)
  <2>0. PICK s \in Unfinished \cup Terminal :
             \E r \in Answered(p, t, s) : UpdateWithStatus(t, work[p][t].status, r)
    <3>1. CASE PollProgress(p, t)
      BY <3>1 DEF PollProgress, Unfinished
    <3>2. CASE PollFailure(p, t)
      BY <3>2 DEF PollFailure, Terminal
    <3>3. CASE SunoSuccess(p, t) \/ VideoSuccess(p, t)
      BY <3>3 DEF SunoSuccess, VideoSuccess, Terminal
    <3> QED
      BY <1>2, <3>1, <3>2, <3>3
  <2>1. PICK r \in Answered(p, t, s) : UpdateWithStatus(t, work[p][t].status, r)
    BY <2>0
  <2>2. r.status = s
    BY DEF Answered, Written
  <2>3. work[p][t].pc = "held" /\ UNCHANGED <<books, exempt>>
    BY <1>2 DEF PollProgress, PollFailure, SunoSuccess, VideoSuccess, Polls
  <2> QED
    BY <2>1, <2>2, <2>3, PaidWrite
<1>3. CASE VideoChannelMissing(p, t) \/ SunoChannelMissing(p, t)
  <2>1. TaskBulkUpdateByID(t) /\ books' = books /\ exempt' = exempt \cup {t}
    BY <1>3 DEF VideoChannelMissing, SunoChannelMissing, FailById
  <2>2. \A u \in Tasks : u # t => row'[u] = row[u]
    BY <1>t, <2>1 DEF TaskBulkUpdateByID
  <2> QED
    BY <2>1, <2>2, PaidReleased DEF Guarded
<1> QED
  BY <1>1, <1>2, <1>3

\* The steps of a poller that bills: only the funding source is money paid.
LEMMA PaidBilled ==
    ASSUME Inv, NEW p \in Pollers, NEW t \in Tasks, Refund(p, t) \/ Settle(p, t)
    PROVE  [Paid!Next]_(Paid!vars)
<1>t. /\ TypeOK /\ row \in [Tasks -> Row] /\ work[p][t].quota \in Int /\ work[p][t].to \in Int
      /\ Charge \in Int /\ UNCHANGED exempt
  <2>1. TypeOK
    BY DEF Inv
  <2>2. Quotas \subseteq Int /\ Charge \in Int
    BY TaskPollingAssumption DEF Quotas
  <2>3. work[p][t] \in Job
    BY <2>1 DEF TypeOK
  <2>4. UNCHANGED exempt
    BY DEF Refund, Settle, RefundFunding, RefundToken, RefundUsed, RefundClear,
           SettleFunding, SettleToken, SettleQuota, SettleUsed
  <2> QED
    BY <2>1, <2>2, <2>3, <2>4 DEF TypeOK, Job
<1>d. -work[p][t].quota \in Int /\ Delta(p, t) \in Int
  BY <1>t DEF Delta
<1>1. CASE RefundFunding(p, t)
  <2>1. /\ books'[t].fund = books[t].fund + -work[p][t].quota /\ row' = row
        /\ \A u \in Tasks : u # t => books'[u] = books[u]
    BY <1>t, <1>d, <1>1, AdjustAt DEF RefundFunding
  <2>2. ASSUME Guarded(t) PROVE PaidStep(t)
    <3>1. row[t].status = "FAILURE" /\ books[t].fund = Charge /\ work[p][t].quota = Charge
      BY <1>1, <2>2, BillerKnows DEF RefundFunding, JobFits, Refunding
    <3>2. books'[t].fund = 0
      BY <1>t, <2>1, <3>1
    <3>3. Guarded(t)' /\ PaidStatus(t)' = PaidStatus(t)
      BY <1>t, <2>1, <2>2, PaidSame
    <3>4. PaidStatus(t) = "FAILURE" /\ PaidCharge(t) = Charge /\ PaidCharge(t)' = 0
      BY <2>2, <3>1, <3>2, <3>3 DEF PaidStatus, PaidCharge, Unfinished
    <3> QED
      BY <3>3, <3>4 DEF PaidStep
  <2> QED
    BY <1>t, <2>1, <2>2, PaidByPoller
<1>2. CASE SettleFunding(p, t)
  <2>1. /\ books'[t].fund = books[t].fund + Delta(p, t) /\ row' = row
        /\ \A u \in Tasks : u # t => books'[u] = books[u]
    BY <1>t, <1>d, <1>2, AdjustAt DEF SettleFunding
  <2>2. ASSUME Guarded(t) PROVE PaidStep(t)
    <3>1. /\ row[t].status = "SUCCESS" /\ books[t].fund = Charge
          /\ work[p][t].quota = Charge /\ work[p][t].to \in Actuals
      BY <1>2, <2>2, BillerKnows DEF SettleFunding, JobFits, Settling
    <3>2. books'[t].fund = work[p][t].to
      BY <1>t, <2>1, <3>1 DEF Delta
    <3>3. Guarded(t)' /\ PaidStatus(t)' = PaidStatus(t)
      BY <1>t, <2>1, <2>2, PaidSame
    <3>4. PaidStatus(t) = "SUCCESS" /\ PaidCharge(t) = Charge /\ PaidCharge(t)' \in Actuals
      BY <2>2, <3>1, <3>2, <3>3 DEF PaidStatus, PaidCharge, Unfinished
    <3> QED
      BY <3>3, <3>4 DEF PaidStep
  <2> QED
    BY <1>t, <2>1, <2>2, PaidByPoller
<1>3. ASSUME \A u \in Tasks : /\ row'[u].status = row[u].status
                              /\ books'[u].fund = books[u].fund
      PROVE  [Paid!Next]_(Paid!vars)
  <2>1. PaidStep(t)
    BY <1>t, <1>3, PaidSame DEF PaidStep
  <2> QED
    BY <1>t, <1>3, <2>1, PaidByPoller
<1>4. CASE RefundToken(p, t) \/ RefundUsed(p, t) \/ SettleToken(p, t) \/ SettleUsed(p, t)
  <2>1. /\ row' = row
        /\ books'[t].fund = books[t].fund
        /\ \A u \in Tasks : u # t => books'[u] = books[u]
    BY <1>t, <1>d, <1>4, AdjustAt DEF RefundToken, RefundUsed, SettleToken, SettleUsed
  <2> QED
    BY <1>3, <2>1
<1>5. CASE RefundClear(p, t) \/ SettleQuota(p, t)
  <2>1. /\ books' = books
        /\ \A u \in Tasks : row'[u].status = row[u].status
    BY <1>t, <1>5 DEF RefundClear, SettleQuota, Row
  <2> QED
    BY <1>3, <2>1
<1> QED
  BY <1>1, <1>2, <1>4, <1>5 DEF Refund, Settle

\* The submission of a task.
LEMMA PaidSubmitted ==
    ASSUME Inv, NEW t \in Tasks, InsertTask(t)
    PROVE  [Paid!Next]_(Paid!vars)
<1>t. row \in [Tasks -> Row] /\ books \in [Tasks -> Books]
  BY DEF Inv, TypeOK, Books
<1>1. /\ row[t].status = "absent" /\ row'[t].status \in {"NOT_START", "SUCCESS"}
      /\ \A u \in Tasks : u # t => row'[u] = row[u]
  BY <1>t DEF InsertTask, InsertRow, Row
<1>2. /\ books'[t].fund = Charge /\ UNCHANGED exempt
      /\ \A u \in Tasks : u # t => books'[u] = books[u]
  BY <1>t DEF InsertTask
<1>3. ASSUME Guarded(t) PROVE PaidStep(t)
  <2>1. Guarded(t)'
    BY <1>2, <1>3, PaidSame
  <2>2. PaidStatus(t) = "absent" /\ PaidStatus(t)' \in {"running", "SUCCESS"}
    BY <1>1, <1>3, <2>1 DEF PaidStatus, Unfinished
  <2>3. PaidCharge(t)' = Charge
    BY <1>2, <2>1 DEF PaidCharge
  <2> QED
    BY <2>2, <2>3 DEF PaidStep
<1> QED
  BY <1>1, <1>2, <1>3, PaidByPoller

\* A submission that was not settled, and the write of a GET, are exceptions.
LEMMA PaidOutside ==
    ASSUME Inv, NEW t \in Tasks, InsertUnsettled(t) \/ FetchWrite(t) \/ Age(t)
    PROVE  [Paid!Next]_(Paid!vars)
<1>t. row \in [Tasks -> Row] /\ books \in [Tasks -> Books]
  BY DEF Inv, TypeOK, Books
<1>1. CASE InsertUnsettled(t)
  <2>1. /\ exempt' = exempt \cup {t}
        /\ \A u \in Tasks : u # t => row'[u] = row[u] /\ books'[u] = books[u]
    BY <1>t, <1>1 DEF InsertUnsettled, InsertRow
  <2> QED
    BY <2>1, PaidReleased DEF Guarded
<1>2. CASE FetchWrite(t)
  <2>1. exempt \subseteq exempt' /\ books' = books
    BY <1>2 DEF FetchWrite
  <2>2. /\ row'[t] = row[t] \/ t \in exempt'
        /\ \A u \in Tasks : u # t => row'[u] = row[u]
    BY <1>t, <1>2 DEF FetchWrite, UpdateWithStatus
  <2> QED
    BY <2>1, <2>2, PaidReleased DEF Guarded
<1>3. CASE Age(t)
  <2>1. exempt' = exempt /\ books' = books /\ \A u \in Tasks : row'[u].status = row[u].status
    BY <1>t, <1>3 DEF Age, Row
  <2> QED
    BY <2>1, PaidReleased
<1> QED
  BY <1>1, <1>2, <1>3

LEMMA StepIsPaid ==
    ASSUME Inv, [Next]_vars
    PROVE  [Paid!Next]_(Paid!vars)
<1>1. CASE UNCHANGED <<row, books, exempt>>
  BY <1>1, PaidReleased
<1>2. ASSUME NEW t \in Tasks, FetchRead(t) \/ FetchSkips(t)
      PROVE  UNCHANGED <<row, books, exempt>>
  BY <1>2 DEF FetchRead, FetchSkips
<1>3. ASSUME NEW p \in Pollers, Pass(p) \/ Crash(p)
      PROVE  UNCHANGED <<row, books, exempt>>
  BY <1>3 DEF Pass, SweepRead, PollRead, PollEnd, Crash
<1>4. ASSUME NEW p \in Pollers, NEW t \in Tasks,
             PollSkips(p, t) \/ PollHangs(p, t) \/ StatementFails(p, t)
      PROVE  UNCHANGED <<row, books, exempt>>
  BY <1>4 DEF PollSkips, PollHangs, StatementFails, SweepWriteFails, RefundFundingFails,
              RefundStepFails, SettleFundingFails, SettleStepFails
<1>5. CASE UNCHANGED vars
  BY <1>1, <1>5 DEF vars
<1> QED
  BY <1>1, <1>2, <1>3, <1>4, <1>5, PaidHandled, PaidBilled, PaidSubmitted, PaidOutside
     DEF Next, Handle

\* The rows, the four writes of a refund or settlement and any number of pollers
\* that overlap, fail and die implement PaidTask: unless it is failed by its id,
\* a GET writes its row or its submission was not settled, a task is charged once, ends once, and its charge is then
\* given back or corrected at most once (RefundTaskQuota, RecalculateTaskQuota).
THEOREM TasksArePaidFor == Spec => IsPaidTask
<1>1. Init => Paid!Init
  <2> SUFFICES ASSUME Init PROVE Paid!Init
    OBVIOUS
  <2>1. ASSUME NEW t \in Tasks PROVE PaidStatus(t) = "absent" /\ PaidCharge(t) = 0
    <3>1. row[t].status = "absent" /\ books[t].fund = 0 /\ Guarded(t)
      BY DEF Init, Guarded
    <3> QED
      BY <3>1 DEF PaidStatus, PaidCharge, Unfinished
  <2> QED
    BY <2>1 DEF Paid!Init
<1>2. Inv /\ [Next]_vars => [Paid!Next]_(Paid!vars)
  BY StepIsPaid
<1> QED
  BY <1>1, <1>2, InvAlways, PTL DEF Spec, IsPaidTask, Paid!Spec
==============================================================================
