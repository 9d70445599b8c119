--------------------------- MODULE TaskSubmission ---------------------------
(***************************************************************************)
(* Idempotent submission of a paid (Wan video) task: a client key is       *)
(* reserved in task_submissions before the paid request is sent to the     *)
(* provider, so that a repeated, concurrent or interrupted submission      *)
(* never pays twice.  middleware/task_submission.go reserves and finishes, *)
(* controller/relay.go (RelayTask) and relay/relay_task.go                 *)
(* (RelayTaskSubmit) charge, dispatch, settle and insert the task, and     *)
(* model/task_submission.go holds the statements.  The provider is         *)
(* external.  Every transaction is one step.                               *)
(***************************************************************************)
EXTENDS Integers, FiniteSets

CONSTANTS
    Keys,       \* client keys (of one user and token)
    Requests,   \* POSTs by clients; one is never reused
    Bodies,     \* request bodies, told apart by their fingerprint
    MaxFaults   \* bound: crashes and failed statements, together

ASSUME TaskSubmissionAssumption == MaxFaults \in Nat /\ "none" \notin Requests

VARIABLES
    sub,      \* key -> [status, body, owner, dispatched, aged]: task_submissions
    tasks,    \* keys whose submission has a row in tasks
    req,      \* request -> [pc, key, body, told] and the flags of its gin context
    charge,   \* request -> what its BillingSession has done
    posts,    \* key -> paid requests sent to the provider
    jobs,     \* key -> jobs the provider has accepted
    faults    \* faults so far

vars == <<sub, tasks, req, charge, posts, jobs, faults>>

-----------------------------------------------------------------------------
NoRequest == "none"

Statuses == {"submitting", "failed", "unknown", "accepted"}

Final == {"failed", "accepted"}

NoSub == [status |-> "absent", body |-> "none", owner |-> NoRequest,
          dispatched |-> FALSE, aged |-> FALSE]

\* Where a request stands between two statements.
Phases == {"new", "insert", "lookup", "charge", "dispatch", "post",
           "settle", "insertTask", "refund", "finish", "done", "dead"}

Submission == [status : {"absent"} \cup Statuses, body : Bodies \cup {"none"},
               owner : Requests \cup {NoRequest}, dispatched : BOOLEAN, aged : BOOLEAN]

\* told: what the client has been told.  dispatched, uncertain, definite: the
\* task_submission_* flags of the gin context.
Request == [pc : Phases, key : Keys, body : Bodies, told : {"none", "conflict"} \cup Statuses,
            dispatched : BOOLEAN, uncertain : BOOLEAN, definite : BOOLEAN]

\* The type invariant: rows, requests, charges and counters hold values of their types.
TypeOK ==
    /\ sub \in [Keys -> Submission]
    /\ tasks \subseteq Keys
    /\ req \in [Requests -> Request]
    /\ charge \in [Requests -> {"none", "reserved", "settled", "refunded"}]
    /\ posts \in [Keys -> Nat]
    /\ jobs \in [Keys -> Nat]
    /\ faults \in 0 .. MaxFaults

\* Each request carries some key and some body.
Init ==
    /\ sub = [k \in Keys |-> NoSub]
    /\ tasks = {}
    /\ req \in [Requests -> {[pc |-> "new", key |-> k, body |-> b, told |-> "none",
                              dispatched |-> FALSE, uncertain |-> FALSE, definite |-> FALSE] :
                                k \in Keys, b \in Bodies}]
    /\ charge = [r \in Requests |-> "none"]
    /\ posts = [k \in Keys |-> 0]
    /\ jobs = [k \in Keys |-> 0]
    /\ faults = 0

Fault ==
    /\ faults < MaxFaults
    /\ faults' = faults + 1

Goto(r, pc) == req' = [req EXCEPT ![r].pc = pc]

Answer(r, told) == req' = [req EXCEPT ![r].pc = "done", ![r].told = told]

KeyOf(r) == req[r].key

SubOf(r) == sub[req[r].key]

-----------------------------------------------------------------------------
(* ReserveTaskSubmission and GetTaskSubmission.                            *)

Arrive(r) ==
    /\ req[r].pc = "new"
    /\ Goto(r, "insert")
    /\ UNCHANGED <<sub, tasks, charge, posts, jobs, faults>>

\* Variant: the candidate is inserted without a status.
CandidateNoStatus(r) == [status |-> "none", body |-> req[r].body, owner |-> r,
                         dispatched |-> FALSE, aged |-> FALSE]

\* The candidate row; its random TaskID tells whose row it is.
Candidate(r) == [status |-> "submitting", body |-> req[r].body, owner |-> r,
                 dispatched |-> FALSE, aged |-> FALSE]

Reserved(r) == sub' = [sub EXCEPT ![KeyOf(r)] = Candidate(r)]

\* INSERT ... ON CONFLICT DO NOTHING.
ReserveInsert(r) ==
    /\ req[r].pc = "insert"
    /\ IF SubOf(r) = NoSub THEN Reserved(r) ELSE UNCHANGED sub
    /\ Goto(r, "lookup")
    /\ UNCHANGED <<tasks, charge, posts, jobs, faults>>

\* What GetTaskSubmission returns: a reservation older than 600 s is unknown.
ReadStatus(k) ==
    IF sub[k].status = "submitting" /\ sub[k].aged THEN "unknown" ELSE sub[k].status

\* Variant: a request that finds an aged reservation takes it over.
LookupAdoptsAged(r) ==
    /\ req[r].pc = "lookup"
    /\ IF SubOf(r).body # req[r].body THEN Answer(r, "conflict")
       ELSE IF SubOf(r).owner = r \/ ReadStatus(KeyOf(r)) = "unknown" THEN Goto(r, "charge")
       ELSE Answer(r, ReadStatus(KeyOf(r)))
    /\ UNCHANGED <<sub, tasks, charge, posts, jobs, faults>>

\* The row is read back: another body is a conflict, another owner gets the
\* state of the submission, the owner goes on.
ReserveLookup(r) ==
    /\ req[r].pc = "lookup"
    /\ IF SubOf(r).body # req[r].body THEN Answer(r, "conflict")
       ELSE IF SubOf(r).owner = r THEN Goto(r, "charge")
       ELSE Answer(r, ReadStatus(KeyOf(r)))
    /\ UNCHANGED <<sub, tasks, charge, posts, jobs, faults>>

\* A statement fails; the INSERT may have been committed all the same.
ReserveFails(r) ==
    /\ req[r].pc \in {"insert", "lookup"}
    /\ Fault
    /\ \/ UNCHANGED sub
       \/ req[r].pc = "insert" /\ SubOf(r) = NoSub /\ Reserved(r)
    /\ Goto(r, "done")
    /\ UNCHANGED <<tasks, charge, posts, jobs>>

\* GET task-submissions/:client_key returns ReadStatus; created_at ages.
Age(k) ==
    /\ sub[k].status = "submitting"
    /\ ~sub[k].aged
    /\ sub' = [sub EXCEPT ![k].aged = TRUE]
    /\ UNCHANGED <<tasks, req, charge, posts, jobs, faults>>

-----------------------------------------------------------------------------
(* RelayTaskSubmit.                                                        *)

\* PreConsumeBilling (the price and the channel are settled before it); a free
\* model has no BillingSession.
PreConsume(r) ==
    /\ req[r].pc = "charge"
    /\ \E c \in {"reserved", "none"} : charge' = [charge EXCEPT ![r] = c]
    /\ Goto(r, "dispatch")
    /\ UNCHANGED <<sub, tasks, posts, jobs, faults>>

\* No channel, an invalid request or not enough quota: nothing was charged.
PreConsumeRefused(r) ==
    /\ req[r].pc = "charge"
    /\ Goto(r, "finish")
    /\ UNCHANGED <<sub, tasks, charge, posts, jobs, faults>>

\* BuildRequestBody fails: the charge is given back before anything was sent.
BuildRequestFails(r) ==
    /\ req[r].pc = "dispatch"
    /\ Goto(r, "refund")
    /\ UNCHANGED <<sub, tasks, charge, posts, jobs, faults>>

\* recordTaskSubmissionDispatch: only the first dispatch of a live reservation.
Dispatchable(r) == SubOf(r).status = "submitting" /\ ~SubOf(r).dispatched

MarkDispatched(r) == sub' = [sub EXCEPT ![KeyOf(r)].dispatched = TRUE]

PrepareTaskSubmissionDispatch(r) ==
    /\ req[r].pc = "dispatch"
    /\ IF Dispatchable(r)
       THEN /\ MarkDispatched(r)
            /\ req' = [req EXCEPT ![r].pc = "post",
                                  ![r].dispatched = TRUE, ![r].uncertain = TRUE]
       ELSE /\ UNCHANGED sub
            /\ Goto(r, "refund")
    /\ UNCHANGED <<tasks, charge, posts, jobs, faults>>

\* The transaction fails, or its outcome is lost after the commit.
PrepareFails(r) ==
    /\ req[r].pc = "dispatch"
    /\ Fault
    /\ UNCHANGED sub \/ (Dispatchable(r) /\ MarkDispatched(r))
    /\ Goto(r, "refund")
    /\ UNCHANGED <<tasks, charge, posts, jobs>>

\* DoRequest sends the paid POST; the provider may or may not accept a job.
Post(r, accepted) ==
    /\ req[r].pc = "post"
    /\ posts' = [posts EXCEPT ![KeyOf(r)] = @ + 1]
    /\ jobs' = [jobs EXCEPT ![KeyOf(r)] = IF accepted THEN @ + 1 ELSE @]
    /\ UNCHANGED <<sub, tasks, charge, faults>>

\* 2xx with a task id.
PostAccepted(r) ==
    /\ Post(r, TRUE)
    /\ req' = [req EXCEPT ![r].pc = "settle", ![r].uncertain = FALSE]

\* 4xx other than 408: the provider refused, nothing was started.
PostRejected(r) ==
    /\ Post(r, FALSE)
    /\ req' = [req EXCEPT ![r].pc = "refund", ![r].uncertain = FALSE, ![r].definite = TRUE]

\* Variant: an unanswered POST is sent again.
PostLostResent(r) ==
    /\ \E accepted \in BOOLEAN : Post(r, accepted)
    /\ posts[KeyOf(r)] < 2
    /\ UNCHANGED req

\* Transport error, 3xx, 408, 5xx or an unreadable answer: a job may have started.
\* shouldRetryTaskRelay never retries this route.
PostLost(r) ==
    /\ \E accepted \in BOOLEAN : Post(r, accepted)
    /\ Goto(r, "refund")

-----------------------------------------------------------------------------
(* The end of RelayTask and the middleware's deferred call.                *)

\* SettleBilling; an error of it is only logged.
Settle(r) ==
    /\ req[r].pc = "settle"
    /\ charge' = [charge EXCEPT ![r] = IF @ = "reserved" THEN "settled" ELSE @]
    /\ Goto(r, "insertTask")
    /\ UNCHANGED <<sub, tasks, posts, jobs, faults>>

SettleFails(r) ==
    /\ req[r].pc = "settle"
    /\ Fault
    /\ Goto(r, "insertTask")
    /\ UNCHANGED <<sub, tasks, charge, posts, jobs>>

\* Variant: the submission is accepted before and apart from the INSERT of the task.
AcceptBeforeInsert(r) ==
    /\ req[r].pc = "insertTask"
    /\ sub' = [sub EXCEPT ![KeyOf(r)].status = "accepted"]
    /\ tasks' = IF SubOf(r).status = "accepted" THEN tasks \cup {KeyOf(r)} ELSE tasks
    /\ Goto(r, IF SubOf(r).status = "accepted" THEN "finish" ELSE "insertTask")
    /\ UNCHANGED <<charge, posts, jobs, faults>>

\* InsertTaskForSubmission: the task and the acceptance in one transaction,
\* rolled back when the submission is already final.
InsertTaskForSubmission(r) ==
    /\ req[r].pc = "insertTask"
    /\ IF SubOf(r).status \in {"submitting", "unknown"}
       THEN /\ tasks' = tasks \cup {KeyOf(r)}
            /\ sub' = [sub EXCEPT ![KeyOf(r)].status = "accepted"]
       ELSE UNCHANGED <<tasks, sub>>
    /\ Goto(r, "finish")
    /\ UNCHANGED <<charge, posts, jobs, faults>>

InsertTaskFails(r) ==
    /\ req[r].pc = "insertTask"
    /\ Fault
    /\ Goto(r, "finish")
    /\ UNCHANGED <<sub, tasks, charge, posts, jobs>>

\* Variant: every failed submission is refunded.
RefundAlways(r) ==
    /\ req[r].pc = "refund"
    /\ charge' = [charge EXCEPT ![r] = IF @ = "reserved" THEN "refunded" ELSE @]
    /\ Goto(r, "finish")
    /\ UNCHANGED <<sub, tasks, posts, jobs, faults>>

\* The deferred Billing.Refund, unless the outcome at the provider is uncertain.
Refund(r) ==
    /\ req[r].pc = "refund"
    /\ charge' = [charge EXCEPT ![r] = IF @ = "reserved" /\ ~req[r].uncertain
                                       THEN "refunded" ELSE @]
    /\ Goto(r, "finish")
    /\ UNCHANGED <<sub, tasks, posts, jobs, faults>>

\* Variant: a dispatched submission may be reported as failed.
FinishAsFailed(r) == "failed"

\* FinishTaskSubmission: the status a reservation ends with.
FinishStatus(r) ==
    IF ~req[r].definite /\ (req[r].dispatched \/ SubOf(r).dispatched)
    THEN "unknown" ELSE "failed"

\* Variant: the status condition is missing.
FinishAnyStatus(r) ==
    /\ req[r].pc = "finish"
    /\ sub' = [sub EXCEPT ![KeyOf(r)].status = FinishStatus(r)]
    /\ Goto(r, "done")
    /\ UNCHANGED <<tasks, charge, posts, jobs, faults>>

FinishTaskSubmission(r) ==
    /\ req[r].pc = "finish"
    /\ sub' = [sub EXCEPT ![KeyOf(r)].status = IF @ = "submitting" THEN FinishStatus(r) ELSE @]
    /\ Goto(r, "done")
    /\ UNCHANGED <<tasks, charge, posts, jobs, faults>>

FinishFails(r) ==
    /\ req[r].pc = "finish"
    /\ Fault
    /\ Goto(r, "done")
    /\ UNCHANGED <<sub, tasks, charge, posts, jobs>>

\* The process dies between two statements; while it waits for the provider,
\* the POST may have been sent and a job may have been started.
Crash(r) ==
    /\ req[r].pc \notin {"new", "done", "dead"}
    /\ Fault
    /\ Goto(r, "dead")
    /\ \/ UNCHANGED <<posts, jobs>>
       \/ /\ req[r].pc = "post"
          /\ posts' = [posts EXCEPT ![KeyOf(r)] = @ + 1]
          /\ \E n \in {0, 1} : jobs' = [jobs EXCEPT ![KeyOf(r)] = @ + n]
    /\ UNCHANGED <<sub, tasks, charge>>

-----------------------------------------------------------------------------
\* One request's next step.
Step(r) ==
    \/ Arrive(r) \/ ReserveInsert(r) \/ ReserveLookup(r) \/ ReserveFails(r)
    \/ PreConsume(r) \/ PreConsumeRefused(r) \/ BuildRequestFails(r)
    \/ PrepareTaskSubmissionDispatch(r) \/ PrepareFails(r)
    \/ PostAccepted(r) \/ PostRejected(r) \/ PostLost(r)
    \/ Settle(r) \/ SettleFails(r) \/ InsertTaskForSubmission(r) \/ InsertTaskFails(r)
    \/ Refund(r) \/ FinishTaskSubmission(r) \/ FinishFails(r)
    \/ Crash(r)

Next == (\E r \in Requests : Step(r)) \/ (\E k \in Keys : Age(k))

Spec == Init /\ [][Next]_vars

-----------------------------------------------------------------------------
(* Properties.                                                             *)

\* "A crashed process must never make the reservation eligible for another paid
\* POST": however many requests carry a key, one POST is sent to the provider.
OnePaidPost == \A k \in Keys : posts[k] <= 1

\* "Task persistence and acceptance are atomic: lookup never advertises an absent
\* task" - and no task exists that a lookup does not find.
AcceptedHasTask == \A k \in Keys : sub[k].status = "accepted" <=> k \in tasks

\* A request whose charge was given back has not started, and will not start, a
\* job at the provider (the task_submission_uncertain flag).
RefundMeansNoJob == \A r \in Requests : charge[r] = "refunded" => jobs[KeyOf(r)] = 0

\* A client that was told its submission failed, and may submit again under a
\* new key, has no job running under the old one.
ToldFailedMeansNoJob == \A r \in Requests : req[r].told = "failed" => jobs[KeyOf(r)] = 0

\* A submission that failed or was accepted stays so, whatever arrives late.
FinalIsFinal ==
    [][\A k \in Keys : sub[k].status \in Final => sub'[k].status = sub[k].status]_vars

\* Only the request that reserved the key is ever charged for it.
OneCharge ==
    \A r, s \in Requests : /\ KeyOf(r) = KeyOf(s)
                           /\ charge[r] # "none"
                           /\ charge[s] # "none"
                         => r = s

=============================================================================
