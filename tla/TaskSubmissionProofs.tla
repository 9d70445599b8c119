------------------------ MODULE TaskSubmissionProofs ------------------------
(***************************************************************************)
(* Theorems about TaskSubmission, for every set of keys, requests and      *)
(* bodies and every number of faults: one paid POST and one charge per     *)
(* key, refunds only without a job, and acceptance exactly with a task.    *)
(***************************************************************************)
EXTENDS TaskSubmission, TLAPS

\* Phases of a request that has found itself to be the owner of its key.
Owning == {"charge", "dispatch", "post", "settle", "insertTask", "refund", "finish"}

Ended == {"finish", "done", "dead"}

\* What holds of a key: without a row it has no history, a POST is preceded by
\* the dispatch mark and a job by a POST, and a failed submission has no job.
KeyInv(k) ==
    /\ sub[k].status = "absent" => sub[k] = NoSub /\ posts[k] = 0
    /\ posts[k] <= 1
    /\ jobs[k] <= posts[k]
    /\ posts[k] # 0 => sub[k].dispatched
    /\ sub[k].status = "failed" => jobs[k] = 0
    /\ sub[k].status = "accepted" <=> k \in tasks

\* What holds of a request: only the owner of a key goes past the reservation
\* and is charged, and what it takes to have failed has no job.
ReqInv(r) ==
    LET k == KeyOf(r)
        own == sub[k].owner = r
    IN
    /\ req[r].pc \in {"new", "insert"} => ~own
    /\ req[r].pc \in Owning => own
    /\ charge[r] # "none" => own
    /\ req[r].definite => own /\ jobs[k] = 0 /\ req[r].pc \in Ended \cup {"refund"}
    /\ req[r].pc \in {"charge", "dispatch", "post"} => posts[k] = 0
    /\ req[r].pc = "lookup" => sub[k].status # "absent" /\ (own => posts[k] = 0)
    /\ req[r].pc = "post" => req[r].uncertain /\ sub[k].status = "submitting" /\ sub[k].dispatched
    /\ req[r].pc = "refund" /\ ~req[r].uncertain => jobs[k] = 0
    /\ charge[r] = "refunded" => jobs[k] = 0 /\ req[r].pc \in Ended
    /\ req[r].told = "failed" => sub[k].status = "failed"

Inv ==
    /\ TypeOK
    /\ \A k \in Keys : KeyInv(k)
    /\ \A r \in Requests : ReqInv(r)

\* What a step of r may do to the other keys and to the row of its own: the
\* others are left alone, its own is changed only by its owner or to own it.
Local(r, k) ==
    /\ \A s \in Requests \ {r} : req'[s] = req[s] /\ charge'[s] = charge[s]
    /\ req'[r].key = k
    /\ \A j \in Keys \ {k} : /\ sub'[j] = sub[j] /\ posts'[j] = posts[j] /\ jobs'[j] = jobs[j]
                             /\ j \in tasks' <=> j \in tasks
    /\ \/ sub'[k] = sub[k] /\ posts'[k] = posts[k] /\ jobs'[k] = jobs[k]
       \/ sub[k].owner \in {r, NoRequest} /\ sub'[k].owner = r
    /\ sub[k].status = "failed" => sub'[k].status = "failed"

-----------------------------------------------------------------------------
\* It is enough to look at the request that steps and at its key.
LEMMA LocalStep ==
    ASSUME Inv, TypeOK', NEW r \in Requests, NEW k \in Keys, k = KeyOf(r),
           Local(r, k), KeyInv(k)', ReqInv(r)'
    PROVE  Inv'
<1>1. ASSUME NEW j \in Keys, j # k
      PROVE  KeyInv(j)'
  BY <1>1 DEF Inv, KeyInv, Local
<1>2. ASSUME NEW s \in Requests, s # r
      PROVE  ReqInv(s)'
  <2>1. req'[s] = req[s] /\ charge'[s] = charge[s]
    BY <1>2 DEF Local
  <2>2. req[s].key \in Keys
    BY DEF Inv, TypeOK, Request
  <2>3. ReqInv(s) /\ s # NoRequest
    BY TaskSubmissionAssumption DEF Inv, NoRequest
  <2>4. CASE req[s].key # k
    BY <2>1, <2>2, <2>3, <2>4 DEF Local, ReqInv, KeyOf
  <2>5. CASE req[s].key = k /\ sub'[k] = sub[k] /\ posts'[k] = posts[k] /\ jobs'[k] = jobs[k]
    BY <2>1, <2>3, <2>5 DEF ReqInv, KeyOf
  <2>6. CASE req[s].key = k /\ sub[k].owner \in {r, NoRequest} /\ sub'[k].owner = r
    <3>1. sub[k].owner # s /\ sub'[k].owner # s
      BY <1>2, <2>3, <2>6
    <3>2. /\ req[s].pc \notin Owning /\ charge[s] = "none" /\ ~req[s].definite
          /\ req[s].told = "failed" => sub[k].status = "failed"
      BY <2>3, <2>6, <3>1 DEF ReqInv, KeyOf
    <3>3. sub'[k].status # "absent"
      BY <2>6, TaskSubmissionAssumption DEF KeyInv, NoSub, NoRequest
    <3> QED
      BY <2>1, <2>6, <3>1, <3>2, <3>3 DEF Local, ReqInv, KeyOf, Owning
  <2> QED
    BY <2>4, <2>5, <2>6 DEF Local
<1> QED
  BY <1>1, <1>2 DEF Inv

\* A request that moves on, or is answered, is well typed.
LEMMA RequestType ==
    ASSUME TypeOK, NEW r \in Requests
    PROVE  /\ req[r] \in Request
           /\ \A p \in Phases : Goto(r, p) => req' \in [Requests -> Request]
           /\ \A a \in {"none", "conflict"} \cup Statuses :
                 Answer(r, a) => req' \in [Requests -> Request]
           /\ KeyOf(r) \in Keys
           /\ SubOf(r) \in Submission
<1>1. req[r] \in Request
  BY DEF TypeOK
<1>2. \A p \in Phases : [req[r] EXCEPT !.pc = p] \in Request
  BY <1>1 DEF Request
<1>3. \A a \in {"none", "conflict"} \cup Statuses :
         [req[r] EXCEPT !.pc = "done", !.told = a] \in Request
  BY <1>1 DEF Request, Phases
<1>4. req[r].key \in Keys
  BY <1>1 DEF Request
<1> QED
  BY <1>1, <1>2, <1>3, <1>4 DEF TypeOK, Goto, Answer, KeyOf, SubOf

\* What Goto changes: the phase of one request.
LEMMA GotoFacts ==
    ASSUME TypeOK, NEW r \in Requests, NEW p, Goto(r, p)
    PROVE  /\ \A s \in Requests \ {r} : req'[s] = req[s]
           /\ req'[r].pc = p /\ req'[r].key = req[r].key /\ req'[r].told = req[r].told
           /\ req'[r].dispatched = req[r].dispatched /\ req'[r].uncertain = req[r].uncertain
           /\ req'[r].definite = req[r].definite
BY RequestType DEF Goto, TypeOK, Request

\* Steps that change only the request and its charge.
LEMMA RequestSteps ==
    ASSUME Inv, NEW r \in Requests,
           \/ Arrive(r) \/ ReserveLookup(r) \/ PreConsume(r) \/ PreConsumeRefused(r)
           \/ BuildRequestFails(r) \/ Settle(r) \/ SettleFails(r) \/ InsertTaskFails(r)
           \/ Refund(r) \/ FinishFails(r)
    PROVE  Inv'
<1>k. PICK k \in Keys : k = KeyOf(r)
  BY RequestType DEF Inv
<1>0. TypeOK /\ KeyInv(k) /\ ReqInv(r) /\ k = KeyOf(r)
  BY <1>k DEF Inv
<1>1. UNCHANGED <<sub, tasks, posts, jobs>>
  BY DEF Arrive, ReserveLookup, PreConsume, PreConsumeRefused, BuildRequestFails, Settle,
         SettleFails, InsertTaskFails, Refund, FinishFails
<1>2. KeyInv(k)'
  BY <1>0, <1>1 DEF KeyInv
<1>3. ASSUME TypeOK', ReqInv(r)', req'[r].key = k,
             \A s \in Requests \ {r} : req'[s] = req[s] /\ charge'[s] = charge[s]
      PROVE  Inv'
  BY <1>0, <1>1, <1>2, <1>3, LocalStep DEF Local
<1>4. ASSUME NEW p \in Phases, NEW q \in {"none", "reserved", "settled", "refunded"},
             Goto(r, p), charge' = [charge EXCEPT ![r] = q], faults' \in 0 .. MaxFaults,
             /\ p \in {"new", "insert"} => sub[k].owner # r
             /\ p \in Owning \/ q # "none" => sub[k].owner = r
             /\ req[r].definite => p \in Ended \cup {"refund"}
             /\ p \in {"charge", "dispatch"} => posts[k] = 0
             /\ p \notin {"lookup", "post"}
             /\ p = "refund" \/ q = "refunded" => req[r].uncertain \/ jobs[k] = 0
             /\ q = "refunded" => jobs[k] = 0 /\ p \in Ended
      PROVE  Inv'
  <2>1. TypeOK'
    BY <1>0, <1>1, <1>4, RequestType DEF TypeOK
  <2>2. charge'[r] = q /\ \A s \in Requests \ {r} : charge'[s] = charge[s]
    BY <1>0, <1>4 DEF TypeOK
  <2>3. ReqInv(r)'
    BY <1>0, <1>1, <1>4, <2>2, GotoFacts DEF ReqInv, KeyOf
  <2> QED
    BY <1>0, <1>3, <1>4, <2>1, <2>2, <2>3, GotoFacts DEF KeyOf
<1>5. charge \in [Requests -> {"none", "reserved", "settled", "refunded"}] /\ faults \in 0 .. MaxFaults
  BY <1>0 DEF TypeOK
<1>6. charge = [charge EXCEPT ![r] = charge[r]]
  BY <1>5
<1>7. CASE Arrive(r)
  BY <1>0, <1>4, <1>5, <1>6, <1>7 DEF Arrive, ReqInv, Owning, Ended, Phases
<1>8. CASE ReserveLookup(r)
  <2>1. ReadStatus(k) \in Statuses /\ (ReadStatus(k) = "failed" => sub[k].status = "failed")
    BY <1>0, <1>8 DEF ReserveLookup, ReadStatus, TypeOK, Submission, Statuses, ReqInv
  <2>2. ASSUME NEW a \in {"conflict"} \cup Statuses, Answer(r, a), a = "failed" => sub[k].status = "failed"
        PROVE  Inv'
    <3>1. TypeOK'
      BY <1>0, <1>1, <1>8, <2>2, RequestType DEF TypeOK, ReserveLookup
    <3>2. /\ req'[r].pc = "done" /\ req'[r].told = a /\ req'[r].key = k
          /\ req'[r].definite = req[r].definite
          /\ \A s \in Requests \ {r} : req'[s] = req[s]
      BY <1>0, <2>2, RequestType DEF Answer, TypeOK, Request, KeyOf
    <3>3. ReqInv(r)'
      BY <1>0, <1>1, <1>8, <2>2, <3>2 DEF ReqInv, KeyOf, ReserveLookup, Owning, Ended
    <3> QED
      BY <1>0, <1>3, <1>8, <3>1, <3>2, <3>3 DEF ReserveLookup
  <2>3. CASE Goto(r, "charge") /\ sub[k].owner = r
    BY <1>0, <1>4, <1>5, <1>6, <1>8, <2>3 DEF ReserveLookup, ReqInv, Owning, Ended, Phases, KeyOf
  <2> QED
    BY <1>0, <1>8, <2>1, <2>2, <2>3 DEF ReserveLookup, SubOf, KeyOf
<1>9. CASE PreConsume(r)
  BY <1>0, <1>4, <1>5, <1>9 DEF PreConsume, ReqInv, Owning, Ended, Phases
<1>10. CASE PreConsumeRefused(r)
  BY <1>0, <1>4, <1>5, <1>6, <1>10 DEF PreConsumeRefused, ReqInv, Owning, Ended, Phases
<1>11. CASE BuildRequestFails(r)
  <2>1. jobs[k] = 0
    BY <1>0, <1>11 DEF BuildRequestFails, ReqInv, KeyInv, TypeOK
  <2> QED
    BY <1>0, <1>4, <1>5, <1>6, <1>11, <2>1 DEF BuildRequestFails, ReqInv, Owning, Ended, Phases
<1>12. CASE Settle(r)
  BY <1>0, <1>4, <1>5, <1>12 DEF Settle, ReqInv, Owning, Ended, Phases
<1>13. CASE SettleFails(r)
  BY <1>0, <1>4, <1>5, <1>6, <1>13, TaskSubmissionAssumption
     DEF SettleFails, Fault, ReqInv, Owning, Ended, Phases
<1>14. CASE InsertTaskFails(r)
  BY <1>0, <1>4, <1>5, <1>6, <1>14, TaskSubmissionAssumption
     DEF InsertTaskFails, Fault, ReqInv, Owning, Ended, Phases
<1>15. CASE Refund(r)
  BY <1>0, <1>4, <1>5, <1>15 DEF Refund, ReqInv, Owning, Ended, Phases
<1>16. CASE FinishFails(r)
  BY <1>0, <1>4, <1>5, <1>6, <1>16, TaskSubmissionAssumption
     DEF FinishFails, Fault, ReqInv, Owning, Ended, Phases
<1> QED
  BY <1>7, <1>8, <1>9, <1>10, <1>11, <1>12, <1>13, <1>14, <1>15, <1>16

\* The INSERT of a reservation makes r the owner of a key without history.
LEMMA ReservedStep ==
    ASSUME Inv, NEW r \in Requests, req[r].pc = "insert", SubOf(r) = NoSub, Reserved(r),
           Goto(r, "lookup") \/ Goto(r, "done"), faults' \in 0 .. MaxFaults,
           UNCHANGED <<tasks, charge, posts, jobs>>
    PROVE  Inv'
<1>k. PICK k \in Keys : k = KeyOf(r)
  BY RequestType DEF Inv
<1>0. TypeOK /\ KeyInv(k) /\ ReqInv(r) /\ k = KeyOf(r) /\ sub[k] = NoSub
  BY <1>k DEF Inv, SubOf, KeyOf
<1>1. Candidate(r) \in Submission
  BY <1>0, RequestType DEF Candidate, Submission, Statuses, Request
<1>2. sub'[k] = Candidate(r) /\ \A j \in Keys \ {k} : sub'[j] = sub[j]
  BY <1>0, <1>1 DEF Reserved, TypeOK
<1>3. TypeOK'
  BY <1>0, <1>1, RequestType DEF TypeOK, Reserved, Phases
<1>4. KeyInv(k)'
  BY <1>0, <1>2 DEF KeyInv, Candidate, NoSub
<1>5. ReqInv(r)'
  BY <1>0, <1>2, GotoFacts DEF ReqInv, KeyInv, KeyOf, Owning, Ended, Candidate, NoSub
<1>6. Local(r, k)
  BY <1>0, <1>2, GotoFacts DEF Local, KeyOf, Candidate, NoSub
<1> QED
  BY <1>0, <1>3, <1>4, <1>5, <1>6, LocalStep

\* INSERT ... ON CONFLICT DO NOTHING, and its failure.
LEMMA ReserveSteps ==
    ASSUME Inv, NEW r \in Requests, ReserveInsert(r) \/ ReserveFails(r)
    PROVE  Inv'
<1>k. PICK k \in Keys : k = KeyOf(r)
  BY RequestType DEF Inv
<1>0. TypeOK /\ KeyInv(k) /\ ReqInv(r) /\ k = KeyOf(r)
  BY <1>k DEF Inv
<1>1. /\ faults' \in 0 .. MaxFaults
      /\ req[r].pc \in {"insert", "lookup"}
      /\ \/ Goto(r, "done")
         \/ Goto(r, "lookup") /\ sub[k] # NoSub
         \/ Goto(r, "lookup") /\ req[r].pc = "insert" /\ SubOf(r) = NoSub /\ Reserved(r)
      /\ UNCHANGED <<tasks, charge, posts, jobs>>
      /\ UNCHANGED sub \/ (req[r].pc = "insert" /\ SubOf(r) = NoSub /\ Reserved(r))
  BY <1>0, TaskSubmissionAssumption DEF ReserveInsert, ReserveFails, Fault, TypeOK, SubOf, KeyOf
<1>2. CASE req[r].pc = "insert" /\ SubOf(r) = NoSub /\ Reserved(r)
  BY <1>1, <1>2, ReservedStep
<1>3. CASE UNCHANGED sub /\ (Goto(r, "done") \/ sub[k] # NoSub)
  <2>1. TypeOK'
    BY <1>0, <1>1, <1>3, RequestType DEF TypeOK, Phases
  <2>2. KeyInv(k)'
    BY <1>0, <1>1, <1>3 DEF KeyInv
  <2>3. ReqInv(r)'
    BY <1>0, <1>1, <1>3, GotoFacts DEF ReqInv, KeyInv, KeyOf, Owning, Ended
  <2>4. Local(r, k)
    BY <1>0, <1>1, <1>3, GotoFacts DEF Local, KeyOf
  <2> QED
    BY <1>0, <2>1, <2>2, <2>3, <2>4, LocalStep
<1> QED
  BY <1>1, <1>2, <1>3

\* Marking the dispatch, or failing to.
LEMMA PrepareSteps ==
    ASSUME Inv, NEW r \in Requests, PrepareTaskSubmissionDispatch(r) \/ PrepareFails(r)
    PROVE  Inv'
<1>k. PICK k \in Keys : k = KeyOf(r)
  BY RequestType DEF Inv
<1>0. TypeOK /\ KeyInv(k) /\ ReqInv(r) /\ k = KeyOf(r) /\ req[r] \in Request
  BY <1>k, RequestType DEF Inv
<1>1. /\ faults' \in 0 .. MaxFaults
      /\ req[r].pc = "dispatch"
      /\ UNCHANGED <<tasks, charge, posts, jobs>>
  BY <1>0, TaskSubmissionAssumption
     DEF PrepareTaskSubmissionDispatch, PrepareFails, Fault, TypeOK
<1>2. posts[k] = 0 /\ jobs[k] = 0 /\ sub[k].owner = r /\ sub[k].status # "absent"
  BY <1>0, <1>1, TaskSubmissionAssumption
     DEF ReqInv, KeyInv, TypeOK, Owning, KeyOf, NoSub, NoRequest
<1>3. /\ sub' \in [Keys -> Submission]
      /\ \A j \in Keys \ {k} : sub'[j] = sub[j]
      /\ sub'[k].owner = sub[k].owner /\ sub'[k].status = sub[k].status
  <2>1. UNCHANGED sub \/ sub' = [sub EXCEPT ![k] = [sub[k] EXCEPT !.dispatched = TRUE]]
    BY <1>0 DEF PrepareTaskSubmissionDispatch, PrepareFails, MarkDispatched
  <2>2. sub[k] \in Submission /\ [sub[k] EXCEPT !.dispatched = TRUE] \in Submission
    BY <1>0 DEF TypeOK, Submission
  <2>3. /\ [sub[k] EXCEPT !.dispatched = TRUE].owner = sub[k].owner
        /\ [sub[k] EXCEPT !.dispatched = TRUE].status = sub[k].status
    BY <2>2 DEF Submission
  <2> QED
    BY <1>0, <2>1, <2>2, <2>3 DEF TypeOK
<1>4. KeyInv(k)'
  BY <1>0, <1>1, <1>2, <1>3 DEF KeyInv
<1>5. CASE Goto(r, "refund")
  <2>1. TypeOK'
    BY <1>0, <1>1, <1>3, <1>5, RequestType DEF TypeOK, Phases
  <2>2. ReqInv(r)'
    BY <1>0, <1>1, <1>2, <1>3, <1>5, GotoFacts DEF ReqInv, KeyOf, Owning, Ended
  <2>3. Local(r, k)
    BY <1>0, <1>1, <1>2, <1>3, <1>5, GotoFacts DEF Local, KeyOf
  <2> QED
    BY <1>0, <1>4, <2>1, <2>2, <2>3, LocalStep
<1>6. CASE /\ Dispatchable(r) /\ MarkDispatched(r)
           /\ req' = [req EXCEPT ![r].pc = "post", ![r].dispatched = TRUE, ![r].uncertain = TRUE]
  <2>1. /\ req' \in [Requests -> Request]
        /\ \A s \in Requests \ {r} : req'[s] = req[s]
        /\ req'[r].pc = "post" /\ req'[r].key = k /\ req'[r].told = req[r].told
        /\ req'[r].uncertain /\ req'[r].definite = req[r].definite
    BY <1>0, <1>6 DEF TypeOK, Request, Phases, KeyOf
  <2>2. sub[k].status = "submitting" /\ sub'[k].dispatched
    BY <1>0, <1>6 DEF Dispatchable, MarkDispatched, SubOf, KeyOf, TypeOK, Submission
  <2>3. TypeOK'
    BY <1>0, <1>1, <1>3, <2>1 DEF TypeOK
  <2>4. ReqInv(r)'
    BY <1>0, <1>1, <1>2, <1>3, <2>1, <2>2 DEF ReqInv, KeyOf, Owning, Ended
  <2>5. Local(r, k)
    BY <1>0, <1>1, <1>2, <1>3, <2>1 DEF Local
  <2> QED
    BY <1>0, <1>4, <2>3, <2>4, <2>5, LocalStep
<1> QED
  BY <1>5, <1>6 DEF PrepareTaskSubmissionDispatch, PrepareFails

\* The paid POST, whatever becomes of it, and a crash while it is under way.
LEMMA PostSteps ==
    ASSUME Inv, NEW r \in Requests, req[r].pc = "post",
           PostAccepted(r) \/ PostRejected(r) \/ PostLost(r) \/ Crash(r)
    PROVE  Inv'
<1>k. PICK k \in Keys : k = KeyOf(r)
  BY RequestType DEF Inv
<1>0. TypeOK /\ KeyInv(k) /\ ReqInv(r) /\ k = KeyOf(r) /\ req[r] \in Request
  BY <1>k, RequestType DEF Inv
<1>1. /\ posts[k] = 0 /\ jobs[k] = 0 /\ sub[k].owner = r
      /\ sub[k].status = "submitting" /\ sub[k].dispatched
      /\ req[r].uncertain /\ ~req[r].definite /\ charge[r] # "refunded"
  BY <1>0 DEF ReqInv, KeyInv, TypeOK, Owning, Ended, KeyOf
<1>2. UNCHANGED <<sub, tasks, charge>> /\ faults' \in 0 .. MaxFaults
  BY <1>0, TaskSubmissionAssumption
     DEF PostAccepted, PostRejected, PostLost, Crash, Post, Fault, TypeOK
<1>3. /\ posts' \in [Keys -> Nat] /\ jobs' \in [Keys -> Nat]
      /\ \A j \in Keys \ {k} : posts'[j] = posts[j] /\ jobs'[j] = jobs[j]
      /\ posts'[k] \in {0, 1} /\ jobs'[k] \in 0 .. posts'[k]
      /\ PostRejected(r) => jobs'[k] = 0
  <2>1. ASSUME NEW a \in BOOLEAN, Post(r, a)
        PROVE  /\ posts' = [posts EXCEPT ![k] = 1]
               /\ \E n \in {0, 1} : jobs' = [jobs EXCEPT ![k] = n] /\ (~a => n = 0)
    <3>1. posts' = [posts EXCEPT ![k] = posts[k] + 1]
      BY <1>0, <2>1 DEF Post
    <3>2. CASE a
      BY <1>0, <1>1, <2>1, <3>1, <3>2 DEF Post, TypeOK
    <3>3. CASE ~a
      BY <1>0, <1>1, <2>1, <3>1, <3>3 DEF Post, TypeOK
    <3> QED
      BY <3>2, <3>3
  <2>2. CASE Crash(r)
    <3>1. \/ UNCHANGED <<posts, jobs>>
          \/ /\ posts' = [posts EXCEPT ![k] = 1]
             /\ \E n \in {0, 1} : jobs' = [jobs EXCEPT ![k] = n]
      BY <1>0, <1>1, <2>2 DEF Crash, TypeOK
    <3>2. ~PostRejected(r)
      <4>1. req'[r].pc = "dead"
        BY <1>0, <2>2, GotoFacts DEF Crash
      <4>2. PostRejected(r) => req'[r].pc = "refund"
        BY <1>0 DEF PostRejected, TypeOK, Request
      <4> QED
        BY <4>1, <4>2
    <3> QED
      BY <1>0, <1>1, <3>1, <3>2 DEF TypeOK
  <2>3. CASE PostRejected(r)
    <3>1. Post(r, FALSE)
      BY <2>3 DEF PostRejected
    <3>2. posts' = [posts EXCEPT ![k] = 1] /\ jobs' = [jobs EXCEPT ![k] = 0]
      BY <2>1, <3>1
    <3> QED
      BY <1>0, <3>2 DEF TypeOK
  <2>4. CASE (PostAccepted(r) \/ PostLost(r)) /\ ~PostRejected(r)
    <3>1. PICK a \in BOOLEAN : Post(r, a)
      BY <2>4 DEF PostAccepted, PostLost
    <3> QED
      BY <1>0, <1>1, <2>1, <2>4, <3>1 DEF TypeOK
  <2> QED
    BY <2>2, <2>3, <2>4
<1>4. /\ req' \in [Requests -> Request]
      /\ \A s \in Requests \ {r} : req'[s] = req[s]
      /\ req'[r].key = k /\ req'[r].told = req[r].told
      /\ req'[r].pc \in {"settle", "refund", "dead"}
      /\ req'[r].pc # "settle" => req'[r].uncertain \/ PostRejected(r)
      /\ req'[r].definite => PostRejected(r) /\ req'[r].pc = "refund"
  <2>1. CASE PostAccepted(r)
    BY <1>0, <1>1, <2>1 DEF PostAccepted, TypeOK, Request, Phases, KeyOf
  <2>2. CASE PostRejected(r)
    BY <1>0, <1>1, <2>2 DEF PostRejected, TypeOK, Request, Phases, KeyOf
  <2>3. CASE Goto(r, "refund") \/ Goto(r, "dead")
    <3>1. req' \in [Requests -> Request]
      BY <1>0, <2>3, RequestType DEF Phases
    <3> QED
      BY <1>0, <1>1, <2>3, <3>1, GotoFacts DEF KeyOf
  <2> QED
    BY <2>1, <2>2, <2>3 DEF PostLost, Crash
<1>5. TypeOK'
  BY <1>0, <1>2, <1>3, <1>4 DEF TypeOK
<1>6. KeyInv(k)'
  BY <1>0, <1>1, <1>2, <1>3 DEF KeyInv
<1>7. ReqInv(r)'
  BY <1>0, <1>1, <1>2, <1>3, <1>4 DEF ReqInv, KeyOf, Owning, Ended
<1>8. Local(r, k)
  BY <1>0, <1>1, <1>2, <1>3, <1>4 DEF Local
<1> QED
  BY <1>0, <1>5, <1>6, <1>7, <1>8, LocalStep

\* The end of a submission: the task with its acceptance, or the final status.
LEMMA EndSteps ==
    ASSUME Inv, NEW r \in Requests, InsertTaskForSubmission(r) \/ FinishTaskSubmission(r)
    PROVE  Inv'
<1>k. PICK k \in Keys : k = KeyOf(r)
  BY RequestType DEF Inv
<1>0. TypeOK /\ KeyInv(k) /\ ReqInv(r) /\ k = KeyOf(r) /\ req[r] \in Request
      /\ sub[k] \in Submission
  BY <1>k, RequestType DEF Inv, TypeOK
<1>1. UNCHANGED <<charge, posts, jobs, faults>>
  BY DEF InsertTaskForSubmission, FinishTaskSubmission
<1>2. sub[k].owner = r /\ sub[k].status # "absent"
  BY <1>0, TaskSubmissionAssumption
     DEF InsertTaskForSubmission, FinishTaskSubmission, ReqInv, KeyInv, Owning, KeyOf,
         NoSub, NoRequest
<1>3. ASSUME NEW st \in Statuses
      PROVE  /\ [sub[k] EXCEPT !.status = st] \in Submission
             /\ [sub[k] EXCEPT !.status = st].status = st
             /\ [sub[k] EXCEPT !.status = st].owner = r
             /\ [sub[k] EXCEPT !.status = st].dispatched = sub[k].dispatched
  BY <1>0, <1>2 DEF Submission, Statuses
<1>4. ASSUME NEW p \in {"finish", "done"}, Goto(r, p), NEW st \in Statuses,
             sub' = [sub EXCEPT ![k] = [sub[k] EXCEPT !.status = st]],
             tasks' \subseteq Keys, \A j \in Keys \ {k} : j \in tasks' <=> j \in tasks,
             st = "accepted" <=> k \in tasks',
             st = "failed" => jobs[k] = 0, sub[k].status = "failed" => st = "failed",
             req[r].pc \in {"finish", "insertTask"}
      PROVE  Inv'
  <2>1. /\ sub' \in [Keys -> Submission]
        /\ sub'[k].status = st /\ sub'[k].owner = r /\ sub'[k].dispatched = sub[k].dispatched
        /\ \A j \in Keys \ {k} : sub'[j] = sub[j]
    BY <1>0, <1>3, <1>4 DEF TypeOK
  <2>2. TypeOK'
    BY <1>0, <1>1, <1>4, <2>1, RequestType DEF TypeOK, Phases
  <2>3. KeyInv(k)'
    BY <1>0, <1>1, <1>4, <2>1 DEF KeyInv, Statuses
  <2>4. ReqInv(r)'
    BY <1>0, <1>1, <1>4, <2>1, GotoFacts DEF ReqInv, KeyOf, Owning, Ended
  <2>5. Local(r, k)
    BY <1>0, <1>1, <1>2, <1>4, <2>1, GotoFacts DEF Local, KeyOf
  <2> QED
    BY <1>0, <2>2, <2>3, <2>4, <2>5, LocalStep
<1>5. /\ sub = [sub EXCEPT ![k] = [sub[k] EXCEPT !.status = sub[k].status]]
      /\ sub[k].status \in Statuses /\ tasks \subseteq Keys
  BY <1>0, <1>2 DEF TypeOK, Submission
<1>6. CASE InsertTaskForSubmission(r)
  <2>1. req[r].pc = "insertTask" /\ Goto(r, "finish")
    BY <1>6 DEF InsertTaskForSubmission
  <2>2. CASE /\ sub[k].status \in {"submitting", "unknown"} /\ tasks' = tasks \cup {k}
             /\ sub' = [sub EXCEPT ![k] = [sub[k] EXCEPT !.status = "accepted"]]
    BY <1>0, <1>4, <1>5, <2>1, <2>2 DEF Statuses
  <2>3. CASE UNCHANGED <<tasks, sub>>
    BY <1>0, <1>4, <1>5, <2>1, <2>3 DEF KeyInv
  <2> QED
    BY <1>0, <1>6, <2>2, <2>3 DEF InsertTaskForSubmission, SubOf, KeyOf
<1>7. CASE FinishTaskSubmission(r)
  <2>1. req[r].pc = "finish" /\ Goto(r, "done") /\ tasks' = tasks
    BY <1>7 DEF FinishTaskSubmission
  <2>2. FinishStatus(r) \in {"unknown", "failed"} /\ (FinishStatus(r) = "failed" => jobs[k] = 0)
    BY <1>0 DEF FinishStatus, SubOf, KeyOf, KeyInv, ReqInv, TypeOK
  <2>3. CASE /\ sub[k].status = "submitting"
             /\ sub' = [sub EXCEPT ![k] = [sub[k] EXCEPT !.status = FinishStatus(r)]]
    BY <1>0, <1>4, <1>5, <2>1, <2>2, <2>3 DEF Statuses, KeyInv
  <2>4. CASE /\ sub[k].status # "submitting"
             /\ sub' = [sub EXCEPT ![k] = [sub[k] EXCEPT !.status = sub[k].status]]
    BY <1>0, <1>4, <1>5, <2>1, <2>4 DEF KeyInv
  <2> QED
    BY <1>0, <1>7, <2>3, <2>4 DEF FinishTaskSubmission
<1> QED
  BY <1>6, <1>7

\* A crash between two statements other than the POST changes nothing else.
LEMMA CrashStep ==
    ASSUME Inv, NEW r \in Requests, req[r].pc # "post", Crash(r)
    PROVE  Inv'
<1>k. PICK k \in Keys : k = KeyOf(r)
  BY RequestType DEF Inv
<1>0. TypeOK /\ KeyInv(k) /\ ReqInv(r) /\ k = KeyOf(r)
  BY <1>k DEF Inv
<1>1. /\ UNCHANGED <<sub, tasks, charge, posts, jobs>> /\ faults' \in 0 .. MaxFaults
      /\ Goto(r, "dead")
  BY <1>0, TaskSubmissionAssumption DEF Crash, Fault, TypeOK
<1>2. TypeOK'
  BY <1>0, <1>1, RequestType DEF TypeOK, Phases
<1>3. KeyInv(k)'
  BY <1>0, <1>1 DEF KeyInv
<1>4. ReqInv(r)'
  BY <1>0, <1>1, GotoFacts DEF ReqInv, KeyOf, Owning, Ended
<1>5. Local(r, k)
  BY <1>0, <1>1, GotoFacts DEF Local, KeyOf
<1> QED
  BY <1>0, <1>2, <1>3, <1>4, <1>5, LocalStep

\* A reservation that ages is still the reservation it was.
LEMMA AgeStep ==
    ASSUME Inv, NEW k \in Keys, Age(k)
    PROVE  Inv'
<1>1. sub[k] \in Submission /\ [sub[k] EXCEPT !.aged = TRUE] \in Submission
  BY DEF Inv, TypeOK, Submission
<1>2. TypeOK'
  BY <1>1 DEF Inv, TypeOK, Age
<1>3. \A j \in Keys : /\ sub'[j].status = sub[j].status /\ sub'[j].owner = sub[j].owner
                      /\ sub'[j].dispatched = sub[j].dispatched
                      /\ sub[j].status = "absent" => sub'[j] = sub[j]
  BY <1>1 DEF Inv, TypeOK, Age, Submission
<1>4. ASSUME NEW j \in Keys PROVE KeyInv(j)'
  BY <1>3 DEF Inv, KeyInv, Age
<1>5. ASSUME NEW r \in Requests PROVE ReqInv(r)'
  <2>1. KeyOf(r) \in Keys /\ ReqInv(r)
    BY RequestType DEF Inv
  <2> QED
    BY <1>3, <2>1 DEF ReqInv, Age, KeyOf
<1> QED
  BY <1>2, <1>4, <1>5 DEF Inv

\* The invariant holds initially.
LEMMA InvInit == Init => Inv
<1> SUFFICES ASSUME Init PROVE Inv
  OBVIOUS
<1>1. NoSub \in Submission
  BY DEF NoSub, Submission
<1>2. ASSUME NEW r \in Requests
      PROVE  /\ req[r] \in Request /\ req[r].pc = "new" /\ req[r].told = "none"
             /\ ~req[r].definite /\ req[r].key \in Keys
  <2>1. PICK k \in Keys, b \in Bodies :
           req[r] = [pc |-> "new", key |-> k, body |-> b, told |-> "none",
                     dispatched |-> FALSE, uncertain |-> FALSE, definite |-> FALSE]
    BY <1>2 DEF Init
  <2> QED
    BY <2>1 DEF Request, Phases
<1>3. TypeOK
  BY <1>1, <1>2, TaskSubmissionAssumption DEF Init, TypeOK
<1>4. \A k \in Keys : KeyInv(k)
  BY DEF Init, KeyInv, NoSub
<1>5. \A r \in Requests : ReqInv(r)
  BY <1>2, TaskSubmissionAssumption DEF Init, ReqInv, KeyOf, NoSub, NoRequest, Owning, Ended
<1> QED
  BY <1>3, <1>4, <1>5 DEF Inv

\* Every step keeps the invariant.
LEMMA InvInductive == Inv /\ [Next]_vars => Inv'
<1> SUFFICES ASSUME Inv, [Next]_vars PROVE Inv'
  OBVIOUS
<1>1. ASSUME NEW r \in Requests, Step(r)
      PROVE  Inv'
  <2>1. CASE \/ Arrive(r) \/ ReserveLookup(r) \/ PreConsume(r) \/ PreConsumeRefused(r)
             \/ BuildRequestFails(r) \/ Settle(r) \/ SettleFails(r) \/ InsertTaskFails(r)
             \/ Refund(r) \/ FinishFails(r)
    BY <2>1, RequestSteps
  <2>2. CASE ReserveInsert(r) \/ ReserveFails(r)
    BY <2>2, ReserveSteps
  <2>3. CASE PrepareTaskSubmissionDispatch(r) \/ PrepareFails(r)
    BY <2>3, PrepareSteps
  <2>4. CASE PostAccepted(r) \/ PostRejected(r) \/ PostLost(r)
    <3>1. req[r].pc = "post"
      BY <2>4 DEF PostAccepted, PostRejected, PostLost, Post
    <3> QED
      BY <2>4, <3>1, PostSteps
  <2>5. CASE InsertTaskForSubmission(r) \/ FinishTaskSubmission(r)
    BY <2>5, EndSteps
  <2>6. CASE Crash(r)
    BY <2>6, CrashStep, PostSteps
  <2> QED
    BY <1>1, <2>1, <2>2, <2>3, <2>4, <2>5, <2>6 DEF Step
<1>2. CASE UNCHANGED vars
  BY <1>2 DEF vars, Inv, TypeOK, KeyInv, ReqInv, KeyOf
<1> QED
  BY <1>1, <1>2, AgeStep DEF Next

-----------------------------------------------------------------------------
\* Rows, requests, charges and counters always hold values of their types.
THEOREM TypeCorrect == Spec => []TypeOK
BY InvInit, InvInductive, PTL DEF Spec, Inv

\* However many requests carry a key, and whichever of them crash or fail, one
\* paid POST is sent for it: RecordTaskSubmissionDispatch cannot be replayed.
THEOREM PaidOnce == Spec => []OnePaidPost
<1>1. Inv => OnePaidPost
  BY DEF Inv, KeyInv, OnePaidPost
<1> QED
  BY <1>1, InvInit, InvInductive, PTL DEF Spec

\* A submission is accepted exactly when its task is stored (InsertTaskForSubmission).
THEOREM AcceptedIsStored == Spec => []AcceptedHasTask
<1>1. Inv => AcceptedHasTask
  BY DEF Inv, KeyInv, AcceptedHasTask
<1> QED
  BY <1>1, InvInit, InvInductive, PTL DEF Spec

\* A charge given back never belongs to a job that runs at the provider.
THEOREM RefundIsSafe == Spec => []RefundMeansNoJob
<1>1. Inv => RefundMeansNoJob
  BY DEF Inv, ReqInv, RefundMeansNoJob
<1> QED
  BY <1>1, InvInit, InvInductive, PTL DEF Spec

\* A client told that its submission failed has no job under the key.
THEOREM FailureIsSafe == Spec => []ToldFailedMeansNoJob
<1>1. Inv => ToldFailedMeansNoJob
  <2> SUFFICES ASSUME Inv, NEW r \in Requests, req[r].told = "failed"
               PROVE  jobs[KeyOf(r)] = 0
    BY DEF ToldFailedMeansNoJob
  <2>1. KeyOf(r) \in Keys
    BY RequestType DEF Inv
  <2> QED
    BY <2>1 DEF Inv, KeyInv, ReqInv
<1> QED
  BY <1>1, InvInit, InvInductive, PTL DEF Spec

\* At most one request is ever charged for a key.
THEOREM ChargedOnce == Spec => []OneCharge
<1>1. Inv => OneCharge
  BY DEF Inv, ReqInv, OneCharge, KeyOf
<1> QED
  BY <1>1, InvInit, InvInductive, PTL DEF Spec

\* No late FinishTaskSubmission or InsertTaskForSubmission changes a final status.
THEOREM FinalStays == Spec => FinalIsFinal
<1> DEFINE A == \A k \in Keys : sub[k].status \in Final => sub'[k].status = sub[k].status
<1>1. Inv /\ [Next]_vars => [A]_vars
  <2> SUFFICES ASSUME Inv, Next, NEW k \in Keys, sub[k].status \in Final
               PROVE  sub'[k].status = sub[k].status
    BY DEF A
  <2>0. sub \in [Keys -> Submission]
    BY DEF Inv, TypeOK
  <2>1. CASE \E j \in Keys : Age(j)
    BY <2>0, <2>1 DEF Age, Submission
  <2>2. ASSUME NEW r \in Requests, Step(r)
        PROVE  sub'[k].status = sub[k].status
    <3>1. KeyOf(r) \in Keys
      BY RequestType DEF Inv
    <3>2. CASE UNCHANGED sub
      BY <3>2
    <3>3. CASE SubOf(r) = NoSub /\ Reserved(r)
      BY <2>0, <3>1, <3>3 DEF Reserved, SubOf, KeyOf, NoSub, Final
    <3>4. CASE MarkDispatched(r)
      BY <2>0, <3>1, <3>4 DEF MarkDispatched, Submission
    <3>5. CASE InsertTaskForSubmission(r)
      BY <2>0, <3>1, <3>5 DEF InsertTaskForSubmission, SubOf, KeyOf, Final, Submission
    <3>6. CASE FinishTaskSubmission(r)
      BY <2>0, <3>1, <3>6 DEF FinishTaskSubmission, Final, Submission
    <3> QED
      BY <2>2, <3>2, <3>3, <3>4, <3>5, <3>6
         DEF Step, Arrive, ReserveInsert, ReserveLookup, ReserveFails, PreConsume,
             PreConsumeRefused, BuildRequestFails, PrepareTaskSubmissionDispatch, PrepareFails,
             PostAccepted, PostRejected, PostLost, Post, Settle, SettleFails,
             InsertTaskFails, Refund, FinishFails, Crash
  <2> QED
    BY <2>1, <2>2 DEF Next
<1> QED
  BY <1>1, InvInit, InvInductive, PTL DEF Spec, FinalIsFinal
=============================================================================
