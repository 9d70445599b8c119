-------------------------- MODULE UserSessionProofs --------------------------
(***************************************************************************)
(* How long a revoked login session may still be taken for an active one,  *)
(* for every number of handlers, Redis servers and units of time; and, for *)
(* the tabs that hold the session (module AuthClient), that none goes back *)
(* to a session it has left or presents a secret that is out of date.      *)
(***************************************************************************)
EXTENDS UserSession, AuthClient, TLAPS

Statuses == {"active", "revoked"}
Pcs == {"idle", "read", "fill", "deny", "swap", "advance", "confirm",
        "fence", "update", "tomb"}
Handler == [op : {"none"} \cup Ops, pc : Pcs, version : 0..MaxVersion,
            left : 0..TTL, toldAtStart : BOOLEAN]
Copy == {Gone} \cup
          [status : {"active"} \cup Deny, version : 1..MaxVersion, left : 1..TTL]

\* A handler past its read knows a version of the row.  One that began after a
\* revocation was reported is not about to answer, and one that is about to
\* fill opened its window before the row was revoked.
ProcOK(p) ==
  /\ proc[p].pc \in Pcs \ {"idle", "read"} =>
       proc[p].version >= 1 /\ proc[p].version <= row.version
  /\ proc[p].pc = "advance" => proc[p].version < MaxVersion
  /\ proc[p].pc = "tomb" => row.status = "revoked"
  /\ proc[p].toldAtStart => told /\ proc[p].pc \notin {"fill", "confirm"}
  /\ row.status = "revoked" /\ proc[p].pc = "fill" => proc[p].left + since <= TTL

\* An active copy lives as long as the window of its read.
CopyOK(r) ==
  /\ cache[r].version <= row.version
  /\ row.status = "revoked" /\ cache[r].status = "active" => cache[r].left + since <= TTL

Base ==
  /\ TypeOK
  /\ told => row.status = "revoked"
  /\ \A p \in Procs : ProcOK(p)
  /\ \A r \in Redises : CopyOK(r)

\* After a reported revocation the deny in the Redis of all nodes outlives
\* every fill under way, and when it is gone no fill has time left.
Barred(p) ==
  \/ /\ Redis(p).status \in Deny
     /\ \A q \in Procs : proc[q].pc = "fill" => proc[q].left <= Redis(p).left
  \/ /\ Redis(p).status = "none"
     /\ \A q \in Procs : proc[q].pc = "fill" => proc[q].left = 0

Sound == faults = 0 /\ row.version = 1 /\ \A p, q \in Procs : redisOf[p] = redisOf[q]

Shut == Sound => "late" \notin wrong /\ (told => \A p \in Procs : Barred(p))

Inv == Base /\ StaleBound /\ Shut

-----------------------------------------------------------------------------
(* What the helpers do, handler by handler.                                *)

LEMMA Types ==
  ASSUME TypeOK
  PROVE  /\ redisOf \in [Procs -> Redises]
         /\ row \in [status : Statuses, version : 1..MaxVersion]
         /\ cache \in [Redises -> Copy] /\ proc \in [Procs -> Handler]
         /\ TTL \in Nat /\ TTL > 0 /\ MaxVersion \in Nat /\ MaxFaults \in Nat
         /\ since \in 0..TTL /\ faults \in 0..MaxFaults
BY TopologyAssumption, BoundsAssumption DEF TypeOK, Copy, Handler, Statuses, Pcs

LEMMA CopyAt ==
  ASSUME TypeOK, NEW r \in Redises
  PROVE  /\ cache[r].version \in 0..MaxVersion /\ cache[r].left \in 0..TTL
         /\ cache[r].status \in {"none", "active"} \cup Deny
         /\ cache[r].status # "none" => cache[r].left > 0
<1>1. cache[r] \in Copy /\ TTL \in Nat /\ MaxVersion \in Nat /\ TTL > 0
  BY Types
<1>2. CASE cache[r] = Gone
  BY <1>1, <1>2 DEF Gone, Deny
<1>3. CASE cache[r] \in [status : {"active"} \cup Deny, version : 1..MaxVersion, left : 1..TTL]
  BY <1>1, <1>3
<1> QED
  BY <1>1, <1>2, <1>3 DEF Copy

\* Where a step leaves the handler p; the others stay.
Now(p, op, pc, version, left, toldAtStart) ==
  /\ proc'[p].op = op /\ proc'[p].pc = pc /\ proc'[p].version = version
  /\ proc'[p].left = left /\ proc'[p].toldAtStart = toldAtStart
Others(p) == \A q \in Procs : q # p => proc'[q] = proc[q]

LEMMA ProcAt ==
  ASSUME TypeOK, NEW p \in Procs, NEW h \in Handler, proc' = [proc EXCEPT ![p] = h]
  PROVE  proc' \in [Procs -> Handler] /\ proc'[p] = h /\ Others(p)
BY Types DEF Others

LEMMA GotoAt ==
  ASSUME TypeOK, NEW p \in Procs, NEW pc \in Pcs, Goto(p, pc)
  PROVE  /\ proc' \in [Procs -> Handler] /\ Others(p)
         /\ Now(p, proc[p].op, pc, proc[p].version, proc[p].left, proc[p].toldAtStart)
<1>1. PICK h : h = [proc[p] EXCEPT !.pc = pc]
  OBVIOUS
<1>2. proc[p] \in Handler /\ proc \in [Procs -> Handler]
  BY Types
<1>3. /\ h \in Handler /\ h.pc = pc /\ h.op = proc[p].op /\ h.version = proc[p].version
      /\ h.left = proc[p].left /\ h.toldAtStart = proc[p].toldAtStart
  BY <1>1, <1>2 DEF Handler
<1>4. proc' = [proc EXCEPT ![p] = h]
  BY <1>1, <1>2 DEF Goto
<1> QED
  BY <1>3, <1>4, ProcAt DEF Now

LEMMA EndsAt ==
  ASSUME TypeOK, NEW p \in Procs, Ends(p)
  PROVE  /\ proc' \in [Procs -> Handler] /\ Others(p)
         /\ Now(p, "none", "idle", 0, 0, FALSE)
<1>1. PICK h : h = Idle
  OBVIOUS
<1>2. 0 \in 0..MaxVersion /\ 0 \in 0..TTL
  BY BoundsAssumption
<1>3. /\ h \in Handler /\ h.pc = "idle" /\ h.op = "none" /\ h.version = 0
      /\ h.left = 0 /\ h.toldAtStart = FALSE
  BY <1>1, <1>2 DEF Handler, Idle, Pcs
<1>4. proc' = [proc EXCEPT ![p] = h]
  BY <1>1 DEF Ends
<1> QED
  BY <1>3, <1>4, ProcAt DEF Now

LEMMA BeginAt ==
  ASSUME TypeOK, NEW p \in Procs, NEW op, NEW pc \in Pcs, NEW version \in 0..MaxVersion,
         Begin(p, op, pc, version)
  PROVE  /\ proc' \in [Procs -> Handler] /\ Others(p)
         /\ Now(p, op, pc, version, TTL, told)
<1>1. PICK h : h = [op |-> op, pc |-> pc, version |-> version, left |-> TTL,
                    toldAtStart |-> told]
  OBVIOUS
<1>2. TTL \in 0..TTL /\ op \in Ops /\ told \in BOOLEAN
  BY BoundsAssumption DEF Begin, TypeOK
<1>3. /\ h \in Handler /\ h.pc = pc /\ h.op = op /\ h.version = version
      /\ h.left = TTL /\ h.toldAtStart = told
  BY <1>1, <1>2 DEF Handler
<1>4. proc' = [proc EXCEPT ![p] = h]
  BY <1>1 DEF Begin
<1> QED
  BY <1>3, <1>4, ProcAt DEF Now

\* An entry written to the Redis of p.
LEMMA StoredAt ==
  ASSUME TypeOK, NEW p \in Procs, NEW status \in {"active"} \cup Deny,
         NEW version \in 1..MaxVersion, NEW left \in 0..TTL, Stored(p, status, version, left)
  PROVE  /\ cache' \in [Redises -> Copy]
         /\ left > 0 => /\ cache'[redisOf[p]].status = status
                        /\ cache'[redisOf[p]].version = version
                        /\ cache'[redisOf[p]].left = left
         /\ left = 0 => cache'[redisOf[p]].status = "none" /\ cache'[redisOf[p]].version = 0
         /\ \A r \in Redises : r # redisOf[p] => cache'[r] = cache[r]
<1>t. cache \in [Redises -> Copy] /\ redisOf[p] \in Redises /\ TTL \in Nat
  BY Types
<1>1. PICK e : e = IF left = 0 THEN Gone
                   ELSE [status |-> status, version |-> version, left |-> left]
  OBVIOUS
<1>2. /\ e \in Copy
      /\ left > 0 => e.status = status /\ e.version = version /\ e.left = left
      /\ left = 0 => e.status = "none" /\ e.version = 0
  <2>1. CASE left = 0
    BY <1>1, <2>1 DEF Gone, Copy
  <2>2. CASE left # 0
    <3>1. left \in 1..TTL
      BY <1>t, <2>2
    <3> QED
      BY <1>1, <2>2, <3>1 DEF Copy
  <2> QED
    BY <2>1, <2>2
<1>3. cache' = [cache EXCEPT ![redisOf[p]] = e]
  BY <1>1 DEF Stored
<1> QED
  BY <1>t, <1>2, <1>3
-----------------------------------------------------------------------------
(* Steps of one handler.                                                   *)

\* The row gets newer and stays revoked; the revocation starts the clock.
RowMoves ==
  /\ row' \in [status : Statuses, version : 1..MaxVersion]
  /\ row'.version >= row.version
  /\ since' \in 0..TTL
  /\ \/ row'.status = row.status /\ since' = since
     \/ row'.status = "revoked" /\ since' = 0
  /\ told' \in BOOLEAN
  /\ told => told'
  /\ told' => row'.status = "revoked"

LEMMA RowStays ==
  ASSUME Base, UNCHANGED <<row, since, told>>
  PROVE  RowMoves
<1>1. row \in [status : Statuses, version : 1..MaxVersion] /\ since \in 0..TTL /\ told \in BOOLEAN
  BY Types DEF Base, TypeOK
<1>2. row.version \in Nat
  BY <1>1, BoundsAssumption
<1> QED
  BY <1>1, <1>2 DEF RowMoves, Base

LEMMA ProcStays ==
  ASSUME TypeOK, RowMoves, NEW q \in Procs, ProcOK(q), proc'[q] = proc[q]
  PROVE  ProcOK(q)'
<1>1. /\ proc[q].version \in Nat /\ proc[q].left \in 0..TTL /\ TTL \in Nat
      /\ row.version \in Nat /\ row'.version \in Nat
  BY Types, BoundsAssumption DEF Handler, RowMoves
<1> QED
  BY <1>1 DEF ProcOK, RowMoves

LEMMA CopyStays ==
  ASSUME TypeOK, RowMoves, NEW r \in Redises, CopyOK(r), cache'[r] = cache[r]
  PROVE  CopyOK(r)'
<1>1. /\ cache[r].version \in 0..MaxVersion /\ cache[r].left \in 0..TTL /\ TTL \in Nat
      /\ MaxVersion \in Nat
      /\ row.version \in Nat /\ row'.version \in Nat
  BY Types, CopyAt, BoundsAssumption DEF RowMoves
<1> QED
  BY <1>1 DEF CopyOK, RowMoves

LEMMA BaseStep ==
  ASSUME Base, NEW p \in Procs, RowMoves, redisOf' = redisOf,
         proc' \in [Procs -> Handler], Others(p), ProcOK(p)',
         cache' \in [Redises -> Copy], CopyOK(redisOf[p])',
         \A r \in Redises : r # redisOf[p] => cache'[r] = cache[r],
         lock' \in {NoOne} \cup Procs, wrong' \subseteq {"late", "stale"},
         faults' \in 0..MaxFaults
  PROVE  Base'
<1>1. TypeOK'
  BY DEF Base, TypeOK, RowMoves, Handler, Copy, Pcs, Statuses
<1>2. \A q \in Procs : ProcOK(q)'
  BY ProcStays DEF Base, Others
<1>3. \A r \in Redises : CopyOK(r)'
  BY CopyStays DEF Base
<1> QED
  BY <1>1, <1>2, <1>3 DEF Base, RowMoves

\* A validation that answers "active" has nothing to be blamed for unless it
\* began after told, or answers in time when the row has been revoked for TTL.
LEMMA AnswersAt ==
  ASSUME TypeOK, NEW active, NEW toldAtStart, NEW inTime,
         Answers(active, toldAtStart, inTime)
  PROVE  /\ wrong' \subseteq {"late", "stale"}
         /\ "late" \in wrong' => "late" \in wrong \/ (active /\ toldAtStart)
         /\ "stale" \in wrong' =>
              \/ "stale" \in wrong
              \/ active /\ row.status = "revoked" /\ since = TTL /\ (inTime \/ toldAtStart)
BY DEF Answers, TypeOK

LEMMA ShutStep ==
  ASSUME TypeOK, Shut, NEW p \in Procs, redisOf' = redisOf, proc' \in [Procs -> Handler],
         faults' = 0 => faults = 0, row'.version = 1 => row.version = 1, told' = told,
         Sound /\ "late" \in wrong' => "late" \in wrong,
         told => \A q \in Procs : proc'[q].pc = "fill" =>
                   proc[q].pc = "fill" /\ proc'[q].left = proc[q].left,
         Sound /\ told =>
           \/ cache'[redisOf[p]] = cache[redisOf[p]]
           \/ cache'[redisOf[p]].status \in Deny /\ cache'[redisOf[p]].left = TTL
           \/ /\ cache[redisOf[p]].status \notin Deny
              /\ cache'[redisOf[p]].status = "none"
  PROVE  Shut'
<1> SUFFICES ASSUME Sound'
             PROVE  "late" \notin wrong' /\ (told => \A q \in Procs : Barred(q)')
  BY DEF Shut
<1>1. Sound
  BY DEF Sound
<1>2. "late" \notin wrong'
  BY <1>1 DEF Shut
<1>3. ASSUME told, NEW q \in Procs
      PROVE  Barred(q)'
  <2>1. Barred(q) /\ redisOf[q] = redisOf[p]
    BY <1>1, <1>3 DEF Shut, Sound
  <2>2. \A n \in Procs : proc'[n].left \in 0..TTL /\ TTL \in Nat
    BY Types DEF Handler
  <2>3. CASE cache'[redisOf[p]] = cache[redisOf[p]]
    BY <1>3, <2>1, <2>3 DEF Barred, Redis
  <2>4. CASE cache'[redisOf[p]].status \in Deny /\ cache'[redisOf[p]].left = TTL
    BY <2>1, <2>2, <2>4 DEF Barred, Redis
  <2>5. CASE /\ cache[redisOf[p]].status \notin Deny
             /\ cache'[redisOf[p]].status = "none"
    BY <1>3, <2>1, <2>5 DEF Barred, Redis
  <2> QED
    BY <1>1, <1>3, <2>3, <2>4, <2>5
<1> QED
  BY <1>2, <1>3

\* A step that touches neither Redis nor the row, nor what was answered.
LEMMA ProcStep ==
  ASSUME Inv, NEW p \in Procs, proc' \in [Procs -> Handler], Others(p), ProcOK(p)',
         told => proc'[p].pc # "fill",
         UNCHANGED <<redisOf, row, cache, told, since, wrong>>,
         lock' \in {NoOne} \cup Procs, faults' \in 0..MaxFaults, faults' = 0 => faults = 0
  PROVE  Inv'
<1>1. /\ Base /\ TypeOK /\ RowMoves /\ redisOf[p] \in Redises
      /\ cache' \in [Redises -> Copy] /\ wrong' \subseteq {"late", "stale"}
  BY RowStays, Types DEF Inv, Base, TypeOK
<1>2. CopyOK(redisOf[p])'
  BY <1>1, CopyStays DEF Base
<1>3. Base'
  BY <1>1, <1>2, BaseStep
<1>4. told => \A q \in Procs : proc'[q].pc = "fill" =>
                proc[q].pc = "fill" /\ proc'[q].left = proc[q].left
  BY DEF Others
<1>5. Shut'
  BY <1>1, <1>4, ShutStep DEF Inv
<1> QED
  BY <1>3, <1>5 DEF Inv, StaleBound

LEMMA BeginStep ==
  ASSUME Inv, NEW p \in Procs, NEW op, NEW pc \in {"read", "advance", "fence"},
         NEW version \in 0..MaxVersion, Begin(p, op, pc, version),
         pc # "read" => version = row.version, pc = "advance" => row.version < MaxVersion,
         UNCHANGED <<redisOf, row, cache, told, since, wrong>>,
         lock' \in {NoOne} \cup Procs, faults' \in 0..MaxFaults, faults' = 0 => faults = 0
  PROVE  Inv'
<1>1. TypeOK /\ row.version \in 1..MaxVersion /\ MaxVersion \in Nat
  BY Types DEF Inv, Base
<1>2. /\ proc' \in [Procs -> Handler] /\ Others(p) /\ Now(p, op, pc, version, TTL, told)
  BY <1>1, BeginAt DEF Pcs
<1>3. ProcOK(p)'
  BY <1>1, <1>2 DEF ProcOK, Now, Pcs
<1> QED
  BY <1>1, <1>2, <1>3, ProcStep DEF Now

LEMMA FaultAt ==
  ASSUME TypeOK, faults < MaxFaults, faults' = faults + 1
  PROVE  faults' \in 0..MaxFaults /\ faults' # 0
BY Types

LEMMA StartStep ==
  ASSUME Inv, NEW p \in Procs,
         ValidateMiss(p) \/ Rotate(p) \/ Advance(p) \/ Revoke(p) \/ RevokeByHash(p)
  PROVE  Inv'
<1>1. /\ 0 \in 0..MaxVersion /\ row.version \in 0..MaxVersion /\ lock \in {NoOne} \cup Procs
      /\ faults \in 0..MaxFaults
  BY Types DEF Inv, Base, TypeOK
<1>2. CASE ValidateMiss(p)
  <2>1. TypeOK /\ faults \in 0..MaxFaults
    BY Types DEF Inv, Base
  <2>2. faults' \in 0..MaxFaults /\ (faults' = 0 => faults = 0)
    BY <1>2, <2>1, FaultAt DEF ValidateMiss
  <2> QED
    BY <1>1, <1>2, <2>2, BeginStep DEF ValidateMiss
<1>3. CASE Rotate(p)
  BY <1>1, <1>3, BeginStep DEF Rotate
<1>4. CASE Advance(p)
  BY <1>1, <1>4, BeginStep DEF Advance
<1>5. CASE Revoke(p)
  BY <1>1, <1>5, BeginStep DEF Revoke
<1>6. CASE RevokeByHash(p)
  BY <1>1, <1>6, BeginStep DEF RevokeByHash
<1> QED
  BY <1>2, <1>3, <1>4, <1>5, <1>6

\* A handler that ends without an answer.
LEMMA EndStep ==
  ASSUME Inv, NEW p \in Procs, Ends(p),
         UNCHANGED <<redisOf, row, cache, told, since, wrong>>,
         lock' \in {NoOne} \cup Procs, faults' \in 0..MaxFaults, faults' = 0 => faults = 0
  PROVE  Inv'
<1>1. proc' \in [Procs -> Handler] /\ Others(p) /\ Now(p, "none", "idle", 0, 0, FALSE)
  BY EndsAt DEF Inv, Base
<1>2. ProcOK(p)'
  BY <1>1 DEF ProcOK, Now
<1> QED
  BY <1>1, <1>2, ProcStep DEF Now

LEMMA UnlockAt ==
  ASSUME TypeOK, NEW p \in Procs, Unlock(p)
  PROVE  lock' \in {NoOne} \cup Procs
BY DEF Unlock, TypeOK

LEMMA DiesStep ==
  ASSUME Inv, NEW p \in Procs, Dies(p)
  PROVE  Inv'
<1>1. lock' \in {NoOne} \cup Procs /\ faults' \in 0..MaxFaults /\ faults' # 0
  BY UnlockAt, FaultAt DEF Dies, Inv, Base
<1> QED
  BY <1>1, EndStep DEF Dies
\* The row is read; only an active one leads on to a fill, a swap or a fence.
LEMMA ReadStep ==
  ASSUME Inv, NEW p \in Procs, Read(p)
  PROVE  Inv'
<1>t. /\ TypeOK /\ ProcOK(p) /\ proc[p].pc = "read" /\ proc[p] \in Handler
      /\ row.version \in 1..MaxVersion /\ MaxVersion \in Nat
      /\ lock \in {NoOne} \cup Procs /\ faults \in 0..MaxFaults
      /\ told => row.status = "revoked"
      /\ proc \in [Procs -> Handler]
  BY Types DEF Inv, Base, Read, TypeOK
<1>1. UNCHANGED <<redisOf, row, cache, lock, told, since, wrong, faults>>
  BY DEF Read
<1>2. ASSUME NEW pc \in {"fill", "swap", "fence", "deny"},
             pc # "deny" => row.status = "active",
             proc' = [proc EXCEPT ![p].version = row.version, ![p].pc = pc]
      PROVE  Inv'
  <2>1. PICK h : h = [proc[p] EXCEPT !.version = row.version, !.pc = pc]
    OBVIOUS
  <2>2. row.version \in 0..MaxVersion
    BY <1>t
  <2>3. /\ h \in Handler /\ h.pc = pc /\ h.version = row.version
        /\ h.toldAtStart = proc[p].toldAtStart
    BY <1>t, <2>1, <2>2 DEF Handler, Pcs
  <2>4. proc' = [proc EXCEPT ![p] = h]
    BY <1>t, <1>2, <2>1
  <2>5. proc' \in [Procs -> Handler] /\ proc'[p] = h /\ Others(p)
    BY <1>t, <2>3, <2>4, ProcAt
  <2>6. ProcOK(p)'
    BY <1>t, <1>1, <1>2, <2>3, <2>5 DEF ProcOK, Pcs
  <2> QED
    BY <1>t, <1>1, <1>2, <2>3, <2>5, <2>6, ProcStep
<1>3. CASE Ends(p)
  BY <1>t, <1>1, <1>3, EndStep
<1>4. CASE /\ row.status = "active"
           /\ proc' = [proc EXCEPT ![p].version = row.version,
                                   ![p].pc = CASE proc[p].op = "validate" -> "fill"
                                               [] proc[p].op = "rotate" -> "swap"
                                               [] OTHER -> "fence"]
  <2>1. PICK pc : pc = CASE proc[p].op = "validate" -> "fill"
                         [] proc[p].op = "rotate" -> "swap"
                         [] OTHER -> "fence"
    OBVIOUS
  <2>2. pc \in {"fill", "swap", "fence"}
    BY <2>1
  <2>3. proc' = [proc EXCEPT ![p].version = row.version, ![p].pc = pc]
    BY <1>4, <2>1
  <2> QED
    BY <1>2, <1>4, <2>2, <2>3
<1>5. CASE proc' = [proc EXCEPT ![p].version = row.version, ![p].pc = "deny"]
  <2>1. PICK pc : pc = "deny"
    OBVIOUS
  <2>2. proc' = [proc EXCEPT ![p].version = row.version, ![p].pc = pc]
    BY <1>5, <2>1
  <2> QED
    BY <1>2, <2>1, <2>2
<1> QED
  BY <1>3, <1>4, <1>5 DEF Read

LEMMA RotateSwapStep ==
  ASSUME Inv, NEW p \in Procs, RotateSwap(p)
  PROVE  Inv'
<1>t. /\ TypeOK /\ ProcOK(p) /\ proc[p].pc = "swap"
      /\ lock \in {NoOne} \cup Procs /\ faults \in 0..MaxFaults
      /\ told => row.status = "revoked"
  BY Types DEF Inv, Base, RotateSwap, TypeOK
<1>1. UNCHANGED <<redisOf, row, cache, lock, told, since, wrong, faults>>
  BY DEF RotateSwap
<1>2. CASE Ends(p)
  BY <1>t, <1>1, <1>2, EndStep
<1>3. CASE row.status = "active" /\ Goto(p, "fill")
  <2>1. /\ proc' \in [Procs -> Handler] /\ Others(p)
        /\ Now(p, proc[p].op, "fill", proc[p].version, proc[p].left, proc[p].toldAtStart)
    BY <1>t, <1>3, GotoAt DEF Pcs
  <2>2. ProcOK(p)'
    BY <1>t, <1>1, <1>3, <2>1 DEF ProcOK, Now, Pcs
  <2> QED
    BY <1>t, <1>1, <1>3, <2>1, <2>2, ProcStep
<1> QED
  BY <1>2, <1>3 DEF RotateSwap

\* A new version leaves the session active, and makes the bound of NoReactivation
\* void.
LEMMA AdvanceUpdateStep ==
  ASSUME Inv, NEW p \in Procs, AdvanceUpdate(p)
  PROVE  Inv'
<1>t. /\ Base /\ TypeOK /\ ProcOK(p) /\ proc[p].pc = "advance" /\ proc[p] \in Handler
      /\ proc \in [Procs -> Handler] /\ row \in [status : Statuses, version : 1..MaxVersion]
      /\ MaxVersion \in Nat /\ since \in 0..TTL /\ cache \in [Redises -> Copy]
      /\ lock \in {NoOne} \cup Procs /\ faults \in 0..MaxFaults
      /\ wrong \subseteq {"late", "stale"}
      /\ told \in BOOLEAN /\ (told => row.status = "revoked") /\ redisOf[p] \in Redises
  BY Types DEF Inv, Base, AdvanceUpdate, TypeOK
<1>1. UNCHANGED <<redisOf, cache, lock, told, since, wrong, faults>>
  BY DEF AdvanceUpdate
<1>2. CASE Ends(p) /\ UNCHANGED row
  BY <1>t, <1>1, <1>2, EndStep
<1>3. CASE /\ row = [status |-> "active", version |-> proc[p].version]
           /\ row' = [row EXCEPT !.version = @ + 1]
           /\ proc' = [proc EXCEPT ![p].pc = "fill", ![p].version = @ + 1]
  <2>1. row.status = "active" /\ row.version = proc[p].version
    BY <1>3
  <2>2. /\ proc[p].version + 1 \in 1..MaxVersion /\ proc[p].version \in Nat
    BY <1>t, <2>1 DEF ProcOK, Pcs
  <2>3. /\ row' \in [status : Statuses, version : 1..MaxVersion]
        /\ row'.status = "active" /\ row'.version = row.version + 1
    BY <1>t, <1>3, <2>1, <2>2
  <2>4. PICK h : h = [proc[p] EXCEPT !.pc = "fill", !.version = @ + 1]
    OBVIOUS
  <2>5. proc[p].version + 1 \in 0..MaxVersion
    BY <2>2
  <2>6. /\ h \in Handler /\ h.pc = "fill" /\ h.version = proc[p].version + 1
        /\ h.toldAtStart = proc[p].toldAtStart
    BY <1>t, <2>4, <2>5 DEF Handler, Pcs
  <2>7. proc' = [proc EXCEPT ![p] = h]
    BY <1>t, <1>3, <2>4
  <2>8. proc' \in [Procs -> Handler] /\ proc'[p] = h /\ Others(p)
    BY <1>t, <2>6, <2>7, ProcAt
  <2>9. RowMoves
    BY <1>t, <1>1, <2>1, <2>2, <2>3 DEF RowMoves
  <2>10. ProcOK(p)'
    BY <1>t, <1>1, <2>1, <2>2, <2>3, <2>6, <2>8 DEF ProcOK, Pcs
  <2>11. CopyOK(redisOf[p])'
    BY <1>t, <1>1, <2>9, CopyStays DEF Base
  <2>12. Base'
    BY <1>t, <1>1, <2>8, <2>9, <2>10, <2>11, BaseStep
  <2>13. Shut' /\ StaleBound'
    <3>1. row'.version # 1
      BY <2>1, <2>2, <2>3, <1>t DEF ProcOK, Pcs
    <3> QED
      BY <1>1, <3>1 DEF Shut, Sound, StaleBound, Inv
  <2> QED
    BY <2>12, <2>13 DEF Inv
<1> QED
  BY <1>2, <1>3 DEF AdvanceUpdate

-----------------------------------------------------------------------------
(* Steps that write to Redis.                                              *)

\* A deny, with a full life, or nothing if a newer version is there.
LEMMA DenyAt ==
  ASSUME TypeOK, NEW p \in Procs, NEW status \in Deny, NEW version \in 1..MaxVersion,
         WriteDeny(p, status, version)
  PROVE  /\ cache' \in [Redises -> Copy]
         /\ \A r \in Redises : r # redisOf[p] => cache'[r] = cache[r]
         /\ \/ cache' = cache /\ ~Accepts(p, status, version)
            \/ /\ cache'[redisOf[p]].status = status
               /\ cache'[redisOf[p]].version = version /\ cache'[redisOf[p]].left = TTL
<1>1. TTL \in 0..TTL /\ TTL > 0 /\ cache \in [Redises -> Copy]
  BY Types
<1>2. CASE ~Accepts(p, status, version) /\ UNCHANGED cache
  BY <1>1, <1>2
<1>3. CASE Stored(p, status, version, TTL)
  BY <1>1, <1>3, StoredAt
<1> QED
  BY <1>2, <1>3 DEF WriteDeny

LEMMA DenyCopy ==
  ASSUME Base, RowMoves, NEW p \in Procs, NEW status \in Deny, NEW version \in 1..MaxVersion,
         WriteDeny(p, status, version), version <= row.version, redisOf' = redisOf
  PROVE  CopyOK(redisOf[p])'
<1>1. redisOf[p] \in Redises /\ TypeOK /\ row.version \in Nat /\ row'.version \in Nat
  BY Types, BoundsAssumption DEF Base, RowMoves
<1>2. CASE cache' = cache
  BY <1>1, <1>2, CopyStays DEF Base
<1>3. CASE cache'[redisOf[p]].status = status /\ cache'[redisOf[p]].version = version
  <2>1. status # "active" /\ version \in Nat
    BY BoundsAssumption DEF Deny
  <2>2. version <= row'.version
    BY <1>1, <2>1 DEF RowMoves
  <2> QED
    BY <1>3, <2>1, <2>2 DEF CopyOK
<1> QED
  BY <1>1, <1>2, <1>3, DenyAt
\* A step that writes a deny and leaves the row alone.
LEMMA DenyStep ==
  ASSUME Inv, NEW p \in Procs, NEW status \in Deny, NEW version \in 1..MaxVersion,
         WriteDeny(p, status, version), version <= row.version,
         proc' \in [Procs -> Handler], Others(p), ProcOK(p)', proc'[p].pc # "fill",
         UNCHANGED <<redisOf, row, told, since, wrong, faults>>, lock' \in {NoOne} \cup Procs
  PROVE  Inv'
<1>1. /\ Base /\ TypeOK /\ RowMoves /\ redisOf[p] \in Redises
      /\ wrong' \subseteq {"late", "stale"} /\ faults' \in 0..MaxFaults
  BY RowStays, Types DEF Inv, Base, TypeOK
<1>2. /\ cache' \in [Redises -> Copy]
      /\ \A r \in Redises : r # redisOf[p] => cache'[r] = cache[r]
      /\ \/ cache' = cache
         \/ cache'[redisOf[p]].status = status /\ cache'[redisOf[p]].left = TTL
  BY <1>1, DenyAt
<1>3. CopyOK(redisOf[p])'
  BY <1>1, DenyCopy
<1>4. Base'
  BY <1>1, <1>2, <1>3, BaseStep
<1>5. told => \A q \in Procs : proc'[q].pc = "fill" =>
                proc[q].pc = "fill" /\ proc'[q].left = proc[q].left
  BY DEF Others
<1>6. Shut'
  BY <1>1, <1>2, <1>5, ShutStep DEF Inv
<1> QED
  BY <1>4, <1>6 DEF Inv, StaleBound

LEMMA ReadDeniesStep ==
  ASSUME Inv, NEW p \in Procs, ReadDenies(p)
  PROVE  Inv'
<1>1. /\ TypeOK /\ proc[p].pc = "deny" /\ proc[p].version \in 1..MaxVersion
      /\ proc[p].version <= row.version /\ lock \in {NoOne} \cup Procs
  BY Types DEF Inv, Base, ReadDenies, ProcOK, Pcs, Handler, TypeOK
<1>2. proc' \in [Procs -> Handler] /\ Others(p) /\ Now(p, "none", "idle", 0, 0, FALSE)
  BY <1>1, EndsAt DEF ReadDenies
<1>3. ProcOK(p)' /\ proc'[p].pc # "fill"
  BY <1>2 DEF ProcOK, Now
<1>4. "revoked" \in Deny
  BY DEF Deny
<1> QED
  BY <1>1, <1>2, <1>3, <1>4, DenyStep DEF ReadDenies

LEMMA FenceStep ==
  ASSUME Inv, NEW p \in Procs, Fence(p)
  PROVE  Inv'
<1>1. /\ TypeOK /\ ProcOK(p) /\ proc[p].pc = "fence" /\ proc[p].version \in 1..MaxVersion
      /\ proc[p].version <= row.version /\ lock \in {NoOne} \cup Procs
      /\ faults \in 0..MaxFaults
  BY Types DEF Inv, Base, Fence, ProcOK, Pcs, Handler, TypeOK
<1>2. UNCHANGED <<redisOf, row, told, since, wrong, faults>>
  BY DEF Fence
<1>3. CASE /\ Accepts(p, "revoking", proc[p].version)
           /\ Stored(p, "revoking", proc[p].version, TTL)
           /\ Goto(p, "update") /\ UNCHANGED lock
  <2>1. /\ proc' \in [Procs -> Handler] /\ Others(p)
        /\ Now(p, proc[p].op, "update", proc[p].version, proc[p].left, proc[p].toldAtStart)
    BY <1>1, <1>3, GotoAt DEF Pcs
  <2>2. ProcOK(p)' /\ proc'[p].pc # "fill"
    BY <1>1, <1>2, <2>1 DEF ProcOK, Now, Pcs
  <2>3. WriteDeny(p, "revoking", proc[p].version) /\ "revoking" \in Deny
    BY <1>3 DEF WriteDeny, Deny
  <2> QED
    BY <1>1, <1>2, <1>3, <2>1, <2>2, <2>3, DenyStep
<1>4. CASE Ends(p) /\ Unlock(p) /\ UNCHANGED cache
  BY <1>1, <1>2, <1>4, UnlockAt, EndStep
<1> QED
  BY <1>3, <1>4 DEF Fence

\* A handler ends with an answer for which nobody can blame it.
LEMMA AnswerStep ==
  ASSUME Inv, NEW p \in Procs, Ends(p), NEW active, NEW toldAtStart, NEW inTime,
         Answers(active, toldAtStart, inTime), ~(active /\ toldAtStart),
         ~(active /\ inTime /\ row.status = "revoked" /\ since = TTL),
         UNCHANGED <<redisOf, row, told, since, lock>>,
         cache' \in [Redises -> Copy], CopyOK(redisOf[p])',
         \A r \in Redises : r # redisOf[p] => cache'[r] = cache[r],
         told /\ Sound => cache' = cache,
         faults' \in 0..MaxFaults, faults' = 0 => faults = 0
  PROVE  Inv'
<1>1. /\ Base /\ TypeOK /\ RowMoves /\ redisOf[p] \in Redises /\ lock' \in {NoOne} \cup Procs
  BY RowStays, Types DEF Inv, Base, TypeOK
<1>2. proc' \in [Procs -> Handler] /\ Others(p) /\ Now(p, "none", "idle", 0, 0, FALSE)
  BY <1>1, EndsAt
<1>3. ProcOK(p)'
  BY <1>2 DEF ProcOK, Now
<1>4. /\ wrong' \subseteq {"late", "stale"}
      /\ "late" \in wrong' => "late" \in wrong
      /\ "stale" \in wrong' => "stale" \in wrong
  BY <1>1, AnswersAt
<1>5. Base'
  BY <1>1, <1>2, <1>3, <1>4, BaseStep
<1>6. told => \A q \in Procs : proc'[q].pc = "fill" =>
                proc[q].pc = "fill" /\ proc'[q].left = proc[q].left
  BY <1>2 DEF Others, Now
<1>7. Shut'
  BY <1>1, <1>2, <1>4, <1>6, ShutStep DEF Inv
<1> QED
  BY <1>4, <1>5, <1>7 DEF Inv, StaleBound

\* A fill with time left is not blocked by a deny, so that no revocation has
\* been reported, and the row has not been revoked for TTL.
LEMMA FillAt ==
  ASSUME Inv, NEW p \in Procs, proc[p].pc = "fill"
  PROVE  /\ TypeOK /\ proc[p].version \in 1..MaxVersion /\ proc[p].version <= row.version
         /\ proc[p].left \in 0..TTL /\ ~proc[p].toldAtStart
         /\ row.status = "revoked" => proc[p].left + since <= TTL
         /\ proc[p].left > 0 => ~(row.status = "revoked" /\ since = TTL)
         /\ proc[p].left > 0 /\ Accepts(p, "active", proc[p].version) => ~(told /\ Sound)
         /\ TTL \in Nat /\ since \in 0..TTL /\ redisOf[p] \in Redises
<1>1. /\ TypeOK /\ ProcOK(p) /\ proc[p] \in Handler /\ TTL \in Nat /\ since \in 0..TTL
      /\ redisOf[p] \in Redises /\ MaxVersion \in Nat
  BY Types DEF Inv, Base
<1>2. /\ proc[p].version \in 1..MaxVersion /\ proc[p].version <= row.version
      /\ proc[p].left \in 0..TTL /\ ~proc[p].toldAtStart
      /\ row.status = "revoked" => proc[p].left + since <= TTL
  BY <1>1 DEF ProcOK, Handler, Pcs
<1>3. ASSUME proc[p].left > 0, Accepts(p, "active", proc[p].version), told, Sound
      PROVE  FALSE
  <2>1. Barred(p)
    BY <1>3 DEF Inv, Shut
  <2> QED
    BY <1>2, <1>3, <2>1 DEF Barred, Accepts
<1> QED
  BY <1>1, <1>2, <1>3

LEMMA FillStep ==
  ASSUME Inv, NEW p \in Procs, Fill(p)
  PROVE  Inv'
<1>t. proc[p].pc = "fill"
  BY DEF Fill
<1>f. /\ TypeOK /\ proc[p].version \in 1..MaxVersion /\ proc[p].version <= row.version
      /\ proc[p].left \in 0..TTL /\ ~proc[p].toldAtStart
      /\ row.status = "revoked" => proc[p].left + since <= TTL
      /\ proc[p].left > 0 => ~(row.status = "revoked" /\ since = TTL)
      /\ proc[p].left > 0 /\ Accepts(p, "active", proc[p].version) => ~(told /\ Sound)
      /\ TTL \in Nat /\ since \in 0..TTL /\ redisOf[p] \in Redises
  BY <1>t, FillAt
<1>1. UNCHANGED <<redisOf, row, lock, told, since, faults>>
  BY DEF Fill
<1>b. /\ Base /\ RowMoves /\ lock \in {NoOne} \cup Procs /\ faults \in 0..MaxFaults
      /\ wrong \subseteq {"late", "stale"} /\ ProcOK(p)
  BY <1>1, RowStays, Types DEF Inv, Base, TypeOK
<1>2. CASE /\ proc[p].left > 0 /\ Accepts(p, "active", proc[p].version)
           /\ Stored(p, "active", proc[p].version, proc[p].left)
           /\ Answers(proc[p].op = "validate", proc[p].toldAtStart, TRUE)
           /\ Ends(p)
  <2>1. /\ cache' \in [Redises -> Copy]
        /\ cache'[redisOf[p]].status = "active"
        /\ cache'[redisOf[p]].version = proc[p].version
        /\ cache'[redisOf[p]].left = proc[p].left
        /\ \A r \in Redises : r # redisOf[p] => cache'[r] = cache[r]
    BY <1>f, <1>2, StoredAt
  <2>2. CopyOK(redisOf[p])'
    BY <1>f, <1>1, <2>1 DEF CopyOK
  <2>3. PICK active \in BOOLEAN, yes \in BOOLEAN :
              (active <=> proc[p].op = "validate") /\ yes = TRUE
    OBVIOUS
  <2>4. Answers(active, proc[p].toldAtStart, yes)
    BY <1>2, <2>3 DEF Answers
  <2> QED
    BY <1>f, <1>1, <1>b, <1>2, <2>1, <2>2, <2>4, AnswerStep
<1>3. CASE Ends(p) /\ UNCHANGED <<cache, wrong>>
  BY <1>1, <1>b, <1>3, EndStep
<1>g. ASSUME Goto(p, "confirm")
      PROVE  /\ proc' \in [Procs -> Handler] /\ Others(p)
             /\ ProcOK(p)' /\ proc'[p].pc # "fill"
  <2>1. /\ proc' \in [Procs -> Handler] /\ Others(p)
        /\ Now(p, proc[p].op, "confirm", proc[p].version, proc[p].left, proc[p].toldAtStart)
    BY <1>f, <1>g, GotoAt DEF Pcs
  <2> QED
    BY <1>f, <1>1, <1>b, <2>1 DEF ProcOK, Now, Pcs
<1>4. CASE Goto(p, "confirm") /\ UNCHANGED <<cache, wrong>>
  BY <1>1, <1>b, <1>g, <1>4, ProcStep
<1>5. CASE /\ Accepts(p, "active", proc[p].version)
           /\ Stored(p, "active", proc[p].version, 0)
           /\ Goto(p, "confirm") /\ UNCHANGED wrong
  <2>0. 0 \in 0..TTL
    BY <1>f
  <2>1. /\ cache' \in [Redises -> Copy]
        /\ cache'[redisOf[p]].status = "none" /\ cache'[redisOf[p]].version = 0
        /\ \A r \in Redises : r # redisOf[p] => cache'[r] = cache[r]
    BY <1>f, <1>5, <2>0, StoredAt
  <2>2. CopyOK(redisOf[p])'
    <3>1. row'.version \in Nat
      BY <1>b, BoundsAssumption DEF RowMoves
    <3>2. 0 <= row'.version
      BY <3>1
    <3> QED
      BY <1>1, <2>1, <3>2 DEF CopyOK
  <2>3. Base'
    BY <1>1, <1>b, <1>g, <1>5, <2>1, <2>2, BaseStep
  <2>4. \A q \in Procs : proc'[q].pc = "fill" =>
                proc[q].pc = "fill" /\ proc'[q].left = proc[q].left
    BY <1>g, <1>5 DEF Others
  <2>5. cache[redisOf[p]].status \notin Deny
    BY <1>5 DEF Accepts, Redis
  <2>6. Shut'
    BY <1>f, <1>1, <1>g, <1>5, <2>1, <2>4, <2>5, ShutStep DEF Inv
  <2> QED
    BY <1>5, <2>3, <2>6 DEF Inv, StaleBound
<1> QED
  BY <1>2, <1>3, <1>4, <1>5 DEF Fill, ActiveLife

LEMMA FillFailsStep ==
  ASSUME Inv, NEW p \in Procs, FillFails(p)
  PROVE  Inv'
<1>1. /\ proc[p].pc = "fill" /\ Ends(p)
      /\ Answers(proc[p].op = "validate", proc[p].toldAtStart, proc[p].left > 0)
      /\ UNCHANGED <<redisOf, row, cache, lock, told, since>>
  BY DEF FillFails, ActiveLife
<1>2. /\ Base /\ TypeOK /\ ~proc[p].toldAtStart
      /\ ~(proc[p].left > 0 /\ row.status = "revoked" /\ since = TTL)
      /\ redisOf[p] \in Redises
  BY <1>1, FillAt DEF Inv
<1>3. /\ faults' \in 0..MaxFaults /\ faults' # 0 /\ RowMoves /\ cache' \in [Redises -> Copy]
  BY <1>1, <1>2, FaultAt, RowStays, Types DEF FillFails
<1>4. CopyOK(redisOf[p])'
  BY <1>1, <1>2, <1>3, CopyStays DEF Base
<1>5. PICK active \in BOOLEAN, inTime \in BOOLEAN :
            (active <=> proc[p].op = "validate") /\ (inTime <=> proc[p].left > 0)
  OBVIOUS
<1>6. Answers(active, proc[p].toldAtStart, inTime)
  BY <1>1, <1>5 DEF Answers
<1> QED
  BY <1>1, <1>2, <1>3, <1>4, <1>5, <1>6, AnswerStep

LEMMA ConfirmStep ==
  ASSUME Inv, NEW p \in Procs, Confirm(p)
  PROVE  Inv'
<1>1. /\ proc[p].pc = "confirm" /\ Ends(p)
      /\ Answers(proc[p].op = "validate" /\ Confirmed(p), proc[p].toldAtStart, TRUE)
      /\ UNCHANGED <<redisOf, row, cache, lock, told, since, faults>>
  BY DEF Confirm
<1>2. /\ Base /\ TypeOK /\ RowMoves /\ ProcOK(p) /\ redisOf[p] \in Redises
      /\ cache' \in [Redises -> Copy] /\ faults' \in 0..MaxFaults
  BY <1>1, RowStays, Types DEF Inv, Base
<1>3. ~proc[p].toldAtStart
  BY <1>1, <1>2 DEF ProcOK
<1>4. CopyOK(redisOf[p])'
  BY <1>1, <1>2, CopyStays DEF Base
<1>5. PICK active \in BOOLEAN, yes \in BOOLEAN :
            (active <=> proc[p].op = "validate" /\ Confirmed(p)) /\ yes = TRUE
  OBVIOUS
<1>6. Answers(active, proc[p].toldAtStart, yes)
  BY <1>1, <1>5 DEF Answers
<1>7. ~(active /\ row.status = "revoked" /\ since = TTL)
  BY <1>5 DEF Confirmed
<1> QED
  BY <1>1, <1>2, <1>3, <1>4, <1>6, <1>7, AnswerStep
-----------------------------------------------------------------------------
(* Revocation, validation from a copy, and time.                           *)

LEMMA UpdateStep ==
  ASSUME Inv, NEW p \in Procs, Update(p)
  PROVE  Inv'
<1>t. /\ Base /\ TypeOK /\ ProcOK(p) /\ proc[p].pc = "update" /\ proc[p] \in Handler
      /\ proc \in [Procs -> Handler] /\ row \in [status : Statuses, version : 1..MaxVersion]
      /\ MaxVersion \in Nat /\ TTL \in Nat /\ cache \in [Redises -> Copy]
      /\ faults \in 0..MaxFaults /\ wrong \subseteq {"late", "stale"}
      /\ told \in BOOLEAN /\ (told => row.status = "revoked") /\ redisOf[p] \in Redises
  BY Types DEF Inv, Base, Update, TypeOK
<1>1. UNCHANGED <<redisOf, cache, told, wrong, faults>> /\ lock' \in {NoOne} \cup Procs
  BY <1>t, UnlockAt DEF Update
<1>2. CASE Ends(p) /\ UNCHANGED <<row, since>>
  BY <1>t, <1>1, <1>2, EndStep
<1>3. CASE /\ row.status = "active" /\ row' = [row EXCEPT !.status = "revoked"]
           /\ since' = 0
           /\ proc' = [proc EXCEPT ![p].pc = "tomb", ![p].version = TombVersion(p)]
  <2>1. TombVersion(p) \in 1..MaxVersion /\ TombVersion(p) <= row.version
    BY <1>t DEF TombVersion, ProcOK, Pcs, Handler
  <2>2. /\ row' \in [status : Statuses, version : 1..MaxVersion]
        /\ row'.status = "revoked" /\ row'.version = row.version
    BY <1>t, <1>3 DEF Statuses
  <2>3. PICK h : h = [proc[p] EXCEPT !.pc = "tomb", !.version = TombVersion(p)]
    OBVIOUS
  <2>4. TombVersion(p) \in 0..MaxVersion /\ 0 \in 0..TTL
    BY <1>t, <2>1
  <2>5. /\ h \in Handler /\ h.pc = "tomb" /\ h.version = TombVersion(p)
        /\ h.toldAtStart = proc[p].toldAtStart
    BY <1>t, <2>3, <2>4 DEF Handler, Pcs
  <2>6. proc' = [proc EXCEPT ![p] = h]
    BY <1>t, <1>3, <2>3
  <2>7. proc' \in [Procs -> Handler] /\ proc'[p] = h /\ Others(p)
    BY <1>t, <2>5, <2>6, ProcAt
  <2>8. RowMoves
    BY <1>t, <1>1, <1>3, <2>2, <2>4 DEF RowMoves
  <2>9. ProcOK(p)'
    BY <1>t, <1>1, <2>1, <2>2, <2>5, <2>7 DEF ProcOK, Pcs
  <2>10. CopyOK(redisOf[p])'
    BY <1>t, <1>1, <2>8, CopyStays DEF Base
  <2>11. Base'
    BY <1>t, <1>1, <2>7, <2>8, <2>9, <2>10, BaseStep
  <2>12. ~told
    BY <1>t, <1>3
  <2>13. Shut'
    BY <1>t, <1>1, <2>2, <2>7, <2>12, ShutStep DEF Inv
  <2> QED
    BY <1>1, <2>11, <2>13 DEF Inv, StaleBound
<1> QED
  BY <1>2, <1>3 DEF Update

\* The revocation is reported: with one version and one Redis its tombstone is
\* accepted, and lives as long as any window that is open.
LEMMA TombstoneStep ==
  ASSUME Inv, NEW p \in Procs, Tombstone(p)
  PROVE  Inv'
<1>t. /\ Base /\ TypeOK /\ ProcOK(p) /\ proc[p].pc = "tomb" /\ row.status = "revoked"
      /\ proc[p].version \in 1..MaxVersion /\ proc[p].version <= row.version
      /\ row \in [status : Statuses, version : 1..MaxVersion] /\ since \in 0..TTL
      /\ MaxVersion \in Nat /\ TTL \in Nat /\ lock \in {NoOne} \cup Procs
      /\ faults \in 0..MaxFaults /\ wrong \subseteq {"late", "stale"} /\ redisOf[p] \in Redises
  BY Types DEF Inv, Base, Tombstone, ProcOK, Pcs, Handler, TypeOK
<1>1. /\ UNCHANGED <<redisOf, row, lock, since, wrong, faults>> /\ told' = TRUE
      /\ WriteDeny(p, "revoked", proc[p].version) /\ "revoked" \in Deny
  BY DEF Tombstone, Deny
<1>2. RowMoves
  BY <1>t, <1>1 DEF RowMoves
<1>3. proc' \in [Procs -> Handler] /\ Others(p) /\ Now(p, "none", "idle", 0, 0, FALSE)
  BY <1>t, EndsAt DEF Tombstone
<1>4. ProcOK(p)'
  BY <1>3 DEF ProcOK, Now
<1>5. /\ cache' \in [Redises -> Copy]
      /\ \A r \in Redises : r # redisOf[p] => cache'[r] = cache[r]
      /\ \/ cache' = cache /\ ~Accepts(p, "revoked", proc[p].version)
         \/ cache'[redisOf[p]].status = "revoked" /\ cache'[redisOf[p]].left = TTL
  BY <1>t, <1>1, DenyAt
<1>6. CopyOK(redisOf[p])'
  BY <1>t, <1>1, <1>2, DenyCopy
<1>7. Base'
  BY <1>t, <1>1, <1>2, <1>3, <1>4, <1>5, <1>6, BaseStep
<1>8. ASSUME Sound'
      PROVE  "late" \notin wrong' /\ \A q \in Procs : Barred(q)'
  <2>1. Sound
    BY <1>1, <1>8 DEF Sound
  <2>2. Accepts(p, "revoked", proc[p].version)
    <3>1. cache[redisOf[p]].version <= row.version /\ row.version = 1
      BY <1>t, <2>1 DEF Base, CopyOK, Sound
    <3>2. proc[p].version = 1
      BY <1>t, <3>1
    <3> QED
      BY <3>1, <3>2 DEF Accepts, Redis
  <2>3. cache'[redisOf[p]].status = "revoked" /\ cache'[redisOf[p]].left = TTL
    BY <1>5, <2>2
  <2>4. \A q \in Procs : redisOf'[q] = redisOf[p]
    BY <1>1, <2>1 DEF Sound
  <2>5. \A q \in Procs : proc'[q].left <= TTL
    BY <1>t, <1>3 DEF Handler
  <2> QED
    BY <1>1, <2>1, <2>3, <2>4, <2>5 DEF Barred, Redis, Inv, Shut
<1> QED
  BY <1>1, <1>7, <1>8 DEF Inv, StaleBound, Shut

LEMMA TombstoneFailsStep ==
  ASSUME Inv, NEW p \in Procs, TombstoneFails(p)
  PROVE  Inv'
<1>t. /\ Base /\ TypeOK /\ ProcOK(p) /\ proc[p].pc = "tomb" /\ row.status = "revoked"
      /\ row \in [status : Statuses, version : 1..MaxVersion] /\ since \in 0..TTL
      /\ MaxVersion \in Nat /\ lock \in {NoOne} \cup Procs /\ cache \in [Redises -> Copy]
      /\ wrong \subseteq {"late", "stale"} /\ redisOf[p] \in Redises
  BY Types DEF Inv, Base, TombstoneFails, ProcOK, TypeOK
<1>1. /\ UNCHANGED <<redisOf, row, cache, lock, since, wrong>> /\ told' = TRUE
      /\ faults' \in 0..MaxFaults /\ faults' # 0
  BY <1>t, FaultAt DEF TombstoneFails
<1>2. RowMoves
  BY <1>t, <1>1 DEF RowMoves
<1>3. proc' \in [Procs -> Handler] /\ Others(p) /\ Now(p, "none", "idle", 0, 0, FALSE)
  BY <1>t, EndsAt DEF TombstoneFails
<1>4. ProcOK(p)'
  BY <1>3 DEF ProcOK, Now
<1>5. CopyOK(redisOf[p])'
  BY <1>t, <1>1, <1>2, CopyStays DEF Base
<1>6. Base'
  BY <1>t, <1>1, <1>2, <1>3, <1>4, <1>5, BaseStep
<1> QED
  BY <1>1, <1>6 DEF Inv, StaleBound, Shut, Sound

LEMMA ValidateHitStep ==
  ASSUME Inv, NEW p \in Procs, ValidateHit(p)
  PROVE  Inv'
<1>t. /\ Base /\ TypeOK /\ redisOf[p] \in Redises /\ CopyOK(redisOf[p])
      /\ TTL \in Nat /\ since \in 0..TTL
  BY Types DEF Inv, Base
<1>1. /\ UNCHANGED <<redisOf, row, cache, proc, lock, told, since, faults>>
      /\ Answers(Redis(p).status = "active", told, TRUE)
  BY DEF ValidateHit
<1>2. cache[redisOf[p]].left \in 0..TTL /\ (Redis(p).status = "active" => Redis(p).left > 0)
  BY <1>t, CopyAt DEF Redis
<1>3. ~(Redis(p).status = "active" /\ row.status = "revoked" /\ since = TTL)
  BY <1>t, <1>2 DEF CopyOK, Redis
<1>4. /\ wrong' \subseteq {"late", "stale"}
      /\ "late" \in wrong' => "late" \in wrong \/ (Redis(p).status = "active" /\ told)
      /\ "stale" \in wrong' => "stale" \in wrong
  <2>1. PICK active \in BOOLEAN, yes \in BOOLEAN :
              (active <=> Redis(p).status = "active") /\ yes = TRUE
    OBVIOUS
  <2>2. Answers(active, told, yes)
    BY <1>1, <2>1 DEF Answers
  <2>3. /\ wrong' \subseteq {"late", "stale"}
        /\ "late" \in wrong' => "late" \in wrong \/ (active /\ told)
        /\ "stale" \in wrong' =>
             "stale" \in wrong \/ (active /\ row.status = "revoked" /\ since = TTL)
    BY <1>t, <2>2 DEF Answers, TypeOK
  <2> QED
    BY <1>3, <2>1, <2>3
<1>5. Base'
  BY <1>t, <1>1, <1>4 DEF Base, TypeOK, ProcOK, CopyOK
<1>6. ASSUME Sound'
      PROVE  "late" \notin wrong' /\ (told' => \A q \in Procs : Barred(q)')
  <2>1. Sound /\ "late" \notin wrong /\ (told => \A q \in Procs : Barred(q))
    BY <1>1, <1>6 DEF Sound, Inv, Shut
  <2>2. told => Redis(p).status # "active"
    BY <2>1 DEF Barred, Deny
  <2> QED
    BY <1>1, <1>4, <2>1, <2>2 DEF Barred, Redis
<1> QED
  BY <1>4, <1>5, <1>6 DEF Inv, Shut, StaleBound

\* What one unit of time does to a copy and to a window.
LEMMA AgedAt ==
  ASSUME TypeOK, NEW r \in Redises, Tick
  PROVE  /\ cache'[r] \in Copy
         /\ cache[r].left <= 1 => cache'[r].status = "none" /\ cache'[r].version = 0
         /\ cache[r].left > 1 => /\ cache'[r].status = cache[r].status
                                 /\ cache'[r].version = cache[r].version
                                 /\ cache'[r].left = cache[r].left - 1
<1>t. TTL \in Nat /\ cache[r] \in Copy
  BY Types
<1>1. PICK e : e = Aged(cache[r])
  OBVIOUS
<1>2. cache'[r] = e
  BY <1>1 DEF Tick
<1>3. CASE cache[r].left <= 1
  BY <1>1, <1>2, <1>3, <1>t DEF Aged, Gone, Copy
<1>4. CASE ~(cache[r].left <= 1)
  <2>1. cache[r] # Gone
    BY <1>4 DEF Gone
  <2>2. cache[r] \in [status : {"active"} \cup Deny, version : 1..MaxVersion, left : 1..TTL]
    BY <1>t, <2>1 DEF Copy
  <2>3. cache[r].left - 1 \in 1..TTL /\ cache[r].left > 1
    BY <1>t, <1>4, <2>2
  <2>4. e = [cache[r] EXCEPT !.left = @ - 1]
    BY <1>1, <1>4 DEF Aged
  <2>5. /\ e \in [status : {"active"} \cup Deny, version : 1..MaxVersion, left : 1..TTL]
        /\ e.status = cache[r].status /\ e.version = cache[r].version
        /\ e.left = cache[r].left - 1
    BY <2>2, <2>3, <2>4
  <2> QED
    BY <1>2, <1>4, <2>3, <2>5 DEF Copy
<1>5. cache[r].left \in 0..TTL
  BY CopyAt
<1> QED
  BY <1>3, <1>4, <1>5, <1>t

LEMMA WindowAt ==
  ASSUME TypeOK, NEW p \in Procs, Tick
  PROVE  /\ proc'[p] \in Handler
         /\ Now(p, proc[p].op, proc[p].pc, proc[p].version, Less(proc[p].left),
                proc[p].toldAtStart)
         /\ Less(proc[p].left) \in 0..TTL
<1>t. TTL \in Nat /\ proc[p] \in Handler
  BY Types
<1>1. PICK h : h = [proc[p] EXCEPT !.left = Less(@)]
  OBVIOUS
<1>2. proc'[p] = h
  BY <1>1 DEF Tick
<1>3. Less(proc[p].left) \in 0..TTL
  BY <1>t DEF Less, Handler
<1>4. /\ h \in Handler /\ h.op = proc[p].op /\ h.pc = proc[p].pc /\ h.version = proc[p].version
      /\ h.left = Less(proc[p].left) /\ h.toldAtStart = proc[p].toldAtStart
  BY <1>t, <1>1, <1>3 DEF Handler
<1> QED
  BY <1>2, <1>3, <1>4 DEF Now

LEMMA TickStep ==
  ASSUME Inv, Tick
  PROVE  Inv'
<1>t. /\ Base /\ TypeOK /\ TTL \in Nat /\ since \in 0..TTL
      /\ row \in [status : Statuses, version : 1..MaxVersion] /\ MaxVersion \in Nat
      /\ redisOf \in [Procs -> Redises]
  BY Types DEF Inv, Base
<1>1. /\ UNCHANGED <<redisOf, row, lock, told, wrong, faults>>
      /\ since' = IF row.status = "revoked" /\ since < TTL THEN since + 1 ELSE since
      /\ since' \in 0..TTL /\ since' <= since + 1
  BY <1>t DEF Tick
<1>2. cache' \in [Redises -> Copy] /\ proc' \in [Procs -> Handler]
  <2>1. \A r \in Redises : cache'[r] \in Copy
    BY <1>t, AgedAt
  <2>2. \A p \in Procs : proc'[p] \in Handler
    BY <1>t, WindowAt
  <2>3. cache' = [r \in Redises |-> cache'[r]] /\ proc' = [p \in Procs |-> proc'[p]]
    BY DEF Tick
  <2> QED
    BY <2>1, <2>2, <2>3
<1>3. TypeOK'
  BY <1>t, <1>1, <1>2 DEF TypeOK, Handler, Copy, Pcs
<1>4. ASSUME NEW p \in Procs
      PROVE  ProcOK(p)'
  <2>1. /\ Now(p, proc[p].op, proc[p].pc, proc[p].version, Less(proc[p].left),
               proc[p].toldAtStart)
        /\ ProcOK(p) /\ proc[p].left \in 0..TTL
    BY <1>t, WindowAt, Types DEF Base, Handler
  <2>2. row.status = "revoked" /\ proc[p].pc = "fill" => Less(proc[p].left) + since' <= TTL
    BY <1>t, <1>1, <2>1 DEF ProcOK, Less
  <2> QED
    BY <1>1, <2>1, <2>2 DEF ProcOK, Now
<1>5. ASSUME NEW r \in Redises
      PROVE  CopyOK(r)'
  <2>1. CopyOK(r) /\ cache[r].left \in 0..TTL /\ cache[r].version \in Nat /\ row.version \in Nat
    BY <1>t, CopyAt DEF Base
  <2>2. CASE cache[r].left <= 1
    BY <1>t, <1>1, <2>1, <2>2, AgedAt DEF CopyOK
  <2>3. CASE cache[r].left > 1
    <3>1. /\ cache'[r].status = cache[r].status /\ cache'[r].version = cache[r].version
          /\ cache'[r].left = cache[r].left - 1
      BY <1>t, <2>3, AgedAt
    <3> QED
      BY <1>t, <1>1, <2>1, <3>1 DEF CopyOK
  <2> QED
    BY <1>t, <2>1, <2>2, <2>3
<1>6. Base'
  BY <1>t, <1>1, <1>3, <1>4, <1>5 DEF Base
<1>7. ASSUME Sound'
      PROVE  "late" \notin wrong' /\ (told' => \A p \in Procs : Barred(p)')
  <2>1. Sound /\ "late" \notin wrong /\ (told => \A p \in Procs : Barred(p))
    BY <1>1, <1>7 DEF Sound, Inv, Shut
  <2>2. ASSUME told, NEW p \in Procs
        PROVE  Barred(p)'
    <3>1. \A q \in Procs : /\ proc'[q].pc = proc[q].pc /\ proc'[q].left = Less(proc[q].left)
                           /\ proc[q].left \in 0..TTL
      BY <1>t, WindowAt, Types DEF Now, Handler
    <3>2. Barred(p) /\ redisOf[p] \in Redises /\ redisOf' = redisOf
      BY <1>t, <1>1, <2>1, <2>2
    <3>3. cache[redisOf[p]].left \in 0..TTL
      BY <1>t, <3>2, CopyAt
    <3>4. CASE cache[redisOf[p]].left <= 1
      <4>1. cache'[redisOf[p]].status = "none"
        BY <1>t, <3>2, <3>4, AgedAt
      <4>2. ASSUME NEW q \in Procs, proc[q].pc = "fill"
            PROVE  proc'[q].left = 0
        <5>1. proc[q].left <= 1
          BY <1>t, <3>1, <3>2, <3>3, <3>4, <4>2 DEF Barred, Redis
        <5> QED
          BY <3>1, <5>1 DEF Less
      <4> QED
        BY <3>1, <3>2, <4>1, <4>2 DEF Barred, Redis
    <3>5. CASE cache[redisOf[p]].left > 1
      <4>1. /\ cache'[redisOf[p]].status = cache[redisOf[p]].status
            /\ cache'[redisOf[p]].left = cache[redisOf[p]].left - 1
        BY <1>t, <3>2, <3>5, AgedAt
      <4>2. \A q \in Procs : /\ proc[q].left <= cache[redisOf[p]].left =>
                                  proc'[q].left <= cache'[redisOf[p]].left
                             /\ proc[q].left = 0 => proc'[q].left = 0
        BY <1>t, <3>1, <3>3, <3>5, <4>1 DEF Less
      <4> QED
        BY <3>1, <3>2, <4>1, <4>2 DEF Barred, Redis
    <3> QED
      BY <1>t, <3>3, <3>4, <3>5
  <2> QED
    BY <1>1, <2>1, <2>2
<1> QED
  BY <1>1, <1>6, <1>7 DEF Inv, Shut, StaleBound

-----------------------------------------------------------------------------
(* The theorems.                                                           *)

LEMMA InvInit == Init => Inv
<1> SUFFICES ASSUME Init
             PROVE  Inv
  OBVIOUS
<1>0. /\ TTL \in Nat /\ TTL > 0 /\ MaxVersion \in Nat /\ MaxVersion > 0
      /\ MaxFaults \in Nat /\ 0 \in 0..TTL /\ 0 \in 0..MaxFaults /\ 0 \in 0..MaxVersion
      /\ 1 \in 1..MaxVersion /\ TTL \in 1..TTL
  BY BoundsAssumption
<1>1. /\ redisOf \in Topologies /\ lock = NoOne /\ told = FALSE /\ since = 0 /\ wrong = {}
      /\ faults = 0
  BY DEF Init
<1>2. PICK w : w = [status |-> "active", version |-> 1]
  OBVIOUS
<1>3. /\ row = w /\ w.status = "active" /\ w.version = 1
      /\ w \in [status : Statuses, version : 1..MaxVersion]
  BY <1>0, <1>2 DEF Init, Statuses
<1>4. PICK h : h = Idle
  OBVIOUS
<1>5. /\ h \in Handler /\ h.pc = "idle" /\ h.toldAtStart = FALSE
      /\ proc = [p \in Procs |-> h]
  BY <1>0, <1>4 DEF Init, Idle, Handler, Pcs
<1>6. PICK warm \in BOOLEAN :
        cache = [r \in Redises |->
                   IF warm THEN [status |-> "active", version |-> 1, left |-> TTL] ELSE Gone]
  BY DEF Init
<1>7. PICK e : e = IF warm THEN [status |-> "active", version |-> 1, left |-> TTL] ELSE Gone
  OBVIOUS
<1>8. e \in Copy /\ e.version <= 1 /\ cache = [r \in Redises |-> e]
  <2>1. cache = [r \in Redises |-> e]
    BY <1>6, <1>7
  <2>2. CASE warm
    BY <1>0, <1>7, <2>1, <2>2 DEF Copy
  <2>3. CASE ~warm
    BY <1>7, <2>1, <2>3 DEF Copy, Gone
  <2> QED
    BY <2>2, <2>3
<1>9. TypeOK
  BY <1>0, <1>1, <1>3, <1>5, <1>8 DEF TypeOK, Handler, Copy, Pcs, Statuses
<1>10. \A p \in Procs : ProcOK(p)
  BY <1>3, <1>5 DEF ProcOK
<1>11. \A r \in Redises : CopyOK(r)
  BY <1>3, <1>8 DEF CopyOK
<1> QED
  BY <1>1, <1>9, <1>10, <1>11 DEF Inv, Base, StaleBound, Shut

LEMMA InvNext == Inv /\ [Next]_vars => Inv'
<1> SUFFICES ASSUME Inv, [Next]_vars
             PROVE  Inv'
  OBVIOUS
<1>1. CASE Tick
  BY <1>1, TickStep
<1>2. ASSUME NEW p \in Procs, Step(p)
      PROVE  Inv'
  BY <1>2, ReadStep, ReadDeniesStep, RotateSwapStep, AdvanceUpdateStep, FillStep, ConfirmStep,
     FenceStep, UpdateStep, TombstoneStep DEF Step
<1>3. ASSUME NEW p \in Procs,
             \/ ValidateHit(p) \/ ValidateMiss(p) \/ Rotate(p) \/ Advance(p)
             \/ Revoke(p) \/ RevokeByHash(p)
             \/ FillFails(p) \/ TombstoneFails(p) \/ Dies(p)
      PROVE  Inv'
  BY <1>3, ValidateHitStep, StartStep, FillFailsStep, TombstoneFailsStep, DiesStep
<1>4. CASE UNCHANGED vars
  BY <1>4 DEF vars, Inv, Base, TypeOK, ProcOK, CopyOK, StaleBound, Shut, Sound, Barred, Redis
<1> QED
  BY <1>1, <1>2, <1>3, <1>4 DEF Next

LEMMA Invariance == Spec => []Inv
BY InvInit, InvNext, PTL DEF Spec

\* Types of the row, its copies and the handlers: a copy that is there has time
\* left and no version beyond the bound.
THEOREM TypeCorrect == Spec => []TypeOK
<1>1. Inv => TypeOK
  BY DEF Inv, Base
<1> QED
  BY <1>1, Invariance, PTL

\* However many nodes and Redis servers there are and whatever fails, no
\* validation answers "active" once the row has been revoked for TTL, but one that
\* was under way when the revocation was reported and whose write to Redis failed
\* after its window.
THEOREM StalenessBounded == Spec => []StaleBound
<1>1. Inv => StaleBound
  BY DEF Inv
<1> QED
  BY <1>1, Invariance, PTL

\* With one Redis whose writes work, and while the session keeps its version,
\* no validation that begins after a revocation has reported success answers
\* "active": the tombstone outlives every window that was open.
THEOREM RevokedStaysRevoked == Spec => []NoReactivation
<1>1. Inv => NoReactivation
  BY DEF Inv, Shut, Sound, NoReactivation
<1> QED
  BY <1>1, Invariance, PTL
-----------------------------------------------------------------------------
(***************************************************************************)
(* The browser's half of the login session, module AuthClient: a tab does  *)
(* not go back to a session it has signed out of, and tabs that take turns *)
(* under the Web Lock never present an old secret.                         *)
(***************************************************************************)
USE AuthClientAssumption

Session == [st : {"none", "active", "revoked"}, grace : BOOLEAN, reused : BOOLEAN]

\* What the argument needs of the types.
ClientFits ==
  /\ sess \in [Sids -> Session]
  /\ cookie \in Token /\ orphans \subseteq Token
  /\ tab \in [Tabs -> TabState]
  /\ ref \in [Tabs -> RefState]
  /\ signedOut \in [Tabs -> SUBSET Sids]

\* The sessions a tab has signed out of are over; it shows none of them, and
\* no answer it is still waiting to act on brings one.
TabOK(t) ==
  /\ tab[t].sid \notin signedOut[t]
  /\ \A s \in signedOut[t] : sess[s].st = "revoked"
  /\ ref[t].pc = "answered" /\ ref[t].current /\ ref[t].ans.kind = "ok" =>
       ref[t].ans.sid \notin signedOut[t]

\* A tab with a request or an answer under way holds the Web Lock, and the
\* secret it has sent or is about to store is the current one.
TurnOK(t) ==
  /\ ref[t].pc = "wait" \/ ref[t].pc = "sent" \/ ref[t].pc = "answered" => webLock = t
  /\ ref[t].pc = "sent" => ref[t].ck.age = 0 /\ ref[t].ans.set = "keep"
  /\ ref[t].pc = "answered" /\ ref[t].ans.set = "write" => ref[t].ans.age = 0

\* The cookie is out of date only while the answer that replaces it is on its
\* way.
CookieOK ==
  cookie.age = 0 \/ \E t \in Tabs : ref[t].pc = "answered" /\ ref[t].ans.set = "write"

InTurn ==
  /\ orphans = {}
  /\ \A t \in Tabs : TurnOK(t)
  /\ CookieOK
  /\ \A s \in Sids : ~sess[s].reused

ClientInv ==
  /\ ClientFits
  /\ \A t \in Tabs : TabOK(t)
  /\ use.locks /\ ~lost => InTurn

-----------------------------------------------------------------------------
(* What the helpers do.                                                    *)

LEMMA NothingFits ==
         /\ NoToken \in Token /\ NoToken.age = 0
         /\ NoAnswer \in Answer /\ NoAnswer.set = "keep" /\ NoAnswer.kind = "none"
         /\ NoRef \in RefState /\ NoRef.pc = "none"
BY DEF AuthClientAssumption, NoToken, Token, NoAnswer, Answer, NoRef, RefState

LEMMA AgedToken ==
  ASSUME NEW c \in Token, NEW s
  PROVE  Older(c, s) \in Token /\ Older(c, s).sid = c.sid
BY DEF Older, Token

LEMMA AgedAnswer ==
  ASSUME NEW a \in Answer, NEW s
  PROVE  /\ Older(a, s) \in Answer /\ Older(a, s).sid = a.sid
         /\ Older(a, s).kind = a.kind /\ Older(a, s).set = a.set
BY DEF Older, Answer

\* A rotation changes only the ages in the refreshes under way.
LEMMA AgedRef ==
  ASSUME ClientFits, NEW s, NEW u \in Tabs
  PROVE  LET r == AgedRefs(s)[u] IN
         /\ r \in RefState
         /\ r.pc = ref[u].pc /\ r.current = ref[u].current
         /\ r.ck.sid = ref[u].ck.sid
         /\ r.ans.sid = ref[u].ans.sid /\ r.ans.kind = ref[u].ans.kind
         /\ r.ans.set = ref[u].ans.set
<1>1. ref[u] \in RefState
  BY DEF ClientFits
<1>2. ref[u].ck \in Token /\ ref[u].ans \in Answer
  BY <1>1 DEF RefState
<1>3. PICK c : c = Older(ref[u].ck, s)
  OBVIOUS
<1>4. PICK a : a = Older(ref[u].ans, s)
  OBVIOUS
<1>5. c \in Token /\ c.sid = ref[u].ck.sid
  BY <1>2, <1>3, AgedToken
<1>6. /\ a \in Answer /\ a.sid = ref[u].ans.sid
      /\ a.kind = ref[u].ans.kind /\ a.set = ref[u].ans.set
  BY <1>2, <1>4, AgedAnswer
<1>7. AgedRefs(s)[u] = [ref[u] EXCEPT !.ck = c, !.ans = a]
  BY <1>3, <1>4 DEF AgedRefs
<1> QED
  BY <1>1, <1>5, <1>6, <1>7 DEF RefState

LEMMA AgedRefsFit ==
  ASSUME ClientFits, NEW s
  PROVE  /\ AgedRefs(s) \in [Tabs -> RefState]
         /\ s = None => \A u \in Tabs : AgedRefs(s)[u] = ref[u]
<1>1. \A u \in Tabs : AgedRefs(s)[u] \in RefState
  BY AgedRef
<1>2. ASSUME s = None, NEW u \in Tabs PROVE AgedRefs(s)[u] = ref[u]
  <2>1. ref[u] \in RefState
    BY DEF ClientFits
  <2>2. AgedRefs(s)[u] = [ref[u] EXCEPT !.ck = ref[u].ck, !.ans = ref[u].ans]
    BY <1>2 DEF AgedRefs, Older
  <2> QED
    BY <2>1, <2>2 DEF RefState
<1> QED
  BY <1>1, <1>2 DEF AgedRefs

LEMMA Joined ==
  ASSUME NEW r \in RefState, NEW st \in TabState,
         NEW ck \in Token
  PROVE  LET j == JoinRefresh(r, st, ck) IN
         /\ j \in RefState
         /\ r.pc # "none" => j = r
         /\ r.pc = "none" => j.pc = "lock" \/ j.pc = "sent"
         /\ r.pc = "none" /\ use.locks => j.pc = "lock"
<1>1. st.sid \in Sids \cup {None}
  BY DEF TabState
<1>2. PICK n : n = [NoRef EXCEPT !.pc = "lock", !.current = TRUE, !.again = TRUE]
  OBVIOUS
<1>3. n \in RefState /\ n.pc = "lock"
  BY <1>2, NothingFits DEF RefState
<1>4. PICK m : m = Send(n, st, ck)
  OBVIOUS
<1>5. m \in RefState /\ m.pc = "sent"
  BY <1>1, <1>3, <1>4, NothingFits DEF RefState, Send
<1> QED
  BY <1>2, <1>3, <1>4, <1>5 DEF JoinRefresh
LEMMA Sent ==
  ASSUME NEW r \in RefState, NEW st \in TabState,
         NEW ck \in Token
  PROVE  LET j == Send(r, st, ck) IN
         j \in RefState /\ j.pc = "sent" /\ j.ck = ck /\ j.ans.set = "keep"
<1>1. st.sid \in Sids \cup {None}
  BY DEF TabState
<1> QED
  BY <1>1, NothingFits DEF RefState, Send

LEMMA Settled ==
  ASSUME ClientFits, NEW t \in Tabs, NEW o,
         NEW st \in TabState, Settle(t, o, st)
  PROVE  /\ tab' \in [Tabs -> TabState] /\ tab'[t].sid = st.sid
         /\ \A u \in Tabs : u # t => tab'[u] = tab[u] /\ ref'[u] = ref[u]
         /\ ref' \in [Tabs -> RefState] /\ ref'[t].pc = "none"
         /\ webLock' = LockReleased(t)
<1>1. PICK n : n = [st EXCEPT !.page = "ready"]
  OBVIOUS
<1>2. n \in TabState /\ n.sid = st.sid
  BY <1>1 DEF TabState
<1>3. tab' = [tab EXCEPT ![t] = n] /\ ref' = [ref EXCEPT ![t] = NoRef]
  BY <1>1 DEF Settle
<1> QED
  BY <1>2, <1>3, NothingFits DEF Settle, ClientFits

LEMMA StoreReset ==
  ASSUME NEW st \in TabState,
         NEW b \in {"idle", "checking", "complete"}
  PROVE  /\ ResetStore(st, b) \in TabState /\ ResetStore(st, b).sid = None
         /\ [st EXCEPT !.boot = b] \in TabState /\ [st EXCEPT !.boot = b].sid = st.sid
BY DEF TabState, ResetStore

LEMMA BundleSet ==
  ASSUME NEW st \in TabState, NEW s \in Sids \cup {None}
  PROVE  SetBundle(st, s) \in TabState /\ SetBundle(st, s).sid = s
BY DEF TabState, SetBundle

LEMMA CookieFits ==
  ASSUME ClientFits, NEW a \in Answer
  PROVE  /\ CookieAfter(a) \in Token
         /\ a.set = "keep" => CookieAfter(a) = cookie
         /\ a.set = "clear" => CookieAfter(a).age = 0
         /\ a.set = "write" => CookieAfter(a).age = a.age
BY NothingFits DEF CookieAfter, Answer, Token, ClientFits

\* The answers of RefreshAuth are typed, only a live session is answered "ok",
\* and a current secret is not answered as a race.
LEMMA AnswersFit ==
  ASSUME ClientFits, NEW c \in Token, NEW e,
         NEW a \in RefreshAnswers(c, e)
  PROVE  /\ a \in Answer /\ a.age = 0 /\ a.kind # "none"
         /\ a.kind = "ok" => sess[a.sid].st = "active"
         /\ Rotates(c, e) => a.set = "write"
<1> DEFINE reply(kind, set) == [kind |-> kind, sid |-> c.sid, set |-> set, age |-> 0]
<1>1. /\ reply("unauth", "clear") \in Answer /\ reply("mismatch", "keep") \in Answer
      /\ reply("ok", "write") \in Answer /\ reply("race", "keep") \in Answer
  BY DEF Answer, Token
<1>2. \/ a = reply("unauth", "clear") /\ ~Rotates(c, e)
      \/ a = reply("mismatch", "keep") /\ ~Rotates(c, e)
      \/ a = reply("ok", "write") /\ Reaches(c, e)
      \/ a = reply("race", "keep") /\ ~Rotates(c, e)
  BY DEF RefreshAnswers, Rotates, Reaches
<1> QED
  BY <1>1, <1>2 DEF Reaches

\* A refresh leaves the sessions typed and revoked sessions revoked; it marks a
\* reuse only for a secret that is not the current one.
LEMMA RefreshedSessions ==
  ASSUME ClientFits, NEW c \in Token, NEW e, sess' = SessAfterRefresh(c, e)
  PROVE  /\ sess' \in [Sids -> Session]
         /\ \A s \in Sids : sess[s].st = "revoked" => sess'[s].st = "revoked"
         /\ c.age = 0 => \A s \in Sids : sess'[s].reused = sess[s].reused
<1>1. sess \in [Sids -> Session]
  BY DEF ClientFits
<1>2. CASE Rotates(c, e)
  BY <1>1, <1>2 DEF SessAfterRefresh, Session
<1>3. CASE ~Rotates(c, e) /\ Reuses(c, e)
  <2>1. c.age = 1 /\ c.sid # None
    BY <1>3 DEF Reuses, Reaches
  <2>2. PICK n : n = [[sess[c.sid] EXCEPT !.st = "revoked"] EXCEPT !.reused = TRUE]
    OBVIOUS
  <2>3. c.sid \in Sids
    BY <2>1 DEF Token
  <2>4. n \in Session /\ n.st = "revoked"
    BY <1>1, <2>2, <2>3 DEF Session
  <2>5. sess' = [sess EXCEPT ![c.sid] = n]
    BY <1>1, <1>3, <2>2, <2>3 DEF SessAfterRefresh, Session
  <2>6. sess' \in [Sids -> Session]
    BY <1>1, <2>4, <2>5
  <2>7. \A s \in Sids : sess[s].st = "revoked" => sess'[s].st = "revoked"
    BY <1>1, <2>4, <2>5
  <2> QED
    BY <2>1, <2>6, <2>7
<1>4. CASE ~Rotates(c, e) /\ ~Reuses(c, e)
  BY <1>1, <1>4 DEF SessAfterRefresh
<1> QED
  BY <1>2, <1>3, <1>4
LEMMA Loaded ==
  ASSUME ClientFits, NEW t \in Tabs, LoadPage(t)
  PROVE  /\ cookie' \in Token /\ orphans' \subseteq Token
         /\ tab' \in [Tabs -> TabState] /\ tab'[t].sid = None
         /\ ref' \in [Tabs -> RefState]
         /\ ref'[t].pc = "lock" \/ ref'[t].pc = "sent"
         /\ use.locks => ref'[t].pc = "lock"
         /\ \A u \in Tabs : u # t => tab'[u] = tab[u] /\ ref'[u] = ref[u]
         /\ webLock' = LockReleased(t)
         /\ ~lost' => ~lost /\ ref[t].pc # "sent" /\ ref[t].pc # "answered"
                        /\ orphans' = orphans /\ cookie' = cookie
<1>1. ref[t] \in RefState
  BY DEF ClientFits
<1>2. cookie' = cookie \/ (ref[t].pc = "answered" /\ cookie' = CookieAfter(ref[t].ans))
  BY DEF LoadPage
<1>3. cookie' \in Token
  BY <1>1, <1>2, CookieFits DEF ClientFits, RefState
<1>4. PICK n : n = [sid |-> None, boot |-> "checking", fresh |-> FALSE, page |-> "loading"]
  OBVIOUS
<1>5. n \in TabState /\ n.sid = None
  BY <1>4 DEF TabState
<1>6. tab' = [tab EXCEPT ![t] = n]
  BY <1>4 DEF LoadPage
<1>7. tab' \in [Tabs -> TabState] /\ tab'[t] = n
  BY <1>5, <1>6 DEF ClientFits
<1>8. PICK j : j = JoinRefresh(NoRef, tab'[t], cookie')
  OBVIOUS
<1>9. j \in RefState /\ (j.pc = "lock" \/ j.pc = "sent") /\ (use.locks => j.pc = "lock")
  BY <1>3, <1>5, <1>7, <1>8, NothingFits, Joined
<1>10. ref' = [ref EXCEPT ![t] = j]
  BY <1>8 DEF LoadPage
<1>11. ~lost' => ~lost /\ ref[t].pc # "sent" /\ ref[t].pc # "answered"
  BY DEF LoadPage
<1>12. ~lost' => orphans' = orphans /\ cookie' = cookie
  BY <1>2, <1>11 DEF LoadPage
<1>13. webLock' = LockReleased(t)
  BY DEF LoadPage
<1>14. \A u \in Tabs : u # t => tab'[u] = tab[u] /\ ref'[u] = ref[u]
  BY <1>6, <1>10 DEF ClientFits
<1>15. ref' \in [Tabs -> RefState] /\ ref'[t] = j
  BY <1>9, <1>10 DEF ClientFits
<1>16. orphans' \subseteq Token
  BY <1>1 DEF LoadPage, ClientFits, RefState
<1> QED
  BY <1>3, <1>5, <1>7, <1>9, <1>11, <1>12, <1>13, <1>14, <1>15, <1>16

\* What the answer of a refresh does to its tab.
LEMMA Handled ==
  ASSUME ClientFits, NEW t \in Tabs, HandleAnswer(t)
  PROVE  /\ cookie' \in Token /\ cookie' = CookieAfter(ref[t].ans)
         /\ tab' \in [Tabs -> TabState]
         /\ \/ tab'[t].sid = None \/ tab'[t].sid = tab[t].sid
            \/ /\ ref[t].current /\ ref[t].ans.kind = "ok"
               /\ tab'[t].sid = ref[t].ans.sid
         /\ ref' \in [Tabs -> RefState]
         /\ \/ ref'[t].pc = "none" /\ webLock' = LockReleased(t)
            \/ ref'[t].pc = "wait" /\ webLock' = webLock
            \/ /\ ref'[t].pc = "sent" /\ ref'[t].ck = cookie'
               /\ ref'[t].ans.set = "keep" /\ webLock' = webLock
         /\ \A u \in Tabs : u # t => tab'[u] = tab[u] /\ ref'[u] = ref[u]
<1> DEFINE Goal ==
      /\ tab' \in [Tabs -> TabState]
      /\ \/ tab'[t].sid = None \/ tab'[t].sid = tab[t].sid
         \/ /\ ref[t].current /\ ref[t].ans.kind = "ok"
            /\ tab'[t].sid = ref[t].ans.sid
      /\ ref' \in [Tabs -> RefState]
      /\ \/ ref'[t].pc = "none" /\ webLock' = LockReleased(t)
         \/ ref'[t].pc = "wait" /\ webLock' = webLock
         \/ /\ ref'[t].pc = "sent" /\ ref'[t].ck = cookie'
            /\ ref'[t].ans.set = "keep" /\ webLock' = webLock
      /\ \A u \in Tabs : u # t => tab'[u] = tab[u] /\ ref'[u] = ref[u]
<1>1. tab[t] \in TabState /\ ref[t] \in RefState
  BY DEF ClientFits
<1>2. ref[t].ans \in Answer /\ ref[t].ans.sid \in Sids \cup {None}
  BY <1>1 DEF RefState, Answer
<1>3. cookie' = CookieAfter(ref[t].ans) /\ cookie' \in Token
  BY <1>2, CookieFits DEF HandleAnswer
<1>4. ASSUME NEW o, NEW st \in TabState, Settle(t, o, st),
             \/ st.sid = None \/ st.sid = tab[t].sid
             \/ ref[t].current /\ ref[t].ans.kind = "ok" /\ st.sid = ref[t].ans.sid
      PROVE  Goal
  BY <1>4, Settled
<1>5. ASSUME NEW sync, NEW o, ClearAndSettle(t, sync, o) PROVE Goal
  <2>1. ResetStore(tab[t], "complete") \in TabState /\ ResetStore(tab[t], "complete").sid = None
    BY <1>1, StoreReset
  <2> QED
    BY <1>4, <1>5, <2>1 DEF ClearAndSettle
<1>6. ASSUME OnRace(t) PROVE Goal
  <2>1. CASE ClearAndSettle(t, FALSE, "out_of_sync")
    BY <1>5, <2>1
  <2>2. CASE /\ ref[t].attempt < RaceTries
             /\ ref' = [ref EXCEPT ![t].pc = "wait", ![t].ans = NoAnswer,
                                   ![t].attempt = @ + 1]
             /\ UNCHANGED <<tab, webLock, api, out, inbox>>
    <3>1. PICK n : n = [[[ref[t] EXCEPT !.pc = "wait"] EXCEPT !.ans = NoAnswer] EXCEPT !.attempt = @ + 1]
      OBVIOUS
    <3>a. ref[t].attempt + 1 \in 0..RaceTries
      BY <1>1, <2>2 DEF RefState, AuthClientAssumption
    <3>2. n \in RefState /\ n.pc = "wait"
      BY <1>1, <3>1, <3>a, NothingFits DEF RefState
    <3>3. ref' = [ref EXCEPT ![t] = n]
      BY <1>1, <2>2, <3>1 DEF ClientFits, RefState
    <3>4. ref' \in [Tabs -> RefState] /\ ref'[t] = n
      BY <3>2, <3>3 DEF ClientFits
    <3>5. \A u \in Tabs : u # t => ref'[u] = ref[u]
      BY <3>3 DEF ClientFits
    <3>6. tab' \in [Tabs -> TabState] /\ tab' = tab /\ webLock' = webLock
      BY <2>2 DEF ClientFits
    <3> QED
      BY <3>2, <3>4, <3>5, <3>6
  <2> QED
    BY <1>6, <2>1, <2>2 DEF OnRace
<1>7. ASSUME OnMismatch(t) PROVE Goal
  <2>1. CASE ClearAndSettle(t, FALSE, "out_of_sync")
    BY <1>5, <2>1
  <2>2. CASE /\ tab' = [tab EXCEPT ![t] = ResetStore(@, "idle")]
             /\ ref' = [ref EXCEPT ![t] =
                  Send([@ EXCEPT !.attempt = 0, !.again = FALSE], tab'[t], cookie')]
             /\ UNCHANGED <<webLock, api, out, inbox>>
    <3>1. PICK n : n = ResetStore(tab[t], "idle")
      OBVIOUS
    <3>2. n \in TabState /\ n.sid = None
      BY <1>1, <3>1, StoreReset
    <3>3. tab' = [tab EXCEPT ![t] = n]
      BY <2>2, <3>1 DEF ClientFits
    <3>4. tab' \in [Tabs -> TabState] /\ tab'[t] = n
      BY <3>2, <3>3 DEF ClientFits
    <3>5. PICK r : r = [ref[t] EXCEPT !.attempt = 0, !.again = FALSE]
      OBVIOUS
    <3>a. 0 \in 0..RaceTries
      BY DEF AuthClientAssumption
    <3>6. r \in RefState
      BY <1>1, <3>5, <3>a DEF RefState
    <3>7. PICK m : m = Send(r, tab'[t], cookie')
      OBVIOUS
    <3>8. m \in RefState /\ m.pc = "sent" /\ m.ck = cookie' /\ m.ans.set = "keep"
      BY <1>3, <3>2, <3>4, <3>6, <3>7, Sent
    <3>9. ref' = [ref EXCEPT ![t] = m]
      BY <2>2, <3>5, <3>7 DEF ClientFits
    <3>10. ref' \in [Tabs -> RefState] /\ ref'[t] = m
      BY <3>8, <3>9 DEF ClientFits
    <3>11. \A u \in Tabs : u # t => tab'[u] = tab[u] /\ ref'[u] = ref[u]
      BY <3>3, <3>9 DEF ClientFits
    <3> QED
      BY <2>2, <3>2, <3>4, <3>8, <3>10, <3>11
  <2> QED
    BY <1>7, <2>1, <2>2 DEF OnMismatch
<1>8. \A b \in {"idle", "checking", "complete"} :
        [tab[t] EXCEPT !.boot = b] \in TabState /\ [tab[t] EXCEPT !.boot = b].sid = tab[t].sid
  BY <1>1, StoreReset
<1>9. /\ SetBundle(tab[t], ref[t].ans.sid) \in TabState
      /\ SetBundle(tab[t], ref[t].ans.sid).sid = ref[t].ans.sid
  BY <1>1, <1>2, BundleSet
<1>10. \/ Settle(t, "superseded", tab[t])
       \/ /\ ref[t].current /\ ref[t].ans.kind = "ok"
          /\ Settle(t, "authenticated", SetBundle(tab[t], ref[t].ans.sid))
       \/ OnRace(t)
       \/ OnMismatch(t)
       \/ ClearAndSettle(t, TRUE, "anonymous")
       \/ Settle(t, "transient", [tab[t] EXCEPT !.boot = "idle"])
       \/ ClearAndSettle(t, FALSE, "out_of_sync")
  BY DEF HandleAnswer
<1>11. Goal
  BY <1>1, <1>4, <1>5, <1>6, <1>7, <1>8, <1>9, <1>10
<1> QED
  BY <1>3, <1>11
-----------------------------------------------------------------------------
(* What a step does to sessions, stores and answers.                       *)

\* A refresh whose answer will put a session into the store.
Brings(r) == r.pc = "answered" /\ r.current /\ r.ans.kind = "ok"

\* A revoked session stays revoked.
Keeps == \A s \in Sids : sess[s].st = "revoked" => sess'[s].st = "revoked"

\* A store changes to the session of its answer or to a session just begun, an
\* answer that brings a session was given for a live one, and a tab that signs
\* out empties its store and gives up its refresh.
Moves(u) ==
  /\ \/ tab'[u].sid = tab[u].sid \/ tab'[u].sid = None
     \/ Brings(ref[u]) /\ tab'[u].sid = ref[u].ans.sid
     \/ sess[tab'[u].sid].st = "none"
  /\ Brings(ref'[u]) => \/ Brings(ref[u]) /\ ref'[u].ans.sid = ref[u].ans.sid
                        \/ sess[ref'[u].ans.sid].st = "active"
  /\ \/ signedOut'[u] = signedOut[u]
     \/ /\ tab'[u].sid = None /\ ~ref'[u].current
        /\ \A s \in signedOut'[u] : s \in signedOut[u] \/ sess[s].st = "revoked"

Fine == ClientFits' /\ Keeps /\ \A u \in Tabs : Moves(u)

\* The request of a tab is answered, and the copies of its secret have aged.
LEMMA Served ==
  ASSUME ClientFits, NEW t \in Tabs, ServeRefresh(t)
  PROVE  LET c == ref[t].ck
             s == IF Rotates(c, ref[t].exp) THEN c.sid ELSE None
         IN  /\ c \in Token
             /\ sess' = SessAfterRefresh(c, ref[t].exp)
             /\ ref' \in [Tabs -> RefState] /\ ref'[t].pc = "answered"
             /\ ref'[t].ans \in RefreshAnswers(c, ref[t].exp)
             /\ \A u \in Tabs : u # t => ref'[u] = AgedRefs(s)[u]
<1>1. ref[t] \in RefState /\ ref[t].ck \in Token
  BY DEF ClientFits, RefState
<1>2. PICK c : c = ref[t].ck
  OBVIOUS
<1>3. PICK e : e = ref[t].exp
  OBVIOUS
<1>4. PICK s : s = IF Rotates(c, e) THEN c.sid ELSE None
  OBVIOUS
<1>5. PICK a \in RefreshAnswers(c, e) :
        ref' = [AgedRefs(s) EXCEPT ![t].pc = "answered", ![t].ans = a,
                                     ![t].ck = NoToken, ![t].exp = None]
  BY <1>2, <1>3, <1>4 DEF ServeRefresh
<1>6. a \in Answer
  BY <1>1, <1>2, <1>5, AnswersFit
<1>7. AgedRefs(s) \in [Tabs -> RefState]
  BY AgedRefsFit
<1>8. PICK n : n = [[[[AgedRefs(s)[t] EXCEPT !.pc = "answered"] EXCEPT !.ans = a]
                       EXCEPT !.ck = NoToken] EXCEPT !.exp = None]
  OBVIOUS
<1>9. n \in RefState /\ n.ans = a /\ n.pc = "answered"
  BY <1>6, <1>7, <1>8, NothingFits DEF RefState
<1>10. ref' = [AgedRefs(s) EXCEPT ![t] = n]
  BY <1>5, <1>7, <1>8 DEF RefState
<1>11. ref' \in [Tabs -> RefState] /\ ref'[t].ans = a /\ ref'[t].pc = "answered"
  BY <1>7, <1>9, <1>10
<1>12. \A u \in Tabs : u # t => ref'[u] = AgedRefs(s)[u]
  BY <1>7, <1>10
<1>13. sess' = SessAfterRefresh(c, e)
  BY <1>2, <1>3 DEF ServeRefresh
<1> QED
  BY <1>1, <1>2, <1>3, <1>4, <1>5, <1>11, <1>12, <1>13

LEMMA ServeFine ==
  ASSUME ClientFits, NEW t \in Tabs, ServeRefresh(t)
  PROVE  Fine
<1>1. PICK s : s = IF Rotates(ref[t].ck, ref[t].exp) THEN ref[t].ck.sid ELSE None
  OBVIOUS
<1>2. ref'[t].ans.kind = "ok" => sess[ref'[t].ans.sid].st = "active"
  BY Served, AnswersFit
<1>3. sess' \in [Sids -> Session] /\ Keeps
  BY Served, RefreshedSessions DEF Keeps
<1>4. cookie' \in Token /\ orphans' \subseteq Token
  BY AgedToken DEF ServeRefresh, AgeCopies, ClientFits
<1>5. tab' = tab /\ signedOut' = signedOut
  BY DEF ServeRefresh
<1>6. ClientFits'
  BY <1>3, <1>4, <1>5, Served DEF ClientFits
<1>7. ASSUME NEW u \in Tabs PROVE Moves(u)
  <2>1. CASE u = t
    BY <1>2, <1>5, <2>1 DEF Moves, Brings
  <2>2. CASE u # t
    <3>1. ref'[u] = AgedRefs(s)[u]
      BY <1>1, <2>2, Served
    <3>2. /\ ref'[u].pc = ref[u].pc /\ ref'[u].current = ref[u].current
          /\ ref'[u].ans.kind = ref[u].ans.kind /\ ref'[u].ans.sid = ref[u].ans.sid
      BY <3>1, AgedRef
    <3> QED
      BY <1>5, <3>2 DEF Moves, Brings
  <2> QED
    BY <2>1, <2>2
<1> QED
  BY <1>3, <1>6, <1>7 DEF Fine

LEMMA OrphanFine ==
  ASSUME ClientFits, ServeOrphan
  PROVE  Fine
<1>1. PICK c \in orphans :
        /\ sess' = SessAfterRefresh(c, None)
        /\ AgeCopies(IF Rotates(c, None) THEN c.sid ELSE None, orphans \ {c})
        /\ ref' = AgedRefs(IF Rotates(c, None) THEN c.sid ELSE None)
        /\ tab' = tab /\ signedOut' = signedOut
  BY DEF ServeOrphan
<1>2. PICK s : s = IF Rotates(c, None) THEN c.sid ELSE None
  OBVIOUS
<1>3. sess' \in [Sids -> Session] /\ Keeps
  BY <1>1, RefreshedSessions DEF Keeps, ClientFits
<1>4. ref' \in [Tabs -> RefState]
  BY <1>1, <1>2, AgedRefsFit
<1>5. cookie' \in Token /\ orphans' \subseteq Token
  BY <1>1, <1>2, AgedToken DEF ClientFits, AgeCopies
<1>6. ASSUME NEW u \in Tabs PROVE Moves(u)
  <2>1. /\ ref'[u].pc = ref[u].pc /\ ref'[u].current = ref[u].current
        /\ ref'[u].ans.kind = ref[u].ans.kind /\ ref'[u].ans.sid = ref[u].ans.sid
    BY <1>1, <1>2, AgedRef
  <2> QED
    BY <1>1, <2>1 DEF Moves, Brings
<1> QED
  BY <1>1, <1>3, <1>4, <1>5, <1>6 DEF Fine, ClientFits
\* The steps that leave sessions, cookie and orphans alone.
LEMMA FineTab ==
  ASSUME ClientFits, NEW t \in Tabs, cookie' \in Token, orphans' \subseteq Token,
         sess' = sess, signedOut' = signedOut,
         tab' \in [Tabs -> TabState], ref' \in [Tabs -> RefState],
         \A u \in Tabs : u # t => tab'[u] = tab[u] /\ ref'[u] = ref[u],
         \/ tab'[t].sid = tab[t].sid \/ tab'[t].sid = None
         \/ Brings(ref[t]) /\ tab'[t].sid = ref[t].ans.sid,
         Brings(ref'[t]) => Brings(ref[t]) /\ ref'[t].ans.sid = ref[t].ans.sid
  PROVE  Fine
<1>1. ClientFits' /\ Keeps
  BY DEF ClientFits, Keeps
<1>2. ASSUME NEW u \in Tabs PROVE Moves(u)
  <2>1. CASE u = t
    BY <2>1 DEF Moves
  <2>2. CASE u # t
    BY <2>2 DEF Moves
  <2> QED
    BY <2>1, <2>2
<1> QED
  BY <1>1, <1>2 DEF Fine

LEMMA RunFine ==
  ASSUME ClientFits, NEW t \in Tabs, Run(t)
  PROVE  Fine
<1>1. tab[t] \in TabState /\ ref[t] \in RefState
  BY DEF ClientFits
<1>2. cookie' = cookie /\ orphans' = orphans /\ sess' = sess /\ signedOut' = signedOut
  BY DEF Run
<1>3. cookie' \in Token /\ orphans' \subseteq Token
  BY <1>2 DEF ClientFits
<1>4. CASE Settle(t, "superseded", tab[t])
  <2>1. /\ tab' \in [Tabs -> TabState] /\ tab'[t].sid = tab[t].sid
        /\ \A u \in Tabs : u # t => tab'[u] = tab[u] /\ ref'[u] = ref[u]
        /\ ref' \in [Tabs -> RefState] /\ ref'[t].pc = "none"
    BY <1>1, <1>4, Settled
  <2>2. ~Brings(ref'[t])
    BY <2>1 DEF Brings
  <2> QED
    BY <1>2, <1>3, <2>1, <2>2, FineTab
<1>5. CASE /\ ref' = [ref EXCEPT ![t] = Send(@, tab[t], cookie)]
           /\ tab' = tab
  <2>1. PICK n : n = Send(ref[t], tab[t], cookie)
    OBVIOUS
  <2>2. n \in RefState /\ n.pc = "sent"
    BY <1>1, <2>1, Sent DEF ClientFits
  <2>3. ref' = [ref EXCEPT ![t] = n]
    BY <1>5, <2>1
  <2>4. /\ ref' \in [Tabs -> RefState] /\ ref'[t] = n /\ tab' \in [Tabs -> TabState]
        /\ \A u \in Tabs : u # t => tab'[u] = tab[u] /\ ref'[u] = ref[u]
    BY <1>5, <2>2, <2>3 DEF ClientFits
  <2>5. ~Brings(ref'[t]) /\ tab'[t].sid = tab[t].sid
    BY <1>5, <2>2, <2>4 DEF Brings
  <2> QED
    BY <1>2, <1>3, <2>4, <2>5, FineTab
<1> QED
  BY <1>4, <1>5 DEF Run

LEMMA AnswerFine ==
  ASSUME ClientFits, NEW t \in Tabs, HandleAnswer(t)
  PROVE  Fine
<1>1. /\ cookie' \in Token /\ tab' \in [Tabs -> TabState] /\ ref' \in [Tabs -> RefState]
      /\ \A u \in Tabs : u # t => tab'[u] = tab[u] /\ ref'[u] = ref[u]
  BY Handled
<1>2. orphans' \subseteq Token /\ sess' = sess /\ signedOut' = signedOut /\ ref[t].pc = "answered"
  BY DEF HandleAnswer, ClientFits
<1>3. \/ tab'[t].sid = tab[t].sid \/ tab'[t].sid = None
      \/ Brings(ref[t]) /\ tab'[t].sid = ref[t].ans.sid
  BY <1>2, Handled DEF Brings
<1>4. ~Brings(ref'[t])
  BY Handled DEF Brings
<1> QED
  BY <1>1, <1>2, <1>3, <1>4, FineTab

LEMMA FailedOrLost ==
  ASSUME ClientFits, NEW t \in Tabs,
         RefreshFails(t) \/ AnswerLost(t)
  PROVE  /\ ref' \in [Tabs -> RefState]
         /\ \A u \in Tabs : u # t => ref'[u] = ref[u]
         /\ ref'[t].ans.kind # "ok"
         /\ RefreshFails(t) => ref'[t].pc = "answered" /\ ref'[t].ans.set # "write"
<1>1. ref[t] \in RefState /\ ref[t].ans \in Answer
  BY DEF ClientFits, RefState
<1>2. PICK n \in RefState :
        /\ ref' = [ref EXCEPT ![t] = n] /\ n.ans.kind # "ok"
        /\ RefreshFails(t) => n.pc = "answered" /\ n.ans.set # "write"
  <2>1. CASE RefreshFails(t)
    <3>1. PICK k \in {"transient", "bad", "unauth"} :
            ref' = [ref EXCEPT ![t].pc = "answered", ![t].ck = NoToken, ![t].exp = None,
                               ![t].ans = [NoAnswer EXCEPT
                                  !.kind = k, !.set = IF k = "unauth" THEN "clear" ELSE "keep"]]
      BY <2>1 DEF RefreshFails
    <3>2. PICK a : a = [NoAnswer EXCEPT
                          !.kind = k, !.set = IF k = "unauth" THEN "clear" ELSE "keep"]
      OBVIOUS
    <3>3. a \in Answer /\ a.kind # "ok" /\ a.set # "write"
      BY <3>2, NothingFits DEF Answer
    <3>4. PICK n : n = [[[[ref[t] EXCEPT !.pc = "answered"] EXCEPT !.ck = NoToken]
                          EXCEPT !.exp = None] EXCEPT !.ans = a]
      OBVIOUS
    <3>5. n \in RefState /\ n.ans = a /\ n.pc = "answered"
      BY <1>1, <3>3, <3>4, NothingFits DEF RefState
    <3>6. ref' = [ref EXCEPT ![t] = n]
      BY <1>1, <3>1, <3>2, <3>4 DEF ClientFits, RefState
    <3> QED
      BY <3>3, <3>5, <3>6
  <2>2. CASE AnswerLost(t)
    <3>1. PICK a : a = [NoAnswer EXCEPT !.kind = "transient"]
      OBVIOUS
    <3>2. a \in Answer /\ a.kind # "ok"
      BY <3>1, NothingFits DEF Answer
    <3>3. PICK n : n = [ref[t] EXCEPT !.ans = a]
      OBVIOUS
    <3>4. n \in RefState /\ n.ans = a
      BY <1>1, <3>2, <3>3 DEF RefState
    <3>5. ref' = [ref EXCEPT ![t] = n]
      BY <2>2, <3>1, <3>3 DEF AnswerLost
    <3>6. ref[t].pc = "answered"
      BY <2>2 DEF AnswerLost
    <3>7. ~RefreshFails(t)
      BY <3>6 DEF RefreshFails
    <3> QED
      BY <3>2, <3>4, <3>5, <3>7
  <2> QED
    BY <2>1, <2>2
<1> QED
  BY <1>2 DEF ClientFits

LEMMA FaultFine ==
  ASSUME ClientFits, NEW t \in Tabs,
         RefreshFails(t) \/ AnswerLost(t)
  PROVE  Fine
<1>1. /\ cookie' \in Token /\ orphans' \subseteq Token
      /\ sess' = sess /\ signedOut' = signedOut /\ tab' = tab /\ tab' \in [Tabs -> TabState]
  BY DEF RefreshFails, AnswerLost, ClientFits
<1>2. ~Brings(ref'[t])
  BY FailedOrLost DEF Brings
<1> QED
  BY <1>1, <1>2, FailedOrLost, FineTab

LEMMA Started ==
  ASSUME ClientFits, NEW t \in Tabs, StartRefresh(t)
  PROVE  /\ ref' \in [Tabs -> RefState]
         /\ \A u \in Tabs : u # t => ref'[u] = ref[u]
         /\ \/ ref'[t] = ref[t]
            \/ /\ ref[t].pc = "none" /\ (ref'[t].pc = "lock" \/ ref'[t].pc = "sent")
               /\ use.locks => ref'[t].pc = "lock"
<1>1. tab[t] \in TabState /\ ref[t] \in RefState /\ cookie \in Token
  BY DEF ClientFits
<1>2. PICK j : j = JoinRefresh(ref[t], tab[t], cookie)
  OBVIOUS
<1>3. /\ j \in RefState
      /\ ref[t].pc # "none" => j = ref[t]
      /\ ref[t].pc = "none" => j.pc = "lock" \/ j.pc = "sent"
      /\ ref[t].pc = "none" /\ use.locks => j.pc = "lock"
  BY <1>1, <1>2, Joined
<1>4. ref' = [ref EXCEPT ![t] = j]
  BY <1>2 DEF StartRefresh
<1>5. /\ ref' \in [Tabs -> RefState] /\ ref'[t] = j
      /\ \A u \in Tabs : u # t => ref'[u] = ref[u]
  BY <1>3, <1>4 DEF ClientFits
<1> QED
  BY <1>3, <1>5

LEMMA Superseded ==
  ASSUME ClientFits, NEW t \in Tabs, ref' = [ref EXCEPT ![t].current = FALSE]
  PROVE  /\ ref' \in [Tabs -> RefState]
         /\ \A u \in Tabs : u # t => ref'[u] = ref[u]
         /\ ref'[t].current = FALSE /\ ref'[t].pc = ref[t].pc
         /\ ref'[t].ck = ref[t].ck /\ ref'[t].ans = ref[t].ans
<1>1. ref[t] \in RefState
  BY DEF ClientFits
<1>2. PICK n : n = [ref[t] EXCEPT !.current = FALSE]
  OBVIOUS
<1>3. /\ n \in RefState /\ n.current = FALSE
      /\ n.pc = ref[t].pc /\ n.ck = ref[t].ck /\ n.ans = ref[t].ans
  BY <1>1, <1>2 DEF RefState
<1>4. ref' = [ref EXCEPT ![t] = n]
  BY <1>2
<1> QED
  BY <1>3, <1>4 DEF ClientFits

LEMMA ClearedLocally ==
  ASSUME ClientFits, NEW t \in Tabs, ClearLocally(t)
  PROVE  /\ tab' \in [Tabs -> TabState] /\ tab'[t].sid = None
         /\ \A u \in Tabs : u # t => tab'[u] = tab[u]
         /\ ref' = [ref EXCEPT ![t].current = FALSE]
<1>1. PICK n : n = ResetStore(tab[t], "complete")
  OBVIOUS
<1>2. n \in TabState /\ n.sid = None
  BY <1>1, StoreReset DEF ClientFits
<1>3. tab' = [tab EXCEPT ![t] = n] /\ ref' = [ref EXCEPT ![t].current = FALSE]
  BY <1>1 DEF ClearLocally
<1> QED
  BY <1>2, <1>3 DEF ClientFits

LEMMA SessionFine ==
  ASSUME ClientFits, UNCHANGED <<cookie, orphans, tab, ref, signedOut>>,
         sess' \in [Sids -> Session], Keeps
  PROVE  Fine
BY DEF Fine, ClientFits, Moves

LEMMA StatusFine ==
  ASSUME ClientFits, NEW s, UNCHANGED <<cookie, orphans, tab, ref, signedOut>>,
         sess' = [sess EXCEPT ![s].st = "revoked"] \/ sess' = [sess EXCEPT ![s].grace = FALSE]
  PROVE  Fine /\ \A x \in Sids : sess'[x].reused = sess[x].reused
<1>1. sess \in [Sids -> Session]
  BY DEF ClientFits
<1>2. /\ sess' \in [Sids -> Session] /\ Keeps
      /\ \A x \in Sids : sess'[x].reused = sess[x].reused
  <2>1. CASE s \in Sids
    <3>1. PICK n : /\ n \in Session /\ sess' = [sess EXCEPT ![s] = n]
                   /\ n.reused = sess[s].reused
                   /\ sess[s].st = "revoked" => n.st = "revoked"
      <4>1. sess[s] \in Session
        BY <1>1, <2>1
      <4>2. CASE sess' = [sess EXCEPT ![s].st = "revoked"]
        <5>1. PICK n : n = [sess[s] EXCEPT !.st = "revoked"]
          OBVIOUS
        <5>2. n \in Session /\ n.reused = sess[s].reused /\ n.st = "revoked"
          BY <4>1, <5>1 DEF Session
        <5>3. sess' = [sess EXCEPT ![s] = n]
          BY <4>2, <5>1
        <5> QED
          BY <5>2, <5>3
      <4>3. CASE sess' = [sess EXCEPT ![s].grace = FALSE]
        <5>1. PICK n : n = [sess[s] EXCEPT !.grace = FALSE]
          OBVIOUS
        <5>2. n \in Session /\ n.reused = sess[s].reused /\ n.st = sess[s].st
          BY <4>1, <5>1 DEF Session
        <5>3. sess' = [sess EXCEPT ![s] = n]
          BY <4>3, <5>1
        <5> QED
          BY <5>2, <5>3
      <4> QED
        BY <4>2, <4>3
    <3> QED
      BY <1>1, <3>1 DEF Keeps
  <2>2. CASE s \notin Sids
    <3>1. sess' = sess
      BY <1>1, <2>2
    <3> QED
      BY <1>1, <3>1 DEF Keeps
  <2> QED
    BY <2>1, <2>2
<1> QED
  BY <1>2, SessionFine

\* The steps that start a refresh or only touch the store.
LEMMA StartFine ==
  ASSUME ClientFits, NEW t \in Tabs,
         \/ Expire(t) \/ Navigate(t) \/ GetFreshAuthHeaders(t) \/ ApiUnauthorized(t)
         \/ LogoutMismatch(t)
  PROVE  Fine
<1>1. tab[t] \in TabState
  BY DEF ClientFits
<1>2. /\ cookie' \in Token /\ orphans' \subseteq Token
      /\ sess' = sess /\ signedOut' = signedOut
  BY DEF Expire, Navigate, GetFreshAuthHeaders, ApiUnauthorized, LogoutMismatch,
         ClientFits
<1>3. PICK n \in TabState : tab' = [tab EXCEPT ![t] = n] /\ n.sid = tab[t].sid
  <2>1. \/ tab' = tab
        \/ tab' = [tab EXCEPT ![t].fresh = FALSE]
        \/ tab' = [tab EXCEPT ![t].boot = "complete"]
        \/ tab' = [tab EXCEPT ![t].boot = "checking"]
    BY DEF Expire, Navigate, GetFreshAuthHeaders, ApiUnauthorized, LogoutMismatch
  <2>2. CASE tab' = tab
    <3>1. tab' = [tab EXCEPT ![t] = tab[t]]
      BY <2>2 DEF ClientFits
    <3> QED
      BY <1>1, <3>1
  <2>3. CASE tab' = [tab EXCEPT ![t].fresh = FALSE]
    <3>1. PICK n : n = [tab[t] EXCEPT !.fresh = FALSE]
      OBVIOUS
    <3>2. n \in TabState /\ n.sid = tab[t].sid
      BY <1>1, <3>1 DEF TabState
    <3> QED
      BY <2>3, <3>1, <3>2
  <2>4. ASSUME NEW b \in {"idle", "checking", "complete"}, tab' = [tab EXCEPT ![t].boot = b]
        PROVE  \E n \in TabState : tab' = [tab EXCEPT ![t] = n] /\ n.sid = tab[t].sid
    <3>1. PICK n : n = [tab[t] EXCEPT !.boot = b]
      OBVIOUS
    <3>2. n \in TabState /\ n.sid = tab[t].sid
      BY <1>1, <3>1, StoreReset
    <3> QED
      BY <2>4, <3>1, <3>2
  <2> QED
    BY <2>1, <2>2, <2>3, <2>4
<1>4. /\ tab' \in [Tabs -> TabState] /\ tab'[t].sid = tab[t].sid
      /\ \A u \in Tabs : u # t => tab'[u] = tab[u]
  BY <1>3 DEF ClientFits
<1>5. ref' = ref \/ StartRefresh(t)
  BY DEF Expire, Navigate, GetFreshAuthHeaders, ApiUnauthorized, LogoutMismatch
<1>6. /\ ref' \in [Tabs -> RefState]
      /\ \A u \in Tabs : u # t => ref'[u] = ref[u]
      /\ ref'[t] = ref[t] \/ ~Brings(ref'[t])
  BY <1>5, Started DEF ClientFits, Brings
<1> QED
  BY <1>2, <1>4, <1>6, FineTab

LEMMA LoadFine ==
  ASSUME ClientFits, NEW t \in Tabs, LoadPage(t),
         sess' = sess, signedOut' = signedOut
  PROVE  Fine
<1>1. ~Brings(ref'[t])
  BY Loaded DEF Brings
<1> QED
  BY <1>1, Loaded, FineTab

\* A tab that clears its store without signing out of a session.
LEMMA ResentFine ==
  ASSUME ClientFits, NEW t \in Tabs, ApiResent(t)
  PROVE  Fine
<1>1. /\ cookie' \in Token /\ orphans' \subseteq Token
      /\ sess' = sess /\ signedOut' = signedOut
  BY DEF ApiResent, ClientFits
<1>2. CASE tab' = tab /\ ref' = ref
  BY <1>1, <1>2, FineTab DEF ClientFits
<1>3. CASE ClearLocally(t)
  <2>1. /\ tab' \in [Tabs -> TabState] /\ tab'[t].sid = None
        /\ \A u \in Tabs : u # t => tab'[u] = tab[u]
    BY <1>3, ClearedLocally
  <2>2. /\ ref' \in [Tabs -> RefState] /\ ref'[t].current = FALSE
        /\ \A u \in Tabs : u # t => ref'[u] = ref[u]
    BY <1>3, ClearedLocally, Superseded
  <2>3. ~Brings(ref'[t])
    BY <2>2 DEF Brings
  <2> QED
    BY <1>1, <2>1, <2>2, <2>3, FineTab
<1> QED
  BY <1>2, <1>3 DEF ApiResent
LEMMA LoginFine ==
  ASSUME ClientFits, NEW t \in Tabs, Login(t)
  PROVE  Fine /\ cookie'.age = 0 /\ \A x \in Sids : sess'[x].reused = sess[x].reused
<1>1. PICK s \in Sids :
        /\ sess[s].st = "none"
        /\ sess' = [sess EXCEPT ![s].st = "active"]
        /\ cookie' = [sid |-> s, age |-> 0]
        /\ tab' = [tab EXCEPT ![t] = SetBundle(@, s)]
        /\ ref' = [ref EXCEPT ![t].current = FALSE]
  BY DEF Login
<1>2. sess[s] \in Session /\ sess \in [Sids -> Session] /\ tab[t] \in TabState
  BY DEF ClientFits
<1>3. PICK n : n = [sess[s] EXCEPT !.st = "active"]
  OBVIOUS
<1>4. n \in Session /\ n.reused = sess[s].reused
  BY <1>2, <1>3 DEF Session
<1>5. sess' = [sess EXCEPT ![s] = n]
  BY <1>1, <1>3
<1>6. sess' \in [Sids -> Session] /\ Keeps /\ \A x \in Sids : sess'[x].reused = sess[x].reused
  BY <1>1, <1>2, <1>4, <1>5 DEF Keeps
<1>7. PICK m : m = SetBundle(tab[t], s)
  OBVIOUS
<1>8. m \in TabState /\ m.sid = s
  BY <1>2, <1>7, BundleSet
<1>9. tab' = [tab EXCEPT ![t] = m]
  BY <1>1, <1>7
<1>10. /\ tab' \in [Tabs -> TabState] /\ tab'[t].sid = s
       /\ \A u \in Tabs : u # t => tab'[u] = tab[u]
  BY <1>8, <1>9 DEF ClientFits
<1>11. /\ ref' \in [Tabs -> RefState] /\ ref'[t].current = FALSE
       /\ \A u \in Tabs : u # t => ref'[u] = ref[u]
  BY <1>1, Superseded
<1>12. cookie' \in Token /\ cookie'.age = 0
  BY <1>1 DEF Token
<1>13. orphans' = orphans /\ signedOut' = signedOut
  BY DEF Login
<1>14. ClientFits'
  BY <1>6, <1>10, <1>11, <1>12, <1>13 DEF ClientFits
<1>15. ASSUME NEW u \in Tabs PROVE Moves(u)
  <2>1. CASE u = t
    BY <1>1, <1>10, <1>11, <1>13, <2>1 DEF Moves, Brings
  <2>2. CASE u # t
    BY <1>10, <1>11, <1>13, <2>2 DEF Moves
  <2> QED
    BY <2>1, <2>2
<1> QED
  BY <1>6, <1>12, <1>14, <1>15 DEF Fine

LEMMA ServeLogoutFine ==
  ASSUME ClientFits, NEW t \in Tabs, ServeLogout(t)
  PROVE  Fine /\ \A x \in Sids : sess'[x].reused = sess[x].reused
<1>1. UNCHANGED <<cookie, orphans, tab, ref, signedOut>>
  BY DEF ServeLogout
<1>2. CASE sess' = sess
  BY <1>1, <1>2, SessionFine DEF ClientFits, Keeps
<1>3. CASE sess' = [sess EXCEPT ![out[t].exp].st = "revoked"]
  BY <1>1, <1>3, StatusFine
<1>4. CASE sess' = [sess EXCEPT ![out[t].ck.sid].st = "revoked"]
  BY <1>1, <1>4, StatusFine
<1> QED
  BY <1>2, <1>3, <1>4 DEF ServeLogout

\* A tab that signs out, by its own logout or because it is told.
LEMMA SignedOutFine ==
  ASSUME ClientFits, NEW t \in Tabs, NEW s, ClearLocally(t),
         signedOut' = [signedOut EXCEPT ![t] = @ \cup Ended(s)],
         sess' = sess, cookie' \in Token, orphans' = orphans
  PROVE  Fine
<1>1. /\ tab' \in [Tabs -> TabState] /\ tab'[t].sid = None
      /\ \A u \in Tabs : u # t => tab'[u] = tab[u]
  BY ClearedLocally
<1>2. /\ ref' \in [Tabs -> RefState] /\ ref'[t].current = FALSE
      /\ \A u \in Tabs : u # t => ref'[u] = ref[u]
  BY ClearedLocally, Superseded
<1>3. PICK n : n = signedOut[t] \cup Ended(s)
  OBVIOUS
<1>4. n \subseteq Sids /\ \A x \in n : x \in signedOut[t] \/ sess[x].st = "revoked"
  BY <1>3 DEF Ended, ClientFits
<1>5. signedOut' = [signedOut EXCEPT ![t] = n]
  BY <1>3
<1>6. /\ signedOut' \in [Tabs -> SUBSET Sids] /\ signedOut'[t] = n
      /\ \A u \in Tabs : u # t => signedOut'[u] = signedOut[u]
  BY <1>4, <1>5 DEF ClientFits
<1>7. ClientFits' /\ Keeps
  BY <1>1, <1>2, <1>6 DEF ClientFits, Keeps
<1>8. ASSUME NEW u \in Tabs PROVE Moves(u)
  <2>1. CASE u = t
    BY <1>1, <1>2, <1>4, <1>6, <2>1 DEF Moves, Brings
  <2>2. CASE u # t
    BY <1>1, <1>2, <1>6, <2>2 DEF Moves
  <2> QED
    BY <2>1, <2>2
<1> QED
  BY <1>7, <1>8 DEF Fine

LEMMA QuietFine ==
  ASSUME ClientFits, UNCHANGED <<sess, cookie, orphans, tab, ref, signedOut>>
  PROVE  Fine
BY SessionFine DEF ClientFits, Keeps

LEMMA EventFine ==
  ASSUME ClientFits, NEW t \in Tabs, HandleEvent(t)
  PROVE  Fine
<1>1. \/ LoadPage(t) /\ signedOut' = signedOut
      \/ /\ ClearLocally(t) /\ UNCHANGED <<cookie, orphans>>
         /\ \E s : signedOut' = [signedOut EXCEPT ![t] = @ \cup Ended(s)]
      \/ UNCHANGED <<cookie, orphans, tab, ref, signedOut>>
  BY DEF HandleEvent
<1>2. sess' = sess /\ cookie \in Token
  BY DEF HandleEvent, ClientFits
<1> QED
  BY <1>1, <1>2, LoadFine, SignedOutFine, QuietFine

LEMMA DoneFine ==
  ASSUME ClientFits, NEW t \in Tabs, LogoutDone(t)
  PROVE  Fine
<1>1. cookie' \in Token
  BY NothingFits DEF LogoutDone, ClientFits
<1>2. /\ ClearLocally(t) /\ sess' = sess /\ orphans' = orphans
      /\ signedOut' = [signedOut EXCEPT ![t] = @ \cup Ended(tab[t].sid)]
  BY DEF LogoutDone
<1> QED
  BY <1>1, <1>2, SignedOutFine

LEMMA StepFine ==
  ASSUME ClientFits, [ClientNext]_clientVars
  PROVE  Fine
<1>1. CASE ServeOrphan
  BY <1>1, OrphanFine
<1>2. ASSUME NEW s \in Sids, GraceEnds(s) \/ RevokedElsewhere(s) PROVE Fine
  BY <1>2, StatusFine DEF GraceEnds, RevokedElsewhere
<1>3. ASSUME NEW t \in Tabs, Run(t) \/ ServeRefresh(t) \/ HandleAnswer(t) PROVE Fine
  BY <1>3, RunFine, ServeFine, AnswerFine
<1>4. ASSUME NEW t \in Tabs, RefreshFails(t) \/ AnswerLost(t) PROVE Fine
  BY <1>4, FaultFine
<1>5. ASSUME NEW t \in Tabs,
             \/ Expire(t) \/ Navigate(t) \/ GetFreshAuthHeaders(t)
             \/ ApiUnauthorized(t) \/ LogoutMismatch(t)
      PROVE  Fine
  BY <1>5, StartFine
<1>6. ASSUME NEW t \in Tabs, ApiResent(t) PROVE Fine
  BY <1>6, ResentFine
<1>7. ASSUME NEW t \in Tabs, Reload(t) \/ Redirect(t) PROVE Fine
  <2>1. \/ LoadPage(t) /\ sess' = sess /\ signedOut' = signedOut
        \/ UNCHANGED <<sess, cookie, orphans, tab, ref, signedOut>>
    BY <1>7 DEF Reload, Redirect
  <2> QED
    BY <2>1, LoadFine, QuietFine
<1>8. ASSUME NEW t \in Tabs, Login(t) \/ ServeLogout(t) \/ LogoutDone(t) PROVE Fine
  BY <1>8, LoginFine, ServeLogoutFine, DoneFine
<1>9. ASSUME NEW t \in Tabs, Logout(t) \/ HandleEvent(t) \/ DropEvent(t) PROVE Fine
  BY <1>9, QuietFine, EventFine DEF Logout, DropEvent
<1>10. CASE UNCHANGED clientVars
  BY <1>10, QuietFine DEF clientVars
<1> QED
  BY <1>1, <1>2, <1>3, <1>4, <1>5, <1>6, <1>7, <1>8, <1>9, <1>10 DEF ClientNext

LEMMA TabStep ==
  ASSUME ClientFits, \A t \in Tabs : TabOK(t), Fine
  PROVE  \A t \in Tabs : TabOK(t)'
<1> SUFFICES ASSUME NEW t \in Tabs PROVE TabOK(t)'
  OBVIOUS
<1>1. TabOK(t) /\ Keeps /\ Moves(t) /\ signedOut[t] \subseteq Sids /\ signedOut'[t] \subseteq Sids
  BY DEF Fine, ClientFits
<1>2. None \notin Sids
  BY DEF AuthClientAssumption
<1>3. \A s \in signedOut'[t] : sess'[s].st = "revoked"
  BY <1>1 DEF TabOK, Keeps, Moves
<1>4. tab'[t].sid \notin signedOut'[t]
  BY <1>1, <1>2 DEF TabOK, Moves, Brings
<1>5. Brings(ref'[t]) => ref'[t].ans.sid \notin signedOut'[t]
  BY <1>1 DEF TabOK, Moves, Brings
<1> QED
  BY <1>3, <1>4, <1>5 DEF TabOK, Brings
-----------------------------------------------------------------------------
(* Tabs that take turns.                                                   *)

Busy(r) == r.pc = "wait" \/ r.pc = "sent" \/ r.pc = "answered"
Writes(r) == r.pc = "answered" /\ r.ans.set = "write"

\* The tab that has the turn is the only one with a request or an answer.
LEMMA OneTurn ==
  ASSUME InTurn, NEW t \in Tabs
  PROVE  /\ webLock = t \/ webLock = None => \A u \in Tabs : u # t => ~Busy(ref[u])
         /\ Busy(ref[t]) => webLock = t /\ \A u \in Tabs : u # t => ~Busy(ref[u])
         /\ Busy(ref[t]) /\ ~Writes(ref[t]) => cookie.age = 0
<1>1. None \notin Tabs /\ \A u \in Tabs : Busy(ref[u]) => webLock = u
  BY DEF AuthClientAssumption, InTurn, TurnOK, Busy
<1>2. cookie.age = 0 \/ \E u \in Tabs : Writes(ref[u]) /\ Busy(ref[u])
  BY DEF InTurn, CookieOK, Writes, Busy
<1> QED
  BY <1>1, <1>2

\* A step of tab t keeps the turns of all if it keeps that of t.
LEMMA TurnKept ==
  ASSUME InTurn, NEW t \in Tabs, orphans' = {},
         \A u \in Tabs : u # t => ref'[u] = ref[u],
         \A s \in Sids : sess'[s].reused = sess[s].reused,
         webLock' = webLock \/ webLock' = LockReleased(t) \/ (webLock = None /\ webLock' = t),
         TurnOK(t)',
         cookie'.age = 0 \/ (cookie' = cookie /\ (Writes(ref[t]) => Writes(ref'[t])))
  PROVE  InTurn'
<1>1. ASSUME NEW u \in Tabs PROVE TurnOK(u)'
  <2>1. CASE u = t
    BY <2>1
  <2>2. CASE u # t
    <3>1. TurnOK(u) /\ ref'[u] = ref[u]
      BY <2>2 DEF InTurn
    <3>2. Busy(ref[u]) => webLock = u /\ u # None
      BY <3>1 DEF TurnOK, Busy, AuthClientAssumption
    <3>3. Busy(ref[u]) => webLock' = u
      BY <2>2, <3>2 DEF LockReleased
    <3> QED
      BY <3>1, <3>3 DEF TurnOK, Busy
  <2> QED
    BY <2>1, <2>2
<1>2. CookieOK'
  <2>1. CASE cookie'.age = 0
    BY <2>1 DEF CookieOK
  <2>2. CASE cookie' = cookie /\ (Writes(ref[t]) => Writes(ref'[t])) /\ cookie.age # 0
    <3>1. PICK u \in Tabs : Writes(ref[u])
      BY <2>2 DEF InTurn, CookieOK, Writes
    <3>2. Writes(ref'[u])
      BY <2>2, <3>1
    <3> QED
      BY <3>2 DEF CookieOK, Writes
  <2> QED
    BY <2>1, <2>2
<1>3. \A s \in Sids : ~sess'[s].reused
  BY DEF InTurn
<1> QED
  BY <1>1, <1>2, <1>3 DEF InTurn

LEMMA TurnServed ==
  ASSUME ClientFits, InTurn, NEW t \in Tabs, ServeRefresh(t)
  PROVE  InTurn'
<1>1. PICK c : c = ref[t].ck
  OBVIOUS
<1>2. PICK e : e = ref[t].exp
  OBVIOUS
<1>3. PICK s : s = IF Rotates(c, e) THEN c.sid ELSE None
  OBVIOUS
<1>4. ref[t].pc = "sent" /\ c.age = 0
  BY <1>1 DEF ServeRefresh, InTurn, TurnOK
<1>5. /\ webLock = t /\ cookie.age = 0 /\ webLock' = webLock
      /\ \A u \in Tabs : u # t => ~Busy(ref[u])
  BY <1>4, OneTurn DEF Busy, Writes, ServeRefresh
<1>6. /\ c \in Token /\ sess' = SessAfterRefresh(c, e)
      /\ ref'[t].pc = "answered" /\ ref'[t].ans \in RefreshAnswers(c, e)
      /\ \A u \in Tabs : u # t => ref'[u] = AgedRefs(s)[u]
  BY <1>1, <1>2, <1>3, Served
<1>7. \A x \in Sids : ~sess'[x].reused
  BY <1>4, <1>6, RefreshedSessions DEF InTurn
<1>8. ref'[t].ans.age = 0 /\ (Rotates(c, e) => ref'[t].ans.set = "write")
  BY <1>6, AnswersFit
<1>9. orphans' = {} /\ cookie' = Older(cookie, s)
  BY <1>1, <1>2, <1>3 DEF ServeRefresh, AgeCopies, InTurn
<1>10. ASSUME NEW u \in Tabs PROVE TurnOK(u)'
  <2>1. CASE u = t
    BY <1>5, <1>6, <1>8, <2>1 DEF TurnOK
  <2>2. CASE u # t
    <3>1. ref'[u].pc = ref[u].pc
      BY <1>6, <2>2, AgedRef
    <3> QED
      BY <1>5, <2>2, <3>1 DEF TurnOK, Busy
  <2> QED
    BY <2>1, <2>2
<1>11. CookieOK'
  <2>1. CASE Rotates(c, e)
    BY <1>6, <1>8, <2>1 DEF CookieOK
  <2>2. CASE ~Rotates(c, e)
    <3>1. cookie' = cookie
      BY <1>3, <1>9, <2>2 DEF Older
    <3> QED
      BY <1>5, <3>1 DEF CookieOK
  <2> QED
    BY <2>1, <2>2
<1> QED
  BY <1>7, <1>9, <1>10, <1>11 DEF InTurn

LEMMA TurnAnswered ==
  ASSUME ClientFits, InTurn, NEW t \in Tabs, HandleAnswer(t)
  PROVE  InTurn'
<1>1. ref[t].pc = "answered" /\ orphans' = {} /\ sess' = sess
  BY DEF HandleAnswer, InTurn
<1>2. ref[t].ans \in Answer
  BY DEF ClientFits, RefState
<1>3. webLock = t /\ (ref[t].ans.set # "write" => cookie.age = 0)
  BY <1>1, OneTurn DEF Busy, Writes
<1>4. ref[t].ans.set = "write" => ref[t].ans.age = 0
  BY <1>1 DEF InTurn, TurnOK
<1>5. ref[t].ans.set = "keep" \/ ref[t].ans.set = "clear" \/ ref[t].ans.set = "write"
  BY <1>2 DEF Answer
<1>6. cookie'.age = 0
  BY <1>2, <1>3, <1>4, <1>5, Handled, CookieFits
<1>7. TurnOK(t)' /\ (webLock' = webLock \/ webLock' = LockReleased(t))
  BY <1>3, <1>6, Handled DEF TurnOK
<1>8. \A u \in Tabs : u # t => ref'[u] = ref[u]
  BY Handled
<1> QED
  BY <1>1, <1>6, <1>7, <1>8, TurnKept

LEMMA TurnRun ==
  ASSUME ClientFits, InTurn, use.locks, NEW t \in Tabs, Run(t)
  PROVE  InTurn'
<1>1. /\ orphans' = {} /\ sess' = sess /\ cookie' = cookie
      /\ ref[t].pc = "wait" \/ (ref[t].pc = "lock" /\ webLock = None)
  BY DEF Run, InTurn
<1>2. ~Writes(ref[t])
  BY <1>1 DEF Writes
<1>3. tab[t] \in TabState /\ ref[t] \in RefState /\ cookie \in Token
  BY DEF ClientFits
<1>4. CASE Settle(t, "superseded", tab[t])
  <2>1. /\ \A u \in Tabs : u # t => ref'[u] = ref[u]
        /\ ref'[t].pc = "none" /\ webLock' = LockReleased(t)
    BY <1>3, <1>4, Settled
  <2>2. TurnOK(t)'
    BY <2>1 DEF TurnOK
  <2> QED
    BY <1>1, <1>2, <2>1, <2>2, TurnKept
<1>5. CASE /\ ref' = [ref EXCEPT ![t] = Send(@, tab[t], cookie)]
           /\ webLock' = IF use.locks THEN t ELSE webLock
  <2>1. cookie.age = 0
    <3>1. \A u \in Tabs : u # t => ~Busy(ref[u])
      BY <1>1, OneTurn DEF Busy
    <3>2. \A u \in Tabs : ~Writes(ref[u])
      BY <1>2, <3>1 DEF Busy, Writes
    <3> QED
      BY <3>2 DEF InTurn, CookieOK, Writes
  <2>2. PICK n : n = Send(ref[t], tab[t], cookie)
    OBVIOUS
  <2>3. n.pc = "sent" /\ n.ck = cookie /\ n.ans.set = "keep"
    BY <1>3, <2>2, Sent
  <2>4. ref'[t] = n /\ \A u \in Tabs : u # t => ref'[u] = ref[u]
    BY <1>5, <2>2 DEF ClientFits
  <2>5. webLock' = t /\ (webLock = t \/ webLock = None)
    BY <1>1, <1>5, OneTurn DEF Busy
  <2>6. TurnOK(t)'
    BY <2>1, <2>3, <2>4, <2>5 DEF TurnOK
  <2> QED
    BY <1>1, <1>2, <2>4, <2>5, <2>6, TurnKept
<1> QED
  BY <1>4, <1>5 DEF Run

LEMMA TurnFails ==
  ASSUME ClientFits, InTurn, NEW t \in Tabs, RefreshFails(t)
  PROVE  InTurn'
<1>1. /\ ref[t].pc = "sent" /\ orphans' = {} /\ sess' = sess /\ cookie' = cookie
      /\ webLock' = webLock
  BY DEF RefreshFails, InTurn
<1>2. ref[t].ans.set = "keep" /\ webLock = t /\ ~Writes(ref[t])
  BY <1>1 DEF InTurn, TurnOK, Writes
<1>3. /\ ref'[t].pc = "answered" /\ ref'[t].ans.set # "write"
      /\ \A u \in Tabs : u # t => ref'[u] = ref[u]
  BY <1>2, FailedOrLost
<1>4. TurnOK(t)'
  BY <1>1, <1>2, <1>3 DEF TurnOK
<1> QED
  BY <1>1, <1>2, <1>3, <1>4, TurnKept

LEMMA TurnSuperseded ==
  ASSUME ClientFits, InTurn, NEW t \in Tabs,
         ref' = [ref EXCEPT ![t].current = FALSE], orphans' = orphans, webLock' = webLock,
         \A s \in Sids : sess'[s].reused = sess[s].reused,
         cookie' = cookie \/ cookie'.age = 0
  PROVE  InTurn'
<1>1. /\ \A u \in Tabs : u # t => ref'[u] = ref[u]
      /\ ref'[t].pc = ref[t].pc /\ ref'[t].ck = ref[t].ck /\ ref'[t].ans = ref[t].ans
  BY Superseded
<1>2. TurnOK(t)' /\ (Writes(ref[t]) => Writes(ref'[t]))
  BY <1>1 DEF InTurn, TurnOK, Writes
<1>3. orphans' = {}
  BY DEF InTurn
<1> QED
  BY <1>1, <1>2, <1>3, TurnKept

LEMMA TurnLoaded ==
  ASSUME ClientFits, InTurn, use.locks, NEW t \in Tabs,
         LoadPage(t), ~lost', sess' = sess
  PROVE  InTurn'
<1>1. /\ ref[t].pc # "answered" /\ orphans' = {} /\ cookie' = cookie
      /\ ref'[t].pc = "lock" /\ webLock' = LockReleased(t)
      /\ \A u \in Tabs : u # t => ref'[u] = ref[u]
  BY Loaded DEF InTurn
<1>2. TurnOK(t)' /\ ~Writes(ref[t])
  BY <1>1 DEF TurnOK, Writes
<1> QED
  BY <1>1, <1>2, TurnKept

LEMMA TurnStarted ==
  ASSUME ClientFits, InTurn, use.locks, NEW t \in Tabs,
         StartRefresh(t), UNCHANGED <<sess, cookie, orphans, webLock>>
  PROVE  InTurn'
<1>1. CASE ref'[t] = ref[t]
  BY <1>1, Started, TurnKept DEF InTurn, TurnOK
<1>2. CASE ref[t].pc = "none" /\ ref'[t].pc = "lock"
  <2>1. TurnOK(t)' /\ ~Writes(ref[t])
    BY <1>2 DEF TurnOK, Writes
  <2> QED
    BY <2>1, Started, TurnKept DEF InTurn
<1> QED
  BY <1>1, <1>2, Started

LEMMA TurnQuiet ==
  ASSUME InTurn, UNCHANGED <<cookie, orphans, ref, webLock>>,
         \A s \in Sids : sess'[s].reused = sess[s].reused
  PROVE  InTurn'
BY DEF InTurn, TurnOK, CookieOK
LEMMA TurnStep ==
  ASSUME ClientFits, InTurn, use.locks, ~lost', [ClientNext]_clientVars
  PROVE  InTurn'
<1>1. ~ServeOrphan
  BY DEF ServeOrphan, InTurn
<1>2. ASSUME NEW s \in Sids, GraceEnds(s) \/ RevokedElsewhere(s) PROVE InTurn'
  BY <1>2, StatusFine, TurnQuiet DEF GraceEnds, RevokedElsewhere
<1>3. ASSUME NEW t \in Tabs, Run(t) \/ ServeRefresh(t) \/ HandleAnswer(t) PROVE InTurn'
  BY <1>3, TurnRun, TurnServed, TurnAnswered
<1>4. ASSUME NEW t \in Tabs, RefreshFails(t) \/ AnswerLost(t) PROVE InTurn'
  BY <1>4, TurnFails DEF AnswerLost
<1>5. ASSUME NEW t \in Tabs,
             \/ Expire(t) \/ Navigate(t) \/ GetFreshAuthHeaders(t)
             \/ ApiUnauthorized(t) \/ LogoutMismatch(t)
      PROVE  InTurn'
  <2>1. UNCHANGED <<sess, cookie, orphans, webLock>> /\ (ref' = ref \/ StartRefresh(t))
    BY <1>5 DEF Expire, Navigate, GetFreshAuthHeaders, ApiUnauthorized, LogoutMismatch
  <2> QED
    BY <2>1, TurnStarted, TurnQuiet
<1>6. ASSUME NEW t \in Tabs, ApiResent(t) PROVE InTurn'
  <2>1. /\ UNCHANGED <<sess, cookie, orphans, webLock>>
        /\ ref' = ref \/ ref' = [ref EXCEPT ![t].current = FALSE]
    BY <1>6 DEF ApiResent, ClearLocally
  <2> QED
    BY <2>1, TurnSuperseded, TurnQuiet
<1>7. ASSUME NEW t \in Tabs, Reload(t) \/ Redirect(t) PROVE InTurn'
  <2>1. \/ LoadPage(t) /\ sess' = sess
        \/ UNCHANGED <<sess, cookie, orphans, ref, webLock>>
    BY <1>7 DEF Reload, Redirect
  <2> QED
    BY <2>1, TurnLoaded, TurnQuiet
<1>8. ASSUME NEW t \in Tabs, Login(t) PROVE InTurn'
  <2>1. UNCHANGED <<orphans, webLock>> /\ ref' = [ref EXCEPT ![t].current = FALSE]
    BY <1>8 DEF Login
  <2>2. cookie'.age = 0 /\ \A s \in Sids : sess'[s].reused = sess[s].reused
    BY <1>8, LoginFine
  <2> QED
    BY <2>1, <2>2, TurnSuperseded
<1>9. ASSUME NEW t \in Tabs, Logout(t) \/ ServeLogout(t) PROVE InTurn'
  <2>1. UNCHANGED <<cookie, orphans, ref, webLock>>
    BY <1>9 DEF Logout, ServeLogout
  <2>2. \A s \in Sids : sess'[s].reused = sess[s].reused
    BY <1>9, ServeLogoutFine DEF Logout
  <2> QED
    BY <2>1, <2>2, TurnQuiet
<1>10. ASSUME NEW t \in Tabs, LogoutDone(t) PROVE InTurn'
  <2>1. /\ UNCHANGED <<sess, orphans, webLock>> /\ ref' = [ref EXCEPT ![t].current = FALSE]
        /\ cookie' = cookie \/ cookie'.age = 0
    BY <1>10, NothingFits DEF LogoutDone, ClearLocally
  <2> QED
    BY <2>1, TurnSuperseded
<1>11. ASSUME NEW t \in Tabs, HandleEvent(t) PROVE InTurn'
  <2>1. sess' = sess
    BY <1>11 DEF HandleEvent
  <2>2. \/ LoadPage(t)
        \/ UNCHANGED <<cookie, orphans, webLock>> /\ ref' = [ref EXCEPT ![t].current = FALSE]
        \/ UNCHANGED <<cookie, orphans, ref, webLock>>
    BY <1>11 DEF HandleEvent, ClearLocally
  <2> QED
    BY <2>1, <2>2, TurnLoaded, TurnSuperseded, TurnQuiet
<1>12. CASE UNCHANGED clientVars \/ \E t \in Tabs : DropEvent(t)
  BY <1>12, TurnQuiet DEF clientVars, DropEvent
<1> QED
  BY <1>1, <1>2, <1>3, <1>4, <1>5, <1>6, <1>7, <1>8, <1>9, <1>10, <1>11, <1>12 DEF ClientNext

\* How a browser uses its tabs does not change, and a loss is not forgotten.
LEMMA Remembered ==
  ASSUME [ClientNext]_clientVars
  PROVE  use' = use /\ (~lost' => ~lost)
<1>1. CASE ServeOrphan
  BY <1>1 DEF ServeOrphan
<1>2. ASSUME NEW s \in Sids, GraceEnds(s) \/ RevokedElsewhere(s)
      PROVE  use' = use /\ lost' = lost
  BY <1>2 DEF GraceEnds, RevokedElsewhere
<1>3. ASSUME NEW t \in Tabs, Run(t) \/ ServeRefresh(t) \/ HandleAnswer(t) \/ RefreshFails(t)
      PROVE  use' = use /\ lost' = lost
  BY <1>3 DEF Run, ServeRefresh, HandleAnswer, RefreshFails
<1>4. ASSUME NEW t \in Tabs, AnswerLost(t)
      PROVE  use' = use /\ lost' = TRUE
  BY <1>4 DEF AnswerLost
<1>5. ASSUME NEW t \in Tabs,
             \/ Expire(t) \/ Navigate(t) \/ GetFreshAuthHeaders(t)
             \/ ApiUnauthorized(t) \/ ApiResent(t)
      PROVE  use' = use /\ lost' = lost
  BY <1>5 DEF Expire, Navigate, GetFreshAuthHeaders, ApiUnauthorized, ApiResent
<1>6. ASSUME NEW t \in Tabs,
             \/ Login(t) \/ Logout(t) \/ ServeLogout(t) \/ LogoutDone(t)
             \/ LogoutMismatch(t)
      PROVE  use' = use /\ lost' = lost
  BY <1>6 DEF Login, Logout, ServeLogout, LogoutDone, LogoutMismatch
<1>7. ASSUME NEW t \in Tabs, Reload(t) \/ Redirect(t) \/ HandleEvent(t)
      PROVE  use' = use /\ (~lost' => ~lost)
  <2>1. use' = use /\ (lost' = lost \/ LoadPage(t))
    BY <1>7 DEF Reload, Redirect, HandleEvent
  <2>2. LoadPage(t) => (~lost' => ~lost)
    BY DEF LoadPage
  <2> QED
    BY <2>1, <2>2
<1>8. CASE UNCHANGED clientVars \/ \E t \in Tabs : DropEvent(t)
  BY <1>8 DEF clientVars, DropEvent
<1> QED
  BY <1>1, <1>2, <1>3, <1>4, <1>5, <1>6, <1>7, <1>8 DEF ClientNext

LEMMA ClientStarts ==
  ASSUME ClientInit
  PROVE  ClientInv
<1>1. PICK s : s = CHOOSE x \in Sids : TRUE
  OBVIOUS
<1>2. s \in Sids
  BY <1>1 DEF AuthClientAssumption
<1>3. sess = [x \in Sids |-> [st |-> IF x = s THEN "active" ELSE "none",
                              grace |-> FALSE, reused |-> FALSE]]
  BY <1>1 DEF ClientInit
<1>4. cookie = [sid |-> s, age |-> 0] /\ orphans = {}
  BY <1>1 DEF ClientInit
<1>5. sess \in [Sids -> Session] /\ \A x \in Sids : ~sess[x].reused
  BY <1>3 DEF Session
<1>6. cookie \in Token /\ cookie.age = 0
  BY <1>2, <1>4 DEF Token
<1>7. PICK n : n = [sid |-> None, boot |-> "checking", fresh |-> FALSE, page |-> "loading"]
  OBVIOUS
<1>8. n \in TabState /\ n.sid = None
  BY <1>7 DEF TabState
<1>9. tab = [t \in Tabs |-> n]
  BY <1>7 DEF ClientInit
<1>10. PICK j : j = JoinRefresh(NoRef, n, cookie)
  OBVIOUS
<1>11. /\ j \in RefState /\ (j.pc = "lock" \/ j.pc = "sent")
       /\ use.locks => j.pc = "lock"
  BY <1>6, <1>8, <1>10, NothingFits, Joined
<1>12. ref = [t \in Tabs |-> j]
  BY <1>9, <1>10 DEF ClientInit
<1>13. signedOut = [t \in Tabs |-> {}]
  BY DEF ClientInit
<1>14. ClientFits
  BY <1>4, <1>5, <1>6, <1>8, <1>9, <1>11, <1>12, <1>13 DEF ClientFits
<1>15. \A t \in Tabs : TabOK(t)
  BY <1>11, <1>12, <1>13 DEF TabOK
<1>16. use.locks => InTurn
  BY <1>4, <1>5, <1>6, <1>11, <1>12 DEF InTurn, TurnOK, CookieOK
<1> QED
  BY <1>14, <1>15, <1>16 DEF ClientInv

LEMMA ClientInvariance == ClientSpec => []ClientInv
<1>1. ClientInit => ClientInv
  BY ClientStarts
<1>2. ClientInv /\ [ClientNext]_clientVars => ClientInv'
  <2> SUFFICES ASSUME ClientInv, [ClientNext]_clientVars PROVE ClientInv'
    OBVIOUS
  <2>1. ClientFits /\ (\A t \in Tabs : TabOK(t)) /\ (use.locks /\ ~lost => InTurn)
    BY DEF ClientInv
  <2>2. Fine
    BY <2>1, StepFine
  <2>3. \A t \in Tabs : TabOK(t)'
    BY <2>1, <2>2, TabStep
  <2>4. use'.locks /\ ~lost' => InTurn'
    BY <2>1, TurnStep, Remembered
  <2> QED
    BY <2>2, <2>3, <2>4 DEF ClientInv, Fine
<1> QED
  BY <1>1, <1>2, PTL DEF ClientSpec

\* However many tabs there are and whatever is lost, late or reloaded, a tab
\* that has signed out of a session does not show it again: the epoch that
\* clearAuthentication advances makes every refresh under way give up its answer
\* (auth-session.ts), and the server answers no refresh of a revoked session.
THEOREM SignedOutStays == ClientSpec => []NotBackAfterSignOut
<1>1. ClientInv => NotBackAfterSignOut
  BY DEF ClientInv, TabOK, NotBackAfterSignOut
<1> QED
  BY <1>1, ClientInvariance, PTL

\* Tabs that refresh under the Web Lock of navigator.locks, however many, never
\* present the secret before the current one, so that the server takes none of
\* their requests for the reuse of a stolen secret (RotateUserSessionRefresh),
\* unless an answer that carried a new secret was lost.
THEOREM TurnsAreSafe == ClientSpec => []ReuseNeedsLoss
<1>1. ClientInv => ReuseNeedsLoss
  BY DEF ClientInv, InTurn, ReuseNeedsLoss
<1> QED
  BY <1>1, ClientInvariance, PTL
==============================================================================
