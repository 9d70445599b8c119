---------------------------- MODULE UserSession ----------------------------
(***************************************************************************)
(* One login session on the server: its row in the database and its copies *)
(* in Redis (model/user_session.go).  Requests are validated against the   *)
(* copy; a miss is filled from the row.  The session is rotated, advanced  *)
(* to a new version or revoked by handlers on any node, each step of which *)
(* is one database statement or one Redis script.                          *)
(*                                                                         *)
(* Time: every deadline is kept as the time still left, at most TTL, and   *)
(* Tick takes one unit off all of them; a handler may be suspended for any *)
(* number of units between two steps.  The session's own expiry lies far   *)
(* beyond and is left out.                                                 *)
(***************************************************************************)
EXTENDS Naturals

CONSTANTS Procs,       \* handlers that run at the same time
          Redises,     \* the Redis servers
          Topologies,  \* ways to assign handlers' nodes to Redis servers
          Ops,         \* the operations handlers are started for
          TTL,         \* SYNC_FREQUENCY, the longest life of a copy
          MaxVersion,  \* bound on the version of the session
          MaxFaults    \* bound on failed Redis calls and dying handlers

ASSUME TopologyAssumption == Topologies \subseteq [Procs -> Redises]
ASSUME BoundsAssumption ==
  /\ TTL \in Nat \ {0} /\ MaxVersion \in Nat \ {0} /\ MaxFaults \in Nat
ASSUME OpsAssumption ==
  Ops \subseteq {"validate", "rotate", "advance", "revoke", "byHash", "bulk"}

VARIABLES redisOf, \* the Redis server of each handler's node
          row,     \* status and version of the session in the database
          cache,   \* its copy in each Redis
          proc,    \* the handlers
          lock,    \* the handler whose transaction holds the row
          told,    \* a revocation has reported success
          since,   \* time since the row was revoked, up to TTL
          wrong,   \* what validations answered "active" have shown: "late"
                   \* begun after told, "stale" TTL after the row was revoked,
                   \* unless begun before told and its copy's write failed late
          faults

vars == <<redisOf, row, cache, proc, lock, told, since, wrong, faults>>

NoOne == "nobody"
Deny == {"revoking", "revoked"}
Gone == [status |-> "none", version |-> 0, left |-> 0]
Idle == [op |-> "none", pc |-> "idle", version |-> 0, left |-> 0,
         toldAtStart |-> FALSE]

-----------------------------------------------------------------------------
(* The Redis script of writeUserSessionCache.                              *)

Redis(p) == cache[redisOf[p]]

\* An active copy never replaces a deny, and no copy replaces a newer version.
Accepts(p, status, version) ==
  /\ ~(status = "active" /\ Redis(p).status \in Deny)
  /\ Redis(p).version <= version

\* An entry whose expiry has passed is deleted.
Stored(p, status, version, left) ==
  cache' = [cache EXCEPT ![redisOf[p]] =
              IF left = 0 THEN Gone
              ELSE [status |-> status, version |-> version, left |-> left]]

\* Variant: an active copy lives for a full TTL from when it is written.
ActiveLifeFresh(p) == TTL

\* An active copy gets what is left of the window opened before its read.
ActiveLife(p) == proc[p].left

\* A deny's time starts when it is published.
WriteDeny(p, status, version) ==
  IF Accepts(p, status, version) THEN Stored(p, status, version, TTL)
  ELSE UNCHANGED cache

-----------------------------------------------------------------------------
Init ==
  /\ redisOf \in Topologies
  /\ row = [status |-> "active", version |-> 1]
  /\ \E warm \in BOOLEAN :
       cache = [r \in Redises |->
                  IF warm THEN [status |-> "active", version |-> 1, left |-> TTL]
                  ELSE Gone]
  /\ proc = [p \in Procs |-> Idle]
  /\ lock = NoOne
  /\ told = FALSE
  /\ since = 0
  /\ wrong = {}
  /\ faults = 0

Goto(p, pc) == proc' = [proc EXCEPT ![p].pc = pc]
Ends(p) == proc' = [proc EXCEPT ![p] = Idle]

\* An operation starts with its window of TTL; version is what it knows.
Begin(p, op, pc, version) ==
  /\ op \in Ops
  /\ proc[p].pc = "idle"
  /\ proc' = [proc EXCEPT ![p] = [op |-> op, pc |-> pc, version |-> version,
                                  left |-> TTL, toldAtStart |-> told]]

\* The answer of a validation; the other operations answer their own caller.
Answers(active, toldAtStart, inTime) ==
  wrong' = wrong \cup {w \in {"late", "stale"} :
                        /\ active
                        /\ IF w = "late" THEN toldAtStart
                           ELSE /\ row.status = "revoked" /\ since = TTL
                                /\ inTime \/ toldAtStart}

(* GetUserSessionCached: a copy answers at once.                           *)
ValidateHit(p) ==
  /\ "validate" \in Ops /\ proc[p].pc = "idle"
  /\ Redis(p).status # "none"
  /\ Answers(Redis(p).status = "active", told, TRUE)
  /\ UNCHANGED <<redisOf, row, cache, proc, lock, told, since, faults>>

\* A miss, or a read that fails, opens the window of the copy before the row is
\* read.
ValidateMiss(p) ==
  /\ \/ Redis(p).status = "none" /\ UNCHANGED faults
     \/ faults < MaxFaults /\ faults' = faults + 1
  /\ Begin(p, "validate", "read", 0)
  /\ UNCHANGED <<redisOf, row, cache, lock, told, since, wrong>>

\* A rotation opens the window, reads the row and later compares and sets it.
Rotate(p) ==
  /\ Begin(p, "rotate", "read", 0)
  /\ UNCHANGED <<redisOf, row, cache, lock, told, since, wrong, faults>>

\* An operation that finds the session inactive ends; a validation first leaves
\* a deny behind.
Read(p) ==
  /\ proc[p].pc = "read"
  /\ \/ /\ row.status = "active"
        /\ proc' = [proc EXCEPT ![p].version = row.version,
                                ![p].pc = CASE proc[p].op = "validate" -> "fill"
                                            [] proc[p].op = "rotate" -> "swap"
                                            [] OTHER -> "fence"]
     \/ /\ row.status = "revoked" /\ proc[p].op = "validate"
        /\ proc' = [proc EXCEPT ![p].version = row.version, ![p].pc = "deny"]
     \/ /\ row.status = "revoked" /\ proc[p].op # "validate"
        /\ Ends(p)
  /\ UNCHANGED <<redisOf, row, cache, lock, told, since, wrong, faults>>

\* The validation that read a revoked row leaves a deny behind and refuses.
ReadDenies(p) ==
  /\ proc[p].pc = "deny"
  /\ WriteDeny(p, "revoked", proc[p].version)
  /\ Ends(p)
  /\ UNCHANGED <<redisOf, row, lock, told, since, wrong, faults>>

\* The digests are exchanged while the row is active and no other rotation has
\* exchanged them; otherwise the row is read again, which ends in a refusal.
RotateSwap(p) ==
  /\ proc[p].pc = "swap" /\ lock = NoOne
  /\ \/ row.status = "active" /\ Goto(p, "fill")
     \/ Ends(p)
  /\ UNCHANGED <<redisOf, row, cache, lock, told, since, wrong, faults>>

\* AdvanceUserSessionAuthVersion: the window, then the next version in one
\* transaction, unless the version is no longer the caller's.
Advance(p) ==
  /\ row.version < MaxVersion
  /\ Begin(p, "advance", "advance", row.version)
  /\ UNCHANGED <<redisOf, row, cache, lock, told, since, wrong, faults>>

AdvanceUpdate(p) ==
  /\ proc[p].pc = "advance" /\ lock = NoOne
  /\ IF row = [status |-> "active", version |-> proc[p].version]
     THEN /\ row' = [row EXCEPT !.version = @ + 1]
          /\ proc' = [proc EXCEPT ![p].pc = "fill", ![p].version = @ + 1]
     ELSE Ends(p) /\ UNCHANGED row
  /\ UNCHANGED <<redisOf, cache, lock, told, since, wrong, faults>>

\* The copy is written while its window is open.  A script that runs too late
\* finds its expiry in the past, which deletes the entry, and the caller has to
\* confirm what it read.
Fill(p) ==
  /\ proc[p].pc = "fill"
  /\ \/ /\ ActiveLife(p) > 0
        /\ IF Accepts(p, "active", proc[p].version)
           THEN /\ Stored(p, "active", proc[p].version, ActiveLife(p))
                /\ Answers(proc[p].op = "validate", proc[p].toldAtStart, TRUE)
           ELSE UNCHANGED <<cache, wrong>>
        /\ Ends(p)
     \/ /\ ActiveLife(p) = 0
        /\ \/ UNCHANGED cache
           \/ Accepts(p, "active", proc[p].version) /\ Stored(p, "active", proc[p].version, 0)
        /\ Goto(p, "confirm")
        /\ UNCHANGED wrong
  /\ UNCHANGED <<redisOf, row, lock, told, since, faults>>

\* The copy cannot be written: the failure is logged and the row read counts,
\* also if the call of Redis fails only when the window is over.
FillFails(p) ==
  /\ proc[p].pc = "fill" /\ faults < MaxFaults
  /\ Answers(proc[p].op = "validate", proc[p].toldAtStart, ActiveLife(p) > 0)
  /\ Ends(p)
  /\ faults' = faults + 1
  /\ UNCHANGED <<redisOf, row, cache, lock, told, since>>

\* Variant: what was read is answered without looking again.
ConfirmedUnread(p) == TRUE

\* confirmUserSessionActiveSnapshot.
Confirmed(p) == row.status = "active" /\ row.version = proc[p].version

-----------------------------------------------------------------------------
(* Revocation: a fence in Redis, the row, a tombstone in Redis.            *)

\* RevokeUserSession, the reuse branch of a rotation and, with op "bulk", the
\* loop of revokeUserSessions: the candidate is read outside the transaction.
Revoke(p) ==
  /\ \E op \in {"revoke", "bulk"} : Begin(p, op, "read", 0)
  /\ UNCHANGED <<redisOf, row, cache, lock, told, since, wrong, faults>>

\* RevokeUserSessionByRefreshHash: the row is read and locked first.
RevokeByHash(p) ==
  /\ lock = NoOne /\ row.status = "active"
  /\ Begin(p, "byHash", "fence", row.version)
  /\ lock' = p
  /\ UNCHANGED <<redisOf, row, cache, told, since, wrong, faults>>

Unlock(p) == lock' = IF lock = p THEN NoOne ELSE lock

\* writeUserSessionDenyFence: a fence the script refuses ends the revocation
\* with an error, before the row is touched.
Fence(p) ==
  /\ proc[p].pc = "fence"
  /\ IF Accepts(p, "revoking", proc[p].version)
     THEN /\ Stored(p, "revoking", proc[p].version, TTL)
          /\ Goto(p, "update")
          /\ UNCHANGED lock
     ELSE Ends(p) /\ Unlock(p) /\ UNCHANGED cache
  /\ UNCHANGED <<redisOf, row, told, since, wrong, faults>>

\* The bulk loop takes the row it locked for its tombstone; the others keep
\* the version they read before the fence.
TombVersion(p) == IF proc[p].op = "bulk" THEN row.version ELSE proc[p].version

\* The transaction: an active row is revoked, another one left alone.
Update(p) ==
  /\ proc[p].pc = "update" /\ lock \in {NoOne, p}
  /\ IF row.status = "active"
     THEN /\ row' = [row EXCEPT !.status = "revoked"]
          /\ since' = 0
          /\ proc' = [proc EXCEPT ![p].pc = "tomb", ![p].version = TombVersion(p)]
     ELSE Ends(p) /\ UNCHANGED <<row, since>>
  /\ Unlock(p)
  /\ UNCHANGED <<redisOf, cache, told, wrong, faults>>

\* A refusal by the script is only logged, and the revocation reports success.
Tombstone(p) ==
  /\ proc[p].pc = "tomb"
  /\ WriteDeny(p, "revoked", proc[p].version)
  /\ Ends(p)
  /\ told' = TRUE
  /\ UNCHANGED <<redisOf, row, lock, since, wrong, faults>>

TombstoneFails(p) ==
  /\ proc[p].pc = "tomb" /\ faults < MaxFaults
  /\ Ends(p)
  /\ told' = TRUE
  /\ faults' = faults + 1
  /\ UNCHANGED <<redisOf, row, cache, lock, since, wrong>>

\* The handler dies; an open transaction is rolled back.
Dies(p) ==
  /\ proc[p].pc # "idle" /\ faults < MaxFaults
  /\ Ends(p) /\ Unlock(p)
  /\ faults' = faults + 1
  /\ UNCHANGED <<redisOf, row, cache, told, since, wrong>>

Confirm(p) ==
  /\ proc[p].pc = "confirm"
  /\ Answers(proc[p].op = "validate" /\ Confirmed(p), proc[p].toldAtStart, TRUE)
  /\ Ends(p)
  /\ UNCHANGED <<redisOf, row, cache, lock, told, since, faults>>

-----------------------------------------------------------------------------
Less(n) == IF n > 0 THEN n - 1 ELSE 0

\* Variant: a deny has no expiry.
AgedKeepsDeny(e) ==
  IF e.status \in Deny THEN e
  ELSE IF e.left <= 1 THEN Gone ELSE [e EXCEPT !.left = @ - 1]

\* Redis drops an entry whose time is up.
Aged(e) == IF e.left <= 1 THEN Gone ELSE [e EXCEPT !.left = @ - 1]

Tick ==
  /\ cache' = [r \in Redises |-> Aged(cache[r])]
  /\ proc' = [p \in Procs |-> [proc[p] EXCEPT !.left = Less(@)]]
  /\ since' = IF row.status = "revoked" /\ since < TTL THEN since + 1 ELSE since
  /\ UNCHANGED <<redisOf, row, lock, told, wrong, faults>>

Step(p) ==
  \/ Read(p) \/ ReadDenies(p) \/ RotateSwap(p) \/ AdvanceUpdate(p)
  \/ Fill(p) \/ Confirm(p) \/ Fence(p) \/ Update(p) \/ Tombstone(p)

Next ==
  \/ Tick
  \/ \E p \in Procs :
       \/ Step(p)
       \/ ValidateHit(p) \/ ValidateMiss(p) \/ Rotate(p) \/ Advance(p)
       \/ Revoke(p) \/ RevokeByHash(p)
       \/ FillFails(p) \/ TombstoneFails(p) \/ Dies(p)

Spec == Init /\ [][Next]_vars

\* Time passes and a handler that can go on does.
FairSpec == Spec /\ WF_vars(Tick) /\ \A p \in Procs : WF_vars(Step(p))

-----------------------------------------------------------------------------
(* Every variable has its type, and a copy that is there has time left.    *)
TypeOK ==
  /\ redisOf \in Topologies
  /\ row \in [status : {"active", "revoked"}, version : 1..MaxVersion]
  /\ cache \in [Redises -> {Gone} \cup
                 [status : {"active"} \cup Deny, version : 1..MaxVersion, left : 1..TTL]]
  /\ proc \in [Procs ->
       [op : {"none"} \cup Ops,
        pc : {"idle", "read", "fill", "deny", "swap", "advance", "confirm",
              "fence", "update", "tomb"},
        version : 0..MaxVersion, left : 0..TTL, toldAtStart : BOOLEAN]]
  /\ lock \in {NoOne} \cup Procs
  /\ told \in BOOLEAN
  /\ since \in 0..TTL
  /\ wrong \subseteq {"late", "stale"}
  /\ faults \in 0..MaxFaults

(* Once a revocation has reported success, no validation that begins later *)
(* answers that the session is active: neither the fence that has run out  *)
(* nor a fill that was suspended brings the old copy back                  *)
(* (writeUserSessionCache, the tombstone and the window of active copies). *)
(* This is so while all nodes share a Redis, its writes work and the       *)
(* version has not changed: a tombstone that fails, has an older version   *)
(* or is in another Redis does not stop the old copy.                      *)
NoReactivation ==
  (faults = 0 /\ row.version = 1 /\ \A p, q \in Procs : redisOf[p] = redisOf[q])
    => "late" \notin wrong

(* Whatever fails, and with a Redis per node, no validation answers active *)
(* once the row has been revoked for TTL: copies never outlive the window  *)
(* of their read, and an answer after that window looks at the row again   *)
(* (confirmUserSessionActiveSnapshot).  There is one exception: a          *)
(* validation that was under way when the revocation was reported, and     *)
(* whose call of Redis fails after its window, answers what it once read   *)
(* (writeUserSessionCache returns the error before it looks at the time).  *)
StaleBound == "stale" \notin wrong

(* A revocation that stops between its fence and the row does not lock the *)
(* session out for ever (the fence of writeUserSessionDenyFence has a TTL).*)
FenceLifts ==
  \A r \in Redises :
    (row.status = "active" /\ cache[r].status \in Deny)
      ~> (row.status = "revoked" \/ cache[r].status \notin Deny)
=============================================================================
