------------------------------- MODULE Quota -------------------------------
(***************************************************************************)
(* The wallet balance of one user: the row in the database, the balance in *)
(* Redis that reservations are checked against, the deltas of one process   *)
(* queued for the batch updater, and the cache updates that goroutines have *)
(* yet to apply.                                                            *)
(*                                                                         *)
(* Sources: model/quota_reserve.go, model/user.go (IncreaseUserQuota,       *)
(* DecreaseUserQuota, batch write), model/utils.go (batch updater),         *)
(* model/user_cache.go and user_auth_cache.go (hydration).  Token balances  *)
(* have the same shape.  An action is one Redis script, one SQL statement   *)
(* or one critical section.                                                 *)
(***************************************************************************)
EXTENDS Integers, Sequences, FiniteSets

CONSTANTS Clients,   \* requests that use the account
          Amounts,   \* amounts reserved, charged or given back
          Start,     \* balance at the start
          MaxWallet, \* MaxWalletQuota
          Redis,     \* common.RedisEnabled
          Modes,     \* values of common.BatchUpdateEnabled
          Changes,   \* what clients do, with or without a reservation
          Faults,    \* which faults happen
          MaxFaults, \* bound: faults
          None       \* the hash is not in Redis

ASSUME QuotaAssumption ==
    /\ IsFiniteSet(Clients)
    /\ Amounts \subseteq Nat \ {0}
    /\ Start \in Nat
    /\ MaxWallet \in Nat
    /\ Redis \in BOOLEAN
    /\ Modes \subseteq BOOLEAN
    /\ Changes \subseteq {"increase", "decrease"}
    /\ Faults \subseteq {"db_reserve", "db_change", "redis", "expire", "flush",
                         "fill", "crash"}
    /\ MaxFaults \in Nat
    /\ None \notin Int

VARIABLES batch,    \* common.BatchUpdateEnabled: changes are queued
          db,       \* users.quota
          cache,    \* field Quota of the hash in Redis, or None
          queue,    \* batchUpdateStores: sum of the queued deltas
          taken,    \* deltas the batch updater has swapped out
          pend,     \* cache deltas that goroutines have yet to apply
          client,   \* the call each client is in
          held,     \* what each client was told it holds
          crossed,  \* history: a change of the balance and a fill overlapped
          faults    \* the faults so far, in their order

vars == <<batch, db, cache, queue, taken, pend, client, held, crossed, faults>>

Idle == [pc |-> "idle", amt |-> 0, chg |-> 0, snap |-> 0]

TypeOK ==
    /\ batch \in BOOLEAN
    /\ db \in Int
    /\ cache \in Int \cup {None}
    /\ queue \in Int
    /\ taken \in Int
    /\ pend \subseteq [by : Clients, d : Int]
    /\ client \in [Clients -> [pc : {"idle", "cache", "read", "write", "again",
                                     "fallback", "persist", "undo", "holds",
                                     "charge", "over"},
                               amt : Amounts \cup {0}, chg : Amounts \cup {0},
                               snap : Int]]
    /\ held \in [Clients -> Int]
    /\ crossed \in BOOLEAN
    /\ faults \in Seq(Faults)

Balance == db + queue + taken

-----------------------------------------------------------------------------

Fault(kind) == kind \in Faults /\ Len(faults) < MaxFaults /\ faults' = Append(faults, kind)
GoTo(c, pc) == client' = [client EXCEPT ![c].pc = pc]

\* The row is changed while somebody is about to write what it was into Redis.
OverlapsAFill ==
    crossed' = (crossed \/ (cache = None /\ \E d \in Clients : client[d].pc = "write"))

\* The hash is filled while a change of the row is on its way to Redis.
OverlapsAChange ==
    crossed' = (crossed \/ (cache = None /\ (\/ pend # {}
                                           \/ \E d \in Clients : client[d].pc = "charge")))

\* TryReserveUserQuota.
TryReserve(c, a) ==
    /\ client[c].pc = "idle"
    /\ client' = [client EXCEPT ![c] =
                    [Idle EXCEPT !.pc = IF Redis THEN "cache" ELSE "fallback",
                                 !.amt = a]]
    /\ UNCHANGED <<batch, db, cache, queue, taken, pend, held, crossed, faults>>

\* Variant: any positive balance will do.
CoversSome(amt) == cache > 0

\* The script's comparison of balance and amount.
Covers(amt) == cache >= amt

\* userQuotaReserveScript: a miss, too little, or deducted.
CacheReserve(c) ==
    /\ client[c].pc \in {"cache", "again"}
    /\ \/ /\ cache = None
          /\ GoTo(c, IF client[c].pc = "cache" THEN "read" ELSE "fallback")
          /\ UNCHANGED <<cache, faults>>
       \/ /\ cache # None /\ ~Covers(client[c].amt)
          /\ GoTo(c, "over")
          /\ UNCHANGED <<cache, faults>>
       \/ /\ cache # None /\ Covers(client[c].amt)
          /\ cache' = cache - client[c].amt
          /\ GoTo(c, "persist")
          /\ UNCHANGED faults
       \/ /\ Fault("redis")
          /\ GoTo(c, "fallback")
          /\ UNCHANGED cache
    /\ UNCHANGED <<batch, db, queue, taken, pend, held, crossed>>

\* GetUserCache after a miss: the row is read, or GetUserCache fails (the read, or
\* a fence newer than the row) and the reserve falls back to the database ...
HydrateRead(c) ==
    /\ client[c].pc = "read"
    /\ \/ /\ client' = [client EXCEPT ![c].pc = "write", ![c].snap = db]
          /\ UNCHANGED faults
       \/ /\ Fault("fill")
          /\ GoTo(c, "fallback")
    /\ UNCHANGED <<batch, db, cache, queue, taken, pend, held, crossed>>

\* ... and its quota is written unless the hash has one by now.
HydratedQuota(snap) == IF cache = None THEN snap ELSE cache

HydrateWrite(c) ==
    /\ client[c].pc = "write"
    /\ \/ cache' = HydratedQuota(client[c].snap) /\ OverlapsAChange /\ UNCHANGED faults
       \/ Fault("redis") /\ UNCHANGED <<cache, crossed>>
    /\ client' = [client EXCEPT ![c].pc = "again", ![c].snap = 0]
    /\ UNCHANGED <<batch, db, queue, taken, pend, held>>

\* reserveUserQuotaDB: one conditional update.
ReserveInDB(c) ==
    /\ client[c].pc = "fallback"
    /\ \/ /\ db >= client[c].amt
          /\ db' = db - client[c].amt
          /\ held' = [held EXCEPT ![c] = @ + client[c].amt]
          /\ OverlapsAFill
          /\ GoTo(c, "holds")
          /\ UNCHANGED faults
       \/ /\ db < client[c].amt
          /\ GoTo(c, "over")
          /\ UNCHANGED <<db, held, crossed, faults>>
       \/ /\ Fault("db_reserve")
          /\ GoTo(c, "over")
          /\ UNCHANGED <<db, held, crossed>>
    /\ UNCHANGED <<batch, cache, queue, taken, pend>>

\* persistUserQuotaDelta: queued, or written at once.
Persist(c) ==
    /\ client[c].pc = "persist"
    /\ \/ /\ IF batch THEN queue' = queue - client[c].amt /\ db' = db
             ELSE db' = db - client[c].amt /\ queue' = queue
          /\ held' = [held EXCEPT ![c] = @ + client[c].amt]
          /\ OverlapsAFill
          /\ GoTo(c, "holds")
          /\ UNCHANGED faults
       \/ /\ ~batch /\ Fault("db_reserve")
          /\ GoTo(c, "undo")
          /\ UNCHANGED <<db, queue, held, crossed>>
    /\ UNCHANGED <<batch, cache, taken, pend>>

Shifted(d) == IF cache = None THEN None ELSE cache + d

\* Variant: the error is returned at once.
UndoNothing(c) ==
    /\ client[c].pc = "undo"
    /\ GoTo(c, "over")
    /\ UNCHANGED <<batch, db, cache, queue, taken, pend, held, crossed, faults>>

\* The deduction in Redis is compensated; a failure is only logged.
Undo(c) ==
    /\ client[c].pc = "undo"
    /\ \/ cache' = Shifted(client[c].amt) /\ UNCHANGED faults
       \/ Fault("redis") /\ UNCHANGED cache
    /\ GoTo(c, "over")
    /\ UNCHANGED <<batch, db, queue, taken, pend, held, crossed>>

\* A change needs no reservation: refunds and settlements of tasks, of trusted
\* requests and of administrators come without one.
MayChange(c) == client[c].pc \in {"idle", "holds"}

\* A change by d is queued, unless now (the argument db) or without batch mode.
Change(d, now) ==
    IF batch /\ ~now THEN queue' = queue + d /\ db' = db
    ELSE db' = db + d /\ queue' = queue

\* Variant: the delta goes to the queue and to the database.
IncreaseTwice(c, a, now) ==
    /\ "increase" \in Changes
    /\ MayChange(c) /\ db + a <= MaxWallet
    /\ queue' = IF batch THEN queue + a ELSE queue
    /\ db' = db + a
    /\ pend' = pend \cup {[by |-> c, d |-> a]}
    /\ held' = [held EXCEPT ![c] = @ - a]
    /\ OverlapsAFill
    /\ GoTo(c, "over")
    /\ UNCHANGED <<batch, cache, taken, faults>>

\* IncreaseUserQuota: queued or written; then a goroutine updates the cache.
IncreaseUserQuota(c, a, now) ==
    /\ "increase" \in Changes
    /\ MayChange(c)
    /\ \/ /\ (batch /\ ~now) \/ db + a <= MaxWallet
          /\ Change(a, now)
          /\ pend' = IF Redis THEN pend \cup {[by |-> c, d |-> a]} ELSE pend
          /\ held' = [held EXCEPT ![c] = @ - a]
          /\ OverlapsAFill
          /\ UNCHANGED faults
       \/ /\ ~batch \/ now
          /\ (db + a > MaxWallet /\ UNCHANGED faults) \/ Fault("db_change")
          /\ UNCHANGED <<db, queue, pend, held, crossed>>
    /\ GoTo(c, "over")
    /\ UNCHANGED <<batch, cache, taken>>

\* DecreaseUserQuota: the goroutine that updates the cache is started first ...
DecreaseUserQuota(c, a) ==
    /\ "decrease" \in Changes
    /\ MayChange(c)
    /\ pend' = IF Redis THEN pend \cup {[by |-> c, d |-> -a]} ELSE pend
    /\ client' = [client EXCEPT ![c].pc = "charge", ![c].chg = a]
    /\ UNCHANGED <<batch, db, cache, queue, taken, held, crossed, faults>>

\* ... and may have run when the decrease is queued or written.
Charge(c, now) ==
    /\ client[c].pc = "charge"
    /\ \/ /\ Change(-client[c].chg, now)
          /\ held' = [held EXCEPT ![c] = @ + client[c].chg]
          /\ OverlapsAFill
          /\ UNCHANGED faults
       \/ /\ ~batch \/ now
          /\ Fault("db_change")
          /\ UNCHANGED <<db, queue, held, crossed>>
    /\ client' = [client EXCEPT ![c].pc = "over", ![c].chg = 0]
    /\ UNCHANGED <<batch, cache, taken, pend>>

\* userQuotaDeltaScript, in the goroutine: nothing without a hash.
ApplyDelta(p) ==
    /\ p \in pend
    /\ \/ cache' = Shifted(p.d) /\ UNCHANGED faults
       \/ Fault("redis") /\ UNCHANGED cache
    /\ pend' = pend \ {p}
    /\ UNCHANGED <<batch, db, queue, taken, client, held, crossed>>

-----------------------------------------------------------------------------
(* batch updater, expiry and crash.                                        *)

\* batchUpdate swaps the stores ...
SwapStores ==
    /\ batch /\ queue # 0 /\ taken = 0
    /\ taken' = queue
    /\ queue' = 0
    /\ UNCHANGED <<batch, db, cache, pend, client, held, crossed, faults>>

\* ... and writes the deltas; an error is only logged.
WriteStores ==
    /\ taken # 0
    /\ \/ db' = db + taken /\ OverlapsAFill /\ UNCHANGED faults
       \/ Fault("flush") /\ UNCHANGED <<db, crossed>>
    /\ taken' = 0
    /\ UNCHANGED <<batch, cache, queue, pend, client, held>>

\* The hash expires, or is invalidated.
Expire ==
    /\ cache # None /\ Fault("expire")
    /\ cache' = None
    /\ UNCHANGED <<batch, db, queue, taken, pend, client, held, crossed>>

\* The process dies: its queues, goroutines and requests are gone.
Crash ==
    /\ Fault("crash")
    /\ queue' = 0 /\ taken' = 0 /\ pend' = {}
    /\ client' = [c \in Clients |->
                    IF client[c].pc = "idle" THEN Idle
                    ELSE [Idle EXCEPT !.pc = "over"]]
    /\ UNCHANGED <<batch, db, cache, held, crossed>>

-----------------------------------------------------------------------------

Init ==
    /\ batch \in Modes
    /\ db = Start
    /\ cache \in IF Redis THEN {None, Start} ELSE {None}
    /\ queue = 0
    /\ taken = 0
    /\ pend = {}
    /\ client = [c \in Clients |-> Idle]
    /\ held = [c \in Clients |-> 0]
    /\ crossed = FALSE
    /\ faults = <<>>

Next ==
    \/ \E c \in Clients :
        \/ CacheReserve(c) \/ HydrateRead(c) \/ HydrateWrite(c)
        \/ ReserveInDB(c) \/ Persist(c) \/ Undo(c)
        \/ \E a \in Amounts : TryReserve(c, a) \/ DecreaseUserQuota(c, a)
        \/ \E now \in BOOLEAN : \/ Charge(c, now)
                               \/ \E a \in Amounts : IncreaseUserQuota(c, a, now)
    \/ \E p \in pend : ApplyDelta(p)
    \/ SwapStores \/ WriteStores \/ Expire \/ Crash

Spec == Init /\ [][Next]_vars

-----------------------------------------------------------------------------
(* Properties.                                                             *)

\* The account implements its abstract specification: database, queue and
\* swapped-out deltas together move exactly by what callers were told; only
\* what the batch updater holds can be lost, by a crash or a failed write.
A == INSTANCE Account WITH buffered <- batch, durable <- db, collected <- queue,
                           leaving <- taken

IsAccount == A!Spec

\* Changes are written at once, Redis has answered and kept the balance, no
\* process died and no change of the row overlapped a fill of the hash: the one
\* fault is a deduction that the database refused.
Undisturbed ==
    /\ ~batch /\ ~crossed
    /\ \A i \in 1..Len(faults) : faults[i] = "db_reserve"

\* When no cache update is under way, the balance in Redis, against which
\* reservations are checked, is the balance of the account: deductions whose
\* write failed are compensated, refunds and charges arrive once, with or without
\* a reservation.  A change that overlaps a fill of the hash is the exception
\* without a fault: the fill may lack it (a row read before the change) or count
\* it twice (a row read after it, with the cache update still to come).
CacheAgrees ==
    /\ Undisturbed
    /\ pend = {} /\ cache # None
    /\ \A c \in Clients : client[c].pc \in {"idle", "holds", "over"}
    => cache = Balance

\* TryReserveUserQuota "atomically checks and deducts": a reservation only
\* succeeds on an account that covers it, unless somebody was, or is being,
\* charged more than he had reserved (DecreaseUserQuota checks nothing).
ReserveIsCovered ==
    [][\A c \in Clients :
        /\ Undisturbed
        /\ \A d \in Clients : held[d] <= client[d].amt /\ client[d].pc # "charge"
        /\ client[c].pc \in {"persist", "fallback"}
        /\ client'[c].pc = "holds"
        => Balance >= client[c].amt]_vars
=============================================================================
