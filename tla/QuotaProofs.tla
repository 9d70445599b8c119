----------------------------- MODULE QuotaProofs -----------------------------
(***************************************************************************)
(* Theorems about Quota, for every set of clients and amounts and every    *)
(* number of faults: type correctness, that the account behind caches,     *)
(* queues and batch writes implements the abstract Account, that the copy  *)
(* in Redis agrees with it, and that reservations are covered.             *)
(***************************************************************************)
EXTENDS Quota, FiniteSetTheorems, TLAPS

\* A call in progress is about one of the amounts.
Working == {"cache", "read", "write", "again", "fallback", "persist", "undo"}

AmountKnown ==
    \A c \in Clients : /\ client[c].pc \in Working => client[c].amt \in Amounts
                       /\ client[c].pc = "charge" => client[c].chg \in Amounts

\* Without the batch updater nothing is ever queued or swapped out.
Unbuffered == ~batch => queue = 0 /\ taken = 0

Inv == TypeOK /\ AmountKnown /\ Unbuffered

-----------------------------------------------------------------------------
Calls == [pc : {"idle", "cache", "read", "write", "again", "fallback", "persist",
                "undo", "holds", "charge", "over"},
          amt : Amounts \cup {0}, chg : Amounts \cup {0}, snap : Int]

\* A fault is recorded as one of Faults.
LEMMA FaultType ==
    ASSUME TypeOK, NEW kind, Fault(kind)
    PROVE  faults' \in Seq(Faults)
BY DEF TypeOK, Fault

\* The history of overlaps is a Boolean.
LEMMA CrossedType ==
    ASSUME TypeOK, OverlapsAFill \/ OverlapsAChange \/ UNCHANGED crossed
    PROVE  crossed' \in BOOLEAN
BY DEF TypeOK, OverlapsAFill, OverlapsAChange

\* A client that moves on stays well typed and keeps its amount; the others stay.
LEMMA GoToType ==
    ASSUME TypeOK, AmountKnown, NEW c \in Clients, NEW pc, GoTo(c, pc),
           pc \in {"over", "holds"} \/ (client[c].pc \in Working /\ pc \in Working)
    PROVE  client' \in [Clients -> Calls] /\ AmountKnown'
<1>1. client \in [Clients -> Calls]
  BY DEF TypeOK, Calls
<1>2. client' \in [Clients -> Calls]
  BY <1>1 DEF GoTo, Calls, Working
<1>3. ASSUME NEW d \in Clients
      PROVE  /\ client'[d].pc \in Working => client'[d].amt \in Amounts
             /\ client'[d].pc = "charge" => client'[d].chg \in Amounts
  <2>1. CASE d = c
    <3>1. client'[c].pc = pc /\ client'[c].amt = client[c].amt
      BY <1>1 DEF GoTo, Calls
    <3> QED
      BY <2>1, <3>1 DEF Working, AmountKnown
  <2>2. CASE d # c
    BY <1>1, <2>2 DEF GoTo, AmountKnown
  <2> QED
    BY <2>1, <2>2
<1> QED
  BY <1>2, <1>3 DEF AmountKnown

LEMMA InvInit == Init => Inv
<1> SUFFICES ASSUME Init
             PROVE  Inv
  OBVIOUS
<1>1. Idle \in Calls /\ client \in [Clients -> Calls]
  BY 0 \in Int DEF Init, Idle, Calls
<1>2. db \in Int /\ cache \in Int \cup {None} /\ held \in [Clients -> Int]
      /\ faults \in Seq(Faults) /\ batch \in BOOLEAN
  BY QuotaAssumption DEF Init
<1>3. AmountKnown /\ Unbuffered
  BY DEF Init, AmountKnown, Unbuffered, Idle, Working
<1>4. queue \in Int /\ taken \in Int /\ crossed \in BOOLEAN
      /\ pend \subseteq [by : Clients, d : Int]
  BY 0 \in Int DEF Init
<1> QED
  BY <1>1, <1>2, <1>3, <1>4 DEF Inv, TypeOK, Calls

LEMMA InvInductive == Inv /\ [Next]_vars => Inv'
<1> SUFFICES ASSUME Inv, [Next]_vars
             PROVE  Inv'
  OBVIOUS
<1>t. TypeOK /\ AmountKnown /\ Unbuffered
  BY DEF Inv
<1>c. client \in [Clients -> Calls]
  BY <1>t DEF TypeOK, Calls
<1>a. Amounts \subseteq Int
  BY QuotaAssumption
<1>g. ASSUME NEW c \in Clients
      PROVE  client[c].amt \in Int /\ client[c].snap \in Int /\ client[c].chg \in Int
  <2>1. client[c].amt \in Amounts \cup {0} /\ client[c].snap \in Int
        /\ client[c].chg \in Amounts \cup {0}
    BY <1>c DEF Calls
  <2> QED
    BY <1>a, <2>1, 0 \in Int
<1>1. ASSUME NEW c \in Clients, CacheReserve(c)
      PROVE  Inv'
  <2>1. faults' \in Seq(Faults)
    BY <1>t, <1>1, FaultType DEF CacheReserve, TypeOK
  <2>2. cache' \in Int \cup {None}
    <3>1. CASE cache = None /\ UNCHANGED cache
      BY <1>t, <3>1 DEF TypeOK
    <3>2. CASE UNCHANGED cache
      BY <1>t, <3>2 DEF TypeOK
    <3>3. CASE cache # None /\ cache' = cache - client[c].amt
      BY <1>t, <1>g, <3>3 DEF TypeOK
    <3> QED
      BY <1>1, <3>2, <3>3 DEF CacheReserve
  <2>3. \E pc \in Working \cup {"over"} : GoTo(c, pc)
    BY <1>1 DEF CacheReserve, Working
  <2>4. client[c].pc \in Working
    BY <1>1 DEF CacheReserve, Working
  <2>5. client' \in [Clients -> Calls] /\ AmountKnown'
    BY <1>t, <2>3, <2>4, GoToType
  <2> QED
    BY <1>t, <1>1, <2>1, <2>2, <2>5 DEF CacheReserve, Inv, TypeOK, Unbuffered, Calls
<1>2. ASSUME NEW c \in Clients, HydrateRead(c)
      PROVE  Inv'
  <2>1. ASSUME client' = [client EXCEPT ![c].pc = "write", ![c].snap = db]
        PROVE  client' \in [Clients -> Calls] /\ AmountKnown'
    <3>1. client' = [client EXCEPT ![c] = [client[c] EXCEPT !.pc = "write", !.snap = db]]
      BY <1>c, <2>1 DEF Calls
    <3>2. [client[c] EXCEPT !.pc = "write", !.snap = db] \in Calls
      BY <1>c, <1>t DEF Calls, TypeOK
    <3>3. client[c].amt \in Amounts
      BY <1>t, <1>2 DEF HydrateRead, AmountKnown, Working
    <3> QED
      BY <1>c, <1>t, <3>1, <3>2, <3>3 DEF AmountKnown, Working, Calls
  <2>2. ASSUME GoTo(c, "fallback")
        PROVE  client' \in [Clients -> Calls] /\ AmountKnown'
    <3>1. client[c].pc \in Working /\ "fallback" \in Working
      BY <1>2 DEF HydrateRead, Working
    <3> QED
      BY <1>t, <2>2, <3>1, GoToType
  <2>3. client' \in [Clients -> Calls] /\ AmountKnown'
    BY <1>2, <2>1, <2>2 DEF HydrateRead
  <2>4. faults' \in Seq(Faults)
    BY <1>t, <1>2, FaultType DEF HydrateRead, TypeOK
  <2> QED
    BY <1>t, <1>2, <2>3, <2>4 DEF HydrateRead, Inv, TypeOK, Unbuffered, Calls
<1>3. ASSUME NEW c \in Clients, HydrateWrite(c)
      PROVE  Inv'
  <2>1. client' \in [Clients -> Calls]
    <3>1. [client[c] EXCEPT !.pc = "again", !.snap = 0] \in Calls
      BY <1>c, 0 \in Int DEF Calls
    <3>2. client' = [client EXCEPT ![c] = [client[c] EXCEPT !.pc = "again", !.snap = 0]]
      BY <1>c, <1>3 DEF HydrateWrite, Calls
    <3> QED
      BY <1>c, <3>1, <3>2
  <2>2. AmountKnown'
    BY <1>c, <1>t, <1>3 DEF HydrateWrite, AmountKnown, Working, Calls
  <2>3. cache' \in Int \cup {None}
    BY <1>t, <1>g, <1>3 DEF HydrateWrite, HydratedQuota, TypeOK
  <2>4. faults' \in Seq(Faults)
    BY <1>t, <1>3, FaultType DEF HydrateWrite, TypeOK
  <2>5. crossed' \in BOOLEAN
    BY <1>t, <1>3, CrossedType DEF HydrateWrite
  <2> QED
    BY <1>t, <1>3, <2>1, <2>2, <2>3, <2>4, <2>5
       DEF HydrateWrite, Inv, TypeOK, Unbuffered, Calls
<1>4. ASSUME NEW c \in Clients, ReserveInDB(c)
      PROVE  Inv'
  <2>1. client' \in [Clients -> Calls] /\ AmountKnown'
    BY <1>t, <1>4, GoToType DEF ReserveInDB
  <2>2. db' \in Int /\ held' \in [Clients -> Int]
    BY <1>t, <1>g, <1>4 DEF ReserveInDB, TypeOK
  <2>3. faults' \in Seq(Faults)
    BY <1>t, <1>4, FaultType DEF ReserveInDB, TypeOK
  <2>4. crossed' \in BOOLEAN
    BY <1>t, <1>4, CrossedType DEF ReserveInDB
  <2> QED
    BY <1>t, <1>4, <2>1, <2>2, <2>3, <2>4 DEF ReserveInDB, Inv, TypeOK, Unbuffered, Calls
<1>5. ASSUME NEW c \in Clients, Persist(c)
      PROVE  Inv'
  <2>1. client' \in [Clients -> Calls] /\ AmountKnown'
    BY <1>t, <1>5, GoToType DEF Persist, Working
  <2>2. db' \in Int /\ queue' \in Int /\ held' \in [Clients -> Int]
    BY <1>t, <1>g, <1>5 DEF Persist, TypeOK
  <2>3. faults' \in Seq(Faults)
    BY <1>t, <1>5, FaultType DEF Persist, TypeOK
  <2>4. Unbuffered'
    BY <1>t, <1>5 DEF Persist, Unbuffered
  <2>5. crossed' \in BOOLEAN
    BY <1>t, <1>5, CrossedType DEF Persist
  <2> QED
    BY <1>t, <1>5, <2>1, <2>2, <2>3, <2>4, <2>5 DEF Persist, Inv, TypeOK, Calls
<1>6. ASSUME NEW c \in Clients, Undo(c)
      PROVE  Inv'
  <2>1. client' \in [Clients -> Calls] /\ AmountKnown'
    BY <1>t, <1>6, GoToType DEF Undo
  <2>2. cache' \in Int \cup {None}
    BY <1>t, <1>g, <1>6 DEF Undo, Shifted, TypeOK
  <2>3. faults' \in Seq(Faults)
    BY <1>t, <1>6, FaultType DEF Undo, TypeOK
  <2> QED
    BY <1>t, <1>6, <2>1, <2>2, <2>3 DEF Undo, Inv, TypeOK, Unbuffered, Calls
<1>7. ASSUME NEW c \in Clients, NEW a \in Amounts, TryReserve(c, a)
      PROVE  Inv'
  <2>1. client' \in [Clients -> Calls]
    <3>1. \A pc \in {"cache", "fallback"} : [Idle EXCEPT !.pc = pc, !.amt = a] \in Calls
      BY 0 \in Int DEF Calls, Idle
    <3> QED
      BY <1>c, <1>7, <3>1 DEF TryReserve
  <2>2. AmountKnown'
    BY <1>c, <1>t, <1>7 DEF TryReserve, AmountKnown, Calls, Idle
  <2> QED
    BY <1>t, <1>7, <2>1, <2>2 DEF TryReserve, Inv, TypeOK, Unbuffered, Calls
<1>8. ASSUME NEW c \in Clients, NEW a \in Amounts, NEW now \in BOOLEAN,
             IncreaseUserQuota(c, a, now)
      PROVE  Inv'
  <2>1. client' \in [Clients -> Calls] /\ AmountKnown'
    BY <1>t, <1>8, GoToType DEF IncreaseUserQuota
  <2>2. db' \in Int /\ queue' \in Int /\ held' \in [Clients -> Int]
    BY <1>t, <1>a, <1>8 DEF IncreaseUserQuota, Change, TypeOK
  <2>3. faults' \in Seq(Faults)
    BY <1>t, <1>8, FaultType DEF IncreaseUserQuota, TypeOK
  <2>4. pend' \subseteq [by : Clients, d : Int]
    BY <1>t, <1>a, <1>8 DEF IncreaseUserQuota, TypeOK
  <2>5. Unbuffered'
    BY <1>t, <1>8 DEF IncreaseUserQuota, Change, Unbuffered
  <2>6. crossed' \in BOOLEAN
    BY <1>t, <1>8, CrossedType DEF IncreaseUserQuota
  <2> QED
    BY <1>t, <1>8, <2>1, <2>2, <2>3, <2>4, <2>5, <2>6 DEF IncreaseUserQuota, Inv, TypeOK, Calls
<1>9. ASSUME NEW c \in Clients, NEW a \in Amounts, DecreaseUserQuota(c, a)
      PROVE  Inv'
  <2>1. client' = [client EXCEPT ![c] = [client[c] EXCEPT !.pc = "charge", !.chg = a]]
    BY <1>c, <1>9 DEF DecreaseUserQuota, Calls
  <2>2. [client[c] EXCEPT !.pc = "charge", !.chg = a] \in Calls
    BY <1>c DEF Calls
  <2>3. client' \in [Clients -> Calls] /\ AmountKnown'
    BY <1>t, <1>c, <2>1, <2>2 DEF AmountKnown, Working, Calls
  <2>4. pend' \subseteq [by : Clients, d : Int]
    BY <1>t, <1>a, <1>9 DEF DecreaseUserQuota, TypeOK
  <2> QED
    BY <1>t, <1>9, <2>3, <2>4 DEF DecreaseUserQuota, Inv, TypeOK, Unbuffered, Calls
<1>16. ASSUME NEW c \in Clients, NEW now \in BOOLEAN, Charge(c, now)
      PROVE  Inv'
  <2>1. client' = [client EXCEPT ![c] = [client[c] EXCEPT !.pc = "over", !.chg = 0]]
    BY <1>c, <1>16 DEF Charge, Calls
  <2>2. [client[c] EXCEPT !.pc = "over", !.chg = 0] \in Calls
    BY <1>c DEF Calls
  <2>3. client' \in [Clients -> Calls] /\ AmountKnown'
    BY <1>t, <1>c, <2>1, <2>2 DEF AmountKnown, Working, Calls
  <2>4. db' \in Int /\ queue' \in Int /\ held' \in [Clients -> Int]
    BY <1>t, <1>g, <1>16 DEF Charge, Change, TypeOK
  <2>5. faults' \in Seq(Faults)
    BY <1>t, <1>16, FaultType DEF Charge, TypeOK
  <2>6. Unbuffered'
    BY <1>t, <1>16 DEF Charge, Change, Unbuffered
  <2>7. crossed' \in BOOLEAN
    BY <1>t, <1>16, CrossedType DEF Charge
  <2> QED
    BY <1>t, <1>16, <2>3, <2>4, <2>5, <2>6, <2>7 DEF Charge, Inv, TypeOK, Calls
<1>10. ASSUME NEW p \in pend, ApplyDelta(p)
       PROVE  Inv'
  <2>1. p.d \in Int
    BY <1>t DEF TypeOK
  <2>2. cache' \in Int \cup {None}
    BY <1>t, <1>10, <2>1 DEF ApplyDelta, Shifted, TypeOK
  <2>3. faults' \in Seq(Faults)
    BY <1>t, <1>10, FaultType DEF ApplyDelta, TypeOK
  <2> QED
    BY <1>t, <1>10, <2>2, <2>3
       DEF ApplyDelta, Inv, TypeOK, AmountKnown, Unbuffered
<1>11. CASE SwapStores
  BY <1>t, <1>11 DEF SwapStores, Inv, TypeOK, AmountKnown, Unbuffered
<1>12. CASE WriteStores
  <2>1. faults' \in Seq(Faults)
    BY <1>t, <1>12, FaultType DEF WriteStores, TypeOK
  <2>2. crossed' \in BOOLEAN
    BY <1>t, <1>12, CrossedType DEF WriteStores
  <2> QED
    BY <1>t, <1>12, <2>1, <2>2 DEF WriteStores, Inv, TypeOK, AmountKnown, Unbuffered
<1>13. CASE Expire
  <2>1. faults' \in Seq(Faults)
    BY <1>t, <1>13, FaultType DEF Expire
  <2> QED
    BY <1>t, <1>13, <2>1 DEF Expire, Inv, TypeOK, AmountKnown, Unbuffered
<1>14. CASE Crash
  <2>1. faults' \in Seq(Faults)
    BY <1>t, <1>14, FaultType DEF Crash
  <2>2. client' \in [Clients -> Calls] /\ AmountKnown'
    BY <1>14 DEF Crash, Calls, Idle, AmountKnown, Working
  <2> QED
    BY <1>t, <1>14, <2>1, <2>2, 0 \in Int DEF Crash, Inv, TypeOK, Unbuffered, Calls
<1>15. CASE UNCHANGED vars
  BY <1>t, <1>15 DEF vars, Inv, TypeOK, AmountKnown, Unbuffered
<1> QED
  BY <1>1, <1>2, <1>3, <1>4, <1>5, <1>6, <1>7, <1>8, <1>9, <1>10, <1>11, <1>12,
     <1>13, <1>14, <1>15, <1>16 DEF Next

\* Every reachable state of the account, its cache and its queues is well typed.
THEOREM TypeCorrect == Spec => []TypeOK
<1>1. Inv => TypeOK
  BY DEF Inv
<1> QED
  BY <1>1, InvInit, InvInductive, PTL DEF Spec

-----------------------------------------------------------------------------
(* The refinement.                                                         *)

\* Every step of the account is a step of the abstract one, or invisible to it.
LEMMA StepRefines == Inv /\ [Next]_vars => [A!Next]_(A!vars)
<1> SUFFICES ASSUME Inv, [Next]_vars
             PROVE  A!Next \/ UNCHANGED <<batch, db, queue, taken, held>>
  BY DEF A!vars
<1>t. TypeOK /\ AmountKnown /\ Unbuffered
  BY DEF Inv
<1>a. Amounts \subseteq Int
  BY QuotaAssumption
<1>1. ASSUME NEW c \in Clients, ReserveInDB(c)
      PROVE  A!Next \/ UNCHANGED <<batch, db, queue, taken, held>>
  <2>1. client[c].amt \in Amounts
    BY <1>t, <1>1 DEF ReserveInDB, AmountKnown, Working
  <2>2. CASE /\ db' = db - client[c].amt
             /\ held' = [held EXCEPT ![c] = @ + client[c].amt]
    <3>1. A!Take(c, client[c].amt)
      BY <1>t, <1>a, <1>1, <2>1, <2>2 DEF ReserveInDB, A!Take, A!Move, TypeOK
    <3> QED
      BY <2>1, <3>1 DEF A!Next
  <2> QED
    BY <1>1, <2>2 DEF ReserveInDB
<1>2. ASSUME NEW c \in Clients, Persist(c)
      PROVE  A!Next \/ UNCHANGED <<batch, db, queue, taken, held>>
  <2>1. client[c].amt \in Amounts
    BY <1>t, <1>2 DEF Persist, AmountKnown, Working
  <2>2. CASE /\ IF batch THEN queue' = queue - client[c].amt /\ db' = db
                ELSE db' = db - client[c].amt /\ queue' = queue
             /\ held' = [held EXCEPT ![c] = @ + client[c].amt]
    <3>1. A!Take(c, client[c].amt)
      BY <1>t, <1>a, <1>2, <2>1, <2>2 DEF Persist, A!Take, A!Move, TypeOK
    <3> QED
      BY <2>1, <3>1 DEF A!Next
  <2> QED
    BY <1>2, <2>2 DEF Persist
<1>3. ASSUME NEW c \in Clients, NEW a \in Amounts, NEW now \in BOOLEAN,
             IncreaseUserQuota(c, a, now)
      PROVE  A!Next \/ UNCHANGED <<batch, db, queue, taken, held>>
  <2>1. A!Give(c, a) \/ UNCHANGED <<batch, db, queue, taken, held>>
    BY <1>3 DEF IncreaseUserQuota, Change, A!Give, A!Move
  <2> QED
    BY <2>1 DEF A!Next
<1>4. ASSUME NEW c \in Clients, NEW now \in BOOLEAN, Charge(c, now)
      PROVE  A!Next \/ UNCHANGED <<batch, db, queue, taken, held>>
  <2>1. client[c].chg \in Amounts
    BY <1>t, <1>4 DEF Charge, AmountKnown
  <2>2. A!Take(c, client[c].chg) \/ UNCHANGED <<batch, db, queue, taken, held>>
    BY <1>t, <1>a, <1>4, <2>1 DEF Charge, Change, A!Take, A!Move, TypeOK
  <2> QED
    BY <2>1, <2>2 DEF A!Next
<1>5. CASE SwapStores
  <2>1. A!Collect
    BY <1>5 DEF SwapStores, A!Collect
  <2> QED
    BY <1>5, <2>1 DEF SwapStores, A!Next
<1>6. CASE WriteStores
  <2>1. A!Flush \/ A!Lose
    BY <1>6 DEF WriteStores, A!Flush, A!Lose
  <2>2. batch
    BY <1>t, <1>6 DEF WriteStores, Unbuffered
  <2> QED
    BY <2>1, <2>2 DEF A!Next
<1>7. CASE Crash
  <2>1. CASE batch
    <3>1. A!Lose
      BY <1>7 DEF Crash, A!Lose
    <3> QED
      BY <2>1, <3>1 DEF A!Next
  <2>2. CASE ~batch
    BY <1>t, <1>7, <2>2 DEF Crash, Unbuffered
  <2> QED
    BY <2>1, <2>2
<1>8. ASSUME \/ \E c \in Clients :
                  \/ CacheReserve(c) \/ HydrateRead(c) \/ HydrateWrite(c) \/ Undo(c)
                  \/ \E a \in Amounts : TryReserve(c, a) \/ DecreaseUserQuota(c, a)
             \/ \E p \in pend : ApplyDelta(p)
             \/ Expire
             \/ UNCHANGED vars
      PROVE  UNCHANGED <<batch, db, queue, taken, held>>
  BY <1>8 DEF CacheReserve, HydrateRead, HydrateWrite, Undo, TryReserve,
              DecreaseUserQuota, ApplyDelta, Expire, vars
<1> QED
  BY <1>1, <1>2, <1>3, <1>4, <1>5, <1>6, <1>7, <1>8 DEF Next

\* The account implements its abstract specification, for every number of
\* clients, amounts and faults: what callers were told is what database, queue
\* and batch together have moved by, and only a batch can be lost.
THEOREM Implements == Spec => IsAccount
<1>1. Init => A!Init
  BY QuotaAssumption DEF Init, A!Init
<1> QED
  BY <1>1, InvInit, InvInductive, StepRefines, PTL DEF Spec, IsAccount, A!Spec

-----------------------------------------------------------------------------
(* Sums over a finite set, as additive functions on its subsets.           *)

\* g gives every subset of S the sum of f over it.
Sums(g, f, S) ==
    /\ g \in [SUBSET S -> Int]
    /\ g[{}] = 0
    /\ \A T \in SUBSET S : \A x \in S \ T : g[T \cup {x}] = g[T] + f[x]

\* Induction over the subsets of a finite set: P holds the subsets that have
\* the property.
LEMMA SubsetInduction ==
    ASSUME NEW S, IsFiniteSet(S), NEW P \in SUBSET (SUBSET S), {} \in P,
           \A T \in P : \A x \in S \ T : T \cup {x} \in P
    PROVE  S \in P
<1> SUFFICES ASSUME S \notin P
             PROVE  FALSE
  OBVIOUS
<1> DEFINE bad == (SUBSET S) \ P
<1>1. IsWellFoundedOn(StrictSubsetOrdering(S), SUBSET S)
  <2>1. FiniteSubsetsOf(S) = SUBSET S
    BY FS_FiniteSubsetsOfFinite
  <2>2. IsWellFoundedOn(StrictSubsetOrdering(S), FiniteSubsetsOf(S))
    BY FS_StrictSubsetOrderingWellFounded, Zenon
  <2> QED
    BY <2>1, <2>2
<1>2. \E T \in bad : \A U \in bad : ~(<<U, T>> \in StrictSubsetOrdering(S))
  <2>1. bad \subseteq SUBSET S /\ bad # {}
    OBVIOUS
  <2> HIDE DEF bad
  <2> QED
    BY <1>1, <2>1, WFMin
<1>3. PICK T \in bad : \A U \in bad : ~(<<U, T>> \in StrictSubsetOrdering(S))
  BY <1>2
<1>4. PICK x \in T : TRUE
  BY <1>3
<1>5. T \ {x} \in SUBSET S /\ T \ {x} # T
  BY <1>3, <1>4
<1>6. <<T \ {x}, T>> \in StrictSubsetOrdering(S)
  BY <1>3, <1>5 DEF StrictSubsetOrdering
<1>7. T \ {x} \in P
  BY <1>3, <1>5, <1>6
<1>8. (T \ {x}) \cup {x} = T /\ x \in S \ (T \ {x})
  BY <1>3, <1>4
<1> QED
  BY <1>3, <1>7, <1>8

\* A sum of zeros is zero.
LEMMA SumZero ==
    ASSUME NEW S, IsFiniteSet(S), NEW f \in [S -> Int], NEW g, Sums(g, f, S),
           \A x \in S : f[x] = 0
    PROVE  g[S] = 0
<1> DEFINE P == {T \in SUBSET S : g[T] = 0}
<1>1. {} \in P
  BY DEF Sums
<1>2. ASSUME NEW T \in P, NEW x \in S \ T
      PROVE  T \cup {x} \in P
  <2>1. g[T \cup {x}] = g[T] + f[x]
    BY DEF Sums
  <2>2. g[T] = 0 /\ f[x] = 0
    OBVIOUS
  <2> QED
    BY <2>1, <2>2
<1>3. P \in SUBSET (SUBSET S)
  OBVIOUS
<1> HIDE DEF P
<1>4. S \in P
  BY <1>1, <1>2, <1>3, SubsetInduction
<1> QED
  BY <1>4 DEF P

\* A sum of numbers that are not negative is at least each of them, and 0.
LEMMA SumBound ==
    ASSUME NEW S, IsFiniteSet(S), NEW f \in [S -> Int], NEW g, Sums(g, f, S),
           \A x \in S : f[x] >= 0
    PROVE  g[S] >= 0 /\ \A x \in S : g[S] >= f[x]
<1> DEFINE P == {T \in SUBSET S : g[T] >= 0 /\ \A x \in T : g[T] >= f[x]}
<1>1. {} \in P
  BY DEF Sums
<1>2. ASSUME NEW T \in P, NEW x \in S \ T
      PROVE  T \cup {x} \in P
  <2>1. g[T \cup {x}] = g[T] + f[x] /\ g[T] \in Int /\ f[x] \in Int
    BY DEF Sums
  <2>2. g[T] >= 0 /\ f[x] >= 0
    OBVIOUS
  <2>3. ASSUME NEW y \in T \cup {x}
        PROVE  g[T \cup {x}] >= f[y]
    <3>1. CASE y = x
      BY <2>1, <2>2, <3>1
    <3>2. CASE y \in T
      <4>1. g[T] >= f[y] /\ f[y] \in Int
        BY <3>2
      <4> QED
        BY <2>1, <2>2, <4>1
    <3> QED
      BY <3>1, <3>2
  <2>4. g[T \cup {x}] >= 0
    BY <2>1, <2>2
  <2> QED
    BY <2>3, <2>4
<1>3. P \in SUBSET (SUBSET S)
  OBVIOUS
<1> HIDE DEF P
<1>4. S \in P
  BY <1>1, <1>2, <1>3, SubsetInduction
<1> QED
  BY <1>4 DEF P

\* A sum changes by as much as one of its terms.
LEMMA SumUpdate ==
    ASSUME NEW S, NEW f \in [S -> Int], NEW g, Sums(g, f, S), NEW c \in S, NEW v \in Int,
           NEW e \in [S -> Int], e[c] = v, \A x \in S : x # c => e[x] = f[x]
    PROVE  \E h : Sums(h, e, S) /\ h[S] = g[S] + (v - f[c])
<1> DEFINE h == [T \in SUBSET S |-> IF c \in T THEN g[T] + (v - f[c]) ELSE g[T]]
<1>1. h \in [SUBSET S -> Int]
  BY DEF Sums
<1>2. h[{}] = 0
  BY DEF Sums
<1>3. ASSUME NEW T \in SUBSET S, NEW x \in S \ T
      PROVE  h[T \cup {x}] = h[T] + e[x]
  <2>1. g[T \cup {x}] = g[T] + f[x] /\ g[T] \in Int /\ f[x] \in Int /\ f[c] \in Int
    BY DEF Sums
  <2>2. T \cup {x} \in SUBSET S
    OBVIOUS
  <2>3. CASE x = c
    <3>1. h[T \cup {x}] = g[T \cup {x}] + (v - f[c]) /\ h[T] = g[T] /\ e[x] = v
      BY <2>2, <2>3
    <3> QED
      BY <2>1, <2>3, <3>1
  <2>4. CASE x # c /\ c \in T
    <3>1. /\ h[T \cup {x}] = g[T \cup {x}] + (v - f[c])
          /\ h[T] = g[T] + (v - f[c])
          /\ e[x] = f[x]
      BY <2>2, <2>4
    <3> QED
      BY <2>1, <3>1
  <2>5. CASE x # c /\ c \notin T
    <3>1. h[T \cup {x}] = g[T \cup {x}] /\ h[T] = g[T] /\ e[x] = f[x]
      BY <2>2, <2>5
    <3> QED
      BY <2>1, <3>1
  <2> QED
    BY <2>3, <2>4, <2>5
<1>4. h[S] = g[S] + (v - f[c])
  OBVIOUS
<1>5. Sums(h, e, S)
  BY <1>1, <1>2, <1>3 DEF Sums
<1> QED
  BY <1>4, <1>5

-----------------------------------------------------------------------------
(* The cache.                                                              *)

\* A client has at most one cache update under way, and has finished by then or
\* is about to write the charge it belongs to.
PendOver ==
    \A p \in pend : /\ client[p.by].pc \in {"over", "charge"}
                    /\ client[p.by].pc = "charge" => p.d = -client[p.by].chg
                    /\ \A q \in pend : q.by = p.by => q = p

\* Without Redis there is neither a copy nor an update of it.
NoRedis ==
    ~Redis => /\ cache = None /\ pend = {}
              /\ \A c \in Clients : client[c].pc \in {"idle", "fallback", "holds", "charge",
                                                       "over"}

\* What a client was told it holds, until it changes that.
HeldIs ==
    \A c \in Clients :
        /\ client[c].pc \in Working \cup {"idle"} => held[c] = 0
        /\ client[c].pc = "idle" => client[c].amt = 0
        /\ client[c].pc \in {"holds", "charge"} => held[c] = client[c].amt

Calm == PendOver /\ NoRedis /\ HeldIs

LEMMA CalmInit == Init => Calm
BY DEF Init, Calm, PendOver, NoRedis, HeldIs, Idle, Working

\* A client that only goes from one place of a reservation to another, or ends
\* one that came to nothing, keeps Calm.
LEMMA MoveKeepsCalm ==
    ASSUME TypeOK, Calm, NEW c \in Clients, client[c].pc \in Working,
           NEW pc \in Working \cup {"over"},
           client' \in [Clients -> Calls],
           client'[c].pc = pc, \A d \in Clients : d # c => client'[d] = client[d],
           pend' = pend, held' = held, Redis \/ (pc = "over" /\ cache' = cache)
    PROVE  Calm'
<1>1. \A p \in pend : p.by \in Clients /\ p.by # c
  BY DEF TypeOK, Calm, PendOver, Working
<1>2. PendOver'
  BY <1>1 DEF Calm, PendOver
<1>3. NoRedis'
  BY DEF Calm, NoRedis
<1>4. HeldIs'
  BY DEF Calm, HeldIs, Working
<1> QED
  BY <1>2, <1>3, <1>4 DEF Calm

\* A client that ends after a change, or starts one, keeps Calm.
LEMMA ChangeKeepsCalm ==
    ASSUME TypeOK, Calm, NEW c \in Clients, client[c].pc \in {"idle", "holds"},
           client' \in [Clients -> Calls], NEW d \in Int,
           \/ client'[c].pc = "over"
           \/ /\ client'[c].pc = "charge" /\ d = -client'[c].chg
              /\ held' = held /\ client'[c].amt = client[c].amt,
           \A e \in Clients : e # c => client'[e] = client[e] /\ held'[e] = held[e],
           pend' = pend \/ (Redis /\ pend' = pend \cup {[by |-> c, d |-> d]}),
           cache' = cache
    PROVE  Calm'
<1>1. \A p \in pend : p.by \in Clients /\ p.by # c
  BY DEF TypeOK, Calm, PendOver
<1>n. PICK n : n = [by |-> c, d |-> d]
  OBVIOUS
<1>o. n.by = c /\ n.d = d /\ (pend' = pend \/ (Redis /\ pend' = pend \cup {n}))
  BY <1>n
<1>3. PendOver'
  <2>1. \A p \in pend' : p \in pend \/ p = n
    BY <1>o
  <2>2. ASSUME NEW p \in pend'
        PROVE  /\ client'[p.by].pc \in {"over", "charge"}
               /\ client'[p.by].pc = "charge" => p.d = -client'[p.by].chg
    <3>1. CASE p \in pend
      BY <1>1, <3>1 DEF Calm, PendOver
    <3>2. CASE p = n
      BY <1>o, <3>2
    <3> QED
      BY <2>1, <3>1, <3>2
  <2>3. ASSUME NEW p \in pend', NEW q \in pend', q.by = p.by
        PROVE  q = p
    BY <1>1, <1>o, <2>1, <2>3 DEF Calm, PendOver
  <2> QED
    BY <2>2, <2>3 DEF PendOver
<1>4. NoRedis'
  BY DEF Calm, NoRedis
<1>5. HeldIs'
  BY DEF Calm, HeldIs, Working
<1> QED
  BY <1>3, <1>4, <1>5 DEF Calm

LEMMA CalmInductive == Inv /\ Inv' /\ Calm /\ [Next]_vars => Calm'
<1> SUFFICES ASSUME Inv, Inv', Calm, [Next]_vars
             PROVE  Calm'
  OBVIOUS
<1>t. TypeOK /\ TypeOK'
  BY DEF Inv
<1>c. client \in [Clients -> Calls] /\ client' \in [Clients -> Calls]
  BY <1>t DEF TypeOK, Calls
<1>a. Amounts \subseteq Int
  BY QuotaAssumption
<1>1. ASSUME NEW c \in Clients, CacheReserve(c)
      PROVE  Calm'
  <2>1. Redis
    BY <1>1, QuotaAssumption DEF CacheReserve, Calm, NoRedis
  <2>2. \E pc \in Working \cup {"over"} : client' = [client EXCEPT ![c].pc = pc]
    BY <1>1 DEF CacheReserve, Working, GoTo
  <2>3. client[c].pc \in Working /\ pend' = pend /\ held' = held
    BY <1>1 DEF CacheReserve, Working
  <2> QED
    BY <1>t, <1>c, <2>1, <2>2, <2>3, MoveKeepsCalm DEF Calls
<1>2. ASSUME NEW c \in Clients, HydrateRead(c) \/ HydrateWrite(c)
      PROVE  Calm'
  <2>1. Redis
    BY <1>2, QuotaAssumption DEF HydrateRead, HydrateWrite, Calm, NoRedis
  <2>2. client'[c].pc \in Working /\ \A d \in Clients : d # c => client'[d] = client[d]
    BY <1>c, <1>2 DEF HydrateRead, HydrateWrite, GoTo, Working, Calls
  <2>3. client[c].pc \in Working /\ pend' = pend /\ held' = held
    BY <1>2 DEF HydrateRead, HydrateWrite, Working
  <2> QED
    BY <1>t, <1>c, <2>1, <2>2, <2>3, MoveKeepsCalm
<1>3. ASSUME NEW c \in Clients, ReserveInDB(c) \/ Persist(c)
      PROVE  Calm'
  <2>1. CASE /\ client' = [client EXCEPT ![c].pc = "holds"]
             /\ held' = [held EXCEPT ![c] = @ + client[c].amt]
    <3>1. client'[c].pc = "holds" /\ client'[c].amt = client[c].amt
      BY <1>c, <2>1 DEF Calls
    <3>2. \A d \in Clients : d # c => client'[d] = client[d] /\ held'[d] = held[d]
      BY <1>t, <1>c, <2>1 DEF TypeOK
    <3>3. held[c] = 0
      BY <1>3 DEF ReserveInDB, Persist, Calm, HeldIs, Working
    <3>4. client[c].amt \in Int
      <4>1. client[c].amt \in Amounts \cup {0}
        BY <1>c DEF Calls
      <4> QED
        BY <1>a, <4>1, 0 \in Int
    <3>5. held'[c] = client[c].amt
      BY <1>t, <2>1, <3>3, <3>4 DEF TypeOK
    <3>6. HeldIs'
      BY <3>1, <3>2, <3>5 DEF Calm, HeldIs, Working
    <3>7. pend' = pend /\ cache' = cache
      BY <1>3 DEF ReserveInDB, Persist
    <3>8. \A p \in pend : p.by \in Clients /\ p.by # c
      BY <1>t, <1>3 DEF TypeOK, Calm, PendOver, ReserveInDB, Persist
    <3>9. PendOver'
      BY <3>2, <3>7, <3>8 DEF Calm, PendOver
    <3>10. NoRedis'
      BY <3>1, <3>2, <3>7 DEF Calm, NoRedis
    <3> QED
      BY <3>6, <3>9, <3>10 DEF Calm
  <2>2. CASE held' = held /\ \E pc \in {"over", "undo"} :
                 client' = [client EXCEPT ![c].pc = pc] /\ (pc = "over" \/ Redis)
    <3>1. client[c].pc \in Working /\ pend' = pend /\ cache' = cache
      BY <1>3 DEF ReserveInDB, Persist, Working
    <3>2. PICK pc \in {"over", "undo"} :
            client' = [client EXCEPT ![c].pc = pc] /\ (pc = "over" \/ Redis)
      BY <2>2
    <3>3. client'[c].pc = pc /\ \A d \in Clients : d # c => client'[d] = client[d]
      BY <1>c, <3>2 DEF Calls
    <3>4. pc \in Working \cup {"over"}
      BY DEF Working
    <3> QED
      BY <1>t, <1>c, <2>2, <3>1, <3>2, <3>3, <3>4, MoveKeepsCalm
  <2>3. client[c].pc = "persist" => Redis
    BY QuotaAssumption DEF Calm, NoRedis
  <2> QED
    BY <1>3, <2>1, <2>2, <2>3 DEF ReserveInDB, Persist, GoTo
<1>4. ASSUME NEW c \in Clients, Undo(c)
      PROVE  Calm'
  <2>1. Redis
    BY <1>4, QuotaAssumption DEF Undo, Calm, NoRedis
  <2>2. client'[c].pc = "over" /\ \A d \in Clients : d # c => client'[d] = client[d]
    BY <1>c, <1>4 DEF Undo, GoTo, Calls
  <2>3. client[c].pc \in Working /\ pend' = pend /\ held' = held
    BY <1>4 DEF Undo, Working
  <2> QED
    BY <1>t, <1>c, <2>1, <2>2, <2>3, MoveKeepsCalm
<1>5. ASSUME NEW c \in Clients, NEW a \in Amounts, TryReserve(c, a)
      PROVE  Calm'
  <2>1. /\ client'[c].pc = IF Redis THEN "cache" ELSE "fallback"
        /\ \A d \in Clients : d # c => client'[d] = client[d]
    BY <1>c, <1>5 DEF TryReserve, Idle, Calls
  <2>2. pend' = pend /\ held' = held /\ cache' = cache /\ client[c].pc = "idle"
    BY <1>5 DEF TryReserve
  <2>3. \A p \in pend : p.by \in Clients /\ p.by # c
    BY <1>t, <2>2 DEF TypeOK, Calm, PendOver
  <2>4. PendOver'
    BY <2>1, <2>2, <2>3 DEF Calm, PendOver
  <2>5. NoRedis'
    BY <2>1, <2>2 DEF Calm, NoRedis
  <2>6. HeldIs'
    BY <2>1, <2>2 DEF Calm, HeldIs, Working
  <2> QED
    BY <2>4, <2>5, <2>6 DEF Calm
<1>6. ASSUME NEW c \in Clients, NEW a \in Amounts, NEW now \in BOOLEAN,
             IncreaseUserQuota(c, a, now)
      PROVE  Calm'
  <2>1. a \in Int
    BY <1>a
  <2>2. pend' = pend \/ (Redis /\ pend' = pend \cup {[by |-> c, d |-> a]})
    BY <1>6, QuotaAssumption DEF IncreaseUserQuota
  <2>3. \A e \in Clients : e # c => client'[e] = client[e] /\ held'[e] = held[e]
    BY <1>t, <1>c, <1>6 DEF IncreaseUserQuota, GoTo, TypeOK
  <2>4. client[c].pc \in {"idle", "holds"} /\ client'[c].pc = "over" /\ cache' = cache
    BY <1>c, <1>6 DEF IncreaseUserQuota, MayChange, GoTo, Calls
  <2> QED
    BY <1>t, <1>c, <2>1, <2>2, <2>3, <2>4, ChangeKeepsCalm
<1>12. ASSUME NEW c \in Clients, NEW a \in Amounts, DecreaseUserQuota(c, a)
      PROVE  Calm'
  <2>1. a \in Int /\ -a \in Int
    BY <1>a
  <2>2. pend' = pend \/ (Redis /\ pend' = pend \cup {[by |-> c, d |-> -a]})
    BY <1>12, QuotaAssumption DEF DecreaseUserQuota
  <2>3. \A e \in Clients : e # c => client'[e] = client[e] /\ held'[e] = held[e]
    BY <1>t, <1>c, <1>12 DEF DecreaseUserQuota, TypeOK
  <2>4. client[c].pc \in {"idle", "holds"} /\ cache' = cache /\ held' = held
    BY <1>12 DEF DecreaseUserQuota, MayChange
  <2>5. client'[c].pc = "charge" /\ -a = -client'[c].chg /\ client'[c].amt = client[c].amt
    BY <1>c, <1>12 DEF DecreaseUserQuota, Calls
  <2> QED
    BY <1>t, <1>c, <2>1, <2>2, <2>3, <2>4, <2>5, ChangeKeepsCalm
<1>13. ASSUME NEW c \in Clients, NEW now \in BOOLEAN, Charge(c, now)
      PROVE  Calm'
  <2>1. client[c].pc = "charge" /\ client'[c].pc = "over" /\ pend' = pend /\ cache' = cache
    BY <1>c, <1>13 DEF Charge, Calls
  <2>2. \A e \in Clients : e # c => client'[e] = client[e] /\ held'[e] = held[e]
    BY <1>t, <1>c, <1>13 DEF Charge, TypeOK
  <2>3. \A p \in pend : p.by \in Clients
    BY <1>t DEF TypeOK
  <2>4. PendOver'
    BY <2>1, <2>2, <2>3 DEF Calm, PendOver
  <2>5. NoRedis'
    BY <2>1, <2>2 DEF Calm, NoRedis
  <2>6. HeldIs'
    BY <2>1, <2>2 DEF Calm, HeldIs, Working
  <2> QED
    BY <2>4, <2>5, <2>6 DEF Calm
<1>7. ASSUME NEW p \in pend, ApplyDelta(p)
      PROVE  Calm'
  <2>1. Redis
    BY <1>7, QuotaAssumption DEF Calm, NoRedis
  <2> QED
    BY <1>7, <2>1 DEF ApplyDelta, Calm, PendOver, NoRedis, HeldIs
<1>8. CASE SwapStores \/ WriteStores
  BY <1>8 DEF SwapStores, WriteStores, Calm, PendOver, NoRedis, HeldIs
<1>9. CASE Expire
  BY <1>9 DEF Expire, Calm, PendOver, NoRedis, HeldIs
<1>10. CASE Crash
  <2>1. \A c \in Clients : /\ client'[c].pc \in {"idle", "over"}
                           /\ client'[c].pc = "idle" => client[c].pc = "idle"
    BY <1>10 DEF Crash, Idle
  <2>5. \A c \in Clients : client'[c].amt = 0
    BY <1>10 DEF Crash, Idle
  <2>2. held' = held /\ pend' = {} /\ cache' = cache
    BY <1>10 DEF Crash
  <2>3. HeldIs'
    BY <2>1, <2>2, <2>5 DEF Calm, HeldIs, Working
  <2>4. PendOver' /\ NoRedis'
    BY <2>1, <2>2 DEF Calm, PendOver, NoRedis
  <2> QED
    BY <2>3, <2>4 DEF Calm
<1>11. CASE UNCHANGED vars
  BY <1>11 DEF vars, Calm, PendOver, NoRedis, HeldIs
<1> QED
  BY <1>1, <1>2, <1>3, <1>4, <1>5, <1>6, <1>7, <1>8, <1>9, <1>10, <1>11,
     <1>12, <1>13 DEF Next

-----------------------------------------------------------------------------
\* due is by how much the balance in the database is ahead of the one in Redis
\* because of each client: deductions not yet persisted or not yet undone, and
\* cache updates under way, less a charge that is still to be written.
Early(c) == IF client[c].pc = "charge" THEN client[c].chg ELSE 0

Owed(due) ==
    /\ due \in [Clients -> Int]
    /\ \A c \in Clients : IF client[c].pc \in {"persist", "undo"}
                          THEN due[c] = client[c].amt
                          ELSE (\E p \in pend : p.by = c) \/ due[c] = Early(c)
    /\ \A p \in pend : due[p.by] = p.d + Early(p.by)

\* The balance in Redis and what is due to it are the balance in the database.
CacheSum ==
    \E due, g : /\ Owed(due)
                /\ Sums(g, due, Clients)
                /\ cache + g[Clients] = db

\* Before the first fill no reservation has gone past the cache, and who is about
\* to fill it has read what the row still is.
Cold ==
    \A c \in Clients : /\ client[c].pc \in {"idle", "cache", "read", "write", "charge",
                                            "over"}
                       /\ client[c].pc = "write" => client[c].snap = db

Warm == CacheSum /\ \A c \in Clients : client[c].pc # "fallback"

CacheInv ==
    Undisturbed => /\ cache = None /\ Redis => Cold
                   /\ cache # None => Warm

\* Nobody was or is being charged more than he had reserved.
Frugal == \A c \in Clients : held[c] <= client[c].amt /\ client[c].pc # "charge"

\* As long as that is so, the balance in Redis is not overdrawn.
Solvent ==
    Undisturbed /\ Frugal =>
        /\ cache = None /\ Redis => db >= 0
        /\ cache # None => cache >= 0
        /\ \A p \in pend : p.d > 0

\* What has crossed a fill has crossed it for good.
LEMMA CrossedStays == [Next]_vars => (crossed => crossed')
<1>1. OverlapsAFill \/ OverlapsAChange \/ UNCHANGED crossed => (crossed => crossed')
  BY DEF OverlapsAFill, OverlapsAChange
<1>2. [Next]_vars => OverlapsAFill \/ OverlapsAChange \/ UNCHANGED crossed
  BY DEF Next, vars, CacheReserve, HydrateRead, HydrateWrite, ReserveInDB, Persist, Undo,
         TryReserve, IncreaseUserQuota, DecreaseUserQuota, Charge, ApplyDelta, SwapStores,
         WriteStores, Expire, Crash
<1> QED
  BY <1>1, <1>2

\* A step that leaves the account undisturbed started undisturbed, and its fault,
\* if any, was a refused deduction.
LEMMA UndisturbedBefore ==
    ASSUME TypeOK, TypeOK', Undisturbed', batch' = batch, crossed => crossed'
    PROVE  /\ faults' = faults => Undisturbed
           /\ \A kind : Fault(kind) => Undisturbed /\ kind = "db_reserve"
<1>1. faults' = faults => Undisturbed
  BY DEF Undisturbed
<1>2. ASSUME NEW kind, Fault(kind)
      PROVE  Undisturbed /\ kind = "db_reserve"
  <2>1. faults' = Append(faults, kind) /\ faults \in Seq(Faults) /\ kind \in Faults
    BY <1>2 DEF Fault, TypeOK
  <2>2. Len(faults') = Len(faults) + 1 /\ Len(faults) \in Nat
    BY <2>1
  <2>3. \A i \in 1..Len(faults) : i \in 1..Len(faults') /\ faults'[i] = faults[i]
    BY <2>1, <2>2
  <2>4. faults'[Len(faults')] = kind /\ Len(faults') \in 1..Len(faults')
    BY <2>1, <2>2
  <2> QED
    BY <2>3, <2>4 DEF Undisturbed
<1> QED
  BY <1>1, <1>2

\* Only one client and its cache updates change, v is due from it afterwards, and
\* the balances move accordingly.
LEMMA WarmStep ==
    ASSUME TypeOK, TypeOK', Warm, cache # None, cache' # None,
           NEW c \in Clients, NEW v \in Int,
           \A d \in Clients : d # c => client'[d] = client[d],
           client'[c].pc # "fallback",
           \A p : p \in pend /\ p.by # c <=> p \in pend' /\ p.by # c,
           \A p \in pend' : p.by = c => v = p.d + Early(c)',
           IF client'[c].pc \in {"persist", "undo"} THEN v = client'[c].amt
           ELSE (\E p \in pend' : p.by = c) \/ v = Early(c)',
           \A due : Owed(due) => (cache' - cache) + (v - due[c]) = db' - db
    PROVE  Warm'
<1>1. PICK due, g : Owed(due) /\ Sums(g, due, Clients) /\ cache + g[Clients] = db
  BY DEF Warm, CacheSum
<1>2. db \in Int /\ db' \in Int /\ cache \in Int /\ cache' \in Int
  BY DEF TypeOK
<1>3. due \in [Clients -> Int] /\ due[c] \in Int
  BY <1>1 DEF Owed
<1> DEFINE new == [due EXCEPT ![c] = v]
<1>4. new \in [Clients -> Int] /\ new[c] = v /\ \A d \in Clients : d # c => new[d] = due[d]
  BY <1>3
<1>e. \A d \in Clients : d # c => Early(d)' = Early(d)
  BY DEF Early
<1>5. \A p \in pend' : p.by \in Clients /\ new[p.by] = p.d + Early(p.by)'
  <2> TAKE p \in pend'
  <2>1. p.by \in Clients
    BY DEF TypeOK
  <2>2. CASE p.by = c
    BY <1>4, <2>2
  <2>3. CASE p.by # c
    <3>1. p \in pend
      BY <2>3
    <3>2. due[p.by] = p.d + Early(p.by) /\ new[p.by] = due[p.by]
      BY <1>1, <1>4, <2>1, <2>3, <3>1 DEF Owed
    <3> QED
      BY <1>e, <2>1, <2>3, <3>2
  <2> QED
    BY <2>1, <2>2, <2>3
<1>6. \A d \in Clients : IF client'[d].pc \in {"persist", "undo"} THEN new[d] = client'[d].amt
                         ELSE (\E p \in pend' : p.by = d) \/ new[d] = Early(d)'
  <2> TAKE d \in Clients
  <2>1. CASE d = c
    BY <1>4, <2>1
  <2>2. CASE d # c
    <3>1. client'[d] = client[d] /\ new[d] = due[d]
      BY <1>4, <2>2
    <3>2. IF client[d].pc \in {"persist", "undo"} THEN due[d] = client[d].amt
          ELSE (\E p \in pend : p.by = d) \/ due[d] = Early(d)
      BY <1>1 DEF Owed
    <3>3. (\E p \in pend : p.by = d) => \E p \in pend' : p.by = d
      BY <2>2
    <3> QED
      BY <1>e, <2>2, <3>1, <3>2, <3>3
  <2> QED
    BY <2>1, <2>2
<1> HIDE DEF new
<1>7. PICK h : Sums(h, new, Clients) /\ h[Clients] = g[Clients] + (v - due[c])
  BY <1>1, <1>3, <1>4, SumUpdate
<1>8. Owed(new)'
  BY <1>4, <1>5, <1>6 DEF Owed
<1>9. CacheSum'
  <2>1. (cache' - cache) + (v - due[c]) = db' - db
    BY <1>1
  <2>2. g[Clients] \in Int
    BY <1>1 DEF Sums
  <2>3. cache' + h[Clients] = db'
    BY <1>1, <1>2, <1>3, <1>7, <2>1, <2>2
  <2> QED
    BY <1>7, <1>8, <2>3 DEF CacheSum
<1> QED
  BY <1>9 DEF Warm

\* Nothing is due from a client in the middle of a reservation, or before it.
LEMMA NothingDue ==
    ASSUME TypeOK, PendOver, NEW c \in Clients,
           client[c].pc \notin {"persist", "undo", "charge", "over"}
    PROVE  /\ \A p \in pend : p.by \in Clients /\ p.by # c
           /\ \A due : Owed(due) => due[c] = 0
<1>1. \A p \in pend : p.by \in Clients /\ p.by # c
  BY DEF TypeOK, PendOver
<1> QED
  BY <1>1 DEF Owed, Early

\* When nothing is due from anybody, the two balances are the same.
LEMMA ZeroDue ==
    \E due, g : /\ due \in [Clients -> Int] /\ \A c \in Clients : due[c] = 0
                /\ Sums(g, due, Clients) /\ g[Clients] = 0
<1> DEFINE due == [c \in Clients |-> 0]
           g == [T \in SUBSET Clients |-> 0]
<1>1. due \in [Clients -> Int] /\ \A c \in Clients : due[c] = 0
  BY 0 \in Int
<1>2. Sums(g, due, Clients) /\ g[Clients] = 0
  BY DEF Sums
<1> QED
  BY <1>1, <1>2

LEMMA CacheInit == Init => CacheInv /\ Solvent
<1> SUFFICES ASSUME Init
             PROVE  CacheInv /\ Solvent
  OBVIOUS
<1>1. Cold
  BY DEF Init, Cold, Idle
<1>2. ASSUME cache # None
      PROVE  Warm
  <2>1. PICK due, g : /\ due \in [Clients -> Int] /\ \A c \in Clients : due[c] = 0
                      /\ Sums(g, due, Clients) /\ g[Clients] = 0
    BY ZeroDue
  <2>2. Owed(due)
    BY <2>1 DEF Owed, Early, Init, Idle
  <2>3. cache = Start /\ db = Start /\ Start \in Int
    BY <1>2, QuotaAssumption DEF Init
  <2>4. cache + g[Clients] = db
    BY <2>1, <2>3
  <2>5. CacheSum
    BY <2>1, <2>2, <2>4 DEF CacheSum
  <2> QED
    BY <2>5 DEF Warm, Init, Idle
<1>3. Solvent
  BY QuotaAssumption DEF Solvent, Init
<1> QED
  BY <1>1, <1>2, <1>3 DEF CacheInv

LEMMA CacheInductive ==
    Inv /\ Inv' /\ Calm /\ CacheInv /\ [Next]_vars => CacheInv'
<1> DEFINE Goal == /\ cache' = None /\ Redis => Cold'
                   /\ cache' # None => Warm'
<1> SUFFICES ASSUME Inv, Inv', Calm, CacheInv, [Next]_vars, Undisturbed'
             PROVE  Goal
  BY DEF CacheInv
<1>t. TypeOK /\ TypeOK' /\ PendOver /\ NoRedis
  BY DEF Inv, Calm
<1>x. crossed => crossed'
  BY CrossedStays
<1>c. client \in [Clients -> Calls] /\ client' \in [Clients -> Calls]
  BY <1>t DEF TypeOK, Calls
<1>i. db \in Int /\ db' \in Int /\ None \notin Int
      /\ (cache # None => cache \in Int) /\ (cache' # None => cache' \in Int)
  BY <1>t, QuotaAssumption DEF TypeOK
<1>a. ASSUME NEW c \in Clients
      PROVE  client[c].amt \in Int
  <2>1. client[c].amt \in Amounts \cup {0}
    BY <1>c DEF Calls
  <2>2. Amounts \subseteq Int
    BY QuotaAssumption
  <2> QED
    BY <2>1, <2>2, 0 \in Int
<1>p. \A c \in Clients : client[c].pc \in {"cache", "read", "write", "again", "persist", "undo"}
                          => Redis
  BY <1>t, QuotaAssumption DEF NoRedis
\* A client moves on, from and to a place where nothing is due from it.
<1>m. ASSUME Warm, NEW c \in Clients, cache # None,
             client[c].pc \notin {"persist", "undo", "charge", "over"},
             client'[c].pc \notin {"persist", "undo", "charge", "fallback"},
             \A d \in Clients : d # c => client'[d] = client[d],
             pend' = pend, cache' = cache, db' = db
      PROVE  Warm'
  <2>1. /\ \A p \in pend : p.by \in Clients /\ p.by # c
        /\ \A due : Owed(due) => due[c] = 0
    BY <1>t, <1>m, NothingDue
  <2>2. \A due : Owed(due) => (cache' - cache) + (0 - due[c]) = db' - db
    BY <1>i, <1>m, <2>1
  <2>3. \A p \in pend' : p.by # c
    BY <1>m, <2>1
  <2>4. \A p : p \in pend /\ p.by # c <=> p \in pend' /\ p.by # c
    BY <1>m
  <2> QED
    BY <1>m, <1>t, <2>2, <2>3, <2>4, 0 \in Int, WarmStep DEF Early
<1>1. ASSUME NEW c \in Clients, CacheReserve(c)
      PROVE  Goal
  <2>0. Redis
    BY <1>1, <1>p DEF CacheReserve
  <2>1. Undisturbed /\ UNCHANGED <<batch, db, pend>>
    BY <1>t, <1>1, <1>x, UndisturbedBefore DEF CacheReserve
  <2>2. \A d \in Clients : d # c => client'[d] = client[d]
    BY <1>c, <1>1 DEF CacheReserve, GoTo
  <2>3. CASE /\ cache = None /\ UNCHANGED cache
             /\ GoTo(c, IF client[c].pc = "cache" THEN "read" ELSE "fallback")
    <3>1. Cold
      BY <2>0, <2>1, <2>3 DEF CacheInv
    <3>2. client[c].pc = "cache"
      BY <1>1, <3>1 DEF CacheReserve, Cold
    <3>3. client'[c].pc = "read"
      BY <1>c, <2>3, <3>2 DEF GoTo, Calls
    <3>4. Cold'
      BY <2>1, <2>2, <3>1, <3>3 DEF Cold
    <3> QED
      BY <2>3, <3>4
  <2>4. CASE cache # None /\ UNCHANGED cache /\ GoTo(c, "over")
    <3>1. client'[c].pc = "over"
      BY <1>c, <2>4 DEF GoTo, Calls
    <3>2. Warm
      BY <2>1, <2>4 DEF CacheInv
    <3>3. Warm'
      BY <1>1, <1>m, <2>1, <2>2, <2>4, <3>1, <3>2 DEF CacheReserve
    <3> QED
      BY <2>4, <3>3
  <2>5. CASE cache # None /\ cache' = cache - client[c].amt /\ GoTo(c, "persist")
    <3>1. Warm
      BY <2>1, <2>5 DEF CacheInv
    <3>2. /\ \A p \in pend : p.by \in Clients /\ p.by # c
          /\ \A due : Owed(due) => due[c] = 0
      BY <1>t, <1>1, NothingDue DEF CacheReserve
    <3>3. client'[c].pc = "persist" /\ client'[c].amt = client[c].amt
      BY <1>c, <2>5 DEF GoTo, Calls
    <3>4. cache \in Int /\ cache' \in Int /\ client[c].amt \in Int
      BY <1>a, <1>i, <2>5
    <3>5. \A due : Owed(due) => (cache' - cache) + (client[c].amt - due[c]) = db' - db
      BY <1>i, <2>1, <2>5, <3>2, <3>4
    <3>6. cache' # None
      BY <1>i, <3>4
    <3>7. \A p \in pend' : p.by # c
      BY <2>1, <3>2
    <3>8. \A p : p \in pend /\ p.by # c <=> p \in pend' /\ p.by # c
      BY <2>1
    <3>9. Warm'
      BY <1>t, <2>2, <2>5, <3>1, <3>3, <3>4, <3>5, <3>6, <3>7, <3>8, WarmStep DEF Early
    <3> QED
      BY <3>6, <3>9
  <2>6. ~Fault("redis")
    BY <1>t, <2>1, <1>x, UndisturbedBefore
  <2> QED
    BY <1>1, <2>3, <2>4, <2>5, <2>6 DEF CacheReserve
<1>2. ASSUME NEW c \in Clients, HydrateRead(c)
      PROVE  Goal
  <2>1. Redis /\ Undisturbed /\ UNCHANGED <<db, pend, cache>> /\ client[c].pc = "read"
    BY <1>t, <1>2, <1>p, <1>x, UndisturbedBefore DEF HydrateRead
  <2>0. client' = [client EXCEPT ![c].pc = "write", ![c].snap = db]
    BY <1>t, <1>2, <1>x, UndisturbedBefore DEF HydrateRead
  <2>2. /\ client'[c].pc = "write" /\ client'[c].snap = db
        /\ \A d \in Clients : d # c => client'[d] = client[d]
    BY <1>c, <2>0 DEF Calls
  <2>3. CASE cache = None
    BY <2>1, <2>2, <2>3 DEF CacheInv, Cold
  <2>4. CASE cache # None
    BY <1>m, <2>1, <2>2, <2>4 DEF CacheInv
  <2> QED
    BY <2>3, <2>4
<1>3. ASSUME NEW c \in Clients, HydrateWrite(c)
      PROVE  Goal
  <2>1. /\ Redis /\ Undisturbed /\ UNCHANGED <<db, pend>> /\ client[c].pc = "write"
        /\ cache' = HydratedQuota(client[c].snap)
    BY <1>t, <1>3, <1>p, <1>x, UndisturbedBefore DEF HydrateWrite
  <2>2. /\ client'[c].pc = "again"
        /\ \A d \in Clients : d # c => client'[d] = client[d]
    BY <1>c, <1>3 DEF HydrateWrite, Calls
  <2>3. CASE cache = None
    <3>1. Cold
      BY <2>1, <2>3 DEF CacheInv
    <3>2. cache' = db'
      BY <2>1, <2>3, <3>1 DEF HydratedQuota, Cold
    <3>0. OverlapsAChange
      BY <1>t, <1>3, <1>x, UndisturbedBefore DEF HydrateWrite
    <3>8. pend = {} /\ \A d \in Clients : client[d].pc # "charge"
      BY <2>3, <3>0 DEF OverlapsAChange, Undisturbed
    <3>3. /\ pend' = {}
          /\ \A d \in Clients : client'[d].pc \notin {"persist", "undo", "fallback", "charge"}
      BY <2>1, <2>2, <3>1, <3>8 DEF Cold
    <3>4. PICK due, g : /\ due \in [Clients -> Int] /\ \A d \in Clients : due[d] = 0
                        /\ Sums(g, due, Clients) /\ g[Clients] = 0
      BY ZeroDue
    <3>5. Owed(due)'
      BY <3>3, <3>4 DEF Owed, Early
    <3>6. cache' + g[Clients] = db'
      <4>1. db' \in Int
        BY <1>i
      <4>2. \A n \in Int : n + 0 = n
        OBVIOUS
      <4> QED
        BY <3>2, <3>4, <4>1, <4>2
    <3>7. CacheSum'
      BY <3>4, <3>5, <3>6 DEF CacheSum
    <3> QED
      BY <1>i, <3>2, <3>3, <3>7 DEF Warm
  <2>4. CASE cache # None
    BY <1>m, <2>1, <2>2, <2>4 DEF CacheInv, HydratedQuota
  <2> QED
    BY <2>3, <2>4
<1>4. ASSUME NEW c \in Clients, ReserveInDB(c)
      PROVE  Goal
  <2>1. Undisturbed /\ cache' = cache /\ client[c].pc = "fallback"
    BY <1>t, <1>4, <1>x, UndisturbedBefore DEF ReserveInDB
  <2> QED
    BY <2>1 DEF CacheInv, Cold, Warm
<1>5. ASSUME NEW c \in Clients, Persist(c)
      PROVE  Goal
  <2>1. /\ Redis /\ Undisturbed /\ ~batch /\ pend' = pend /\ cache' = cache
        /\ client[c].pc = "persist"
    BY <1>t, <1>5, <1>p, <1>x, UndisturbedBefore DEF Persist, Undisturbed
  <2>2. cache # None /\ Warm
    BY <2>1 DEF CacheInv, Cold
  <2>3. \A d \in Clients : d # c => client'[d] = client[d]
    BY <1>c, <1>5 DEF Persist, GoTo
  <2>4. \A p \in pend : p.by # c
    BY <1>t, <2>1 DEF PendOver
  <2>5. \A due : Owed(due) => due[c] = client[c].amt
    BY <2>1 DEF Owed
  <2>6. cache \in Int /\ client[c].amt \in Int
    BY <1>a, <1>i, <2>2
  <2>7. CASE db' = db - client[c].amt /\ GoTo(c, "holds")
    <3>1. client'[c].pc = "holds"
      BY <1>c, <2>7 DEF GoTo, Calls
    <3>2. \A due : Owed(due) => (cache' - cache) + (0 - due[c]) = db' - db
      BY <1>i, <2>1, <2>5, <2>6, <2>7
    <3> QED
      BY <1>t, <2>1, <2>2, <2>3, <2>4, <3>1, <3>2, 0 \in Int, WarmStep DEF Early
  <2>8. CASE db' = db /\ GoTo(c, "undo")
    <3>1. client'[c].pc = "undo" /\ client'[c].amt = client[c].amt
      BY <1>c, <2>8 DEF GoTo, Calls
    <3>2. \A due : Owed(due) => (cache' - cache) + (client[c].amt - due[c]) = db' - db
      BY <1>i, <2>1, <2>5, <2>6, <2>8
    <3> QED
      BY <1>t, <2>1, <2>2, <2>3, <2>4, <2>6, <3>1, <3>2, WarmStep DEF Early
  <2> QED
    BY <1>5, <2>1, <2>7, <2>8 DEF Persist
<1>6. ASSUME NEW c \in Clients, Undo(c)
      PROVE  Goal
  <2>1. /\ Redis /\ Undisturbed /\ UNCHANGED <<db, pend>> /\ client[c].pc = "undo"
        /\ cache' = Shifted(client[c].amt)
    BY <1>t, <1>6, <1>p, <1>x, UndisturbedBefore DEF Undo
  <2>2. cache # None /\ Warm
    BY <2>1 DEF CacheInv, Cold
  <2>3. /\ client'[c].pc = "over"
        /\ \A d \in Clients : d # c => client'[d] = client[d]
    BY <1>c, <1>6 DEF Undo, GoTo, Calls
  <2>4. \A p \in pend : p.by # c
    BY <1>t, <2>1 DEF PendOver
  <2>5. \A due : Owed(due) => due[c] = client[c].amt
    BY <2>1 DEF Owed
  <2>6. cache \in Int /\ client[c].amt \in Int /\ cache' = cache + client[c].amt
    BY <1>a, <1>i, <2>1, <2>2 DEF Shifted
  <2>7. \A due : Owed(due) => (cache' - cache) + (0 - due[c]) = db' - db
    BY <1>i, <2>1, <2>5, <2>6
  <2>8. cache' # None
    BY <1>i, <2>6
  <2>9. Early(c)' = 0 /\ \A p \in pend' : p.by # c
    BY <2>1, <2>3, <2>4 DEF Early
  <2>10. \A p : p \in pend /\ p.by # c <=> p \in pend' /\ p.by # c
    BY <2>1
  <2> QED
    BY <1>t, <2>1, <2>2, <2>3, <2>7, <2>8, <2>9, <2>10, 0 \in Int, WarmStep
<1>7. ASSUME NEW c \in Clients, NEW a \in Amounts, TryReserve(c, a)
      PROVE  Goal
  <2>1. Undisturbed /\ UNCHANGED <<db, pend, cache>> /\ client[c].pc = "idle"
    BY <1>t, <1>7, <1>x, UndisturbedBefore DEF TryReserve
  <2>2. /\ client'[c].pc = IF Redis THEN "cache" ELSE "fallback"
        /\ \A d \in Clients : d # c => client'[d] = client[d]
    BY <1>c, <1>7 DEF TryReserve, Idle, Calls
  <2>3. CASE cache = None
    BY <2>1, <2>2, <2>3 DEF CacheInv, Cold
  <2>4. CASE cache # None
    <3>1. Redis
      BY <1>t, <2>4, QuotaAssumption DEF NoRedis
    <3> QED
      BY <1>m, <2>1, <2>2, <2>4, <3>1 DEF CacheInv
  <2> QED
    BY <2>3, <2>4
\* A row that is changed before the first fill was read by nobody who fills.
<1>f. ASSUME Cold, cache = None, OverlapsAFill, NEW c \in Clients, client'[c].pc = "over",
             \A d \in Clients : d # c => client'[d] = client[d]
      PROVE  Cold'
  <2>1. \A d \in Clients : client[d].pc # "write"
    BY <1>f DEF OverlapsAFill, Undisturbed
  <2> QED
    BY <1>f, <2>1 DEF Cold
<1>8. ASSUME NEW c \in Clients, NEW a \in Amounts, NEW now \in BOOLEAN,
             IncreaseUserQuota(c, a, now)
      PROVE  Goal
  <2>1. /\ cache' = cache /\ batch' = batch /\ client[c].pc \in {"idle", "holds"}
        /\ GoTo(c, "over")
    BY <1>8 DEF IncreaseUserQuota, MayChange
  <2>2. ~batch /\ ~Fault("db_change") /\ faults' = faults
    BY <1>t, <1>8, <2>1, <1>x, UndisturbedBefore DEF Undisturbed, IncreaseUserQuota
  <2>3. Undisturbed
    BY <1>t, <2>1, <2>2, <1>x, UndisturbedBefore
  <2>6. /\ client'[c].pc = "over"
        /\ \A d \in Clients : d # c => client'[d] = client[d]
    BY <1>c, <2>1 DEF GoTo, Calls
  <2>7. \/ db' = db /\ pend' = pend
        \/ /\ db' = db + a /\ OverlapsAFill
           /\ Redis => pend' = pend \cup {[by |-> c, d |-> a]}
    BY <1>8, <2>2 DEF IncreaseUserQuota, Change
  <2>4. CASE cache = None
    <3> SUFFICES ASSUME Redis
                 PROVE  Cold'
      BY <2>1, <2>4
    <3>1. Cold
      BY <2>3, <2>4 DEF CacheInv
    <3>2. CASE db' = db
      BY <2>6, <3>1, <3>2 DEF Cold
    <3>3. CASE OverlapsAFill
      BY <1>f, <2>4, <2>6, <3>1, <3>3
    <3> QED
      BY <2>7, <3>2, <3>3
  <2>5. CASE cache # None
    <3>1. Warm /\ Redis
      BY <1>t, <2>3, <2>5, QuotaAssumption DEF CacheInv, NoRedis
    <3>3. a \in Int /\ cache \in Int
      BY <1>i, <2>5, QuotaAssumption
    <3>4. CASE db' = db /\ pend' = pend
      BY <1>m, <2>1, <2>5, <2>6, <3>1, <3>4
    <3>5. CASE db' = db + a /\ pend' = pend \cup {[by |-> c, d |-> a]}
      <4>2. /\ \A p \in pend : p.by \in Clients /\ p.by # c
            /\ \A due : Owed(due) => due[c] = 0
        BY <1>t, <2>1, NothingDue
      <4>3. \A due : Owed(due) => (cache' - cache) + (a - due[c]) = db' - db
        BY <1>i, <2>1, <3>3, <3>5, <4>2
      <4>n. PICK n : n = [by |-> c, d |-> a]
        OBVIOUS
      <4>o. n.by = c /\ n.d = a /\ pend' = pend \cup {n}
        BY <3>5, <4>n
      <4>4. /\ \A p : p \in pend /\ p.by # c <=> p \in pend' /\ p.by # c
            /\ \A p \in pend' : p.by = c => p.d = a
            /\ \E p \in pend' : p.by = c
        BY <4>2, <4>o
      <4>5. Early(c)' = 0 /\ a + 0 = a
        BY <2>6, <3>3 DEF Early
      <4>6. \A p \in pend' : p.by = c => a = p.d + Early(c)'
        BY <4>4, <4>5
      <4> QED
        BY <1>t, <2>1, <2>5, <2>6, <3>1, <3>3, <4>3, <4>4, <4>6, WarmStep
    <3> QED
      BY <2>7, <3>1, <3>4, <3>5
  <2> QED
    BY <2>4, <2>5
<1>13. ASSUME NEW c \in Clients, NEW a \in Amounts, DecreaseUserQuota(c, a)
      PROVE  Goal
  <2>1. /\ UNCHANGED <<cache, db, batch, faults>> /\ client[c].pc \in {"idle", "holds"}
        /\ Redis => pend' = pend \cup {[by |-> c, d |-> -a]}
    BY <1>13 DEF DecreaseUserQuota, MayChange
  <2>3. Undisturbed
    BY <1>t, <2>1, <1>x, UndisturbedBefore
  <2>6. /\ client'[c].pc = "charge" /\ client'[c].chg = a
        /\ \A d \in Clients : d # c => client'[d] = client[d]
    BY <1>c, <1>13 DEF DecreaseUserQuota, Calls
  <2>4. CASE cache = None
    BY <2>1, <2>3, <2>4, <2>6 DEF CacheInv, Cold
  <2>5. CASE cache # None
    <3>1. Warm /\ Redis
      BY <1>t, <2>3, <2>5, QuotaAssumption DEF CacheInv, NoRedis
    <3>3. a \in Int /\ -a \in Int /\ cache \in Int
      BY <1>i, <2>5, QuotaAssumption
    <3>4. /\ \A p \in pend : p.by \in Clients /\ p.by # c
          /\ \A due : Owed(due) => due[c] = 0
      BY <1>t, <2>1, NothingDue
    <3>5. \A due : Owed(due) => (cache' - cache) + (0 - due[c]) = db' - db
      BY <1>i, <2>1, <3>3, <3>4
    <3>n. PICK n : n = [by |-> c, d |-> -a]
      OBVIOUS
    <3>o. n.by = c /\ n.d = -a /\ pend' = pend \cup {n}
      BY <2>1, <3>1, <3>n
    <3>6. /\ \A p : p \in pend /\ p.by # c <=> p \in pend' /\ p.by # c
          /\ \A p \in pend' : p.by = c => p.d = -a
          /\ \E p \in pend' : p.by = c
      BY <3>4, <3>o
    <3>7. Early(c)' = a /\ -a + a = 0
      BY <2>6, <3>3 DEF Early
    <3>8. \A p \in pend' : p.by = c => 0 = p.d + Early(c)'
      BY <3>6, <3>7
    <3> QED
      BY <1>t, <2>1, <2>5, <2>6, <3>1, <3>5, <3>6, <3>8, 0 \in Int, WarmStep
  <2> QED
    BY <2>4, <2>5
<1>14. ASSUME NEW c \in Clients, NEW now \in BOOLEAN, Charge(c, now)
      PROVE  Goal
  <2>1. UNCHANGED <<cache, pend, batch>> /\ client[c].pc = "charge"
    BY <1>14 DEF Charge
  <2>2. ~batch /\ ~Fault("db_change") /\ faults' = faults
    BY <1>t, <1>14, <2>1, <1>x, UndisturbedBefore DEF Undisturbed, Charge
  <2>3. Undisturbed
    BY <1>t, <2>1, <2>2, <1>x, UndisturbedBefore
  <2>6. /\ client'[c].pc = "over"
        /\ \A d \in Clients : d # c => client'[d] = client[d]
    BY <1>c, <1>14 DEF Charge, Calls
  <2>7. client[c].chg \in Int
    <3>1. client[c].chg \in Amounts \cup {0} /\ Amounts \subseteq Int
      BY <1>c, QuotaAssumption DEF Calls
    <3> QED
      BY <3>1, 0 \in Int
  <2>8. db' = db - client[c].chg /\ OverlapsAFill
    BY <1>i, <1>14, <2>2, <2>7 DEF Charge, Change
  <2>4. CASE cache = None
    BY <1>f, <2>1, <2>3, <2>4, <2>6, <2>8 DEF CacheInv
  <2>5. CASE cache # None
    <3>1. Warm /\ cache \in Int
      BY <1>i, <2>3, <2>5 DEF CacheInv
    <3>2. Early(c) = client[c].chg /\ Early(c)' = 0
      BY <2>1, <2>6 DEF Early
    <3>3. CASE \E p \in pend : p.by = c
      <4>1. PICK p \in pend : p.by = c
        BY <3>3
      <4>2. p.d = -client[c].chg /\ p.d \in Int /\ \A q \in pend : q.by = c => q = p
        BY <1>t, <2>1, <4>1 DEF PendOver, TypeOK
      <4>3. \A due : Owed(due) => due[c] = p.d + client[c].chg
        BY <3>2, <4>1 DEF Owed
      <4>4. \A due : Owed(due) => (cache' - cache) + (p.d - due[c]) = db' - db
        BY <1>i, <2>1, <2>7, <2>8, <3>1, <4>2, <4>3
      <4>5. p.d + 0 = p.d
        BY <4>2
      <4>6. /\ \A q \in pend' : q.by = c => p.d = q.d + Early(c)'
            /\ \E q \in pend' : q.by = c
        BY <2>1, <3>2, <4>1, <4>2, <4>5
      <4>7. \A q : q \in pend /\ q.by # c <=> q \in pend' /\ q.by # c
        BY <2>1
      <4> QED
        BY <1>t, <2>1, <2>5, <2>6, <3>1, <4>2, <4>4, <4>6, <4>7, WarmStep
    <3>4. CASE ~ \E p \in pend : p.by = c
      <4>1. \A due : Owed(due) => due[c] = client[c].chg
        BY <2>1, <3>2, <3>4 DEF Owed
      <4>2. \A due : Owed(due) => (cache' - cache) + (0 - due[c]) = db' - db
        BY <1>i, <2>1, <2>7, <2>8, <3>1, <4>1
      <4>3. \A q \in pend' : q.by # c
        BY <2>1, <3>4
      <4>4. \A q : q \in pend /\ q.by # c <=> q \in pend' /\ q.by # c
        BY <2>1
      <4> QED
        BY <1>t, <2>1, <2>5, <2>6, <3>1, <3>2, <4>2, <4>3, <4>4, 0 \in Int, WarmStep
    <3> QED
      BY <3>3, <3>4
  <2> QED
    BY <2>4, <2>5
<1>9. ASSUME NEW p \in pend, ApplyDelta(p)
      PROVE  Goal
  <2>1. /\ Undisturbed /\ UNCHANGED <<db, client>>
        /\ pend' = pend \ {p} /\ cache' = Shifted(p.d)
    BY <1>t, <1>9, <1>x, UndisturbedBefore DEF ApplyDelta
  <2>2. CASE cache = None
    BY <2>1, <2>2 DEF CacheInv, Cold, Shifted
  <2>10. CASE cache # None
    <3>2. Warm
      BY <2>1, <2>10 DEF CacheInv
    <3>3. /\ p.by \in Clients /\ p.d \in Int /\ client[p.by].pc \in {"over", "charge"}
          /\ \A q \in pend : q.by = p.by => q = p
      BY <1>t DEF TypeOK, PendOver
    <3>4. Early(p.by) \in Int /\ Early(p.by)' = Early(p.by)
      <4>1. client[p.by].chg \in Amounts \cup {0} /\ Amounts \subseteq Int
        BY <1>c, <3>3, QuotaAssumption DEF Calls
      <4> QED
        BY <2>1, <4>1, 0 \in Int DEF Early
    <3>5. \A due : Owed(due) => due[p.by] = p.d + Early(p.by)
      BY DEF Owed
    <3>6. cache \in Int /\ cache' = cache + p.d
      BY <1>i, <2>1, <2>10 DEF Shifted
    <3>7. \A due : Owed(due) => (cache' - cache) + (Early(p.by) - due[p.by]) = db' - db
      BY <1>i, <2>1, <3>3, <3>4, <3>5, <3>6
    <3>8. cache' # None
      BY <1>i, <3>3, <3>6
    <3>9. \A q \in pend' : q.by # p.by
      BY <2>1, <3>3
    <3>10. \A q : q \in pend /\ q.by # p.by <=> q \in pend' /\ q.by # p.by
      BY <2>1
    <3> QED
      BY <1>t, <2>1, <2>10, <3>2, <3>3, <3>4, <3>7, <3>8, <3>9, <3>10, WarmStep
  <2> QED
    BY <2>2, <2>10
<1>10. CASE SwapStores \/ WriteStores
  BY <1>10 DEF SwapStores, WriteStores, Undisturbed, Inv, Unbuffered
<1>11. CASE Expire \/ Crash
  <2>1. batch' = batch /\ \E kind \in {"expire", "crash"} : Fault(kind)
    BY <1>11 DEF Expire, Crash
  <2> QED
    BY <1>t, <2>1, <1>x, UndisturbedBefore
<1>12. CASE UNCHANGED vars
  <2>1. Undisturbed
    BY <1>12 DEF vars, Undisturbed
  <2>2. Cold => Cold'
    BY <1>12 DEF vars, Cold
  <2>3. CacheSum => CacheSum'
    BY <1>12 DEF vars, CacheSum, Owed, Early
  <2>4. Warm => Warm'
    BY <1>12, <2>3 DEF vars, Warm
  <2> QED
    BY <1>12, <2>1, <2>2, <2>4 DEF vars, CacheInv
<1> QED
  BY <1>1, <1>2, <1>3, <1>4, <1>5, <1>6, <1>7, <1>8, <1>9, <1>10, <1>11,
     <1>12, <1>13, <1>14 DEF Next

\* Amounts are natural numbers.
LEMMA AmountNat ==
    ASSUME TypeOK, NEW c \in Clients
    PROVE  client[c].amt \in Int /\ client[c].amt >= 0
<1>0. client \in [Clients -> Calls]
  BY DEF TypeOK, Calls
<1>1. client[c].amt \in Amounts \cup {0}
  BY <1>0 DEF Calls
<1>2. CASE client[c].amt \in Amounts
  <2>1. Amounts \subseteq Nat
    BY QuotaAssumption
  <2>2. client[c].amt \in Nat
    BY <1>2, <2>1
  <2> QED
    BY <2>2
<1>3. CASE client[c].amt = 0
  BY <1>3
<1> QED
  BY <1>1, <1>2, <1>3

\* A step that leaves the account undisturbed leaves a finished call alone, and so
\* cannot make a client frugal again.
LEMMA FrugalBefore ==
    ASSUME Inv, Inv', Calm, [Next]_vars, Undisturbed', Frugal'
    PROVE  Undisturbed /\ Frugal
<1>t. TypeOK /\ TypeOK'
  BY DEF Inv
<1>c. client \in [Clients -> Calls]
  BY <1>t DEF TypeOK, Calls
<1>1. batch' = batch
  BY DEF Next, vars, CacheReserve, HydrateRead, HydrateWrite, ReserveInDB, Persist, Undo,
         TryReserve, IncreaseUserQuota, DecreaseUserQuota, Charge, ApplyDelta, SwapStores,
         WriteStores, Expire, Crash
<1>2. Undisturbed /\ \A kind : Fault(kind) => kind = "db_reserve"
  <2>1. faults' = faults \/ \E kind : Fault(kind)
    BY DEF Next, vars, CacheReserve, HydrateRead, HydrateWrite, ReserveInDB, Persist, Undo,
           TryReserve, IncreaseUserQuota, DecreaseUserQuota, Charge, ApplyDelta, SwapStores,
           WriteStores, Expire, Crash
  <2> QED
    BY <1>t, <1>1, <2>1, CrossedStays, UndisturbedBefore
<1>3. ASSUME NEW c \in Clients, client[c].pc \in {"over", "charge"},
             \A now \in BOOLEAN : ~Charge(c, now)
      PROVE  client'[c] = client[c] /\ held'[c] = held[c]
  <2>1. ASSUME NEW d \in Clients, client[d].pc \notin {"over", "charge"}
        PROVE  d # c
    BY <1>3, <2>1
  <2>2. ASSUME NEW d \in Clients, CacheReserve(d) \/ HydrateRead(d) \/ HydrateWrite(d)
                                  \/ ReserveInDB(d) \/ Persist(d) \/ Undo(d)
        PROVE  client'[c] = client[c] /\ held'[c] = held[c]
    <3>1. d # c
      BY <2>1, <2>2 DEF CacheReserve, HydrateRead, HydrateWrite, ReserveInDB, Persist, Undo
    <3> QED
      BY <1>t, <1>c, <2>2, <3>1
         DEF CacheReserve, HydrateRead, HydrateWrite, ReserveInDB, Persist, Undo, GoTo, TypeOK
  <2>3. ASSUME NEW d \in Clients, NEW a \in Amounts, NEW now \in BOOLEAN,
               TryReserve(d, a) \/ IncreaseUserQuota(d, a, now) \/ DecreaseUserQuota(d, a)
        PROVE  client'[c] = client[c] /\ held'[c] = held[c]
    <3>1. d # c
      BY <2>1, <2>3 DEF TryReserve, IncreaseUserQuota, DecreaseUserQuota, MayChange
    <3> QED
      BY <1>t, <1>c, <2>3, <3>1
         DEF TryReserve, IncreaseUserQuota, DecreaseUserQuota, GoTo, TypeOK
  <2>4. ASSUME NEW d \in Clients, NEW now \in BOOLEAN, Charge(d, now)
        PROVE  client'[c] = client[c] /\ held'[c] = held[c]
    <3>1. d # c
      BY <1>3, <2>4
    <3> QED
      BY <1>t, <1>c, <2>4, <3>1 DEF Charge, TypeOK
  <2>5. CASE UNCHANGED <<client, held>>
    BY <2>5
  <2>6. ~Crash
    BY <1>2 DEF Crash
  <2> QED
    BY <2>2, <2>3, <2>4, <2>5, <2>6
       DEF Next, vars, ApplyDelta, SwapStores, WriteStores, Expire
<1>4. ASSUME NEW c \in Clients
      PROVE  held[c] <= client[c].amt /\ client[c].pc # "charge"
  <2>1. client[c].amt \in Int /\ client[c].amt >= 0 /\ held[c] \in Int
    BY <1>t, AmountNat DEF TypeOK
  <2>2. CASE client[c].pc \notin {"over", "charge"}
    <3>1. held[c] = 0 \/ held[c] = client[c].amt
      BY <1>c, <2>2 DEF Calm, HeldIs, Working, Calls
    <3> QED
      BY <2>1, <2>2, <3>1
  <2>3. CASE client[c].pc = "over"
    <3>1. client'[c] = client[c] /\ held'[c] = held[c]
      BY <1>3, <2>3 DEF Charge
    <3> QED
      BY <2>3, <3>1 DEF Frugal
  <2>4. CASE client[c].pc = "charge"
    <3>1. ASSUME NEW now \in BOOLEAN, Charge(c, now)
          PROVE  FALSE
      <4>1. client[c].chg \in Nat /\ client[c].chg > 0
        <5>1. client[c].chg \in Amounts
          BY <2>4 DEF Inv, AmountKnown
        <5>2. Amounts \subseteq Nat \ {0}
          BY QuotaAssumption
        <5>3. client[c].chg \in Nat /\ client[c].chg # 0
          BY <5>1, <5>2
        <5> QED
          BY <5>3
      <4>2. held[c] = client[c].amt
        BY <2>4 DEF Calm, HeldIs
      <4>3. ~Fault("db_change")
        BY <1>2
      <4>4. held' = [held EXCEPT ![c] = @ + client[c].chg]
        BY <3>1, <4>3 DEF Charge
      <4>5. held'[c] = held[c] + client[c].chg /\ client'[c].amt = client[c].amt
        BY <1>t, <1>c, <3>1, <4>4 DEF Charge, TypeOK, Calls
      <4> QED
        BY <2>1, <4>1, <4>2, <4>5 DEF Frugal
    <3>2. client'[c] = client[c]
      BY <1>3, <2>4, <3>1
    <3> QED
      BY <2>4, <3>2 DEF Frugal
  <2> QED
    BY <2>2, <2>3, <2>4
<1> QED
  BY <1>2, <1>4 DEF Frugal

LEMMA SolventInductive ==
    Inv /\ Inv' /\ Calm /\ CacheInv /\ Solvent /\ [Next]_vars => Solvent'
<1> DEFINE Goal == /\ cache' = None /\ Redis => db' >= 0
                   /\ cache' # None => cache' >= 0
                   /\ \A p \in pend' : p.d > 0
<1> SUFFICES ASSUME Inv, Inv', Calm, CacheInv, Solvent, [Next]_vars, Undisturbed', Frugal'
             PROVE  Goal
  BY DEF Solvent
<1>1. /\ cache = None /\ Redis => db >= 0
      /\ cache # None => cache >= 0
      /\ \A p \in pend : p.d > 0
  BY FrugalBefore DEF Solvent
<1>2. Undisturbed /\ Frugal
  BY FrugalBefore
<1>t. TypeOK /\ TypeOK'
  BY DEF Inv
<1>c. client \in [Clients -> Calls]
  BY <1>t DEF TypeOK, Calls
<1>i. None \notin Int /\ (cache # None => cache \in Int)
  BY <1>t, QuotaAssumption DEF TypeOK
<1>a. ASSUME NEW c \in Clients
      PROVE  client[c].amt \in Int /\ client[c].amt >= 0
  BY <1>t, AmountNat
<1>3. ASSUME NEW c \in Clients, CacheReserve(c) \/ HydrateWrite(c) \/ Undo(c)
      PROVE  Goal
  <2>1. pend' = pend /\ db' = db
    BY <1>3 DEF CacheReserve, HydrateWrite, Undo
  <2>2. CASE cache' = cache
    BY <1>1, <2>1, <2>2
  <2>3. CASE cache # None /\ Covers(client[c].amt) /\ cache' = cache - client[c].amt
    BY <1>1, <1>a, <1>i, <2>1, <2>3 DEF Covers
  <2>4. CASE cache # None /\ cache' = cache + client[c].amt
    BY <1>1, <1>a, <1>i, <2>1, <2>4
  <2>5. CASE cache = None /\ HydrateWrite(c)
    <3>1. Redis /\ client[c].pc = "write"
      BY <2>5, QuotaAssumption DEF HydrateWrite, Calm, NoRedis
    <3>2. client[c].snap = db /\ db >= 0
      BY <1>1, <1>2, <2>5, <3>1 DEF CacheInv, Cold
    <3>3. cache' = None \/ cache' = db
      BY <2>5, <3>2 DEF HydrateWrite, HydratedQuota
    <3> QED
      BY <1>1, <2>1, <3>2, <3>3
  <2> QED
    BY <1>3, <2>2, <2>3, <2>4, <2>5
       DEF CacheReserve, HydrateWrite, HydratedQuota, Undo, Shifted
<1>4. ASSUME NEW c \in Clients, NEW a \in Amounts, NEW now \in BOOLEAN,
             IncreaseUserQuota(c, a, now)
      PROVE  Goal
  <2>1. /\ cache' = cache /\ pend' \subseteq pend \cup {[by |-> c, d |-> a]}
        /\ db' = db \/ db' = db + a
    BY <1>4 DEF IncreaseUserQuota, Change
  <2>2. a \in Int /\ a > 0 /\ db \in Int
    BY <1>t, QuotaAssumption DEF TypeOK
  <2>3. cache' = None /\ Redis => db' >= 0
    BY <1>1, <2>1, <2>2
  <2> QED
    BY <1>1, <2>1, <2>2, <2>3
<1>5. ASSUME NEW c \in Clients, NEW a \in Amounts, DecreaseUserQuota(c, a)
      PROVE  FALSE
  <2>1. client'[c].pc = "charge"
    BY <1>c, <1>5 DEF DecreaseUserQuota, Calls
  <2> QED
    BY <2>1 DEF Frugal
<1>9. ASSUME NEW c \in Clients, NEW now \in BOOLEAN, Charge(c, now)
      PROVE  FALSE
  BY <1>2, <1>9 DEF Charge, Frugal
<1>10. ASSUME NEW c \in Clients, ReserveInDB(c) \/ Persist(c)
      PROVE  Goal
  <2>1. cache' = cache /\ pend' = pend /\ client[c].pc \in {"fallback", "persist"}
    BY <1>10 DEF ReserveInDB, Persist
  <2>2. ~(cache = None /\ Redis)
    BY <1>2, <2>1 DEF CacheInv, Cold
  <2> QED
    BY <1>1, <2>1, <2>2
<1>11. CASE WriteStores
  BY <1>2, <1>11 DEF WriteStores, Undisturbed, Inv, Unbuffered
<1>6. ASSUME NEW p \in pend, ApplyDelta(p)
      PROVE  Goal
  <2>1. db' = db /\ pend' = pend \ {p} /\ (cache' = cache \/ (cache # None /\ cache' = cache + p.d))
    BY <1>6 DEF ApplyDelta, Shifted
  <2>2. p.d \in Int /\ p.d > 0
    BY <1>1, <1>t DEF TypeOK
  <2> QED
    BY <1>1, <1>i, <2>1, <2>2
<1>7. CASE UNCHANGED <<db, cache, pend>>
  BY <1>1, <1>7
<1>8. CASE Crash
  BY <1>1, <1>8 DEF Crash
<1>12. CASE Expire
  <2>1. batch' = batch /\ Fault("expire") /\ crossed' = crossed
    BY <1>12 DEF Expire
  <2> QED
    BY <1>t, <2>1, UndisturbedBefore
<1> QED
  BY <1>3, <1>4, <1>5, <1>6, <1>7, <1>8, <1>9, <1>10, <1>11, <1>12
     DEF Next, vars, HydrateRead, TryReserve, SwapStores

-----------------------------------------------------------------------------
\* What holds in every state of the account.
Whole == Inv /\ Calm /\ CacheInv /\ Solvent

LEMMA WholeAlways == Spec => []Whole
<1>1. Init => Whole
  BY InvInit, CalmInit, CacheInit DEF Whole
<1>2. Whole /\ [Next]_vars => Whole'
  BY InvInductive, CalmInductive, CacheInductive, SolventInductive DEF Whole
<1> QED
  BY <1>1, <1>2, PTL DEF Spec

\* Once all cache updates have arrived, the balance in Redis that
\* TryReserveUserQuota checks is the balance of the account, whatever the number of
\* requests and the order of their deductions, compensations, refunds and charges,
\* reserved or not (quota_reserve.go, userQuotaReserveScript and
\* userQuotaDeltaScript), unless a change of the row overlapped a fill of the hash.
THEOREM CacheIsRight == Spec => []CacheAgrees
<1>1. Whole => CacheAgrees
  <2> SUFFICES ASSUME Whole, Undisturbed, pend = {}, cache # None,
                      \A c \in Clients : client[c].pc \in {"idle", "holds", "over"}
               PROVE  cache = Balance
    BY DEF CacheAgrees
  <2>1. PICK due, g : Owed(due) /\ Sums(g, due, Clients) /\ cache + g[Clients] = db
    BY DEF Whole, CacheInv, Warm, CacheSum
  <2>2. due \in [Clients -> Int] /\ \A c \in Clients : due[c] = 0
    BY <2>1 DEF Owed, Early
  <2>3. g[Clients] = 0
    BY <2>1, <2>2, SumZero, QuotaAssumption
  <2>4. cache \in Int /\ db \in Int /\ queue = 0 /\ taken = 0
    BY DEF Whole, Inv, TypeOK, Unbuffered, Undisturbed
  <2>5. \A n \in Int : n + 0 = n
    OBVIOUS
  <2> QED
    BY <2>1, <2>3, <2>4, <2>5 DEF Balance
<1> QED
  BY <1>1, WholeAlways, PTL

\* A reservation that TryReserveUserQuota grants, against Redis or in the
\* database, is covered by the balance of the account at the moment it is
\* written, as long as nobody was or is being charged more than he had reserved and
\* no change overlapped a fill of the hash.
THEOREM ReservationCovered == Spec => ReserveIsCovered
<1> DEFINE Covered == \A c \in Clients :
                        /\ Undisturbed
                        /\ \A d \in Clients :
                              held[d] <= client[d].amt /\ client[d].pc # "charge"
                        /\ client[c].pc \in {"persist", "fallback"}
                        /\ client'[c].pc = "holds"
                        => Balance >= client[c].amt
<1>1. ASSUME Whole, [Next]_vars
      PROVE  [Covered]_vars
  <2> SUFFICES ASSUME NEW c \in Clients, Undisturbed, Frugal,
                      client[c].pc \in {"persist", "fallback"}, client'[c].pc = "holds"
               PROVE  Balance >= client[c].amt
    BY DEF Frugal
  <2>t. TypeOK /\ Unbuffered /\ PendOver /\ NoRedis
    BY <1>1 DEF Whole, Inv, Calm
  <2>c. client \in [Clients -> Calls]
    BY <2>t DEF TypeOK, Calls
  <2>1. db \in Int /\ Balance = db
    <3>1. db \in Int /\ queue = 0 /\ taken = 0
      BY <2>t DEF TypeOK, Unbuffered, Undisturbed
    <3>2. \A n \in Int : n + 0 + 0 = n
      OBVIOUS
    <3> QED
      BY <3>1, <3>2 DEF Balance
  <2>2. CASE client[c].pc = "persist"
    <3>1. Redis /\ cache # None /\ Warm
      BY <1>1, <2>t, <2>2, QuotaAssumption DEF Whole, NoRedis, CacheInv, Cold
    <3>2. PICK due, g : Owed(due) /\ Sums(g, due, Clients) /\ cache + g[Clients] = db
      BY <3>1 DEF Warm, CacheSum
    <3>3. cache >= 0 /\ cache \in Int /\ \A p \in pend : p.d > 0 /\ p.d \in Int
      BY <1>1, <2>t, <3>1 DEF Whole, Solvent, TypeOK
    <3>4. due \in [Clients -> Int] /\ due[c] = client[c].amt
      BY <2>2, <3>2 DEF Owed
    <3>5. \A d \in Clients : due[d] >= 0
      <4> TAKE d \in Clients
      <4>1. client[d].amt >= 0
        BY <2>t, AmountNat
      <4>5. Early(d) = 0
        BY DEF Frugal, Early
      <4>2. CASE client[d].pc \in {"persist", "undo"}
        BY <3>2, <4>1, <4>2 DEF Owed
      <4>3. CASE client[d].pc \notin {"persist", "undo"} /\ \E p \in pend : p.by = d
        <5>1. PICK p \in pend : p.by = d
          BY <4>3
        <5>2. due[d] = p.d + 0 /\ p.d \in Int /\ p.d > 0
          BY <3>2, <3>3, <4>5, <5>1 DEF Owed
        <5> QED
          BY <5>2
      <4>4. CASE client[d].pc \notin {"persist", "undo"} /\ ~ \E p \in pend : p.by = d
        BY <3>2, <4>4, <4>5 DEF Owed
      <4> QED
        BY <4>2, <4>3, <4>4
    <3>6. g[Clients] >= due[c]
      BY <3>2, <3>4, <3>5, SumBound, QuotaAssumption
    <3>7. g[Clients] \in Int
      BY <3>2 DEF Sums
    <3> QED
      BY <2>1, <3>2, <3>3, <3>4, <3>6, <3>7
  <2>3. CASE client[c].pc = "fallback"
    <3>1. ReserveInDB(c)
      <4>1. ASSUME NEW d \in Clients, CacheReserve(d) \/ HydrateRead(d) \/ HydrateWrite(d)
                                      \/ Persist(d) \/ Undo(d)
            PROVE  FALSE
        <5>1. d # c
          BY <2>3, <4>1 DEF CacheReserve, HydrateRead, HydrateWrite, Persist, Undo
        <5> QED
          BY <2>c, <2>3, <4>1, <5>1
             DEF CacheReserve, HydrateRead, HydrateWrite, Persist, Undo, GoTo
      <4>2. ASSUME NEW d \in Clients, NEW a \in Amounts,
                   TryReserve(d, a) \/ DecreaseUserQuota(d, a)
                   \/ \E now \in BOOLEAN : IncreaseUserQuota(d, a, now)
            PROVE  FALSE
        <5>1. d # c
          BY <2>3, <4>2 DEF TryReserve, IncreaseUserQuota, DecreaseUserQuota, MayChange
        <5> QED
          BY <2>c, <2>3, <4>2, <5>1
             DEF TryReserve, IncreaseUserQuota, DecreaseUserQuota, GoTo
      <4>6. ASSUME NEW d \in Clients, NEW now \in BOOLEAN, Charge(d, now)
            PROVE  FALSE
        <5>1. d # c
          BY <2>3, <4>6 DEF Charge
        <5> QED
          BY <2>c, <2>3, <4>6, <5>1 DEF Charge
      <4>3. ASSUME NEW d \in Clients, ReserveInDB(d)
            PROVE  ReserveInDB(c)
        BY <2>c, <2>3, <4>3 DEF ReserveInDB, GoTo
      <4>4. CASE client' = client
        BY <2>3, <4>4
      <4>5. CASE Crash
        BY <4>5 DEF Crash, Idle
      <4> QED
        BY <1>1, <4>1, <4>2, <4>3, <4>4, <4>5, <4>6
           DEF Next, vars, ApplyDelta, SwapStores, WriteStores, Expire
    <3>2. db >= client[c].amt
      BY <2>c, <3>1 DEF ReserveInDB, GoTo, Calls
    <3> QED
      BY <2>1, <3>2
  <2> QED
    BY <2>2, <2>3
<1> QED
  BY <1>1, WholeAlways, PTL DEF Spec, ReserveIsCovered
==============================================================================
