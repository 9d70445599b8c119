---------------------------- MODULE ConsoleProofs ----------------------------
(***************************************************************************)
(* Theorems about the pages of the console, for every set of models,       *)
(* options, lists, words and payment methods and for every bound: each     *)
(* page keeps what it promises (PagesKeepTheirWord); and about the orders  *)
(* that its wallet asks the server for (TopUp).                            *)
(*                                                                         *)
(* The pages share the variables v1 to v13; each section says which        *)
(* variable of its page each of them is.                                   *)
(***************************************************************************)
EXTENDS Console, TopUp, FiniteSetTheorems, WellFoundedInduction, TLAPS

\* A set of natural numbers has a least one, and a bounded one a greatest.
LEMMA LeastNatural ==
  ASSUME NEW S \in SUBSET Nat, S # {}
  PROVE  \E n \in S : \A m \in S : n <= m
<1>1. PICK n \in S : \A m \in S : ~(<<m, n>> \in OpToRel(<, Nat))
  BY NatLessThanWellFounded, WFMin, Zenon
<1>2. ASSUME NEW m \in S PROVE n <= m
  <2>1. ~(m < n)
    BY <1>1 DEF OpToRel
  <2> QED
    BY <2>1
<1> QED
  BY <1>2

LEMMA GreatestNatural ==
  ASSUME NEW N \in Nat, NEW S \in SUBSET (0..N), S # {}
  PROVE  \E n \in S : \A m \in S : m <= n
<1> DEFINE T == {N - n : n \in S}
<1>1. T \in SUBSET Nat /\ T # {}
  <2>1. \A n \in S : N - n \in Nat
    OBVIOUS
  <2> QED
    BY <2>1
<1>2. PICK t \in T : \A u \in T : t <= u
  BY <1>1, LeastNatural
<1>3. PICK n \in S : t = N - n
  OBVIOUS
<1>4. ASSUME NEW m \in S PROVE m <= n
  <2>1. N - m \in T
    OBVIOUS
  <2>2. t <= N - m
    BY <1>2, <2>1
  <2> QED
    BY <1>3, <2>2
<1> QED
  BY <1>4
-----------------------------------------------------------------------------
(***************************************************************************)
(* Paying from the wallet, module WalletPayment: v1 amount, v2 method,     *)
(* v3 waffo, v4 price, v5 calculating, v6 choosing, v7 dialog,             *)
(* v8 processing, v9 quotes, v10 payments, v11 events, v12 faults.         *)
(***************************************************************************)

\* A waffo method has its index; the dialog, and every price that will open it,
\* has a method; a payment under way is the only one and keeps its hook busy.
WalletInv ==
  /\ Wallet!TypeOK
  /\ v2 # Wallet!NoMethod => (Kind[v2] = "waffo" => v3)
  /\ v7 => v2 # Wallet!NoMethod
  /\ \A q \in v9 : q.opens => v2 # Wallet!NoMethod
  /\ \A p \in v10 : v8[Kind[p.method]] /\ v10 = {p}

LEMMA WalletKeepsWord == WalletInv => Wallet!OneOrderAtATime /\ Wallet!ConfirmAsks
<1> SUFFICES ASSUME WalletInv PROVE Wallet!OneOrderAtATime /\ Wallet!ConfirmAsks
  OBVIOUS
<1>1. Wallet!OneOrderAtATime
  BY DEF WalletInv, Wallet!OneOrderAtATime
<1>2. Wallet!ConfirmAsks
  BY DEF WalletInv, Wallet!ConfirmAsks
<1> QED
  BY <1>1, <1>2

LEMMA WalletStarts == Wallet!Init => WalletInv
<1> SUFFICES ASSUME Wallet!Init PROVE WalletInv
  OBVIOUS
<1> USE ConsoleAssumption DEF ConsoleAssumption, Wallet!WalletAssumption
<1>1. Wallet!LeastAmount \in Amounts
  <2>1. \E a \in Amounts : \A b \in Amounts : a <= b
    BY LeastNatural
  <2> QED
    BY <2>1 DEF Wallet!LeastAmount
<1>2. v9 \subseteq [id : 0..MaxEvents, amount : Amounts, method : Methods, opens : BOOLEAN]
  <2>1. 0 \in 0..MaxEvents
    OBVIOUS
  <2> QED
    BY <1>1, <2>1 DEF Wallet!Init
<1>3. v8 \in [Wallet!Kinds -> BOOLEAN] /\ v11 \in 0..MaxEvents /\ v12 \in 0..MaxRequestFaults
  BY DEF Wallet!Init
<1>4. Wallet!TypeOK
  BY <1>1, <1>2, <1>3 DEF Wallet!Init, Wallet!TypeOK
<1> QED
  BY <1>4 DEF Wallet!Init, WalletInv

LEMMA WalletSteps == WalletInv /\ Wallet!Next => WalletInv'
<1> SUFFICES ASSUME WalletInv, Wallet!Next PROVE WalletInv'
  OBVIOUS
<1> USE ConsoleAssumption DEF ConsoleAssumption, Wallet!WalletAssumption, WalletInv
<1>1. Wallet!TypeOK
  OBVIOUS
<1>2. ASSUME NEW a \in Amounts, Wallet!ChangeAmount(a) PROVE WalletInv'
  <2>1. Wallet!CurrentPaymentType \in Methods
    BY <1>1 DEF Wallet!CurrentPaymentType, Wallet!TypeOK
  <2>2. v11' \in 0..MaxEvents
    BY <1>1, <1>2 DEF Wallet!ChangeAmount, Wallet!Event, Wallet!TypeOK
  <2>3. [id |-> v11', amount |-> a, method |-> Wallet!CurrentPaymentType, opens |-> FALSE]
           \in [id : 0..MaxEvents, amount : Amounts, method : Methods, opens : BOOLEAN]
    BY <2>1, <2>2
  <2>4. Wallet!TypeOK'
    BY <1>1, <1>2, <2>2, <2>3 DEF Wallet!ChangeAmount, Wallet!Quote, Wallet!TypeOK
  <2> QED
    BY <1>2, <2>4 DEF Wallet!ChangeAmount, Wallet!Quote
<1>3. ASSUME NEW m \in Methods, Wallet!ChooseMethod(m) PROVE WalletInv'
  <2>1. v11' \in 0..MaxEvents /\ v1 \in Amounts
    BY <1>1, <1>3 DEF Wallet!ChooseMethod, Wallet!Event, Wallet!TypeOK
  <2>2. [id |-> v11', amount |-> v1, method |-> m, opens |-> TRUE]
           \in [id : 0..MaxEvents, amount : Amounts, method : Methods, opens : BOOLEAN]
    BY <2>1
  <2>3. v3' \in BOOLEAN /\ v5' \in BOOLEAN
    BY <1>3 DEF Wallet!ChooseMethod, Wallet!Quote, Wallet!IndexSet
  <2>4. Wallet!TypeOK'
    BY <1>1, <1>3, <2>1, <2>2, <2>3 DEF Wallet!ChooseMethod, Wallet!Quote, Wallet!TypeOK
  <2> QED
    BY <1>3, <2>4 DEF Wallet!ChooseMethod, Wallet!IndexSet, Wallet!NoMethod
<1>4. ASSUME Wallet!Confirm PROVE WalletInv'
  <2>1. v2 \in Methods /\ Kind[v2] \in Wallet!Kinds
    BY <1>1, <1>4 DEF Wallet!Confirm, Wallet!TypeOK
  <2>2. Wallet!TypeOK'
    BY <1>1, <1>4, <2>1 DEF Wallet!Confirm, Wallet!Event, Wallet!TypeOK
  <2>3. v10 = {}
    <3> SUFFICES ASSUME NEW p \in v10 PROVE FALSE
      OBVIOUS
    <3>1. p.method \in Methods
      BY <1>1 DEF Wallet!TypeOK
    <3>2. Kind[p.method] \in Wallet!Kinds /\ v8[Kind[p.method]]
      BY <3>1
    <3> QED
      BY <1>4, <3>2 DEF Wallet!Confirm, Wallet!Busy
  <2>4. v10' = {[id |-> v11', amount |-> v1, method |-> v2]}
    BY <1>4, <2>3 DEF Wallet!Confirm
  <2>5. v8'[Kind[v2]]
    BY <1>1, <1>4, <2>1 DEF Wallet!Confirm, Wallet!TypeOK
  <2>6. \A p \in v10' : v8'[Kind[p.method]] /\ v10' = {p}
    BY <2>4, <2>5
  <2> QED
    BY <1>4, <2>2, <2>6 DEF Wallet!Confirm
<1>5. ASSUME Wallet!CloseDialog PROVE WalletInv'
  BY <1>1, <1>5 DEF Wallet!CloseDialog, Wallet!TypeOK
<1>6. ASSUME NEW q \in v9, Wallet!QuoteAnswered(q) PROVE WalletInv'
  <2>1. /\ q.amount \in Amounts /\ q.method \in Methods /\ q.opens \in BOOLEAN
        /\ v9' \subseteq v9
    BY <1>1, <1>6 DEF Wallet!TypeOK, Wallet!QuoteAnswered
  <2>2. v12' \in 0..MaxRequestFaults /\ v4' \in Wallet!Prices \cup {Wallet!NoPrice}
    BY <1>1, <1>6, <2>1 DEF Wallet!TypeOK, Wallet!QuoteAnswered, Wallet!Prices
  <2>3. Wallet!TypeOK'
    BY <1>1, <1>6, <2>1, <2>2 DEF Wallet!TypeOK, Wallet!QuoteAnswered
  <2>4. v7' => v2 # Wallet!NoMethod
    BY <1>6 DEF Wallet!QuoteAnswered
  <2> QED
    BY <1>6, <2>1, <2>3, <2>4 DEF Wallet!QuoteAnswered
<1>7. ASSUME NEW p \in v10, Wallet!PaymentAnswered(p) PROVE WalletInv'
  <2>1. v12' \in 0..MaxRequestFaults
    BY <1>1, <1>7 DEF Wallet!TypeOK, Wallet!PaymentAnswered
  <2>4. v7' = FALSE \/ v7' = v7
    BY <1>7 DEF Wallet!PaymentAnswered
  <2>2. v10' = {}
    BY <1>7 DEF Wallet!PaymentAnswered
  <2>3. Wallet!TypeOK'
    BY <1>1, <1>7, <2>1, <2>2, <2>4 DEF Wallet!TypeOK, Wallet!PaymentAnswered
  <2> QED
    BY <1>7, <2>2, <2>3, <2>4 DEF Wallet!PaymentAnswered
<1> QED
  BY <1>2, <1>3, <1>4, <1>5, <1>6, <1>7 DEF Wallet!Next
-----------------------------------------------------------------------------
(***************************************************************************)
(* The order history, module BillingHistory: v1 isAdmin, v2 page, v3 size, *)
(* v4 keyword, v5 debounced, v6 latest, v7 loading, v8 records,            *)
(* v9 requests, v10 confirming, v11 completion, v12 left, v13 events,      *)
(* v14 faults.                                                             *)
(***************************************************************************)

\* Once the word has settled, the request that counts is for what the dialog
\* shows, unless it was the refresh of a page that had been left.
HistoryInv ==
  /\ History!TypeOK
  /\ ~v12 /\ v4 = v5 => \A r \in v9 : r.id = v6 => r.query = History!Query
  /\ History!RowsAreOfPage

LEMMA HistoryConstants ==
  /\ History!MaxPage \in Nat /\ 1 \in 1..History!MaxPage
  /\ History!FirstSize \in Sizes
<1> USE ConsoleAssumption DEF ConsoleAssumption, History!HistoryAssumption
<1>1. PICK m \in {OrdersFor[w] : w \in Words} : \A w \in Words : OrdersFor[w] <= m
  OBVIOUS
<1>2. \E c \in {OrdersFor[w] : w \in Words} : History!MaxPage = 1 + c
  BY <1>1 DEF History!MaxPage
<1>3. History!MaxPage \in Nat /\ 1 \in 1..History!MaxPage
  BY <1>2
<1>4. \E n \in Sizes : \A k \in Sizes : n <= k
  BY LeastNatural
<1>5. History!FirstSize \in Sizes
  BY <1>4 DEF History!FirstSize
<1> QED
  BY <1>3, <1>5

LEMMA HistoryStarts == History!Init => HistoryInv
<1> SUFFICES ASSUME History!Init PROVE HistoryInv
  OBVIOUS
<1> USE ConsoleAssumption DEF ConsoleAssumption, History!HistoryAssumption
<1> DEFINE q == [page |-> 1, size |-> History!FirstSize, word |-> NoWord]
<1>1. q \in History!Queries
  BY HistoryConstants DEF History!Queries
<1>2. v9 = {[id |-> 1, query |-> q]} /\ v6 = 1
  BY DEF History!Init
<1>3. v9 \subseteq [id : 1..v6, query : History!Queries]
  BY <1>1, <1>2
<1>4. History!TypeOK
  <2>1. /\ v2 \in 1..History!MaxPage /\ v3 \in Sizes
        /\ v4 \in Words /\ v5 \in Words
        /\ v13 \in 0..MaxEvents /\ v14 \in 0..MaxRequestFaults
    BY HistoryConstants DEF History!Init
  <2>2. v1 \in BOOLEAN /\ v7 \in BOOLEAN /\ v10 \in BOOLEAN /\ v12 \in BOOLEAN
    BY DEF History!Init
  <2>3. v8 = History!NoRecords /\ v11 = History!NoCompletion /\ v6 \in Nat
    BY DEF History!Init
  <2> QED
    BY <1>3, <2>1, <2>2, <2>3 DEF History!TypeOK
<1>5. q = History!Query
  BY DEF History!Init, History!Query
<1> QED
  BY <1>2, <1>4, <1>5 DEF History!Init, HistoryInv, History!RowsAreOfPage

\* A fetch: the new request is the one that counts.
LEMMA FetchCounts ==
  ASSUME History!TypeOK, NEW q \in History!Queries, History!Fetch(q)
  PROVE  /\ v6' \in Nat /\ v6' = v6 + 1 /\ v7' = TRUE
         /\ v9' \subseteq [id : 1..v6', query : History!Queries]
         /\ \A r \in v9' : r.id = v6' => r.query = q
         /\ v12' \in BOOLEAN /\ (~v12' => q = History!Query')
<1>1. v6 \in Nat /\ v6' = v6 + 1 /\ v9' = v9 \cup {[id |-> v6 + 1, query |-> q]} /\ v7' = TRUE
  BY DEF History!TypeOK, History!Fetch
<1>2. ASSUME NEW r \in v9 PROVE r \in [id : 1..v6', query : History!Queries] /\ r.id # v6'
  <2>1. r \in [id : 1..v6, query : History!Queries]
    BY DEF History!TypeOK
  <2>2. r.id \in 1..v6
    BY <2>1
  <2> QED
    BY <1>1, <2>1, <2>2
<1>3. [id |-> v6 + 1, query |-> q] \in [id : 1..v6', query : History!Queries]
  BY <1>1
<1>4. v12' \in BOOLEAN /\ (~v12' => q = History!Query')
  BY DEF History!Fetch, History!Query
<1> QED
  BY <1>1, <1>2, <1>3, <1>4

\* The effect, for the page, the size and the words that a step leaves.
LEMMA EffectCounts ==
  ASSUME HistoryInv, History!Effect, UNCHANGED <<v1, v8>>,
         v2' \in 1..History!MaxPage, v3' \in Sizes, v4' \in Words, v5' \in Words
  PROVE  /\ v6' \in Nat /\ v6 <= v6' /\ v7' \in BOOLEAN
         /\ v9' \subseteq [id : 1..v6', query : History!Queries]
         /\ v12' \in BOOLEAN
         /\ (~v12' /\ v4' = v5' => \A r \in v9' : r.id = v6' => r.query = History!Query')
         /\ History!RowsAreOfPage'
<1>1. CASE v4' = v5'
  <2> DEFINE q == [page |-> v2', size |-> v3', word |-> v5']
  <2>1. q \in History!Queries /\ History!Query' = q
    BY DEF History!Queries, History!Query
  <2>2. History!Fetch(q)
    BY <1>1 DEF History!Effect
  <2>3. /\ v6' \in Nat /\ v6' = v6 + 1 /\ v7' = TRUE
        /\ v9' \subseteq [id : 1..v6', query : History!Queries]
        /\ \A r \in v9' : r.id = v6' => r.query = q
        /\ v12' \in BOOLEAN
    BY <2>1, <2>2, FetchCounts DEF HistoryInv
  <2>4. v6 \in Nat
    BY DEF HistoryInv, History!TypeOK
  <2> QED
    BY <1>1, <2>1, <2>3, <2>4 DEF History!RowsAreOfPage
<1>2. CASE v4' # v5'
  <2>1. UNCHANGED <<v6, v7, v9, v12>>
    BY <1>2 DEF History!Effect
  <2> QED
    BY <1>2, <2>1 DEF HistoryInv, History!TypeOK, History!RowsAreOfPage
<1> QED
  BY <1>1, <1>2

\* The completion stays well formed when requests are numbered on.
LEMMA CompletionFits ==
  ASSUME History!TypeOK, v6' \in Nat, v6 <= v6'
  PROVE  v11 \in {History!NoCompletion} \cup [stage : {"posted"}, query : History!Queries]
                 \cup [stage : {"refreshing"}, id : 1..v6']
<1>1. ASSUME v11 \in [stage : {"refreshing"}, id : 1..v6]
      PROVE  v11 \in [stage : {"refreshing"}, id : 1..v6']
  <2>1. v11.id \in 1..v6 /\ v6 \in Nat
    BY <1>1 DEF History!TypeOK
  <2>2. v11.id \in 1..v6'
    BY <2>1
  <2> QED
    BY <1>1, <2>2
<1> QED
  BY <1>1 DEF History!TypeOK

\* What a step must leave, apart from the types of what it did not touch.
LEMMA HistoryKept ==
  ASSUME HistoryInv, UNCHANGED v1, v2' \in 1..History!MaxPage, v3' \in Sizes,
         v4' \in Words, v5' \in Words, v6' \in Nat, v6 <= v6', v7' \in BOOLEAN,
         v8' \in History!Queries \cup {History!NoRecords},
         v9' \subseteq [id : 1..v6', query : History!Queries],
         v10' \in BOOLEAN,
         v11' \in {History!NoCompletion} \cup [stage : {"posted"}, query : History!Queries]
                  \cup [stage : {"refreshing"}, id : 1..v6'],
         v13' \in 0..MaxEvents, v14' \in 0..MaxRequestFaults,
         v12' \in BOOLEAN,
         (~v12' /\ v4' = v5' => \A r \in v9' : r.id = v6' => r.query = History!Query'),
         History!RowsAreOfPage'
  PROVE  HistoryInv'
BY DEF HistoryInv, History!TypeOK

\* The steps of the user and of the timer that end in the effect.
LEMMA HistoryEffectSteps ==
  ASSUME HistoryInv,
         \/ \E p \in 1..History!MaxPage : History!ChangePage(p)
         \/ \E n \in Sizes : History!ChangeSize(n)
         \/ History!Settle
  PROVE  HistoryInv'
<1> USE ConsoleAssumption DEF ConsoleAssumption, History!HistoryAssumption
<1>0. History!TypeOK
  BY DEF HistoryInv
<1> DEFINE Changed ==
             /\ History!Effect
             /\ UNCHANGED <<v1, v8, v10, v11, v14>>
             /\ v2' \in 1..History!MaxPage /\ v3' \in Sizes
             /\ v4' \in Words /\ v5' \in Words
             /\ v13' \in 0..MaxEvents
<1>1. Changed
  <2>1. ASSUME NEW p \in 1..History!MaxPage, History!ChangePage(p) PROVE Changed
    BY <1>0, <2>1 DEF History!ChangePage, History!Event, History!TypeOK
  <2>2. ASSUME NEW n \in Sizes, History!ChangeSize(n) PROVE Changed
    BY <1>0, <2>2, HistoryConstants DEF History!ChangeSize, History!Event, History!TypeOK
  <2>3. ASSUME History!Settle PROVE Changed
    BY <1>0, <2>3 DEF History!Settle, History!TypeOK
  <2> QED
    BY <2>1, <2>2, <2>3
<1>2. /\ v6' \in Nat /\ v6 <= v6' /\ v7' \in BOOLEAN
      /\ v9' \subseteq [id : 1..v6', query : History!Queries]
      /\ v12' \in BOOLEAN
      /\ (~v12' /\ v4' = v5' => \A r \in v9' : r.id = v6' => r.query = History!Query')
      /\ History!RowsAreOfPage'
  BY <1>1, EffectCounts
<1>3. v11' \in {History!NoCompletion} \cup [stage : {"posted"}, query : History!Queries]
               \cup [stage : {"refreshing"}, id : 1..v6']
  BY <1>0, <1>1, <1>2, CompletionFits
<1>4. v8' \in History!Queries \cup {History!NoRecords} /\ v14' \in 0..MaxRequestFaults
  BY <1>0, <1>1 DEF History!TypeOK
<1>5. v10' \in BOOLEAN
  BY <1>0, <1>1 DEF History!TypeOK
<1> QED
  BY <1>1, <1>2, <1>3, <1>4, <1>5, HistoryKept

LEMMA HistorySearchStep ==
  ASSUME HistoryInv, NEW w \in Words, History!Search(w)
  PROVE  HistoryInv'
<1> USE ConsoleAssumption DEF ConsoleAssumption, History!HistoryAssumption
<1>0. History!TypeOK
  BY DEF HistoryInv
<1>1. /\ UNCHANGED <<v1, v3, v5, v8, v10, v11, v14>>
      /\ v2' = 1 /\ v4' = w /\ v13' \in 0..MaxEvents
  BY <1>0 DEF History!Search, History!Event, History!TypeOK
<1>2. /\ v6' \in Nat /\ v6 <= v6' /\ v7' \in BOOLEAN
      /\ v9' \subseteq [id : 1..v6', query : History!Queries]
      /\ v12' \in BOOLEAN
      /\ (~v12' /\ v4' = v5' => \A r \in v9' : r.id = v6' => r.query = History!Query')
      /\ History!RowsAreOfPage'
  <2>1. v6 \in Nat /\ v9 \subseteq [id : 1..v6, query : History!Queries]
    BY <1>0 DEF History!TypeOK
  <2>2. ASSUME NEW n \in Nat, v6 < n, NEW r \in v9
        PROVE  r \in [id : 1..n, query : History!Queries] /\ r.id # n
    <3>1. r \in [id : 1..v6, query : History!Queries] /\ r.id \in 1..v6
      BY <2>1
    <3>2. r.id \in 1..n /\ r.id # n
      BY <2>1, <2>2, <3>1
    <3> QED
      BY <3>1, <3>2
  <2>3. CASE w = v5
    <3> DEFINE q == [page |-> 1, size |-> v3, word |-> w]
    <3>1. q \in History!Queries
      BY <1>0, HistoryConstants DEF History!Queries, History!TypeOK
    <3>2. History!Query' = q
      BY <1>1, <2>3 DEF History!Query
    <3>3. /\ v6' = v6 + 2 /\ v7' = TRUE /\ v12' = FALSE
          /\ v9' = v9 \cup {[id |-> v6 + 2, query |-> q]}
      BY <2>3 DEF History!Search
    <3>4. v6' \in Nat /\ v6 < v6'
      BY <2>1, <3>3
    <3>5. [id |-> v6', query |-> q] \in [id : 1..v6', query : History!Queries]
      BY <2>1, <3>1, <3>4
    <3>6. v9' \subseteq [id : 1..v6', query : History!Queries]
      BY <2>2, <3>3, <3>4, <3>5
    <3>7. \A r \in v9' : r.id = v6' => r.query = q
      BY <2>2, <3>3, <3>4
    <3>8. v4' = v5'
      BY <1>1, <2>3
    <3>9. History!RowsAreOfPage'
      BY <3>3 DEF History!RowsAreOfPage
    <3> HIDE DEF q
    <3>10. v6 <= v6'
      BY <2>1, <3>4
    <3>11. v7' \in BOOLEAN /\ v12' \in BOOLEAN
      BY <3>3
    <3> QED
      BY <3>2, <3>4, <3>6, <3>7, <3>9, <3>10, <3>11
  <2>4. CASE w # v5
    <3>1. v6' = v6 + 1 /\ v9' = v9 /\ v7' = v7 /\ v12' = v12 /\ v4' # v5'
      BY <1>1, <2>4 DEF History!Search
    <3>2. v6' \in Nat /\ v6 < v6'
      BY <2>1, <3>1
    <3>3. History!RowsAreOfPage'
      BY <1>1, <2>4 DEF History!RowsAreOfPage
    <3> QED
      BY <1>0, <2>1, <2>2, <3>1, <3>2, <3>3 DEF History!TypeOK
  <2> QED
    BY <2>3, <2>4
<1>3. v11' \in {History!NoCompletion} \cup [stage : {"posted"}, query : History!Queries]
               \cup [stage : {"refreshing"}, id : 1..v6']
  BY <1>0, <1>1, <1>2, CompletionFits
<1>4. /\ v2' \in 1..History!MaxPage /\ v3' \in Sizes /\ v4' \in Words /\ v5' \in Words
      /\ v8' \in History!Queries \cup {History!NoRecords} /\ v14' \in 0..MaxRequestFaults
  BY <1>0, <1>1, HistoryConstants DEF History!TypeOK
<1>5. v10' \in BOOLEAN
  BY <1>0, <1>1 DEF History!TypeOK
<1> QED
  BY <1>1, <1>2, <1>3, <1>4, <1>5, HistoryKept

\* The question an administrator is asked.
LEMMA HistoryQuestionSteps ==
  ASSUME HistoryInv, History!AskComplete \/ History!CloseQuestion \/ History!ConfirmComplete
  PROVE  HistoryInv'
<1> USE ConsoleAssumption DEF ConsoleAssumption, History!HistoryAssumption
<1>0. History!TypeOK
  BY DEF HistoryInv
<1>1. UNCHANGED <<v1, v2, v3, v4, v5, v6, v7, v8, v9, v12, v14>>
  BY DEF History!AskComplete, History!CloseQuestion, History!ConfirmComplete
<1>2. v13' \in 0..MaxEvents
  BY <1>0 DEF History!AskComplete, History!CloseQuestion, History!ConfirmComplete,
              History!Event, History!TypeOK
<1>3. History!Query \in History!Queries
  BY <1>0 DEF History!Query, History!Queries, History!TypeOK
<1>4. v11' = v11 \/ (v10 /\ v11' = [stage |-> "posted", query |-> History!Query])
  BY DEF History!AskComplete, History!CloseQuestion, History!ConfirmComplete
<1>5. v11' \in {History!NoCompletion} \cup [stage : {"posted"}, query : History!Queries]
               \cup [stage : {"refreshing"}, id : 1..v6]
  <2>1. [stage |-> "posted", query |-> History!Query] \in [stage : {"posted"}, query : History!Queries]
    BY <1>3
  <2> QED
    BY <1>0, <1>4, <2>1 DEF History!TypeOK
<1>6. v10' \in BOOLEAN
  BY <1>0 DEF History!AskComplete, History!CloseQuestion, History!ConfirmComplete, History!TypeOK
<1> QED
  BY <1>0, <1>1, <1>2, <1>5, <1>6
     DEF HistoryInv, History!TypeOK, History!RowsAreOfPage, History!Query

\* An answer, and the end of a completion.
LEMMA HistoryAnswerStep ==
  ASSUME HistoryInv, NEW r \in v9, History!Answer(r)
  PROVE  HistoryInv'
<1> USE ConsoleAssumption DEF ConsoleAssumption, History!HistoryAssumption
<1>0. History!TypeOK
  BY DEF HistoryInv
<1>1. UNCHANGED <<v1, v2, v3, v4, v5, v6, v12, v13>> /\ v9' = v9 \ {r}
  BY DEF History!Answer
<1>2. r.query \in History!Queries
  BY <1>0 DEF History!TypeOK
<1>3. \/ r.id = v6 /\ v8' \in {r.query, History!NoRecords} /\ v7' = FALSE
      \/ r.id # v6 /\ v8' = v8 /\ v7' = v7
  BY DEF History!Answer, History!Counts
<1>4. v8' \in History!Queries \cup {History!NoRecords} /\ v7' \in BOOLEAN
  BY <1>0, <1>2, <1>3 DEF History!TypeOK
<1>5. v14' \in 0..MaxRequestFaults
  BY <1>0 DEF History!Answer, History!TypeOK
<1>6. (v11' = v11 /\ v10' = v10) \/ (v11' = History!NoCompletion /\ v10' = FALSE)
  BY DEF History!Answer
<1>7. v10' \in BOOLEAN
  <2>1. v10 \in BOOLEAN
    BY <1>0 DEF History!TypeOK
  <2>2. CASE v11' = v11 /\ v10' = v10
    BY <1>0, <2>1, <2>2
  <2>3. CASE v11' = History!NoCompletion /\ v10' = FALSE
    BY <2>3
  <2> QED
    BY <1>6, <2>2, <2>3
<1>8. v11' \in {History!NoCompletion} \cup [stage : {"posted"}, query : History!Queries]
               \cup [stage : {"refreshing"}, id : 1..v6']
  BY <1>0, <1>1, <1>6 DEF History!TypeOK
<1>9. ~v12' /\ v4' = v5' => \A s \in v9' : s.id = v6' => s.query = History!Query'
  BY <1>1 DEF HistoryInv, History!Query
<1>10. History!RowsAreOfPage'
  BY <1>1, <1>3 DEF HistoryInv, History!RowsAreOfPage, History!Query
<1>11. /\ v6' \in Nat /\ v6 <= v6' /\ v9' \subseteq [id : 1..v6', query : History!Queries]
       /\ v2' \in 1..History!MaxPage /\ v3' \in Sizes /\ v4' \in Words /\ v5' \in Words
       /\ v13' \in 0..MaxEvents /\ v12' \in BOOLEAN
  BY <1>0, <1>1 DEF History!TypeOK
<1> QED
  BY <1>1, <1>4, <1>5, <1>7, <1>8, <1>9, <1>10, <1>11, HistoryKept

LEMMA HistoryCompleteStep ==
  ASSUME HistoryInv, History!CompleteAnswered
  PROVE  HistoryInv'
<1> USE ConsoleAssumption DEF ConsoleAssumption, History!HistoryAssumption
<1>0. History!TypeOK /\ v11.stage = "posted" /\ v11 # History!NoCompletion
  BY DEF HistoryInv, History!CompleteAnswered, History!NoCompletion
<1>1. UNCHANGED <<v1, v2, v3, v4, v5, v8, v10, v13>>
  BY <1>0 DEF HistoryInv, History!CompleteAnswered
<1>2. v11.query \in History!Queries
  BY <1>0 DEF History!TypeOK, History!NoCompletion
<1>3. /\ v6' \in Nat /\ v6 <= v6' /\ v7' \in BOOLEAN
      /\ v9' \subseteq [id : 1..v6', query : History!Queries]
      /\ v11' \in {History!NoCompletion} \cup [stage : {"posted"}, query : History!Queries]
                  \cup [stage : {"refreshing"}, id : 1..v6']
      /\ v14' \in 0..MaxRequestFaults
      /\ v12' \in BOOLEAN
      /\ (~v12' /\ v4' = v5' => \A r \in v9' : r.id = v6' => r.query = History!Query')
      /\ History!RowsAreOfPage'
  <2>0. v6 \in Nat /\ v14 \in 0..MaxRequestFaults
    BY <1>0 DEF History!TypeOK
  <2>1. CASE /\ History!Fetch(v11.query)
             /\ v11' = [stage |-> "refreshing", id |-> v6 + 1]
             /\ UNCHANGED v14
    <3>1. /\ v6' \in Nat /\ v6' = v6 + 1 /\ v7' = TRUE
          /\ v9' \subseteq [id : 1..v6', query : History!Queries]
          /\ \A r \in v9' : r.id = v6' => r.query = v11.query
          /\ v12' \in BOOLEAN /\ (~v12' => v11.query = History!Query')
      BY <1>0, <1>2, <2>1, FetchCounts
    <3>2. v6 + 1 \in 1..v6' /\ v6 <= v6'
      BY <2>0, <3>1
    <3>3. v11' \in [stage : {"refreshing"}, id : 1..v6']
      BY <2>1, <3>2
    <3>4. History!RowsAreOfPage'
      BY <3>1 DEF History!RowsAreOfPage
    <3> QED
      BY <2>0, <2>1, <3>1, <3>2, <3>3, <3>4
  <2>2. CASE /\ v14 < MaxRequestFaults /\ v14' = v14 + 1
             /\ v11' = History!NoCompletion
             /\ UNCHANGED <<v6, v9, v7, v12>>
    <3>1. v14' \in 0..MaxRequestFaults /\ v6 <= v6'
      BY <2>0, <2>2
    <3>2. History!RowsAreOfPage' /\ History!Query' = History!Query
      BY <1>1, <2>2 DEF HistoryInv, History!RowsAreOfPage, History!Query
    <3> QED
      BY <1>0, <1>1, <2>0, <2>2, <3>1, <3>2 DEF History!TypeOK, HistoryInv
  <2> QED
    BY <2>1, <2>2 DEF History!CompleteAnswered
<1>4. /\ v8' \in History!Queries \cup {History!NoRecords}
      /\ v2' \in 1..History!MaxPage /\ v3' \in Sizes /\ v4' \in Words /\ v5' \in Words
      /\ v13' \in 0..MaxEvents
  BY <1>0, <1>1 DEF History!TypeOK
<1>5. v10' \in BOOLEAN
  BY <1>0, <1>1 DEF History!TypeOK
<1> QED
  BY <1>1, <1>3, <1>4, <1>5, HistoryKept

LEMMA HistorySteps == HistoryInv /\ History!Next => HistoryInv'
BY HistoryEffectSteps, HistorySearchStep, HistoryQuestionSteps, HistoryAnswerStep,
   HistoryCompleteStep DEF History!Next
-----------------------------------------------------------------------------
(***************************************************************************)
(* A settings form, module SettingsForm: v1 srv, v2 cache, v3 stale,       *)
(* v4 waiting, v5 get, v6 page, v7 form, v8 save, v9 typed, v10 behind,    *)
(* v11 crossed, v12 events.                                                *)
(***************************************************************************)

SaveRecords ==
  [pc : {"none", "sent", "stored", "refused", "failed", "over"},
   mine : BOOLEAN, data : Settings!Options, todo : SUBSET SavedKeys]

\* A save under way has something to send.
SoundSave(r) == r.pc \in {"sent", "stored", "refused"} => r.todo # {}

\* A field that differs from its base was typed into since the form was filled.
SettingsInv ==
  /\ Settings!TypeOK
  /\ Settings!Dirty(v7) \subseteq v9
  /\ \A s \in Settings!Saves : SoundSave(v8[s])

\* The option that is sent is one of those left.
LEMMA FirstIsLeft ==
  ASSUME NEW todo \in SUBSET SavedKeys, todo # {}
  PROVE  Settings!First(todo) \in todo
<1> USE ConsoleAssumption DEF ConsoleAssumption, Settings!SettingsFormAssumption
<1> DEFINE P == {KeyPosition[k] : k \in todo}
<1>1. P \in SUBSET Nat /\ P # {}
  OBVIOUS
<1>2. PICK n \in P : \A m \in P : n <= m
  BY <1>1, LeastNatural
<1>3. \E k \in todo : \A j \in todo : KeyPosition[k] <= KeyPosition[j]
  BY <1>2
<1> QED
  BY <1>3 DEF Settings!First

LEMMA BlankIsValid == Settings!TypeOK => Settings!Blank \in Settings!Options
<1> SUFFICES ASSUME Settings!TypeOK PROVE Settings!Blank \in Settings!Options
  OBVIOUS
<1>1. ASSUME NEW k \in SavedKeys PROVE (CHOOSE v \in Values : TRUE) \in Values
  <2>1. v1[k] \in Values
    BY DEF Settings!TypeOK, Settings!Options
  <2> QED
    BY <2>1
<1> QED
  BY <1>1 DEF Settings!Blank, Settings!Options

LEMMA SettingsStarts == Settings!Init => SettingsInv
<1> SUFFICES ASSUME Settings!Init PROVE SettingsInv
  OBVIOUS
<1> USE ConsoleAssumption DEF ConsoleAssumption, Settings!SettingsFormAssumption
<1>1. Settings!Blank \in Settings!Options
  <2>1. ASSUME NEW k \in SavedKeys PROVE (CHOOSE v \in Values : TRUE) \in Values
    <3>1. v1[k] \in Values
      BY DEF Settings!Init, Settings!Options
    <3> QED
      BY <3>1
  <2> QED
    BY <2>1 DEF Settings!Blank, Settings!Options
<1>2. Settings!NoSave \in SaveRecords /\ Settings!NoSave.todo = {} /\ Settings!NoSave.pc = "none"
  BY <1>1 DEF Settings!NoSave, SaveRecords
<1>3. v8 \in [Settings!Saves -> SaveRecords]
  BY <1>2 DEF Settings!Init
<1>4. v5 \in [pc : {"none", "sent", "answered"}, val : Settings!Options]
  BY <1>1 DEF Settings!Init, Settings!NoGet
<1>5. v7 \in [vals : Settings!Options, base : Settings!Options]
  BY DEF Settings!Init, Settings!FormOf
<1>6. v12 \in 0..MaxOutside
  BY DEF Settings!Init
<1>7. Settings!TypeOK
  BY <1>3, <1>4, <1>5, <1>6 DEF Settings!Init, Settings!TypeOK, SaveRecords
<1>8. \A s \in Settings!Saves : SoundSave(v8[s])
  BY <1>2 DEF Settings!Init, SoundSave
<1>9. v7.vals = v7.base
  BY DEF Settings!Init, Settings!FormOf
<1> QED
  BY <1>7, <1>8, <1>9 DEF SettingsInv, Settings!Dirty

\* What a step must leave.  A step that resets the form leaves no difference.
LEMMA SettingsKept ==
  ASSUME SettingsInv,
         v1' \in Settings!Options, v2' \in Settings!Options,
         v3' \in BOOLEAN, v4' \in BOOLEAN,
         v5' \in [pc : {"none", "sent", "answered"}, val : Settings!Options],
         v6' \in {"here", "asking", "away"},
         \/ v7' = v7 /\ v9' = v9
         \/ (\E o \in Settings!Options : v7' = Settings!FormOf(o)) /\ v9' \in {v9, {}},
         v8' \in [Settings!Saves -> SaveRecords],
         v10' \in BOOLEAN, v11' \in BOOLEAN, v12' \in 0..MaxOutside,
         \A s \in Settings!Saves : SoundSave(v8'[s])
  PROVE  SettingsInv'
<1>1. v7' \in [vals : Settings!Options, base : Settings!Options]
  BY DEF SettingsInv, Settings!TypeOK, Settings!FormOf
<1>2. Settings!Dirty(v7)' \subseteq v9'
  <2>1. CASE v7' = v7 /\ v9' = v9
    BY <2>1 DEF SettingsInv, Settings!Dirty
  <2>2. CASE \E o \in Settings!Options : v7' = Settings!FormOf(o)
    BY <2>2 DEF Settings!Dirty, Settings!FormOf
  <2> QED
    BY <2>1, <2>2
<1>3. v9' \subseteq SavedKeys
  BY DEF SettingsInv, Settings!TypeOK
<1>4. Settings!TypeOK'
  BY <1>1, <1>3 DEF Settings!TypeOK, SaveRecords
<1>5. \A s \in Settings!Saves : SoundSave(v8[s])'
  BY DEF SoundSave
<1> QED
  BY <1>2, <1>4, <1>5 DEF SettingsInv

\* The steps of the query and of the user's navigation.
LEMMA SettingsQuerySteps ==
  ASSUME SettingsInv,
         \/ Settings!ServeGet \/ Settings!GetAnswered \/ Settings!handleReset
         \/ Settings!Ask \/ Settings!Stay \/ Settings!Return
  PROVE  SettingsInv'
<1>0. Settings!TypeOK /\ Settings!Blank \in Settings!Options
  BY BlankIsValid DEF SettingsInv
<1>1. UNCHANGED <<v1, v8, v11, v12>>
  BY DEF Settings!ServeGet, Settings!GetAnswered, Settings!handleReset,
         Settings!Ask, Settings!Stay, Settings!Return
<1>2. v5.val \in Settings!Options /\ v7.base \in Settings!Options
  BY <1>0 DEF Settings!TypeOK
<1>3. v2' \in Settings!Options
  BY <1>0, <1>2
     DEF Settings!ServeGet, Settings!GetAnswered, Settings!handleReset,
         Settings!Ask, Settings!Stay, Settings!Return, Settings!TypeOK
<1>4. v5' \in [pc : {"none", "sent", "answered"}, val : Settings!Options]
  BY <1>0
     DEF Settings!ServeGet, Settings!GetAnswered, Settings!handleReset,
         Settings!Ask, Settings!Stay, Settings!Return, Settings!TypeOK,
         Settings!JoinGet, Settings!NoGet
<1>5. v3' \in BOOLEAN
  BY <1>0
     DEF Settings!ServeGet, Settings!GetAnswered, Settings!handleReset,
         Settings!Ask, Settings!Stay, Settings!Return, Settings!TypeOK
<1>6. v4' \in BOOLEAN
  BY <1>0
     DEF Settings!ServeGet, Settings!GetAnswered, Settings!handleReset,
         Settings!Ask, Settings!Stay, Settings!Return, Settings!TypeOK
<1>7. v6' \in {"here", "asking", "away"} /\ v10' \in BOOLEAN /\ v11' \in BOOLEAN
  BY <1>0
     DEF Settings!ServeGet, Settings!GetAnswered, Settings!handleReset,
         Settings!Ask, Settings!Stay, Settings!Return, Settings!TypeOK
<1>8. \/ v7' = v7 /\ v9' = v9
      \/ (\E o \in Settings!Options : v7' = Settings!FormOf(o)) /\ v9' \in {v9, {}}
  <2>1. CASE Settings!ServeGet \/ Settings!Ask \/ Settings!Stay
    BY <2>1 DEF Settings!ServeGet, Settings!Ask, Settings!Stay
  <2>2. CASE Settings!GetAnswered
    BY <1>3, <2>2 DEF Settings!GetAnswered, Settings!AfterEffect
  <2>3. CASE Settings!handleReset
    BY <1>0, <1>2, <2>3
       DEF Settings!handleReset, Settings!ResetBy, Settings!AfterEffect, Settings!TypeOK
  <2>4. CASE Settings!Return
    BY <1>0, <2>4 DEF Settings!Return, Settings!TypeOK
  <2> QED
    BY <2>1, <2>2, <2>3, <2>4
<1>9. v1' \in Settings!Options /\ v8' \in [Settings!Saves -> SaveRecords] /\ v12' \in 0..MaxOutside
  BY <1>0, <1>1 DEF Settings!TypeOK, SaveRecords
<1>10. \A s \in Settings!Saves : SoundSave(v8'[s])
  BY <1>1 DEF SettingsInv
<1> QED
  BY <1>1, <1>3, <1>4, <1>5, <1>6, <1>7, <1>8, <1>9, <1>10, SettingsKept

LEMMA SettingsTypeStep ==
  ASSUME SettingsInv, NEW k \in SavedKeys, NEW v \in Values, Settings!Type(k, v)
  PROVE  SettingsInv'
<1>0. Settings!TypeOK
  BY DEF SettingsInv
<1>1. v7' = [v7 EXCEPT !.vals[k] = v] /\ v9' = v9 \cup {k}
  BY DEF Settings!Type
<1>2. v7 \in [vals : Settings!Options, base : Settings!Options] /\ v9 \subseteq SavedKeys
  BY <1>0 DEF Settings!TypeOK
<1>3. /\ v7' \in [vals : Settings!Options, base : Settings!Options]
      /\ v7'.base = v7.base /\ v7'.vals = [v7.vals EXCEPT ![k] = v]
  BY <1>1, <1>2 DEF Settings!Options
<1>4. Settings!Dirty(v7)' \subseteq v9'
  <2> SUFFICES ASSUME NEW j \in SavedKeys, v7'.vals[j] # v7'.base[j], j # k PROVE j \in v9
    BY <1>1 DEF Settings!Dirty
  <2>1. v7'.vals[j] = v7.vals[j]
    BY <1>2, <1>3 DEF Settings!Options
  <2> QED
    BY <1>3, <2>1 DEF SettingsInv, Settings!Dirty
<1>5. UNCHANGED <<v1, v2, v3, v4, v5, v6, v8, v10, v11, v12>>
  BY DEF Settings!Type
<1>6. Settings!TypeOK'
  BY <1>0, <1>1, <1>2, <1>3, <1>5 DEF Settings!TypeOK
<1> QED
  BY <1>4, <1>5, <1>6 DEF SettingsInv, SoundSave

\* The changes that only the server or the saves see.
LEMMA SettingsOutsideStep ==
  ASSUME SettingsInv, NEW k \in SavedKeys, NEW v \in Values, Settings!EditedElsewhere(k, v)
  PROVE  SettingsInv'
<1> USE ConsoleAssumption DEF ConsoleAssumption, Settings!SettingsFormAssumption
<1>1. UNCHANGED <<v2, v3, v4, v5, v6, v7, v8, v9, v10, v11>> /\ v1' = [v1 EXCEPT ![k] = v]
  BY DEF Settings!EditedElsewhere
<1>2. v1' \in Settings!Options
  BY <1>1 DEF SettingsInv, Settings!TypeOK, Settings!Options
<1>3. v12' \in 0..MaxOutside
  BY DEF SettingsInv, Settings!TypeOK, Settings!EditedElsewhere
<1> QED
  BY <1>1, <1>2, <1>3 DEF SettingsInv, Settings!TypeOK, Settings!Dirty, SoundSave

LEMMA SettingsLeaveStep ==
  ASSUME SettingsInv, Settings!Leave
  PROVE  SettingsInv'
<1>0. Settings!TypeOK
  BY DEF SettingsInv
<1>1. /\ UNCHANGED <<v1, v2, v3, v4, v5, v7, v9, v10, v11, v12>> /\ v6' = "away"
      /\ v8' = [s \in Settings!Saves |-> [v8[s] EXCEPT !.mine = FALSE]]
  BY DEF Settings!Leave
<1>2. ASSUME NEW s \in Settings!Saves
      PROVE  v8'[s] \in SaveRecords /\ SoundSave(v8'[s])
  <2>1. v8[s] \in SaveRecords /\ SoundSave(v8[s])
    BY <1>0 DEF SettingsInv, Settings!TypeOK, SaveRecords
  <2>2. v8'[s] = [v8[s] EXCEPT !.mine = FALSE]
    BY <1>1
  <2> QED
    BY <2>1, <2>2 DEF SaveRecords, SoundSave
<1>3. v8' \in [Settings!Saves -> SaveRecords]
  BY <1>1, <1>2
<1> QED
  BY <1>0, <1>1, <1>2, <1>3, SettingsKept DEF Settings!TypeOK

\* A step of save s: the other saves stay as they are.
LEMMA SettingsSaveKept ==
  ASSUME SettingsInv, NEW s \in Settings!Saves, NEW r \in SaveRecords, SoundSave(r),
         v8' = [v8 EXCEPT ![s] = r]
  PROVE  /\ v8' \in [Settings!Saves -> SaveRecords]
         /\ \A t \in Settings!Saves : SoundSave(v8'[t])
<1>1. v8 \in [Settings!Saves -> SaveRecords]
  BY DEF SettingsInv, Settings!TypeOK, SaveRecords
<1> QED
  BY <1>1 DEF SettingsInv

LEMMA SettingsSubmitStep ==
  ASSUME SettingsInv, NEW s \in Settings!Saves, Settings!handleSubmit(s)
  PROVE  SettingsInv'
<1> DEFINE r == [pc |-> "sent", mine |-> TRUE, data |-> v7.vals, todo |-> Settings!Dirty(v7)]
<1>0. Settings!TypeOK
  BY DEF SettingsInv
<1>1. /\ UNCHANGED <<v1, v2, v3, v4, v5, v6, v7, v9, v10, v12>>
      /\ v8' = [v8 EXCEPT ![s] = r] /\ v11' \in BOOLEAN /\ Settings!Dirty(v7) # {}
  BY <1>0 DEF Settings!handleSubmit, Settings!TypeOK
<1>2. r \in SaveRecords
  BY <1>0 DEF Settings!TypeOK, SaveRecords, Settings!Dirty
<1>3. SoundSave(r)
  BY <1>1 DEF SoundSave
<1>4. v8' \in [Settings!Saves -> SaveRecords] /\ \A t \in Settings!Saves : SoundSave(v8'[t])
  BY <1>1, <1>2, <1>3, SettingsSaveKept
<1> QED
  BY <1>0, <1>1, <1>4, SettingsKept DEF Settings!TypeOK

LEMMA SettingsServeStep ==
  ASSUME SettingsInv, NEW s \in Settings!Saves, Settings!ServeUpdate(s)
  PROVE  SettingsInv'
<1> USE ConsoleAssumption DEF ConsoleAssumption, Settings!SettingsFormAssumption
<1> DEFINE k == Settings!First(v8[s].todo)
           stored == [v1 EXCEPT ![k] = v8[s].data[k]]
<1>0. Settings!TypeOK
  BY DEF SettingsInv
<1>1. UNCHANGED <<v2, v3, v4, v5, v6, v7, v9, v10, v11>> /\ v8[s].pc = "sent"
  BY DEF Settings!ServeUpdate
<1>2. v8[s] \in SaveRecords /\ SoundSave(v8[s])
  BY <1>0 DEF SettingsInv, Settings!TypeOK, SaveRecords
<1>3. k \in SavedKeys
  BY <1>1, <1>2, FirstIsLeft DEF SaveRecords, SoundSave
<1>4. stored \in Settings!Options
  BY <1>0, <1>2, <1>3 DEF Settings!TypeOK, Settings!Options, SaveRecords
<1>5. v1' \in {v1, stored} /\ v12' \in 0..MaxOutside
  BY <1>0 DEF Settings!ServeUpdate, Settings!TypeOK
<1>6. PICK c \in {"stored", "refused", "failed"} : v8' = [v8 EXCEPT ![s].pc = c]
  BY DEF Settings!ServeUpdate
<1>7. v8' = [v8 EXCEPT ![s] = [v8[s] EXCEPT !.pc = c]]
  BY <1>6
<1>8. [v8[s] EXCEPT !.pc = c] \in SaveRecords /\ SoundSave([v8[s] EXCEPT !.pc = c])
  BY <1>1, <1>2 DEF SaveRecords, SoundSave
<1>9. v8' \in [Settings!Saves -> SaveRecords] /\ \A t \in Settings!Saves : SoundSave(v8'[t])
  BY <1>1, <1>7, <1>8, SettingsSaveKept
<1>10. v1' \in Settings!Options
  BY <1>0, <1>4, <1>5 DEF Settings!TypeOK
<1> QED
  BY <1>0, <1>1, <1>5, <1>9, <1>10, SettingsKept DEF Settings!TypeOK

\* A save that ends has nothing left to send.
LEMMA SaveIsOver ==
  ASSUME Settings!TypeOK
  PROVE  /\ [Settings!NoSave EXCEPT !.pc = "over"] \in SaveRecords
         /\ SoundSave([Settings!NoSave EXCEPT !.pc = "over"])
BY BlankIsValid DEF Settings!NoSave, SaveRecords, SoundSave

LEMMA SettingsFailStep ==
  ASSUME SettingsInv, NEW s \in Settings!Saves, Settings!UpdateFailed(s)
  PROVE  SettingsInv'
<1>0. Settings!TypeOK
  BY DEF SettingsInv
<1>1. /\ UNCHANGED <<v1, v2, v3, v4, v5, v6, v7, v9, v10, v11, v12>>
      /\ v8' = [v8 EXCEPT ![s] = [Settings!NoSave EXCEPT !.pc = "over"]]
  BY DEF Settings!UpdateFailed
<1>2. v8' \in [Settings!Saves -> SaveRecords] /\ \A t \in Settings!Saves : SoundSave(v8'[t])
  BY <1>0, <1>1, SaveIsOver, SettingsSaveKept
<1> QED
  BY <1>0, <1>1, <1>2, SettingsKept DEF Settings!TypeOK

LEMMA SettingsAnswerStep ==
  ASSUME SettingsInv, NEW s \in Settings!Saves, Settings!UpdateAnswered(s)
  PROVE  SettingsInv'
<1> DEFINE k == Settings!First(v8[s].todo)
<1>0. Settings!TypeOK /\ Settings!Blank \in Settings!Options
  BY BlankIsValid DEF SettingsInv
<1>1. UNCHANGED <<v1, v2, v6, v10, v11, v12>> /\ v8[s].pc \in {"stored", "refused"}
  BY DEF Settings!UpdateAnswered
<1>2. v8[s] \in SaveRecords /\ SoundSave(v8[s])
  BY <1>0 DEF SettingsInv, Settings!TypeOK, SaveRecords
<1>3. k \in v8[s].todo
  BY <1>1, <1>2, FirstIsLeft DEF SaveRecords, SoundSave
<1>4. v5' \in [pc : {"none", "sent", "answered"}, val : Settings!Options]
  BY <1>0 DEF Settings!UpdateAnswered, Settings!Invalidate, Settings!TypeOK,
              Settings!JoinGet, Settings!NoGet
<1>5. v3' \in BOOLEAN
  BY <1>0 DEF Settings!UpdateAnswered, Settings!Invalidate, Settings!TypeOK
<1>6. v4' \in BOOLEAN
  BY <1>0 DEF Settings!UpdateAnswered, Settings!Invalidate, Settings!TypeOK
<1>7. /\ v8' \in [Settings!Saves -> SaveRecords] /\ \A t \in Settings!Saves : SoundSave(v8'[t])
      /\ \/ v7' = v7 /\ v9' = v9
         \/ (\E o \in Settings!Options : v7' = Settings!FormOf(o)) /\ v9' \in {v9, {}}
  <2>1. CASE Settings!NextOption(s)
    <3> DEFINE r == [v8[s] EXCEPT !.pc = "sent", !.todo = @ \ {Settings!First(@)}]
    <3>1. v8' = [v8 EXCEPT ![s] = r] /\ v7' = v7 /\ v9' = v9
      BY <2>1 DEF Settings!NextOption
    <3>2. r \in SaveRecords
      BY <1>2 DEF SaveRecords
    <3>3. r.todo = v8[s].todo \ {k} /\ r.data = v8[s].data /\ r.todo # {}
      BY <1>2, <1>3, <2>1 DEF SaveRecords, Settings!NextOption
    <3>4. SoundSave(r)
      BY <1>2, <3>3 DEF SoundSave
    <3>5. v8' \in [Settings!Saves -> SaveRecords] /\ \A t \in Settings!Saves : SoundSave(v8'[t])
      BY <1>1, <3>1, <3>2, <3>4, SettingsSaveKept
    <3> QED
      BY <3>1, <3>5
  <2>2. CASE Settings!LastOption(s)
    <3>1. v8' = [v8 EXCEPT ![s] = [Settings!NoSave EXCEPT !.pc = "over"]]
      BY <2>2 DEF Settings!LastOption
    <3>2. v8' \in [Settings!Saves -> SaveRecords] /\ \A t \in Settings!Saves : SoundSave(v8'[t])
      BY <1>0, <1>1, <3>1, SaveIsOver, SettingsSaveKept
    <3>3. v8[s].data \in Settings!Options /\ v2 \in Settings!Options
      BY <1>0, <1>2 DEF SaveRecords, Settings!TypeOK
    <3>4. \/ v7' = v7 /\ v9' = v9
          \/ (\E o \in Settings!Options : v7' = Settings!FormOf(o)) /\ v9' \in {v9, {}}
      BY <2>2, <3>3 DEF Settings!LastOption, Settings!ResetBy, Settings!AfterEffect
    <3> QED
      BY <3>2, <3>4
  <2> QED
    BY <2>1, <2>2 DEF Settings!UpdateAnswered
<1>8. /\ v1' \in Settings!Options /\ v2' \in Settings!Options
      /\ v6' \in {"here", "asking", "away"} /\ v12' \in 0..MaxOutside
      /\ v10' \in BOOLEAN /\ v11' \in BOOLEAN
  BY <1>0, <1>1 DEF Settings!TypeOK
<1> QED
  BY <1>1, <1>4, <1>5, <1>6, <1>7, <1>8, SettingsKept

LEMMA SettingsSteps == SettingsInv /\ Settings!Next => SettingsInv'
BY SettingsQuerySteps, SettingsTypeStep, SettingsOutsideStep, SettingsLeaveStep,
   SettingsSubmitStep, SettingsServeStep, SettingsFailStep, SettingsAnswerStep
   DEF Settings!Next

\* What a save takes on is what the user typed into.
LEMMA SettingsWritesTyped == SettingsInv /\ Settings!Next => Settings!OnlyTypedIsWritten
<1> SUFFICES ASSUME SettingsInv, Settings!Next, NEW s \in Settings!Saves
             PROVE  v8'[s].todo \subseteq v8[s].todo \cup v9
  BY DEF Settings!OnlyTypedIsWritten
<1>0. v8 \in [Settings!Saves -> SaveRecords] /\ Settings!Dirty(v7) \subseteq v9
  BY DEF SettingsInv, Settings!TypeOK, SaveRecords
<1>1. CASE UNCHANGED v8
  BY <1>1
<1>2. CASE Settings!Leave
  BY <1>0, <1>2 DEF Settings!Leave, SaveRecords
<1>3. ASSUME NEW t \in Settings!Saves, Settings!handleSubmit(t)
      PROVE  v8'[s].todo \subseteq v8[s].todo \cup v9
  BY <1>0, <1>3 DEF Settings!handleSubmit, SaveRecords
<1>4. ASSUME NEW t \in Settings!Saves, Settings!ServeUpdate(t)
      PROVE  v8'[s].todo \subseteq v8[s].todo \cup v9
  <2>1. PICK c \in {"stored", "refused", "failed"} : v8' = [v8 EXCEPT ![t].pc = c]
    BY <1>4 DEF Settings!ServeUpdate
  <2> QED
    BY <1>0, <2>1 DEF SaveRecords
<1>5. ASSUME NEW t \in Settings!Saves, Settings!UpdateAnswered(t)
      PROVE  v8'[s].todo \subseteq v8[s].todo \cup v9
  <2>1. CASE Settings!NextOption(t)
    BY <1>0, <2>1 DEF Settings!NextOption, SaveRecords
  <2>2. CASE Settings!LastOption(t)
    BY <1>0, <2>2 DEF Settings!LastOption, Settings!NoSave, SaveRecords
  <2> QED
    BY <1>5, <2>1, <2>2 DEF Settings!UpdateAnswered
<1>6. ASSUME NEW t \in Settings!Saves, Settings!UpdateFailed(t)
      PROVE  v8'[s].todo \subseteq v8[s].todo \cup v9
  BY <1>0, <1>6 DEF Settings!UpdateFailed, Settings!NoSave, SaveRecords
<1> QED
  BY <1>1, <1>2, <1>3, <1>4, <1>5, <1>6
     DEF Settings!Next, Settings!ServeGet, Settings!GetAnswered, Settings!handleReset,
         Settings!Ask, Settings!Stay, Settings!Return, Settings!Type,
         Settings!EditedElsewhere

\* One administrator, whose updates are all stored and whose saves do not cross.
Quiet == v12 = 0 /\ ~v11

\* What the query holds is the server's, or will be fetched again.
CacheIsRead ==
  \/ v2 = v1 \/ v10 \/ v4 \/ v3
  \/ \E s \in Settings!Saves : v8[s].pc = "stored"

OneSave == \A s, t \in Settings!Saves : Settings!Active(s) /\ Settings!Active(t) => s = t

\* Apart from what it has left to store, a save's data is the server's.
SaveFits ==
  \A s \in Settings!Saves : Settings!Active(s) =>
    /\ v8[s].pc \in {"sent", "stored"}
    /\ \A k \in SavedKeys \ v8[s].todo : v8[s].data[k] = v1[k]
    /\ v8[s].pc = "stored" =>
         v8[s].data[Settings!First(v8[s].todo)] = v1[Settings!First(v8[s].todo)]

\* The form was filled from the query, or by its own save with what was stored.
BaseIsKnown ==
  Settings!Mounted =>
    \/ v7.base = v2
    \/ \E s \in Settings!Saves : Settings!Active(s) /\ v8[s].mine
    \/ v7.base = v1 /\ \A s \in Settings!Saves : ~Settings!Active(s)

SettingsShow ==
  /\ Settings!Mounted => ~v3
  /\ Quiet => CacheIsRead /\ OneSave /\ SaveFits /\ BaseIsKnown

LEMMA SettingsKeepsWord == SettingsInv /\ SettingsShow => Settings!SavedIsShown
<1> SUFFICES ASSUME SettingsShow, Settings!AtRest, v12 = 0, ~v11, ~v10 PROVE v7.base = v1
  BY DEF Settings!SavedIsShown
<1>1. ASSUME NEW s \in Settings!Saves PROVE v8[s].pc # "stored" /\ ~Settings!Active(s)
  BY DEF Settings!AtRest, Settings!Active
<1> QED
  BY <1>1 DEF SettingsShow, Quiet, CacheIsRead, BaseIsKnown, Settings!AtRest

LEMMA ShowStarts == Settings!Init => SettingsShow
BY DEF Settings!Init, SettingsShow, CacheIsRead, OneSave, SaveFits, BaseIsKnown,
       Settings!Active, Settings!NoSave, Settings!FormOf, Settings!Mounted

\* The steps that leave the saves and the server as they are.
LEMMA ShowQuerySteps ==
  ASSUME SettingsInv, SettingsShow, UNCHANGED <<v1, v8, v11, v12>>,
         Settings!Mounted' => ~v3',
         Quiet /\ CacheIsRead => CacheIsRead',
         Quiet /\ BaseIsKnown => BaseIsKnown'
  PROVE  SettingsShow'
<1>1. Quiet' = Quiet
  BY DEF Quiet
<1>2. OneSave => OneSave'
  BY DEF OneSave, Settings!Active
<1>3. SaveFits => SaveFits'
  BY DEF SaveFits, Settings!Active
<1> QED
  BY <1>1, <1>2, <1>3 DEF SettingsShow

LEMMA ShowGetSteps ==
  ASSUME SettingsInv, SettingsShow,
         \/ Settings!ServeGet \/ Settings!GetAnswered \/ Settings!handleReset
         \/ Settings!Ask \/ Settings!Stay \/ Settings!Return
         \/ \E k \in SavedKeys, v \in Values : Settings!Type(k, v)
  PROVE  SettingsShow'
<1>0. Settings!TypeOK
  BY DEF SettingsInv
<1>1. CASE Settings!ServeGet \/ Settings!Ask \/ Settings!Stay
  <2>1. UNCHANGED <<v1, v2, v3, v4, v7, v8, v10, v11, v12>> /\ Settings!Mounted' = Settings!Mounted
    BY <1>1 DEF Settings!ServeGet, Settings!Ask, Settings!Stay, Settings!Mounted
  <2> QED
    BY <2>1, ShowQuerySteps DEF SettingsShow, CacheIsRead, BaseIsKnown, Settings!Active
<1>2. ASSUME NEW k \in SavedKeys, NEW v \in Values, Settings!Type(k, v) PROVE SettingsShow'
  <2>1. UNCHANGED <<v1, v2, v3, v4, v6, v8, v10, v11, v12>> /\ v7'.base = v7.base
    BY <1>0, <1>2 DEF Settings!Type, Settings!TypeOK
  <2> QED
    BY <2>1, ShowQuerySteps
       DEF SettingsShow, CacheIsRead, BaseIsKnown, Settings!Active, Settings!Mounted
<1>3. CASE Settings!handleReset
  <2>1. UNCHANGED <<v1, v2, v3, v4, v6, v8, v10, v11, v12>> /\ v7'.base \in {v7.base, v2}
    BY <1>3 DEF Settings!handleReset, Settings!ResetBy, Settings!AfterEffect, Settings!FormOf
  <2> QED
    BY <2>1, ShowQuerySteps
       DEF SettingsShow, CacheIsRead, BaseIsKnown, Settings!Active, Settings!Mounted
<1>4. CASE Settings!Return
  <2>1. UNCHANGED <<v1, v2, v8, v10, v11, v12>> /\ v7'.base = v2 /\ v3' = FALSE
    BY <1>4 DEF Settings!Return, Settings!FormOf
  <2>2. v4' = TRUE \/ (~v3 /\ v4' = v4)
    BY <1>4 DEF Settings!Return
  <2> QED
    BY <2>1, <2>2, ShowQuerySteps DEF CacheIsRead, BaseIsKnown
<1>5. CASE Settings!GetAnswered
  <2>1. UNCHANGED <<v1, v3, v6, v8, v11, v12>>
    BY <1>5 DEF Settings!GetAnswered
  <2>2. \/ v2' = v5.val /\ (v10' \/ v5.val = v1)
        \/ ~v4 /\ v2' = v2 /\ v10' = v10
    BY <1>5 DEF Settings!GetAnswered
  <2>3. Settings!Mounted => (v7'.base = v2' \/ (v2' = v2 /\ v7' = v7))
    BY <1>5 DEF Settings!GetAnswered, Settings!AfterEffect, Settings!FormOf
  <2>4. CacheIsRead => CacheIsRead'
    BY <2>1, <2>2 DEF CacheIsRead
  <2>5. BaseIsKnown => BaseIsKnown'
    BY <2>1, <2>3 DEF BaseIsKnown, Settings!Mounted, Settings!Active
  <2> QED
    BY <2>1, <2>4, <2>5, ShowQuerySteps DEF SettingsShow, Settings!Mounted
<1> QED
  BY <1>1, <1>2, <1>3, <1>4, <1>5

\* The page is left: the form is gone, its saves go on.
LEMMA ShowLeaveStep ==
  ASSUME SettingsInv, SettingsShow, Settings!Leave
  PROVE  SettingsShow'
<1>1. /\ UNCHANGED <<v1, v2, v3, v4, v7, v10, v11, v12>> /\ ~Settings!Mounted'
      /\ v8' = [s \in Settings!Saves |-> [v8[s] EXCEPT !.mine = FALSE]]
  BY DEF Settings!Leave, Settings!Mounted
<1>2. v8 \in [Settings!Saves -> SaveRecords]
  BY DEF SettingsInv, Settings!TypeOK, SaveRecords
<1>3. \A s \in Settings!Saves : v8'[s].pc = v8[s].pc /\ v8'[s].todo = v8[s].todo
                                 /\ v8'[s].data = v8[s].data
  BY <1>1, <1>2 DEF SaveRecords
<1> QED
  BY <1>1, <1>3
     DEF SettingsShow, Quiet, CacheIsRead, OneSave, SaveFits, BaseIsKnown, Settings!Active

\* What makes it no longer quiet.
LEMMA ShowOutsideStep ==
  ASSUME SettingsInv, SettingsShow, NEW k \in SavedKeys, NEW v \in Values,
         Settings!EditedElsewhere(k, v)
  PROVE  SettingsShow'
<1>1. v12' # 0 /\ UNCHANGED <<v3, v6>>
  BY DEF SettingsInv, Settings!TypeOK, Settings!EditedElsewhere
<1> QED
  BY <1>1 DEF SettingsShow, Quiet, Settings!Mounted

LEMMA ShowSubmitStep ==
  ASSUME SettingsInv, SettingsShow, NEW s \in Settings!Saves, Settings!handleSubmit(s)
  PROVE  SettingsShow'
<1> DEFINE r == [pc |-> "sent", mine |-> TRUE, data |-> v7.vals, todo |-> Settings!Dirty(v7)]
<1>0. v8 \in [Settings!Saves -> SaveRecords]
  BY DEF SettingsInv, Settings!TypeOK, SaveRecords
<1>1. /\ UNCHANGED <<v1, v2, v3, v4, v6, v7, v10, v12>>
      /\ v8' = [v8 EXCEPT ![s] = r]
  BY DEF Settings!handleSubmit
<1>2. v8'[s] = r /\ \A t \in Settings!Saves \ {s} : v8'[t] = v8[t]
  BY <1>0, <1>1
<1>3. SUFFICES ASSUME Quiet' PROVE CacheIsRead' /\ OneSave' /\ SaveFits' /\ BaseIsKnown'
  BY <1>1 DEF SettingsShow, Settings!Mounted
<1>4. Quiet /\ v7.base = v1 /\ \A t \in Settings!Saves : ~Settings!Active(t)
  BY <1>1, <1>3 DEF Quiet, Settings!handleSubmit
<1>5. \A t \in Settings!Saves \ {s} : ~Settings!Active(t)'
  BY <1>2, <1>4 DEF Settings!Active
<1>6. CacheIsRead'
  <2>1. ASSUME NEW t \in Settings!Saves PROVE v8[t].pc # "stored"
    BY <1>4 DEF Settings!Active
  <2> QED
    BY <1>1, <1>4, <2>1 DEF SettingsShow, CacheIsRead
<1>7. SaveFits'
  <2>1. \A k \in SavedKeys \ Settings!Dirty(v7) : v7.vals[k] = v1[k]
    BY <1>4 DEF Settings!Dirty
  <2> QED
    BY <1>1, <1>2, <1>5, <2>1 DEF SaveFits
<1>8. BaseIsKnown'
  BY <1>2 DEF BaseIsKnown, Settings!Active
<1> QED
  BY <1>5, <1>6, <1>7, <1>8 DEF OneSave

LEMMA ShowServeStep ==
  ASSUME SettingsInv, SettingsShow, NEW s \in Settings!Saves, Settings!ServeUpdate(s)
  PROVE  SettingsShow'
<1> DEFINE k == Settings!First(v8[s].todo)
<1>0. v8 \in [Settings!Saves -> SaveRecords] /\ v1 \in [SavedKeys -> Values] /\ v12 \in 0..MaxOutside
  BY DEF SettingsInv, Settings!TypeOK, SaveRecords, Settings!Options
<1>1. UNCHANGED <<v2, v3, v4, v6, v7, v10, v11>> /\ v8[s].pc = "sent"
  BY DEF Settings!ServeUpdate
<1>2. SUFFICES ASSUME Quiet' PROVE CacheIsRead' /\ OneSave' /\ SaveFits' /\ BaseIsKnown'
  BY <1>1 DEF SettingsShow, Settings!Mounted
<1>3. /\ v1' = [v1 EXCEPT ![k] = v8[s].data[k]] /\ v8' = [v8 EXCEPT ![s].pc = "stored"]
      /\ v12' = v12
  BY <1>0, <1>2 DEF Quiet, Settings!ServeUpdate
<1>4. Quiet /\ OneSave /\ SaveFits /\ BaseIsKnown
  BY <1>1, <1>2, <1>3 DEF Quiet, SettingsShow
<1>5. /\ v8'[s].pc = "stored" /\ v8'[s].todo = v8[s].todo /\ v8'[s].data = v8[s].data
      /\ v8'[s].mine = v8[s].mine
      /\ \A t \in Settings!Saves \ {s} : v8'[t] = v8[t]
  BY <1>0, <1>3 DEF SaveRecords
<1>6. Settings!Active(s) /\ \A t \in Settings!Saves \ {s} : ~Settings!Active(t) /\ ~Settings!Active(t)'
  BY <1>1, <1>4, <1>5 DEF OneSave, Settings!Active
<1>7. k \in v8[s].todo /\ k \in SavedKeys
  <2>1. SoundSave(v8[s]) /\ v8[s].todo \in SUBSET SavedKeys
    BY <1>0 DEF SettingsInv, SaveRecords
  <2> QED
    BY <1>1, <2>1, FirstIsLeft DEF SoundSave
<1>8. SaveFits'
  <2>1. v1'[k] = v8[s].data[k] /\ \A j \in SavedKeys \ {k} : v1'[j] = v1[j]
    BY <1>0, <1>3, <1>7
  <2>2. \A j \in SavedKeys \ v8[s].todo : v8[s].data[j] = v1'[j]
    BY <1>4, <1>6, <1>7, <2>1 DEF SaveFits
  <2> QED
    BY <1>5, <1>6, <2>1, <2>2 DEF SaveFits
<1>9. CacheIsRead' /\ OneSave'
  BY <1>5, <1>6 DEF CacheIsRead, OneSave
<1>10. BaseIsKnown'
  <2>1. Settings!Active(s)'
    BY <1>5 DEF Settings!Active
  <2> QED
    BY <1>1, <1>4, <1>5, <1>6, <2>1 DEF BaseIsKnown, Settings!Mounted
<1> QED
  BY <1>8, <1>9, <1>10

\* A save that failed is not part of a quiet behaviour.
LEMMA ShowFailStep ==
  ASSUME SettingsInv, SettingsShow, NEW s \in Settings!Saves, Settings!UpdateFailed(s)
  PROVE  SettingsShow'
<1>1. UNCHANGED <<v3, v6, v11, v12>> /\ v8[s].pc = "failed"
  BY DEF Settings!UpdateFailed
<1>2. ~Quiet
  BY <1>1 DEF SettingsShow, SaveFits, Settings!Active
<1> QED
  BY <1>1, <1>2 DEF SettingsShow, Quiet, Settings!Mounted

LEMMA ShowAnswerStep ==
  ASSUME SettingsInv, SettingsShow, NEW s \in Settings!Saves, Settings!UpdateAnswered(s)
  PROVE  SettingsShow'
<1> DEFINE k == Settings!First(v8[s].todo)
<1>0. /\ v8 \in [Settings!Saves -> SaveRecords]
      /\ v1 \in [SavedKeys -> Values] /\ v8[s].data \in [SavedKeys -> Values]
      /\ v3 \in BOOLEAN /\ v4 \in BOOLEAN
  BY DEF SettingsInv, Settings!TypeOK, SaveRecords, Settings!Options
<1>1. UNCHANGED <<v1, v2, v6, v10, v11, v12>> /\ v8[s].pc \in {"stored", "refused"}
  BY DEF Settings!UpdateAnswered
<1>2. Settings!Mounted' => ~v3'
  BY <1>1 DEF SettingsShow, Settings!UpdateAnswered, Settings!Invalidate, Settings!Mounted
<1>3. SUFFICES ASSUME Quiet' PROVE CacheIsRead' /\ OneSave' /\ SaveFits' /\ BaseIsKnown'
  BY <1>2 DEF SettingsShow
<1>4. Quiet /\ OneSave /\ SaveFits /\ BaseIsKnown
  BY <1>1, <1>3 DEF Quiet, SettingsShow
<1>5. Settings!Active(s) /\ v8[s].pc = "stored" /\ v8[s].data[k] = v1[k]
  BY <1>1, <1>4 DEF SaveFits, Settings!Active
<1>6. Settings!Invalidate
  BY <1>5 DEF Settings!UpdateAnswered
<1>7. CacheIsRead'
  BY <1>6 DEF CacheIsRead, Settings!Invalidate
<1>8. \A t \in Settings!Saves \ {s} : ~Settings!Active(t)
  BY <1>4, <1>5 DEF OneSave
<1>9. CASE Settings!NextOption(s)
  <2>1. /\ v7' = v7 /\ v8'[s].pc = "sent" /\ v8'[s].todo = v8[s].todo \ {k}
        /\ v8'[s].data = v8[s].data /\ v8'[s].mine = v8[s].mine
        /\ \A t \in Settings!Saves \ {s} : v8'[t] = v8[t]
    BY <1>0, <1>9 DEF Settings!NextOption, SaveRecords
  <2>2. Settings!Active(s)' /\ \A t \in Settings!Saves \ {s} : ~Settings!Active(t)'
    BY <1>8, <2>1 DEF Settings!Active
  <2>3. SaveFits'
    BY <1>1, <1>4, <1>5, <2>1, <2>2 DEF SaveFits
  <2>4. BaseIsKnown'
    BY <1>1, <1>4, <1>5, <1>8, <2>1, <2>2 DEF BaseIsKnown, Settings!Mounted
  <2> QED
    BY <1>7, <2>2, <2>3, <2>4 DEF OneSave
<1>10. CASE Settings!LastOption(s)
  <2>1. /\ v8'[s].pc = "over" /\ \A t \in Settings!Saves \ {s} : v8'[t] = v8[t]
        /\ v8[s].todo = {k}
    BY <1>0, <1>10 DEF Settings!LastOption, Settings!NoSave, SaveRecords
  <2>2. \A t \in Settings!Saves : ~Settings!Active(t)'
    BY <1>8, <2>1 DEF Settings!Active
  <2>3. v8[s].data = v1
    <3>1. \A j \in SavedKeys : v8[s].data[j] = v1[j]
      BY <1>4, <1>5, <2>1 DEF SaveFits
    <3> QED
      BY <1>0, <3>1
  <2>4. BaseIsKnown'
    <3>1. CASE v8[s].mine
      <4>1. v7'.base \in {v1, v2}
        BY <1>10, <2>3, <3>1
           DEF Settings!LastOption, Settings!ResetBy, Settings!AfterEffect, Settings!FormOf
      <4> QED
        BY <1>1, <2>2, <4>1 DEF BaseIsKnown
    <3>2. CASE ~v8[s].mine
      <4>1. v7' = v7
        BY <1>10, <3>2 DEF Settings!LastOption
      <4> QED
        BY <1>1, <1>4, <1>5, <1>8, <3>2, <4>1 DEF BaseIsKnown, Settings!Mounted
    <3> QED
      BY <3>1, <3>2
  <2> QED
    BY <1>7, <2>2, <2>4 DEF OneSave, SaveFits
<1> QED
  BY <1>9, <1>10 DEF Settings!UpdateAnswered

LEMMA ShowSteps == SettingsInv /\ SettingsShow /\ Settings!Next => SettingsShow'
BY ShowGetSteps, ShowLeaveStep, ShowOutsideStep, ShowSubmitStep, ShowServeStep,
   ShowFailStep, ShowAnswerStep DEF Settings!Next
-----------------------------------------------------------------------------
(***************************************************************************)
(* A content list, module ContentList: v1 style, v2 srv, v3 data, v4 get,  *)
(* v5 mounted, v6 ui, v7 save, v8 next, v9 gone, v10 behind, v11 clash,    *)
(* v12 saves, v13 faults.                                                  *)
(***************************************************************************)

\* Entries that all have an id; lists whose ids differ unless they clashed at the
\* start; lists that can be shown.
Keyed == [id : Content!Entries, of : Content!Entries]
Distinct(l) == v11 \/ Content!HasKeys(l)
Good(l) == l \subseteq Content!Entry /\ Distinct(Content!Parse(l))

UiRecords ==
  [list : SUBSET Keyed, has : BOOLEAN, sel : SUBSET Content!Entries,
   dialog : {"none", "form", "delete"}, target : {"single", "batch"},
   editing : 0..MaxEntries]

\* The list on screen, unless it is behind, has every entry that the server has
\* or is about to get and that the user did not delete.
Kept ==
  v5 /\ ~v10 =>
    /\ Content!Ofs(v2) \subseteq Content!Ofs(Content!Shown) \cup v9
    /\ v7.pc = "sent" => Content!Ofs(v7.val) \subseteq Content!Ofs(Content!Shown) \cup v9

ContentInv ==
  /\ Content!TypeOK
  /\ Good(v2) /\ Good(v3) /\ Good(v4.val) /\ Good(v7.val)
  /\ Distinct(v6.list)
  /\ Kept
  /\ Content!SaveKeepsOthers

LEMMA ParseIsKeyed ==
  ASSUME NEW l \in SUBSET Content!Entry
  PROVE  Content!Parse(l) \in SUBSET Keyed /\ Content!Ofs(Content!Parse(l)) = Content!Ofs(l)
<1> DEFINE P(e) == [e EXCEPT !.id = IF @ = 0 THEN e.of ELSE @]
<1>1. ASSUME NEW e \in l PROVE P(e) \in Keyed /\ P(e).of = e.of
  <2>1. e \in Content!Entry /\ e.id \in 0..MaxEntries /\ e.of \in Content!Entries
    BY DEF Content!Entry
  <2>2. e.id # 0 => e.id \in Content!Entries
    BY <2>1, ConsoleAssumption
       DEF ConsoleAssumption, Content!ContentListAssumption, Content!Entries
  <2> QED
    BY <2>1, <2>2 DEF Content!Entry, Keyed
<1>2. Content!Parse(l) = {P(e) : e \in l}
  BY DEF Content!Parse
<1> HIDE DEF P
<1>3. Content!Ofs(Content!Parse(l)) = {P(e).of : e \in l}
  BY <1>2 DEF Content!Ofs
<1>4. {P(e).of : e \in l} = {e.of : e \in l}
  BY <1>1
<1> QED
  BY <1>1, <1>2, <1>3, <1>4 DEF Content!Ofs

LEMMA KeyedIsParsed ==
  ASSUME NEW l \in SUBSET Keyed
  PROVE  Content!Parse(l) = l /\ l \in SUBSET Content!Entry
<1> DEFINE P(e) == [e EXCEPT !.id = IF @ = 0 THEN e.of ELSE @]
<1>1. ASSUME NEW e \in l PROVE P(e) = e /\ e \in Content!Entry
  <2>1. e \in Keyed /\ e.id \in Content!Entries /\ e.of \in Content!Entries
    BY DEF Keyed
  <2>2. e.id # 0 /\ e.id \in 0..MaxEntries
    BY <2>1, ConsoleAssumption
       DEF ConsoleAssumption, Content!ContentListAssumption, Content!Entries
  <2> QED
    BY <2>1, <2>2 DEF Content!Entry, Keyed
<1>2. Content!Parse(l) = {P(e) : e \in l}
  BY DEF Content!Parse
<1> QED
  BY <1>1, <1>2

\* The greatest member of a set of numbers up to a bound.
LEMMA ContentMax ==
  ASSUME NEW N \in Nat, NEW S \in SUBSET (0..N), S # {}
  PROVE  Content!Max(S) \in S /\ \A m \in S : m <= Content!Max(S)
<1>1. PICK n \in S : \A m \in S : m <= n
  BY GreatestNatural
<1>2. n \in S /\ \A m \in S : n >= m
  BY <1>1
<1>3. Content!Max(S) \in S /\ \A m \in S : Content!Max(S) >= m
  BY <1>2 DEF Content!Max
<1> QED
  BY <1>3

LEMMA NewIdIsNew ==
  ASSUME NEW l \in SUBSET Keyed
  PROVE  Content!NewId(l) \in Nat \ {0} /\ \A e \in l : e.id # Content!NewId(l)
<1> USE ConsoleAssumption DEF ConsoleAssumption, Content!ContentListAssumption
<1> DEFINE S == Content!Ids(l) \cup {0}
<1>1. S \in SUBSET (0..MaxEntries) /\ S # {}
  BY DEF Content!Ids, Keyed, Content!Entries
<1>2. Content!Max(S) \in S /\ \A m \in S : m <= Content!Max(S)
  BY <1>1, ContentMax
<1>3. Content!NewId(l) = Content!Max(S) + 1
  BY DEF Content!NewId
<1>4. ASSUME NEW e \in l PROVE e.id # Content!NewId(l)
  <2>1. e.id \in S /\ e.id \in Nat /\ Content!Max(S) \in Nat
    BY <1>1, <1>2 DEF Content!Ids
  <2>2. e.id <= Content!Max(S)
    BY <1>2, <2>1
  <2> QED
    BY <1>3, <2>1, <2>2
<1>5. Content!Max(S) \in 0..MaxEntries
  BY <1>1, <1>2
<1>6. Content!NewId(l) \in Nat \ {0}
  BY <1>3, <1>5
<1> QED
  BY <1>4, <1>6

LEMMA ShownIsKeyed ==
  ASSUME ContentInv
  PROVE  /\ Content!Shown \in SUBSET Keyed /\ Distinct(Content!Shown)
         /\ Good(Content!Shown)
<1>1. v3 \in SUBSET Content!Entry /\ v6 \in UiRecords
  BY DEF ContentInv, Content!TypeOK, UiRecords, Keyed
<1>2. Content!Parse(v3) \in SUBSET Keyed /\ v6.list \in SUBSET Keyed
  BY <1>1, ParseIsKeyed DEF UiRecords
<1>3. Content!Shown \in SUBSET Keyed /\ Distinct(Content!Shown)
  BY <1>2 DEF Content!Shown, ContentInv, Good
<1>4. Content!Parse(Content!Shown) = Content!Shown /\ Content!Shown \in SUBSET Content!Entry
  BY <1>3, KeyedIsParsed
<1> QED
  BY <1>3, <1>4 DEF Good

LEMMA ContentStarts == Content!Init => ContentInv
<1> SUFFICES ASSUME Content!Init PROVE ContentInv
  OBVIOUS
<1> USE ConsoleAssumption DEF ConsoleAssumption, Content!ContentListAssumption
<1>1. v2 = v3 /\ Good(v2) /\ v2 \in SUBSET Content!Entry
  BY DEF Content!Init, Good, Distinct
<1>2. {} \in SUBSET Keyed /\ Distinct({}) /\ Good({})
  BY KeyedIsParsed DEF Distinct, Content!HasKeys, Good
<1>3. Content!Parse(v3) \in SUBSET Keyed /\ Distinct(Content!Parse(v3))
  BY <1>1, ParseIsKeyed DEF Good
<1>4. Content!Fresh \in UiRecords /\ Content!Fresh.list = {} /\ ~Content!Fresh.has
  BY DEF Content!Fresh, UiRecords
<1>5. /\ v6 \in UiRecords /\ Distinct(v6.list)
      /\ v1 = "copy" => v6.list = Content!Parse(v3)
      /\ v1 # "copy" => ~v6.has
  <2>1. CASE v1 = "copy"
    <3>1. v6 = [Content!Fresh EXCEPT !.list = Content!Parse(v3)]
      BY <2>1 DEF Content!Init
    <3> QED
      BY <1>3, <1>4, <2>1, <3>1 DEF UiRecords
  <2>2. CASE v1 # "copy"
    BY <1>2, <1>4, <2>2 DEF Content!Init
  <2> QED
    BY <2>1, <2>2
<1>6. v8 \in 1..(MaxEntries + 1)
  <2> DEFINE S == Content!Ofs(v2) \cup {0}
  <2>1. S \in SUBSET (0..MaxEntries) /\ S # {}
    BY <1>1 DEF Content!Ofs, Content!Entry, Content!Entries
  <2>2. Content!Max(S) \in 0..MaxEntries
    BY <2>1, ContentMax
  <2> QED
    BY <2>2 DEF Content!Init
<1>7. /\ v4 \in [pc : {"none", "sent", "answered"}, val : SUBSET Content!Entry]
      /\ v7 \in [pc : {"none", "sent", "stored", "refused", "failed"}, val : SUBSET Content!Entry]
      /\ v4.val = {} /\ v7.val = {} /\ v7.pc = "none"
  BY DEF Content!Init, Content!NoGet, Content!NoSave
<1>8. v12 \in 0..MaxListSaves /\ v13 \in 0..MaxRequestFaults /\ v9 = {}
  BY DEF Content!Init
<1>9. v5 = TRUE /\ v10 = FALSE /\ v11 \in BOOLEAN /\ v1 \in Styles
  BY DEF Content!Init
<1>10. Content!TypeOK
  BY <1>1, <1>5, <1>6, <1>7, <1>8, <1>9 DEF Content!TypeOK, UiRecords, Keyed
<1>11. Content!Shown = Content!Parse(v3)
  BY <1>5, <1>9 DEF Content!Shown
<1>12. Kept /\ Content!SaveKeepsOthers
  BY <1>1, <1>7, <1>11, ParseIsKeyed DEF Kept, Content!SaveKeepsOthers
<1> QED
  BY <1>1, <1>2, <1>5, <1>7, <1>10, <1>12 DEF ContentInv

\* The user's steps: nothing that was on screen goes without a deletion.
LEMMA ContentUserKept ==
  ASSUME ContentInv, v5, v6' \in UiRecords, Distinct(v6'.list),
         UNCHANGED <<v1, v2, v3, v4, v5, v7, v10, v11, v12, v13>>,
         v8' \in 1..(MaxEntries + 1), v9' \subseteq Content!Entries, v9 \subseteq v9',
         Content!Ofs(Content!Shown) \subseteq Content!Ofs(Content!Shown') \cup v9'
  PROVE  ContentInv'
<1>1. Content!TypeOK'
  BY DEF ContentInv, Content!TypeOK, UiRecords, Keyed
<1>2. Good(v2)' /\ Good(v3)' /\ Good(v4.val)' /\ Good(v7.val)'
  BY DEF ContentInv, Good, Distinct
<1>3. Distinct(v6.list)'
  BY DEF Distinct, Content!HasKeys
<1>4. Kept'
  <2> SUFFICES ASSUME ~v10'
               PROVE  /\ Content!Ofs(v2) \subseteq Content!Ofs(Content!Shown') \cup v9'
                      /\ v7.pc = "sent" =>
                           Content!Ofs(v7.val) \subseteq Content!Ofs(Content!Shown') \cup v9'
    BY DEF Kept, Content!Ofs
  <2>1. /\ Content!Ofs(v2) \subseteq Content!Ofs(Content!Shown) \cup v9
        /\ v7.pc = "sent" => Content!Ofs(v7.val) \subseteq Content!Ofs(Content!Shown) \cup v9
    BY DEF ContentInv, Kept
  <2> QED
    BY <2>1
<1>5. Content!SaveKeepsOthers'
  BY DEF ContentInv, Content!SaveKeepsOthers, Content!Ofs
<1> QED
  BY <1>1, <1>2, <1>3, <1>4, <1>5 DEF ContentInv

\* Opening and closing the dialogs and selecting change nothing in the list.
LEMMA ContentDialogSteps ==
  ASSUME ContentInv,
         Content!OpenForm \/ Content!OpenDelete \/ Content!Cancel \/ Content!Toggle
  PROVE  ContentInv'
<1> USE ConsoleAssumption DEF ConsoleAssumption, Content!ContentListAssumption
<1>0. v6 \in UiRecords /\ v8 \in 1..(MaxEntries + 1) /\ v9 \subseteq Content!Entries
  BY DEF ContentInv, Content!TypeOK, UiRecords, Keyed
<1>1. v5 /\ UNCHANGED <<v1, v2, v3, v4, v5, v7, v8, v9, v10, v11, v12, v13>>
  BY DEF Content!OpenForm, Content!OpenDelete, Content!Cancel, Content!Toggle, Content!Idle
<1>2. Content!Ids(Content!Shown) \subseteq Content!Entries
  BY ShownIsKeyed DEF Content!Ids, Keyed
<1>3. Content!Ids(Content!Shown) \subseteq 0..MaxEntries /\ 0 \in 0..MaxEntries
  BY <1>2 DEF Content!Entries
<1>4. v6' \in UiRecords /\ v6'.list = v6.list /\ v6'.has = v6.has
  <2>1. CASE Content!OpenForm
    BY <1>0, <1>3, <2>1 DEF Content!OpenForm, UiRecords
  <2>2. CASE Content!OpenDelete
    BY <1>0, <1>3, <2>2 DEF Content!OpenDelete, UiRecords
  <2>3. CASE Content!Cancel
    BY <1>0, <1>3, <2>3 DEF Content!Cancel, Content!Closed, UiRecords
  <2>4. CASE Content!Toggle
    <3>1. PICK S \in SUBSET Content!Entries : v6' = [v6 EXCEPT !.sel = S]
      <4>1. ASSUME NEW i \in Content!Ids(Content!Shown)
            PROVE  (IF i \in v6.sel THEN v6.sel \ {i} ELSE v6.sel \cup {i}) \in SUBSET Content!Entries
        BY <1>0, <1>2 DEF UiRecords
      <4> QED
        BY <1>2, <2>4, <4>1 DEF Content!Toggle
    <3> QED
      BY <1>0, <3>1 DEF UiRecords
  <2> QED
    BY <2>1, <2>2, <2>3, <2>4
<1>5. Content!Shown' = Content!Shown
  BY <1>1, <1>4 DEF Content!Shown
<1>6. Distinct(v6'.list)
  BY <1>4 DEF ContentInv
<1>7. Content!Ofs(Content!Shown) \subseteq Content!Ofs(Content!Shown') \cup v9'
  BY <1>5
<1> QED
  BY <1>0, <1>1, <1>4, <1>6, <1>7, ContentUserKept

\* A new entry gets an id that no other entry has.
LEMMA ContentFormStep ==
  ASSUME ContentInv, Content!handleSubmitForm
  PROVE  ContentInv'
<1> USE ConsoleAssumption DEF ConsoleAssumption, Content!ContentListAssumption
<1>0. v6 \in UiRecords /\ v8 \in 1..(MaxEntries + 1) /\ v9 \subseteq Content!Entries
  BY DEF ContentInv, Content!TypeOK, UiRecords, Keyed
<1>1. v5 /\ UNCHANGED <<v1, v2, v3, v4, v5, v7, v9, v10, v11, v12, v13>>
  BY DEF Content!handleSubmitForm
<1>2. Content!Shown \in SUBSET Keyed /\ Distinct(Content!Shown)
  BY ShownIsKeyed
<1>3. PICK l \in SUBSET Keyed :
         /\ Distinct(l) /\ Content!Shown \subseteq l
         /\ v6' = Content!Closed(Content!Edit(v6, l))
         /\ v8' \in 1..(MaxEntries + 1)
  <2>1. CASE /\ v6' = Content!Closed(Content!Edit(v6, Content!Shown))
             /\ v8' = v8
    BY <1>0, <1>2, <2>1
  <2>2. CASE /\ v8 <= MaxEntries /\ Content!NewId(Content!Shown) <= MaxEntries
             /\ v6' = Content!Closed(Content!Edit(v6, Content!Shown \cup
                                     {[id |-> Content!NewId(Content!Shown), of |-> v8]}))
             /\ v8' = v8 + 1
    <3> DEFINE i == Content!NewId(Content!Shown)
               e == [id |-> i, of |-> v8]
               l == Content!Shown \cup {e}
    <3>1. i \in Nat \ {0} /\ \A f \in Content!Shown : f.id # i
      BY <1>2, NewIdIsNew
    <3>2. i \in Content!Entries /\ v8 \in Content!Entries /\ v8' \in 1..(MaxEntries + 1)
      BY <1>0, <2>2, <3>1 DEF Content!Entries
    <3>3. e \in Keyed /\ e.id = i
      BY <3>2 DEF Keyed
    <3> HIDE DEF i, e
    <3>4. Distinct(l)
      BY <1>2, <3>1, <3>3 DEF Distinct, Content!HasKeys
    <3>5. l \in SUBSET Keyed /\ Content!Shown \subseteq l
      BY <1>2, <3>3
    <3>6. v6' = Content!Closed(Content!Edit(v6, l))
      BY <2>2 DEF e, i
    <3> HIDE DEF l
    <3> QED
      BY <3>2, <3>4, <3>5, <3>6
  <2> QED
    BY <2>1, <2>2 DEF Content!handleSubmitForm
<1>4. v6' \in UiRecords /\ v6'.list = l /\ v6'.has
  <2>1. 0 \in 0..MaxEntries
    OBVIOUS
  <2> QED
    BY <1>0, <1>3, <2>1 DEF UiRecords, Content!Edit, Content!Closed
<1>5. Content!Shown' = l
  BY <1>4 DEF Content!Shown
<1>6. Content!Ofs(Content!Shown) \subseteq Content!Ofs(Content!Shown') \cup v9'
  BY <1>3, <1>5 DEF Content!Ofs
<1>7. Distinct(v6'.list)
  BY <1>3, <1>4
<1> QED
  BY <1>0, <1>1, <1>3, <1>4, <1>6, <1>7, ContentUserKept

LEMMA ContentDeleteStep ==
  ASSUME ContentInv, Content!confirmDelete
  PROVE  ContentInv'
<1> USE ConsoleAssumption DEF ConsoleAssumption, Content!ContentListAssumption
<1> DEFINE kept == {e \in Content!Shown : e.id \notin Content!Removed}
           S == IF v6.target = "batch" THEN {} ELSE v6.sel
<1>0. v6 \in UiRecords /\ v8 \in 1..(MaxEntries + 1) /\ v9 \subseteq Content!Entries
  BY DEF ContentInv, Content!TypeOK, UiRecords, Keyed
<1>1. v5 /\ UNCHANGED <<v1, v2, v3, v4, v5, v7, v8, v10, v11, v12, v13>>
  BY DEF Content!confirmDelete
<1>2. Content!Shown \in SUBSET Keyed /\ Distinct(Content!Shown)
  BY ShownIsKeyed
<1>3. kept \in SUBSET Keyed /\ Distinct(kept)
  BY <1>2 DEF Distinct, Content!HasKeys
<1>4. /\ v6' = [Content!Closed(Content!Edit(v6, kept)) EXCEPT !.sel = S]
      /\ v9' = v9 \cup (Content!Ofs(Content!Shown) \ Content!Ofs(kept))
  BY <1>0 DEF Content!confirmDelete, Content!Edit, Content!Closed, UiRecords
<1> HIDE DEF kept
<1>5. v6' \in UiRecords /\ v6'.list = kept /\ v6'.has
  <2>1. S \in SUBSET Content!Entries /\ 0 \in 0..MaxEntries
    BY <1>0 DEF UiRecords
  <2> HIDE DEF S
  <2> QED
    BY <1>0, <1>3, <1>4, <2>1 DEF UiRecords, Content!Edit, Content!Closed
<1>6. Content!Shown' = kept
  BY <1>5 DEF Content!Shown
<1>7. Content!Ofs(Content!Shown) \subseteq Content!Entries
  BY <1>2 DEF Content!Ofs, Keyed
<1>8. v9' \subseteq Content!Entries /\ v9 \subseteq v9'
  BY <1>0, <1>4, <1>7
<1>9. Content!Ofs(Content!Shown) \subseteq Content!Ofs(Content!Shown') \cup v9'
  BY <1>4, <1>6
<1> QED
  BY <1>0, <1>1, <1>3, <1>5, <1>8, <1>9, ContentUserKept

GetRecords == [pc : {"none", "sent", "answered"}, val : SUBSET Content!Entry]
ListSaves ==
  [pc : {"none", "sent", "stored", "refused", "failed"}, val : SUBSET Content!Entry]

\* What a step of the requests must leave.
LEMMA ContentKept ==
  ASSUME ContentInv, UNCHANGED <<v1, v8, v9, v11>>,
         Good(v2'), Good(v3'), v4' \in GetRecords, Good(v4'.val), v5' \in BOOLEAN,
         v6' \in UiRecords, Distinct(v6'.list),
         v7' \in ListSaves, Good(v7'.val), v10' \in BOOLEAN,
         v12' \in 0..MaxListSaves, v13' \in 0..MaxRequestFaults,
         Kept', Content!SaveKeepsOthers'
  PROVE  ContentInv'
<1>1. Content!TypeOK'
  BY DEF ContentInv, Content!TypeOK, UiRecords, Keyed, GetRecords, ListSaves, Good
<1>2. Good(v2)' /\ Good(v3)' /\ Good(v4.val)' /\ Good(v7.val)' /\ Distinct(v6.list)'
  BY DEF Good, Distinct, Content!HasKeys
<1> QED
  BY <1>1, <1>2 DEF ContentInv

LEMMA ContentTypes ==
  ASSUME ContentInv
  PROVE  /\ v4 \in GetRecords /\ v6 \in UiRecords /\ v7 \in ListSaves
         /\ v5 \in BOOLEAN /\ v10 \in BOOLEAN
         /\ v12 \in 0..MaxListSaves /\ v13 \in 0..MaxRequestFaults
BY DEF ContentInv, Content!TypeOK, GetRecords, ListSaves, UiRecords, Keyed

\* The list on screen becomes the list d that was fetched.
LEMMA ContentTaken ==
  ASSUME NEW d \in SUBSET Content!Entry, v2' = v2, v9' = v9, Content!Shown' = Content!Parse(d),
         v10' <=> Content!IsBehind(d), v7'.pc = "sent" => v7.pc = "sent"
  PROVE  Kept'
<1> SUFFICES ASSUME ~v10'
             PROVE  /\ Content!Ofs(v2) \subseteq Content!Ofs(Content!Parse(d)) \cup v9
                    /\ v7'.pc # "sent"
  BY DEF Kept, Content!Ofs
<1>1. d = v2 /\ v7'.pc # "sent"
  BY DEF Content!IsBehind
<1> QED
  BY <1>1, ParseIsKeyed

LEMMA NothingIsGood == Good({}) /\ Distinct({})
BY KeyedIsParsed DEF Good, Distinct, Content!HasKeys

LEMMA ContentFetchSteps ==
  ASSUME ContentInv, Content!Refetch \/ Content!ServeGet
  PROVE  ContentInv'
<1>1. UNCHANGED <<v1, v2, v3, v5, v6, v7, v8, v9, v10, v11, v12, v13>>
  BY DEF Content!Refetch, Content!ServeGet
<1>2. Good(v2) /\ Good(v3) /\ Good(v7.val) /\ Distinct(v6.list)
  BY DEF ContentInv
<1>3. v4' \in GetRecords /\ Good(v4'.val)
  <2>1. CASE v4' = [pc |-> "sent", val |-> {}]
    BY <2>1, NothingIsGood DEF GetRecords
  <2>2. CASE v4' = [pc |-> "answered", val |-> v2]
    <3>1. v2 \in SUBSET Content!Entry
      BY <1>2 DEF Good
    <3> QED
      BY <1>2, <2>2, <3>1 DEF GetRecords
  <2> QED
    BY <2>1, <2>2 DEF Content!Refetch, Content!ServeGet
<1>4. Kept' /\ Content!SaveKeepsOthers'
  BY <1>1 DEF ContentInv, Kept, Content!SaveKeepsOthers, Content!Shown, Content!Ofs,
              Content!Parse
<1> QED
  BY <1>1, <1>2, <1>3, <1>4, ContentTypes, ContentKept

LEMMA ContentSaveStep ==
  ASSUME ContentInv, Content!handleSaveAll
  PROVE  ContentInv'
<1> USE ConsoleAssumption DEF ConsoleAssumption, Content!ContentListAssumption
<1>1. /\ UNCHANGED <<v1, v2, v3, v4, v5, v6, v8, v9, v10, v11, v13>>
      /\ v5 /\ v7' = [pc |-> "sent", val |-> Content!Shown]
  BY DEF Content!handleSaveAll, Content!Idle
<1>2. Good(v2) /\ Good(v3) /\ Good(v4.val) /\ Distinct(v6.list)
  BY DEF ContentInv
<1>3. Good(Content!Shown) /\ Content!Shown \in SUBSET Content!Entry
  BY ShownIsKeyed DEF Good
<1>4. v7' \in ListSaves /\ v7'.val = Content!Shown
  BY <1>1, <1>3 DEF ListSaves
<1>5. v12' \in 0..MaxListSaves
  BY ContentTypes DEF Content!handleSaveAll
<1>6. Content!Shown' = Content!Shown
  BY <1>1 DEF Content!Shown
<1>7. ~v10 => Content!Ofs(v2) \subseteq Content!Ofs(Content!Shown) \cup v9
  BY <1>1 DEF ContentInv, Kept
<1>8. Kept'
  <2> SUFFICES ASSUME ~v10
               PROVE  /\ Content!Ofs(v2) \subseteq Content!Ofs(Content!Shown) \cup v9
                      /\ Content!Ofs(Content!Shown) \subseteq Content!Ofs(Content!Shown) \cup v9
    BY <1>1, <1>4, <1>6 DEF Kept, Content!Ofs
  <2> QED
    BY <1>7
<1>9. Content!SaveKeepsOthers'
  <2> SUFFICES ASSUME ~v10 PROVE Content!Ofs(v2) \subseteq Content!Ofs(Content!Shown) \cup v9
    BY <1>1, <1>4 DEF Content!SaveKeepsOthers, Content!Ofs
  <2> QED
    BY <1>7
<1> QED
  BY <1>1, <1>2, <1>3, <1>4, <1>5, <1>8, <1>9, ContentTypes, ContentKept

LEMMA ContentServeStep ==
  ASSUME ContentInv, Content!ServeSave
  PROVE  ContentInv'
<1> USE ConsoleAssumption DEF ConsoleAssumption, Content!ContentListAssumption
<1>1. UNCHANGED <<v1, v3, v4, v5, v6, v8, v9, v10, v11, v12>> /\ v7.pc = "sent"
  BY DEF Content!ServeSave
<1>2. Good(v2) /\ Good(v3) /\ Good(v4.val) /\ Good(v7.val) /\ Distinct(v6.list)
  BY DEF ContentInv
<1>3. v2' = v2 \/ v2' = v7.val
  BY DEF Content!ServeSave
<1>4. PICK p \in {"stored", "refused", "failed"} : v7' = [v7 EXCEPT !.pc = p]
  BY DEF Content!ServeSave
<1>5. v7' \in ListSaves /\ v7'.val = v7.val /\ v7'.pc # "sent"
  BY <1>4, ContentTypes DEF ListSaves
<1>6. v13' \in 0..MaxRequestFaults
  BY ContentTypes DEF Content!ServeSave
<1>7. Content!Shown' = Content!Shown
  BY <1>1 DEF Content!Shown
<1>8. Kept'
  <2> SUFFICES ASSUME v5, ~v10
               PROVE  Content!Ofs(v2') \subseteq Content!Ofs(Content!Shown) \cup v9
    BY <1>1, <1>5, <1>7 DEF Kept, Content!Ofs
  <2>1. /\ Content!Ofs(v2) \subseteq Content!Ofs(Content!Shown) \cup v9
        /\ Content!Ofs(v7.val) \subseteq Content!Ofs(Content!Shown) \cup v9
    BY <1>1 DEF ContentInv, Kept
  <2> QED
    BY <1>3, <2>1
<1>9. Content!SaveKeepsOthers'
  BY <1>5 DEF Content!SaveKeepsOthers
<1>10. Good(v2') /\ Good(v7'.val)
  BY <1>2, <1>3, <1>5
<1> QED
  BY <1>1, <1>2, <1>5, <1>6, <1>8, <1>9, <1>10, ContentTypes, ContentKept

LEMMA ContentSavedStep ==
  ASSUME ContentInv, Content!SaveAnswered
  PROVE  ContentInv'
<1>1. UNCHANGED <<v1, v2, v3, v5, v8, v9, v11, v12, v13>> /\ v7' = Content!NoSave /\ v7.pc # "sent"
  BY DEF Content!SaveAnswered
<1>2. Good(v2) /\ Good(v3) /\ Good(v4.val) /\ Distinct(v6.list)
  BY DEF ContentInv
<1>3. v7' \in ListSaves /\ v7'.val = {} /\ v7'.pc = "none"
  BY <1>1 DEF Content!NoSave, ListSaves
<1>4. v4' \in GetRecords /\ Good(v4'.val)
  <2>1. CASE v4' = v4
    BY <1>2, <2>1, ContentTypes
  <2>2. CASE v4' = [pc |-> "sent", val |-> {}]
    BY <2>2, NothingIsGood DEF GetRecords
  <2> QED
    BY <2>1, <2>2 DEF Content!SaveAnswered
<1>5. v10' \in BOOLEAN
  BY ContentTypes DEF Content!SaveAnswered, Content!IsBehind
<1>6. CASE v5 /\ v1 = "draft" /\ v7.pc = "stored"
  <2>1. v6' = [v6 EXCEPT !.has = FALSE, !.list = {}] /\ v10' = Content!IsBehind(v3)
    BY <1>6 DEF Content!SaveAnswered, Content!SettledUi
  <2>2. v6' \in UiRecords /\ v6'.list = {} /\ ~v6'.has
    BY <2>1, ContentTypes DEF UiRecords
  <2>3. Content!Shown' = Content!Parse(v3)
    BY <1>1, <1>6, <2>2 DEF Content!Shown, Content!Parse
  <2>4. Kept'
    <3>1. v3 \in SUBSET Content!Entry
      BY <1>2 DEF Good
    <3> QED
      BY <1>1, <1>3, <2>1, <2>3, <3>1, ContentTaken
  <2>5. Content!SaveKeepsOthers'
    BY <1>3 DEF Content!SaveKeepsOthers
  <2> QED
    BY <1>1, <1>2, <1>3, <1>4, <1>5, <2>2, <2>4, <2>5, NothingIsGood, ContentTypes, ContentKept
<1>7. CASE ~(v5 /\ v1 = "draft" /\ v7.pc = "stored")
  <2>0. v1 \in {"copy", "draft"}
    BY ConsoleAssumption
       DEF ConsoleAssumption, Content!ContentListAssumption, ContentInv, Content!TypeOK
  <2>1. v10' = v10 /\ (v6' = v6 \/ (v1 = "copy" /\ v6' = [v6 EXCEPT !.has = FALSE]))
    BY <1>7, <2>0 DEF Content!SaveAnswered, Content!SettledUi
  <2>2. v6' \in UiRecords /\ v6'.list = v6.list /\ (v1 # "copy" => v6'.has = v6.has)
    BY <2>1, ContentTypes DEF UiRecords
  <2>3. Content!Shown' = Content!Shown
    BY <1>1, <2>2 DEF Content!Shown, Content!Parse
  <2>4. Kept'
    <3> SUFFICES ASSUME v5, ~v10
                 PROVE  Content!Ofs(v2) \subseteq Content!Ofs(Content!Shown) \cup v9
      BY <1>1, <1>3, <2>1, <2>3 DEF Kept, Content!Ofs
    <3> QED
      BY DEF ContentInv, Kept
  <2>5. Content!SaveKeepsOthers'
    BY <1>3 DEF Content!SaveKeepsOthers
  <2> QED
    BY <1>1, <1>2, <1>3, <1>4, <1>5, <2>2, <2>4, <2>5, NothingIsGood, ContentTypes, ContentKept
<1> QED
  BY <1>6, <1>7

LEMMA ContentAnswerStep ==
  ASSUME ContentInv, Content!GetAnswered
  PROVE  ContentInv'
<1>1. /\ UNCHANGED <<v1, v2, v5, v7, v8, v9, v11, v12, v13>>
      /\ v3' = v4.val /\ v4' = Content!NoGet
  BY DEF Content!GetAnswered
<1>2. /\ Good(v2) /\ Good(v4.val) /\ Good(v7.val) /\ Distinct(v6.list)
      /\ v4.val \in SUBSET Content!Entry
  BY DEF ContentInv, Good
<1>3. v4' \in GetRecords /\ v4'.val = {}
  BY <1>1 DEF Content!NoGet, GetRecords
<1>4. PICK changed \in BOOLEAN :
         /\ v6' = IF v5 /\ v1 = "copy" /\ changed
                  THEN [v6 EXCEPT !.list = Content!Parse(v4.val)] ELSE v6
         /\ v10' = IF IF v1 = "copy" THEN changed ELSE ~v6.has
                   THEN Content!IsBehind(v4.val) ELSE v10
  BY DEF Content!GetAnswered
<1>5. v10' \in BOOLEAN
  BY <1>4, ContentTypes DEF Content!IsBehind
<1>6. v1 \in {"copy", "draft"}
  BY ConsoleAssumption
     DEF ConsoleAssumption, Content!ContentListAssumption, ContentInv, Content!TypeOK
<1>7. Content!Parse(v4.val) \in SUBSET Keyed /\ Distinct(Content!Parse(v4.val))
  BY <1>2, ParseIsKeyed DEF Good
<1>8. v6' \in UiRecords /\ Distinct(v6'.list)
  BY <1>2, <1>4, <1>7, ContentTypes DEF UiRecords
<1> DEFINE taken == IF v1 = "copy" THEN changed ELSE ~v6.has
<1>9. CASE taken
  <2>1. v10' = Content!IsBehind(v4.val)
    BY <1>4, <1>9
  <2>2. Content!SaveKeepsOthers'
    BY <1>1, <2>1 DEF Content!SaveKeepsOthers, Content!IsBehind
  <2>3. Kept'
    <3>1. CASE v5
      <4>1. Content!Shown' = Content!Parse(v4.val)
        <5>1. CASE v1 = "copy"
          <6>1. v6'.list = Content!Parse(v4.val)
            BY <1>4, <1>9, <3>1, <5>1, ContentTypes DEF UiRecords
          <6> QED
            BY <1>1, <5>1, <6>1 DEF Content!Shown
        <5>2. CASE v1 = "draft"
          <6>1. ~v6'.has
            BY <1>4, <1>9, <5>2
          <6> QED
            BY <1>1, <5>2, <6>1 DEF Content!Shown, Content!Parse
        <5> QED
          BY <1>6, <5>1, <5>2
      <4> QED
        BY <1>1, <1>2, <2>1, <4>1, ContentTaken
    <3>2. CASE ~v5
      BY <1>1, <3>2 DEF Kept
    <3> QED
      BY <3>1, <3>2
  <2> QED
    BY <1>1, <1>2, <1>3, <1>5, <1>8, <2>2, <2>3, NothingIsGood, ContentTypes, ContentKept
<1>10. CASE ~taken
  <2>1. v10' = v10 /\ v6' = v6
    BY <1>4, <1>10
  <2>2. Content!Shown' = Content!Shown
    BY <1>1, <1>6, <1>10, <2>1 DEF Content!Shown
  <2>3. Content!SaveKeepsOthers'
    BY <1>1, <2>1 DEF ContentInv, Content!SaveKeepsOthers, Content!Ofs
  <2>4. Kept'
    <3> SUFFICES ASSUME v5, ~v10
                 PROVE  /\ Content!Ofs(v2) \subseteq Content!Ofs(Content!Shown) \cup v9
                        /\ v7.pc = "sent" =>
                             Content!Ofs(v7.val) \subseteq Content!Ofs(Content!Shown) \cup v9
      BY <1>1, <2>1, <2>2 DEF Kept, Content!Ofs
    <3> QED
      BY DEF ContentInv, Kept
  <2> QED
    BY <1>1, <1>2, <1>3, <1>5, <1>8, <2>3, <2>4, NothingIsGood, ContentTypes, ContentKept
<1> QED
  BY <1>9, <1>10

LEMMA ContentVisitSteps ==
  ASSUME ContentInv, Content!Leave \/ Content!Return
  PROVE  ContentInv'
<1> USE ConsoleAssumption DEF ConsoleAssumption, Content!ContentListAssumption
<1>1. UNCHANGED <<v1, v2, v3, v7, v8, v9, v11, v12, v13>>
  BY DEF Content!Leave, Content!Return
<1>2. /\ Good(v2) /\ Good(v3) /\ Good(v4.val) /\ Good(v7.val)
      /\ v3 \in SUBSET Content!Entry
  BY DEF ContentInv, Good
<1>3. Content!Fresh \in UiRecords /\ Content!Fresh.list = {} /\ ~Content!Fresh.has
  BY DEF Content!Fresh, UiRecords
<1>4. CASE Content!Leave
  <2>1. v4' = v4 /\ v5' = FALSE /\ v6' = Content!Fresh /\ v10' = v10
    BY <1>4 DEF Content!Leave
  <2>2. Kept' /\ Content!SaveKeepsOthers'
    BY <1>1, <2>1 DEF ContentInv, Kept, Content!SaveKeepsOthers, Content!Ofs
  <2> QED
    BY <1>1, <1>2, <1>3, <2>1, <2>2, NothingIsGood, ContentTypes, ContentKept
<1>5. CASE Content!Return
  <2>1. v5' = TRUE /\ v10' = Content!IsBehind(v3)
    BY <1>5 DEF Content!Return
  <2>2. Content!Parse(v3) \in SUBSET Keyed /\ Distinct(Content!Parse(v3))
    BY <1>2, ParseIsKeyed DEF Good
  <2>3. v6' \in UiRecords /\ Distinct(v6'.list) /\ Content!Shown' = Content!Parse(v3)
    <3>1. CASE v1 = "copy"
      <4>1. v6' = [Content!Fresh EXCEPT !.list = Content!Parse(v3)]
        BY <1>5, <3>1 DEF Content!Return
      <4>2. v6' \in UiRecords /\ v6'.list = Content!Parse(v3)
        BY <1>3, <2>2, <4>1 DEF UiRecords
      <4> QED
        BY <1>1, <2>2, <3>1, <4>2 DEF Content!Shown
    <3>2. CASE v1 # "copy"
      <4>1. v6' = Content!Fresh /\ v1 = "draft"
        BY <1>5, <3>2 DEF Content!Return, ContentInv, Content!TypeOK
      <4> QED
        BY <1>1, <1>3, <4>1, NothingIsGood DEF Content!Shown, Content!Parse
    <3> QED
      BY <3>1, <3>2
  <2>4. v4' \in GetRecords /\ Good(v4'.val)
    <3>1. CASE v4' = v4
      BY <1>2, <3>1, ContentTypes
    <3>2. CASE v4' = [pc |-> "sent", val |-> {}]
      BY <3>2, NothingIsGood DEF GetRecords
    <3> QED
      BY <1>5, <3>1, <3>2 DEF Content!Return
  <2>5. Kept'
    BY <1>1, <1>2, <2>1, <2>3, ContentTaken
  <2>6. Content!SaveKeepsOthers'
    BY <1>1, <2>1 DEF Content!SaveKeepsOthers, Content!IsBehind
  <2>7. v5' \in BOOLEAN /\ v10' \in BOOLEAN
    BY <2>1 DEF Content!IsBehind
  <2> QED
    BY <1>1, <1>2, <2>3, <2>4, <2>5, <2>6, <2>7, ContentTypes, ContentKept
<1> QED
  BY <1>4, <1>5

LEMMA ContentSteps == ContentInv /\ Content!Next => ContentInv'
BY ContentDialogSteps, ContentFormStep, ContentDeleteStep, ContentSaveStep, ContentServeStep,
   ContentSavedStep, ContentFetchSteps, ContentAnswerStep, ContentVisitSteps
   DEF Content!Next

LEMMA ContentKeepsWord == ContentInv => Content!IdsDiffer /\ Content!SaveKeepsOthers
BY ShownIsKeyed DEF ContentInv, Content!IdsDiffer, Distinct
-----------------------------------------------------------------------------
(***************************************************************************)
(* The test dialog, module ChannelTest: v1 srv, v2 list, v3 row, v4 ui,    *)
(* v5 batch, v6 single, v7 del, v8 opens, v9 stopped, v10 overlap.         *)
(*                                                                         *)
(* The invariant has two parts that no step mixes: the batches with what   *)
(* the dialog shows of them, and the lists of models with the deletions.   *)
(***************************************************************************)

BatchRecords ==
  [pc : {"none", "wait", "sleep", "over"}, asked : SUBSET TestedModels,
   todo : SUBSET TestedModels, flight : SUBSET TestedModels, done : Nat, ok : Nat]
DeleteRecords ==
  [pc : {"none", "sent", "ok", "failed", "over"},
   failed : SUBSET TestedModels, remaining : SUBSET TestedModels]
Progresses == [of : 0..MaxBatches, done : Nat, ok : Nat]

\* Every model of a batch is answered, in flight or still to be tested.
AllCounted(c) ==
  /\ c.done + Cardinality(c.flight) + Cardinality(c.todo) = Cardinality(c.asked)
  /\ c.pc = "sleep" => c.flight = {}

\* The batches: two run at once only after an overlap; a batch that runs and was
\* not stopped is the one on screen; one that was stopped finds the flag.
BatchesInv ==
  /\ v4.batching => \E b \in Test!Batches : Test!Active(b)
  /\ \A b, c \in Test!Batches : Test!Active(b) /\ Test!Active(c) /\ ~v10 => b = c
  /\ \A b \in v9 : v5[b].pc # "none"
  /\ \A b \in Test!Batches : Test!Active(b) => AllCounted(v5[b])
  /\ \A b \in Test!Batches : Test!Active(b) /\ ~v10 =>
       IF b \in v9 THEN v4.stop
       ELSE /\ v4.open /\ v4.batching /\ ~v4.stop
            /\ v4.progress.of = b /\ v4.progress.done = v5[b].done

\* The models some deletion named.
Named == UNION {v7[d].failed : d \in Test!Deletes}

\* The lists: outside the models named so far, everybody agrees about the models
\* of the channel.
ListsInv ==
  /\ v2 \ Named = v1 \ Named
  /\ v3 \ Named = v1 \ Named
  /\ v4.removed \subseteq Named
  /\ \A d \in Test!Deletes : v7[d].pc = "none" => v7[d].failed = {}
  /\ \A d \in Test!Deletes : v7[d].pc = "sent" => v7[d].remaining \ Named = v1 \ Named

TestInv == Test!TypeOK /\ BatchesInv /\ ListsInv

\* The instance counts as everybody does.
LEMMA TestCardinality ==
  ASSUME NEW S
  PROVE  Test!Cardinality(S) = Cardinality(S)
BY Zenon DEF Test!Cardinality, Cardinality

LEMMA TestIsFinite == \A S \in SUBSET TestedModels : IsFiniteSet(S) /\ Cardinality(S) \in Nat
<1>1. IsFiniteSet(TestedModels)
  BY ConsoleAssumption, Zenon
     DEF ConsoleAssumption, Test!ChannelTestAssumption, Test!IsFiniteSet, IsFiniteSet
<1> QED
  BY <1>1, FS_Subset, FS_CardinalityType

LEMMA TestTypes ==
  Test!TypeOK <=>
    /\ v1 \subseteq TestedModels /\ v2 \subseteq TestedModels /\ v3 \subseteq TestedModels
    /\ v4 \in Test!UiState /\ v5 \in [Test!Batches -> BatchRecords]
    /\ v6 \in [TestedModels -> 0..MaxSingles]
    /\ v7 \in [Test!Deletes -> DeleteRecords] /\ v8 \in 0..MaxOpens
    /\ v9 \subseteq Test!Batches /\ v10 \in BOOLEAN
BY DEF Test!TypeOK, BatchRecords, DeleteRecords

LEMMA TestKeepsWord == TestInv => Test!BatchIsShown /\ Test!BatchModeHasBatch
<1> SUFFICES ASSUME TestInv PROVE Test!BatchIsShown /\ Test!BatchModeHasBatch
  OBVIOUS
<1>1. Test!BatchModeHasBatch
  BY DEF TestInv, BatchesInv, Test!BatchModeHasBatch
<1>2. ASSUME NEW b \in Test!Batches, Test!Active(b), b \notin v9, ~v10
      PROVE  /\ v4.open /\ v4.batching /\ ~v4.stop
             /\ v4.progress.of = b
             /\ v4.progress.done = Test!Cardinality(v5[b].asked)
                                   - Test!Cardinality(v5[b].flight)
                                   - Test!Cardinality(v5[b].todo)
  <2>1. /\ v4.open /\ v4.batching /\ ~v4.stop
        /\ v4.progress.of = b /\ v4.progress.done = v5[b].done /\ AllCounted(v5[b])
    BY <1>2 DEF TestInv, BatchesInv
  <2>2. v5[b] \in BatchRecords
    BY TestTypes DEF TestInv
  <2> DEFINE a == Cardinality(v5[b].asked)
             f == Cardinality(v5[b].flight)
             t == Cardinality(v5[b].todo)
  <2>3. a \in Nat /\ f \in Nat /\ t \in Nat /\ v5[b].done \in Nat
    BY <2>2, TestIsFinite DEF BatchRecords
  <2>4. v5[b].done + f + t = a
    BY <2>1 DEF AllCounted
  <2> HIDE DEF a, f, t
  <2>5. v5[b].done = a - f - t
    BY <2>3, <2>4
  <2>6. v4.progress.done = Test!Cardinality(v5[b].asked)
                           - Test!Cardinality(v5[b].flight) - Test!Cardinality(v5[b].todo)
    BY <2>1, <2>5, TestCardinality DEF a, f, t
  <2> QED
    BY <2>1, <2>6
<1> QED
  BY <1>1, <1>2 DEF Test!BatchIsShown

LEMMA TestStarts == Test!Init => TestInv
<1> SUFFICES ASSUME Test!Init PROVE TestInv
  OBVIOUS
<1> USE ConsoleAssumption DEF ConsoleAssumption, Test!ChannelTestAssumption
<1>1. v4 \in Test!UiState /\ v4.batching = FALSE /\ v4.removed = {}
  BY DEF Test!Init, Test!FreshUi, Test!UiState, Test!NoProgress, Test!Outcome
<1>2. v5 \in [Test!Batches -> BatchRecords] /\ \A b \in Test!Batches : v5[b].pc = "none"
  BY DEF Test!Init, Test!NoBatch, BatchRecords
<1>3. /\ v7 \in [Test!Deletes -> DeleteRecords]
      /\ \A d \in Test!Deletes : v7[d].pc = "none" /\ v7[d].failed = {}
  BY DEF Test!Init, Test!NoDelete, DeleteRecords
<1>4. v6 \in [TestedModels -> 0..MaxSingles] /\ v8 \in 0..MaxOpens
  BY DEF Test!Init
<1>5. Test!TypeOK
  BY <1>1, <1>2, <1>3, <1>4, TestTypes DEF Test!Init
<1>6. BatchesInv
  BY <1>1, <1>2 DEF Test!Init, BatchesInv, Test!Active
<1>7. ListsInv
  BY <1>1, <1>3 DEF Test!Init, ListsInv, Named
<1> QED
  BY <1>5, <1>6, <1>7 DEF TestInv

\* The fields of the dialog's state that the invariant speaks of.
SameBatchMode(u, w) ==
  /\ w.open = u.open /\ w.stop = u.stop /\ w.batching = u.batching
  /\ w.progress = u.progress

LEMMA BatchesKept ==
  ASSUME BatchesInv, UNCHANGED <<v5, v9, v10>>, SameBatchMode(v4, v4')
  PROVE  BatchesInv'
BY DEF BatchesInv, SameBatchMode, Test!Active, AllCounted

LEMMA ListsKept ==
  ASSUME ListsInv, UNCHANGED <<v1, v2, v3, v7>>, v4'.removed = v4.removed
  PROVE  ListsInv'
BY DEF ListsInv, Named

LEMMA MarkKeeps ==
  ASSUME NEW u \in Test!UiState, NEW S \in SUBSET TestedModels
  PROVE  LET w == Test!MarkTesting(u, S)
         IN  w \in Test!UiState /\ SameBatchMode(u, w) /\ w.removed = u.removed
<1> DEFINE R == [m \in TestedModels |-> IF m \in S THEN "testing" ELSE u.results[m]]
           w == Test!MarkTesting(u, S)
<1>1. R \in [TestedModels -> {"idle", "testing"} \cup Test!Outcome]
  BY DEF Test!UiState
<1>2. w = [u EXCEPT !.testing = @ \cup S, !.results = R]
  BY DEF Test!MarkTesting
<1> HIDE DEF R, w
<1>3. w \in Test!UiState /\ SameBatchMode(u, w) /\ w.removed = u.removed
  BY <1>1, <1>2 DEF Test!UiState, SameBatchMode
<1> QED
  BY <1>3 DEF w

LEMMA RecordKeeps ==
  ASSUME NEW u \in Test!UiState, NEW m \in TestedModels, NEW r \in Test!Outcome
  PROVE  LET w == Test!RecordResult(u, m, r)
         IN  w \in Test!UiState /\ SameBatchMode(u, w) /\ w.removed = u.removed
<1> DEFINE R == [u.results EXCEPT ![m] = r]
           w == Test!RecordResult(u, m, r)
<1>1. R \in [TestedModels -> {"idle", "testing"} \cup Test!Outcome]
  BY DEF Test!UiState
<1>2. w = [u EXCEPT !.testing = @ \ {m}, !.results = R]
  BY DEF Test!RecordResult
<1> HIDE DEF R, w
<1>3. w \in Test!UiState /\ SameBatchMode(u, w) /\ w.removed = u.removed
  BY <1>1, <1>2 DEF Test!UiState, SameBatchMode
<1> QED
  BY <1>3 DEF w

\* Single tests and the confirmation.
LEMMA TestDialogSteps ==
  ASSUME TestInv,
         \/ \E m \in TestedModels : Test!TestSingle(m)
         \/ \E m \in TestedModels, r \in Test!Outcome : Test!SingleAnswered(m, r)
         \/ Test!OpenConfirm \/ Test!CancelConfirm
  PROVE  TestInv'
<1>0. /\ v4 \in Test!UiState /\ v6 \in [TestedModels -> 0..MaxSingles]
      /\ Test!TypeOK /\ BatchesInv /\ ListsInv
  BY TestTypes DEF TestInv
<1>1. UNCHANGED <<v1, v2, v3, v5, v7, v8, v9, v10>>
  BY DEF Test!TestSingle, Test!SingleAnswered, Test!OpenConfirm, Test!CancelConfirm
<1>2. v6' \in [TestedModels -> 0..MaxSingles]
  <2> USE ConsoleAssumption DEF ConsoleAssumption, Test!ChannelTestAssumption
  <2>1. ASSUME NEW m \in TestedModels, Test!TestSingle(m) PROVE v6' \in [TestedModels -> 0..MaxSingles]
    BY <1>0, <2>1 DEF Test!TestSingle
  <2>2. ASSUME NEW m \in TestedModels, NEW r \in Test!Outcome, Test!SingleAnswered(m, r)
        PROVE  v6' \in [TestedModels -> 0..MaxSingles]
    BY <1>0, <2>2 DEF Test!SingleAnswered
  <2> QED
    BY <1>0, <2>1, <2>2 DEF Test!OpenConfirm, Test!CancelConfirm
<1>3. v4' \in Test!UiState /\ SameBatchMode(v4, v4') /\ v4'.removed = v4.removed
  <2>1. ASSUME NEW m \in TestedModels, Test!TestSingle(m)
        PROVE  v4' \in Test!UiState /\ SameBatchMode(v4, v4') /\ v4'.removed = v4.removed
    BY <1>0, <2>1, MarkKeeps DEF Test!TestSingle
  <2>2. ASSUME NEW m \in TestedModels, NEW r \in Test!Outcome, Test!SingleAnswered(m, r)
        PROVE  v4' \in Test!UiState /\ SameBatchMode(v4, v4') /\ v4'.removed = v4.removed
    BY <1>0, <2>2, RecordKeeps DEF Test!SingleAnswered
  <2>3. CASE Test!OpenConfirm \/ Test!CancelConfirm
    BY <1>0, <2>3 DEF Test!OpenConfirm, Test!CancelConfirm, Test!UiState, SameBatchMode
  <2> QED
    BY <2>1, <2>2, <2>3
<1>4. Test!TypeOK'
  BY <1>0, <1>1, <1>2, <1>3 DEF Test!TypeOK
<1>5. BatchesInv' /\ ListsInv'
  BY <1>0, <1>1, <1>3, BatchesKept, ListsKept
<1> QED
  BY <1>4, <1>5 DEF TestInv

\* Stopping and closing: every batch that runs was told.
LEMMA TestStopSteps ==
  ASSUME TestInv, Test!handleStopBatchTest \/ Test!handleClose
  PROVE  TestInv'
<1>0. v4 \in Test!UiState /\ Test!TypeOK /\ BatchesInv /\ ListsInv
  BY TestTypes DEF TestInv
<1>1. /\ UNCHANGED <<v1, v2, v3, v5, v6, v7, v8, v10>>
      /\ v9' = v9 \cup {b \in Test!Batches : Test!Active(b)}
  BY DEF Test!handleStopBatchTest, Test!handleClose
<1>2. /\ v4' \in Test!UiState /\ v4'.stop = TRUE
      /\ v4'.batching = FALSE \/ v4'.batching = v4.batching
      /\ v4'.removed \subseteq v4.removed
  <2>1. CASE Test!handleStopBatchTest
    BY <1>0, <2>1 DEF Test!handleStopBatchTest, Test!UiState
  <2>2. CASE Test!handleClose
    <3>1. Test!FreshUi \in Test!UiState /\ Test!FreshUi.batching = FALSE /\ Test!FreshUi.removed = {}
      BY ConsoleAssumption
         DEF ConsoleAssumption, Test!ChannelTestAssumption, Test!FreshUi, Test!UiState,
             Test!NoProgress, Test!Outcome
    <3> QED
      BY <2>2, <3>1 DEF Test!handleClose, Test!UiState
  <2> QED
    BY <2>1, <2>2
<1>3. Test!TypeOK'
  BY <1>0, <1>1, <1>2 DEF Test!TypeOK
<1>4. BatchesInv'
  BY <1>0, <1>1, <1>2 DEF BatchesInv, Test!Active, AllCounted
<1>5. ListsInv'
  BY <1>0, <1>1, <1>2 DEF ListsInv, Named
<1> QED
  BY <1>3, <1>4, <1>5 DEF TestInv

\* The dialog is opened on what the list shows; the list is fetched.
LEMMA TestListSteps ==
  ASSUME TestInv, Test!Open \/ Test!ListRefetched
  PROVE  TestInv'
<1> USE ConsoleAssumption DEF ConsoleAssumption, Test!ChannelTestAssumption
<1>0. v4 \in Test!UiState /\ Test!TypeOK /\ BatchesInv /\ ListsInv /\ v8 \in 0..MaxOpens
  BY TestTypes DEF TestInv
<1>1. UNCHANGED <<v1, v5, v6, v7, v9, v10>> /\ v2' \in {v1, v2} /\ v3' \in {v2, v3}
  BY DEF Test!Open, Test!ListRefetched
<1>2. v8' \in 0..MaxOpens
  BY <1>0 DEF Test!Open, Test!ListRefetched
<1>3. v4' = v4 \/ (~v4.open /\ v4' = [v4 EXCEPT !.open = TRUE])
  BY DEF Test!Open, Test!ListRefetched
<1>4. /\ v4' \in Test!UiState /\ v4'.stop = v4.stop /\ v4'.batching = v4.batching
      /\ v4'.progress = v4.progress /\ v4'.removed = v4.removed
      /\ v4'.open = v4.open \/ ~v4.open
  BY <1>0, <1>3 DEF Test!UiState
<1>5. Test!TypeOK'
  BY <1>0, <1>1, <1>2, <1>4 DEF Test!TypeOK
<1>6. BatchesInv'
  BY <1>0, <1>1, <1>4 DEF BatchesInv, Test!Active, AllCounted
<1>7. ListsInv'
  BY <1>0, <1>1, <1>4 DEF ListsInv, Named
<1> QED
  BY <1>5, <1>6, <1>7 DEF TestInv

\* A step of batch b leaves c, and the dialog in state w; the lists stay.
BatchMoved(b, c, w) ==
  /\ UNCHANGED <<v1, v2, v3, v6, v7, v8, v9>>
  /\ v5' = [v5 EXCEPT ![b] = c] /\ c \in BatchRecords
  /\ v4' = w /\ w \in Test!UiState /\ w.removed = v4.removed

LEMMA BatchMovedKeeps ==
  ASSUME TestInv, NEW b \in Test!Batches, NEW c, NEW w, BatchMoved(b, c, w), v10' \in BOOLEAN,
         BatchesInv'
  PROVE  TestInv'
<1>1. Test!TypeOK
  BY DEF TestInv
<1>2. v5' \in [Test!Batches -> BatchRecords]
  BY <1>1, TestTypes DEF BatchMoved
<1>3. Test!TypeOK'
  BY <1>1, <1>2 DEF Test!TypeOK, BatchMoved, BatchRecords
<1>4. ListsInv'
  BY ListsKept DEF TestInv, BatchMoved
<1> QED
  BY <1>3, <1>4 DEF TestInv

\* A batch that goes on: it stays the one on screen.
LEMMA BatchGoesOn ==
  ASSUME TestInv, NEW b \in Test!Batches, NEW c, NEW w, BatchMoved(b, c, w), v10' = v10,
         Test!Active(b), c.pc \in {"wait", "sleep"}, AllCounted(c),
         w.open = v4.open, w.stop = v4.stop, w.batching = v4.batching,
         \/ w.progress = v4.progress /\ c.done = v5[b].done
         \/ w.progress.of = b /\ w.progress.done = c.done
  PROVE  TestInv'
<1>0. BatchesInv /\ Test!TypeOK
  BY DEF TestInv
<1>1. v5'[b] = c /\ \A a \in Test!Batches : a # b => v5'[a] = v5[a]
  BY <1>0, TestTypes DEF BatchMoved
<1>2. \A a \in Test!Batches : v5'[a].pc \in {"wait", "sleep"} <=> Test!Active(a)
  BY <1>1 DEF Test!Active
<1>3. v9' = v9 /\ v4' = w
  BY DEF BatchMoved
<1>4. v4'.batching => \E a \in Test!Batches : v5'[a].pc \in {"wait", "sleep"}
  BY <1>2
<1>5. \A a, d \in Test!Batches :
        v5'[a].pc \in {"wait", "sleep"} /\ v5'[d].pc \in {"wait", "sleep"} /\ ~v10' => a = d
  BY <1>0, <1>2 DEF BatchesInv
<1>6. \A a \in v9' : v5'[a].pc # "none"
  BY <1>0, <1>1, <1>3 DEF BatchesInv, Test!TypeOK
<1>7. \A a \in Test!Batches : v5'[a].pc \in {"wait", "sleep"} => AllCounted(v5'[a])
  BY <1>0, <1>1, <1>2 DEF BatchesInv
<1>8. ASSUME NEW a \in Test!Batches, v5'[a].pc \in {"wait", "sleep"}, ~v10'
      PROVE  IF a \in v9' THEN v4'.stop
             ELSE /\ v4'.open /\ v4'.batching /\ ~v4'.stop
                  /\ v4'.progress.of = a /\ v4'.progress.done = v5'[a].done
  <2>1. a = b
    BY <1>0, <1>2, <1>8 DEF BatchesInv
  <2>2. IF b \in v9 THEN v4.stop
        ELSE /\ v4.open /\ v4.batching /\ ~v4.stop
             /\ v4.progress.of = b /\ v4.progress.done = v5[b].done
    BY <1>0, <1>8 DEF BatchesInv
  <2> QED
    BY <1>1, <1>3, <2>1, <2>2
<1>9. BatchesInv'
  BY <1>4, <1>5, <1>6, <1>7, <1>8 DEF BatchesInv, Test!Active, AllCounted
<1>10. v10' \in BOOLEAN
  BY <1>0 DEF Test!TypeOK
<1> QED
  BY <1>9, <1>10, BatchMovedKeeps

\* A batch that ends: without an overlap it was the only one.
LEMMA BatchEnds ==
  ASSUME TestInv, NEW b \in Test!Batches, NEW c, NEW w, BatchMoved(b, c, w), v10' = v10,
         Test!Active(b), c.pc = "over", w.batching = FALSE
  PROVE  TestInv'
<1>0. BatchesInv /\ Test!TypeOK
  BY DEF TestInv
<1>1. v5'[b] = c /\ \A a \in Test!Batches : a # b => v5'[a] = v5[a]
  BY <1>0, TestTypes DEF BatchMoved
<1>2. v9' = v9 /\ v4' = w
  BY DEF BatchMoved
<1>3. \A a \in Test!Batches : v5'[a].pc \in {"wait", "sleep"} => a # b /\ Test!Active(a)
  BY <1>1 DEF Test!Active
<1>4. \A a \in Test!Batches : v5'[a].pc \in {"wait", "sleep"} => v10
  BY <1>0, <1>3 DEF BatchesInv
<1>5. \A a \in v9' : v5'[a].pc # "none"
  BY <1>0, <1>1, <1>2 DEF BatchesInv, Test!TypeOK
<1>6. \A a \in Test!Batches : v5'[a].pc \in {"wait", "sleep"} => AllCounted(v5'[a])
  BY <1>0, <1>1, <1>3 DEF BatchesInv
<1>7. BatchesInv'
  BY <1>2, <1>4, <1>5, <1>6 DEF BatchesInv, Test!Active, AllCounted
<1>8. v10' \in BOOLEAN
  BY <1>0 DEF Test!TypeOK
<1> QED
  BY <1>7, <1>8, BatchMovedKeeps

\* The tests of a group are in flight instead of still to be sent.
LEMMA LaunchCounts ==
  ASSUME NEW c \in BatchRecords, NEW group, group = Test!FirstGroup(c.todo), c.flight = {},
         c.done + Cardinality(c.flight) + Cardinality(c.todo) = Cardinality(c.asked)
  PROVE  LET n == [c EXCEPT !.pc = "wait", !.flight = group, !.todo = @ \ group]
         IN  /\ n \in BatchRecords /\ n.pc = "wait" /\ n.done = c.done
             /\ group \in SUBSET TestedModels /\ AllCounted(n)
<1> DEFINE n == [c EXCEPT !.pc = "wait", !.flight = group, !.todo = @ \ group]
<1>1. c.todo \in SUBSET TestedModels /\ c.done \in Nat /\ group \in SUBSET c.todo
  BY DEF BatchRecords, Test!FirstGroup
<1>2. /\ n \in BatchRecords /\ n.pc = "wait" /\ n.done = c.done /\ n.asked = c.asked
      /\ n.flight = group /\ n.todo = c.todo \ group
  BY <1>1 DEF BatchRecords
<1> HIDE DEF n
<1>3. IsFiniteSet(c.todo) /\ IsFiniteSet(group)
  BY <1>1, TestIsFinite
<1>4. Cardinality(c.todo \ group) = Cardinality(c.todo) - Cardinality(c.todo \cap group)
  BY <1>3, FS_Difference
<1>5. c.todo \cap group = group
  BY <1>1
<1>6. Cardinality(group) \in Nat /\ Cardinality(c.todo) \in Nat /\ Cardinality({}) = 0
  BY <1>3, FS_CardinalityType, FS_EmptySet
<1>7. Cardinality(n.flight) + Cardinality(n.todo) = Cardinality(c.flight) + Cardinality(c.todo)
  BY <1>2, <1>4, <1>5, <1>6
<1>8. /\ Cardinality(n.flight) \in Nat /\ Cardinality(n.todo) \in Nat
      /\ Cardinality(c.flight) \in Nat
  BY <1>2, <1>6, TestIsFinite DEF BatchRecords
<1>9. n.done + Cardinality(n.flight) + Cardinality(n.todo) = Cardinality(n.asked)
  BY <1>1, <1>2, <1>6, <1>7, <1>8
<1> QED
  BY <1>1, <1>2, <1>9 DEF AllCounted, n

LEMMA TestStartStep ==
  ASSUME TestInv, NEW b \in Test!Batches, NEW S \in SUBSET TestedModels, Test!StartBatch(b, S)
  PROVE  TestInv'
<1> DEFINE c == [Test!NoBatch EXCEPT !.asked = S, !.todo = S]
           p == [Test!NoProgress EXCEPT !.of = b]
           u == [v4 EXCEPT !.stop = FALSE, !.batching = TRUE, !.stopping = FALSE,
                           !.progress = p]
           group == Test!FirstGroup(c.todo)
           n == [c EXCEPT !.pc = "wait", !.flight = group, !.todo = @ \ group]
           w == Test!MarkTesting(u, group)
<1>0. BatchesInv /\ Test!TypeOK /\ v4 \in Test!UiState
  BY TestTypes DEF TestInv
<1>1. /\ v5' = [v5 EXCEPT ![b] = n] /\ v4' = w
      /\ UNCHANGED <<v1, v2, v3, v6, v7, v8, v9>>
      /\ v4.open /\ v5[b].pc = "none"
      /\ v10' = (v10 \/ \E a \in Test!Batches : Test!Active(a))
  BY DEF Test!StartBatch, Test!LaunchGroup, Test!Ready
<1>2. c \in BatchRecords /\ c.flight = {} /\ c.done = 0 /\ c.todo = S /\ c.asked = S
  BY DEF Test!NoBatch, BatchRecords
<1>3. c.done + Cardinality(c.flight) + Cardinality(c.todo) = Cardinality(c.asked)
  BY <1>2, TestIsFinite, FS_EmptySet
<1>4. /\ n \in BatchRecords /\ n.pc = "wait" /\ n.done = 0
      /\ group \in SUBSET TestedModels /\ AllCounted(n)
  <2> HIDE DEF c
  <2> QED
    BY <1>2, <1>3, LaunchCounts
<1>5. /\ u \in Test!UiState /\ u.open /\ ~u.stop /\ u.batching
      /\ u.progress.of = b /\ u.progress.done = 0 /\ u.removed = v4.removed
  <2>1. b \in 0..MaxBatches
    BY DEF Test!Batches
  <2>2. p \in Progresses /\ p.of = b /\ p.done = 0
    BY <2>1 DEF Test!NoProgress, Progresses
  <2> HIDE DEF p
  <2> QED
    BY <1>0, <1>1, <2>2 DEF Test!UiState, Progresses
<1> HIDE DEF c, p, u, group, n
<1>6. w \in Test!UiState /\ SameBatchMode(u, w) /\ w.removed = u.removed
  BY <1>4, <1>5, MarkKeeps
<1> HIDE DEF w
<1>7. v5'[b] = n /\ \A a \in Test!Batches : a # b => v5'[a] = v5[a]
  BY <1>0, <1>1, TestTypes
<1>8. v5'[b].pc \in {"wait", "sleep"} /\ b \notin v9
  BY <1>0, <1>1, <1>4, <1>7 DEF BatchesInv
<1>9. \A a \in Test!Batches : v5'[a].pc \in {"wait", "sleep"} => a = b \/ v10'
  BY <1>1, <1>7 DEF Test!Active
<1>10. \A a \in v9 : v5'[a].pc # "none"
  BY <1>0, <1>4, <1>7 DEF BatchesInv, Test!TypeOK
<1>11. \A a \in Test!Batches : v5'[a].pc \in {"wait", "sleep"} => AllCounted(v5'[a])
  BY <1>0, <1>4, <1>7 DEF BatchesInv, Test!Active
<1>12. /\ v4'.open /\ v4'.batching /\ ~v4'.stop
       /\ v4'.progress.of = b /\ v4'.progress.done = v5'[b].done
  BY <1>1, <1>4, <1>5, <1>6, <1>7 DEF SameBatchMode
<1>13. BatchesInv'
  BY <1>1, <1>8, <1>9, <1>10, <1>11, <1>12 DEF BatchesInv, Test!Active, AllCounted
<1>14. v10' \in BOOLEAN
  BY <1>1
<1>15. BatchMoved(b, n, w)
  BY <1>1, <1>4, <1>5, <1>6 DEF BatchMoved
<1> QED
  BY <1>13, <1>14, <1>15, BatchMovedKeeps

\* The end of a batch, with the dialog in state u.
LEMMA EndBatchKeeps ==
  ASSUME TestInv, NEW b \in Test!Batches, NEW u \in Test!UiState, Test!EndBatch(b, u),
         UNCHANGED <<v1, v2, v3, v6, v7, v8, v9, v10>>, Test!Active(b), u.removed = v4.removed
  PROVE  TestInv'
<1> DEFINE c == [Test!NoBatch EXCEPT !.pc = "over"]
           w == Test!Finished(u)
<1>1. v5' = [v5 EXCEPT ![b] = c] /\ v4' = w
  BY DEF Test!EndBatch
<1>2. c \in BatchRecords /\ c.pc = "over"
  BY DEF Test!NoBatch, BatchRecords
<1>3. Test!NoProgress \in Progresses
  BY ConsoleAssumption
     DEF ConsoleAssumption, Test!ChannelTestAssumption, Test!NoProgress, Progresses
<1>4. w \in Test!UiState /\ w.batching = FALSE /\ w.removed = u.removed
  BY <1>3 DEF Test!Finished, Test!UiState, Progresses
<1> HIDE DEF c, w
<1>5. BatchMoved(b, c, w)
  BY <1>1, <1>2, <1>4 DEF BatchMoved
<1> QED
  BY <1>2, <1>4, <1>5, BatchEnds

LEMMA TestWakeStep ==
  ASSUME TestInv, NEW b \in Test!Batches, Test!Wake(b)
  PROVE  TestInv'
<1>0. /\ BatchesInv /\ Test!TypeOK /\ v4 \in Test!UiState /\ v5[b] \in BatchRecords
  BY TestTypes DEF TestInv
<1>1. /\ UNCHANGED <<v1, v2, v3, v6, v7, v8, v9, v10>> /\ v5[b].pc = "sleep" /\ Test!Active(b)
  BY DEF Test!Wake, Test!Active
<1>2. CASE v4.stop
  BY <1>0, <1>1, <1>2, EndBatchKeeps DEF Test!Wake
<1>3. CASE ~v4.stop
  <2> DEFINE c == v5[b]
             group == Test!FirstGroup(c.todo)
             n == [c EXCEPT !.pc = "wait", !.flight = group, !.todo = @ \ group]
             w == Test!MarkTesting(v4, group)
  <2>1. v5' = [v5 EXCEPT ![b] = n] /\ v4' = w
    BY <1>3 DEF Test!Wake, Test!LaunchGroup
  <2>2. /\ c.flight = {}
        /\ c.done + Cardinality(c.flight) + Cardinality(c.todo) = Cardinality(c.asked)
    BY <1>0, <1>1 DEF BatchesInv, AllCounted
  <2>3. /\ n \in BatchRecords /\ n.pc = "wait" /\ n.done = c.done
        /\ group \in SUBSET TestedModels /\ AllCounted(n)
    <3> HIDE DEF c
    <3>1. c \in BatchRecords
      BY <1>0 DEF c
    <3> QED
      BY <2>2, <3>1, LaunchCounts
  <2> HIDE DEF group, n
  <2>4. w \in Test!UiState /\ SameBatchMode(v4, w) /\ w.removed = v4.removed
    BY <1>0, <2>3, MarkKeeps
  <2> HIDE DEF w
  <2>5. BatchMoved(b, n, w)
    BY <1>1, <2>1, <2>3, <2>4 DEF BatchMoved
  <2> QED
    BY <1>1, <2>3, <2>4, <2>5, BatchGoesOn DEF SameBatchMode
<1> QED
  BY <1>2, <1>3

LEMMA TestAnswerStep ==
  ASSUME TestInv, NEW b \in Test!Batches, NEW m \in TestedModels, NEW r \in Test!Outcome,
         Test!BatchAnswered(b, m, r)
  PROVE  TestInv'
<1> DEFINE k == v5[b]
           n == Test!Counted(k, r)
           c == [n EXCEPT !.flight = @ \ {m}]
           p == [of |-> b, done |-> c.done, ok |-> c.ok]
           u == [Test!RecordResult(v4, m, r) EXCEPT !.progress = p]
<1>0. /\ BatchesInv /\ Test!TypeOK /\ v4 \in Test!UiState /\ k \in BatchRecords
  BY TestTypes DEF TestInv
<1>1. /\ UNCHANGED <<v1, v2, v3, v6, v7, v8, v9, v10>>
      /\ k.pc = "wait" /\ m \in k.flight /\ Test!Active(b)
  BY DEF Test!BatchAnswered, Test!Active
<1>2. \/ v5' = [v5 EXCEPT ![b] = c] /\ v4' = u
      \/ Test!EndBatch(b, u)
      \/ c.flight = {} /\ v5' = [v5 EXCEPT ![b] = [c EXCEPT !.pc = "sleep"]] /\ v4' = u
  BY DEF Test!BatchAnswered
<1>3. AllCounted(k)
  BY <1>0, <1>1 DEF BatchesInv
<1> HIDE DEF k
<1>4. /\ c \in BatchRecords /\ c.pc = "wait" /\ c.done = k.done + 1
      /\ c.flight = k.flight \ {m} /\ c.todo = k.todo /\ c.asked = k.asked
  <2> DEFINE ok == IF r = "success" THEN k.ok + 1 ELSE k.ok
  <2>1. k.done + 1 \in Nat /\ ok \in Nat
    BY <1>0 DEF BatchRecords
  <2>2. n = [k EXCEPT !.done = k.done + 1, !.ok = ok]
    BY DEF Test!Counted
  <2> HIDE DEF n, ok
  <2>3. /\ n \in BatchRecords /\ n.pc = "wait" /\ n.done = k.done + 1
        /\ n.flight = k.flight /\ n.todo = k.todo /\ n.asked = k.asked
    BY <1>0, <1>1, <2>1, <2>2 DEF BatchRecords
  <2> QED
    BY <2>3 DEF BatchRecords
<1> HIDE DEF n, c
<1>5. c.done + Cardinality(c.flight) + Cardinality(c.todo) = Cardinality(c.asked)
  <2>1. IsFiniteSet(k.flight) /\ Cardinality(k.flight) \in Nat /\ Cardinality(k.todo) \in Nat
    BY <1>0, TestIsFinite DEF BatchRecords
  <2>2. Cardinality(k.flight \ {m}) = Cardinality(k.flight) - 1
    BY <1>1, <2>1, FS_RemoveElement
  <2>3. k.done \in Nat /\ k.done + Cardinality(k.flight) + Cardinality(k.todo) = Cardinality(k.asked)
    BY <1>0, <1>3 DEF AllCounted, BatchRecords
  <2>4. Cardinality(c.flight) = Cardinality(k.flight) - 1
    BY <1>4, <2>2
  <2>5. Cardinality(c.todo) = Cardinality(k.todo) /\ Cardinality(c.asked) = Cardinality(k.asked)
    BY <1>4
  <2> QED
    BY <1>4, <2>1, <2>3, <2>4, <2>5
<1>6. /\ u \in Test!UiState /\ u.open = v4.open /\ u.stop = v4.stop /\ u.batching = v4.batching
      /\ u.progress.of = b /\ u.progress.done = c.done /\ u.removed = v4.removed
  <2> DEFINE w == Test!RecordResult(v4, m, r)
  <2>1. w \in Test!UiState /\ SameBatchMode(v4, w) /\ w.removed = v4.removed
    BY <1>0, RecordKeeps
  <2>2. b \in 0..MaxBatches
    BY DEF Test!Batches
  <2>3. p \in Progresses /\ p.of = b /\ p.done = c.done
    BY <1>4, <2>2 DEF Progresses, BatchRecords
  <2> HIDE DEF w, p
  <2>4. u = [w EXCEPT !.progress = p]
    BY DEF w
  <2> HIDE DEF u
  <2> QED
    BY <2>1, <2>3, <2>4 DEF Test!UiState, Progresses, SameBatchMode
<1> HIDE DEF u, p
<1>7. CASE v5' = [v5 EXCEPT ![b] = c] /\ v4' = u
  <2>1. BatchMoved(b, c, u) /\ AllCounted(c)
    BY <1>1, <1>4, <1>5, <1>6, <1>7 DEF BatchMoved, AllCounted
  <2> QED
    BY <1>1, <1>4, <1>6, <2>1, BatchGoesOn
<1>8. CASE Test!EndBatch(b, u)
  BY <1>1, <1>6, <1>8, EndBatchKeeps
<1>9. CASE c.flight = {} /\ v5' = [v5 EXCEPT ![b] = [c EXCEPT !.pc = "sleep"]] /\ v4' = u
  <2> DEFINE s == [c EXCEPT !.pc = "sleep"]
  <2>1. /\ s \in BatchRecords /\ s.pc = "sleep" /\ s.done = c.done
        /\ s.flight = c.flight /\ s.todo = c.todo /\ s.asked = c.asked
    BY <1>4 DEF BatchRecords
  <2> HIDE DEF s
  <2>2. v5' = [v5 EXCEPT ![b] = s]
    BY <1>9 DEF s
  <2>3. BatchMoved(b, s, u) /\ AllCounted(s)
    BY <1>1, <1>5, <1>6, <1>9, <2>1, <2>2 DEF BatchMoved, AllCounted
  <2> QED
    BY <1>1, <1>6, <2>1, <2>3, BatchGoesOn
<1> QED
  BY <1>2, <1>7, <1>8, <1>9

\* The user confirms a deletion: what is to remain is taken from the dialog.
LEMMA TestConfirmStep ==
  ASSUME TestInv, NEW d \in Test!Deletes, Test!ConfirmDelete(d)
  PROVE  TestInv'
<1> DEFINE r == [pc |-> "sent", failed |-> Test!failedModels, remaining |-> Test!Remaining]
<1>0. /\ BatchesInv /\ ListsInv /\ Test!TypeOK /\ v4 \in Test!UiState
      /\ v7 \in [Test!Deletes -> DeleteRecords] /\ v3 \in SUBSET TestedModels
  BY TestTypes DEF TestInv
<1>1. UNCHANGED <<v1, v2, v3, v5, v6, v8, v9, v10>> /\ v7[d].pc = "none"
  BY DEF Test!ConfirmDelete
<1>2. v4' \in Test!UiState /\ SameBatchMode(v4, v4') /\ v4'.removed = v4.removed
  BY <1>0 DEF Test!ConfirmDelete, Test!UiState, SameBatchMode
<1>3. BatchesInv'
  BY <1>0, <1>1, <1>2, BatchesKept
<1>4. CASE v7' = v7
  <2>1. Test!TypeOK'
    BY <1>0, <1>1, <1>2, <1>4 DEF Test!TypeOK
  <2> QED
    BY <1>0, <1>1, <1>2, <1>3, <1>4, <2>1, ListsKept DEF TestInv
<1>5. CASE v7' = [v7 EXCEPT ![d] = r]
  <2>1. /\ Test!failedModels \in SUBSET TestedModels /\ Test!Remaining \in SUBSET TestedModels
        /\ Test!Remaining = (v3 \ v4.removed) \ Test!failedModels
    BY <1>0 DEF Test!failedModels, Test!Remaining, Test!models
  <2>2. r \in DeleteRecords /\ r.pc = "sent"
    BY <2>1 DEF DeleteRecords
  <2>3. v7' \in [Test!Deletes -> DeleteRecords]
    BY <1>0, <1>5, <2>2
  <2>4. Test!TypeOK'
    BY <1>0, <1>1, <1>2, <2>3 DEF Test!TypeOK, DeleteRecords
  <2>5. v7'[d] = r /\ \A e \in Test!Deletes : e # d => v7'[e] = v7[e]
    BY <1>0, <1>5
  <2>6. Named \subseteq Named' /\ Test!failedModels \subseteq Named'
    <3>1. ASSUME NEW m \in Named PROVE m \in Named'
      <4>1. PICK e \in Test!Deletes : m \in v7[e].failed
        BY DEF Named
      <4>2. e # d
        BY <1>0, <1>1, <4>1 DEF ListsInv
      <4> QED
        BY <2>5, <4>1, <4>2 DEF Named
    <3> QED
      BY <2>5, <3>1 DEF Named
  <2>7. ListsInv'
    <3>1. v2' \ Named' = v1' \ Named' /\ v3' \ Named' = v1' \ Named'
      BY <1>0, <1>1, <2>6 DEF ListsInv
    <3>2. v4'.removed \subseteq Named'
      BY <1>0, <1>2, <2>6 DEF ListsInv
    <3>3. \A e \in Test!Deletes : v7'[e].pc = "none" => v7'[e].failed = {}
      BY <1>0, <2>2, <2>5 DEF ListsInv
    <3>4. ASSUME NEW e \in Test!Deletes, v7'[e].pc = "sent"
          PROVE  v7'[e].remaining \ Named' = v1' \ Named'
      <4>1. CASE e = d
        <5>1. v7'[e].remaining = (v3 \ v4.removed) \ Test!failedModels
          BY <2>1, <2>5, <4>1
        <5>2. v4.removed \subseteq Named' /\ v3 \ Named = v1 \ Named
          BY <1>0, <2>6 DEF ListsInv
        <5> QED
          BY <1>1, <2>6, <5>1, <5>2
      <4>2. CASE e # d
        <5>1. v7[e].remaining \ Named = v1 \ Named
          BY <1>0, <2>5, <3>4, <4>2 DEF ListsInv
        <5> QED
          BY <1>1, <2>5, <2>6, <4>2, <5>1
      <4> QED
        BY <4>1, <4>2
    <3> QED
      BY <3>1, <3>2, <3>3, <3>4 DEF ListsInv
  <2> QED
    BY <1>3, <2>4, <2>7 DEF TestInv
<1> QED
  BY <1>4, <1>5 DEF Test!ConfirmDelete

\* A deletion goes from one stage to the next and names the same models.
LEMMA DeleteMoves ==
  ASSUME v7 \in [Test!Deletes -> DeleteRecords], NEW d \in Test!Deletes,
         NEW p \in {"ok", "failed", "over"}, v7' = [v7 EXCEPT ![d].pc = p]
  PROVE  /\ v7' \in [Test!Deletes -> DeleteRecords] /\ Named' = Named
         /\ \A e \in Test!Deletes : /\ v7'[e].failed = v7[e].failed
                                    /\ v7'[e].remaining = v7[e].remaining
                                    /\ v7'[e].pc = v7[e].pc \/ v7'[e].pc = p
<1>1. v7' = [v7 EXCEPT ![d] = [v7[d] EXCEPT !.pc = p]]
  OBVIOUS
<1>2. [v7[d] EXCEPT !.pc = p] \in DeleteRecords
  BY DEF DeleteRecords
<1>3. v7' \in [Test!Deletes -> DeleteRecords]
  BY <1>1, <1>2
<1>4. \A e \in Test!Deletes : /\ v7'[e].failed = v7[e].failed
                              /\ v7'[e].remaining = v7[e].remaining
                              /\ v7'[e].pc = v7[e].pc \/ v7'[e].pc = p
  BY <1>1 DEF DeleteRecords
<1>5. Named' = Named
  BY <1>4 DEF Named
<1> QED
  BY <1>3, <1>4, <1>5

LEMMA TestServeStep ==
  ASSUME TestInv, NEW d \in Test!Deletes, Test!ServeDelete(d)
  PROVE  TestInv' /\ v1 \ v1' \subseteq Named
<1>0. /\ BatchesInv /\ ListsInv /\ Test!TypeOK /\ v4 \in Test!UiState
      /\ v7 \in [Test!Deletes -> DeleteRecords] /\ v1 \in SUBSET TestedModels
  BY TestTypes DEF TestInv
<1>1. UNCHANGED <<v2, v3, v4, v5, v6, v8, v9, v10>> /\ v7[d].pc = "sent"
  BY DEF Test!ServeDelete
<1>2. v1' = v1 \/ v1' = v7[d].remaining
  BY DEF Test!ServeDelete, Test!StoredModels
<1>3. PICK p \in {"ok", "failed", "over"} : v7' = [v7 EXCEPT ![d].pc = p]
  BY DEF Test!ServeDelete
<1>4. /\ v7' \in [Test!Deletes -> DeleteRecords] /\ Named' = Named
      /\ \A e \in Test!Deletes : /\ v7'[e].failed = v7[e].failed
                                 /\ v7'[e].remaining = v7[e].remaining
                                 /\ v7'[e].pc = v7[e].pc \/ v7'[e].pc = p
  BY <1>0, <1>3, DeleteMoves
<1>5. v1' \in SUBSET TestedModels
  BY <1>0, <1>2 DEF DeleteRecords
<1>6. v1' \ Named = v1 \ Named
  BY <1>0, <1>1, <1>2 DEF ListsInv
<1>7. ListsInv'
  BY <1>0, <1>1, <1>4, <1>6 DEF ListsInv
<1>8. Test!TypeOK'
  BY <1>0, <1>1, <1>4, <1>5 DEF Test!TypeOK, DeleteRecords
<1>9. BatchesInv'
  BY <1>0, <1>1, BatchesKept DEF SameBatchMode
<1> QED
  BY <1>6, <1>7, <1>8, <1>9 DEF TestInv

LEMMA TestDeletedStep ==
  ASSUME TestInv, NEW d \in Test!Deletes, Test!DeleteAnswered(d)
  PROVE  TestInv'
<1>0. /\ BatchesInv /\ ListsInv /\ Test!TypeOK /\ v4 \in Test!UiState
      /\ v7 \in [Test!Deletes -> DeleteRecords] /\ v7[d] \in DeleteRecords
  BY TestTypes DEF TestInv
<1>1. /\ UNCHANGED <<v1, v2, v3, v5, v6, v8, v9, v10>>
      /\ v7' = [v7 EXCEPT ![d].pc = "over"]
  BY DEF Test!DeleteAnswered
<1>2. /\ v7' \in [Test!Deletes -> DeleteRecords] /\ Named' = Named
      /\ \A e \in Test!Deletes : /\ v7'[e].failed = v7[e].failed
                                 /\ v7'[e].remaining = v7[e].remaining
                                 /\ v7'[e].pc = v7[e].pc \/ v7'[e].pc = "over"
  BY <1>0, <1>1, DeleteMoves
<1>3. /\ v4' \in Test!UiState /\ SameBatchMode(v4, v4')
      /\ v4'.removed \subseteq v4.removed \cup v7[d].failed
  <2> DEFINE R == [m \in TestedModels |-> IF m \in v7[d].failed THEN "idle" ELSE v4.results[m]]
  <2>1. R \in [TestedModels -> {"idle", "testing"} \cup Test!Outcome]
    BY <1>0 DEF Test!UiState
  <2>2. v7[d].failed \in SUBSET TestedModels
    BY <1>0 DEF DeleteRecords
  <2>3. \/ v4' = [v4 EXCEPT !.removed = @ \cup v7[d].failed, !.results = R,
                            !.confirm = FALSE, !.deleting = FALSE]
        \/ v4' = [v4 EXCEPT !.deleting = FALSE]
    BY DEF Test!DeleteAnswered
  <2> HIDE DEF R
  <2> QED
    BY <1>0, <2>1, <2>2, <2>3 DEF Test!UiState, SameBatchMode
<1>4. v7[d].failed \subseteq Named
  BY DEF Named
<1>5. ListsInv'
  BY <1>0, <1>1, <1>2, <1>3, <1>4 DEF ListsInv
<1>6. Test!TypeOK'
  BY <1>0, <1>1, <1>2, <1>3 DEF Test!TypeOK, DeleteRecords
<1>7. BatchesInv'
  BY <1>0, <1>1, <1>3, BatchesKept
<1> QED
  BY <1>5, <1>6, <1>7 DEF TestInv

LEMMA TestSteps == TestInv /\ Test!Next => TestInv'
BY TestDialogSteps, TestStopSteps, TestListSteps, TestStartStep, TestWakeStep, TestAnswerStep,
   TestConfirmStep, TestServeStep, TestDeletedStep DEF Test!Next, Test!Answers

\* A batch that was stopped sends no more tests: it finds the flag when it wakes.
LEMMA TestStopIsHonoured == TestInv /\ Test!Next => Test!StopIsHonoured
<1> SUFFICES ASSUME TestInv, Test!Next, NEW b \in v9, ~v10'
             PROVE  v5'[b].flight \subseteq v5[b].flight
  BY DEF Test!StopIsHonoured
<1>0. /\ BatchesInv /\ Test!TypeOK /\ b \in Test!Batches /\ v5 \in [Test!Batches -> BatchRecords]
      /\ v5[b] \in BatchRecords
  BY TestTypes DEF TestInv
<1>1. ASSUME NEW a \in Test!Batches, NEW c \in BatchRecords, v5' = [v5 EXCEPT ![a] = c],
             a = b => c.flight \subseteq v5[b].flight
      PROVE  v5'[b].flight \subseteq v5[b].flight
  <2>1. CASE a = b
    BY <1>0, <1>1, <2>1
  <2>2. CASE a # b
    BY <1>0, <1>1, <2>2
  <2> QED
    BY <2>1, <2>2
<1>2. [Test!NoBatch EXCEPT !.pc = "over"] \in BatchRecords
      /\ [Test!NoBatch EXCEPT !.pc = "over"].flight = {}
  BY DEF Test!NoBatch, BatchRecords
<1>3. ASSUME NEW a \in Test!Batches, NEW u, Test!EndBatch(a, u)
      PROVE  v5'[b].flight \subseteq v5[b].flight
  <2>1. v5' = [v5 EXCEPT ![a] = [Test!NoBatch EXCEPT !.pc = "over"]]
    BY <1>3 DEF Test!EndBatch
  <2> QED
    BY <1>1, <1>2, <2>1
<1>4. ASSUME NEW a \in Test!Batches, a # b, NEW c, NEW u, Test!LaunchGroup(a, c, u)
      PROVE  v5'[b].flight \subseteq v5[b].flight
  BY <1>0, <1>4 DEF Test!LaunchGroup
<1>5. ASSUME NEW a \in Test!Batches, NEW S \in SUBSET TestedModels, Test!StartBatch(a, S)
      PROVE  v5'[b].flight \subseteq v5[b].flight
  <2>1. a # b
    BY <1>0, <1>5 DEF Test!StartBatch, BatchesInv
  <2> QED
    BY <1>4, <1>5, <2>1 DEF Test!StartBatch
<1>6. ASSUME NEW a \in Test!Batches, Test!Wake(a)
      PROVE  v5'[b].flight \subseteq v5[b].flight
  <2>1. CASE a = b
    <3>1. Test!Active(b) /\ ~v10
      BY <1>6, <2>1 DEF Test!Wake, Test!Active
    <3>2. v4.stop
      BY <1>0, <3>1 DEF BatchesInv
    <3> QED
      BY <1>3, <1>6, <3>2 DEF Test!Wake
  <2>2. CASE a # b
    BY <1>3, <1>4, <1>6, <2>2 DEF Test!Wake
  <2> QED
    BY <2>1, <2>2
<1>7. ASSUME NEW a \in Test!Batches, NEW m \in TestedModels, NEW r \in Test!Outcome,
             Test!BatchAnswered(a, m, r)
      PROVE  v5'[b].flight \subseteq v5[b].flight
  <2> DEFINE n == Test!Counted(v5[a], r)
             c == [n EXCEPT !.flight = @ \ {m}]
             u == [Test!RecordResult(v4, m, r) EXCEPT
                     !.progress = [of |-> a, done |-> c.done, ok |-> c.ok]]
             s == [c EXCEPT !.pc = "sleep"]
  <2>0. v5[a] \in BatchRecords
    BY <1>0
  <2>1. n \in BatchRecords /\ n.flight = v5[a].flight
    <3> DEFINE k == v5[a]
               ok == IF r = "success" THEN k.ok + 1 ELSE k.ok
    <3>1. k.done + 1 \in Nat /\ ok \in Nat
      BY <2>0 DEF BatchRecords
    <3>2. n = [k EXCEPT !.done = k.done + 1, !.ok = ok]
      BY DEF Test!Counted
    <3> HIDE DEF n, ok
    <3> QED
      BY <2>0, <3>1, <3>2 DEF BatchRecords
  <2>2. v5' = [v5 EXCEPT ![a] = c] \/ Test!EndBatch(a, u) \/ v5' = [v5 EXCEPT ![a] = s]
    BY <1>7 DEF Test!BatchAnswered
  <2> HIDE DEF n, u
  <2>3. c \in BatchRecords /\ c.flight \subseteq v5[a].flight
    BY <2>1 DEF BatchRecords
  <2> HIDE DEF c
  <2>4. s \in BatchRecords /\ s.flight \subseteq v5[a].flight
    BY <2>3 DEF BatchRecords
  <2> HIDE DEF s
  <2>5. a = b => v5[a].flight = v5[b].flight
    OBVIOUS
  <2> QED
    BY <1>1, <1>3, <2>2, <2>3, <2>4, <2>5
<1>8. v5' = v5 => v5'[b].flight \subseteq v5[b].flight
  OBVIOUS
<1> QED
  BY <1>5, <1>6, <1>7, <1>8
     DEF Test!Next, Test!Answers, Test!Open, Test!handleClose, Test!OpenConfirm,
         Test!CancelConfirm, Test!handleStopBatchTest, Test!ListRefetched, Test!SingleAnswered,
         Test!TestSingle, Test!ConfirmDelete, Test!ServeDelete, Test!DeleteAnswered

\* A model leaves the channel only by a deletion that named it, then or before.
LEMMA TestOthersAreKept == TestInv /\ Test!Next => Test!OthersAreKept
<1> SUFFICES ASSUME TestInv, Test!Next PROVE v1 \ v1' \subseteq Named
  BY DEF Test!OthersAreKept, Named
<1>1. ASSUME \/ Test!Open \/ Test!handleClose \/ Test!OpenConfirm \/ Test!CancelConfirm
             \/ Test!handleStopBatchTest \/ Test!ListRefetched
      PROVE  v1' = v1
  BY <1>1 DEF Test!Open, Test!handleClose, Test!OpenConfirm, Test!CancelConfirm,
              Test!handleStopBatchTest, Test!ListRefetched
<1>2. ASSUME NEW m \in TestedModels, NEW r \in Test!Outcome,
             \/ Test!SingleAnswered(m, r)
             \/ \E b \in Test!Batches : Test!BatchAnswered(b, m, r)
      PROVE  v1' = v1
  BY <1>2 DEF Test!SingleAnswered, Test!BatchAnswered
<1>3. ASSUME NEW m \in TestedModels, Test!TestSingle(m) PROVE v1' = v1
  BY <1>3 DEF Test!TestSingle
<1>4. ASSUME NEW b \in Test!Batches,
             Test!Wake(b) \/ \E S \in SUBSET TestedModels : Test!StartBatch(b, S)
      PROVE  v1' = v1
  BY <1>4 DEF Test!Wake, Test!StartBatch
<1>5. ASSUME NEW d \in Test!Deletes, Test!ConfirmDelete(d) \/ Test!DeleteAnswered(d)
      PROVE  v1' = v1
  BY <1>5 DEF Test!ConfirmDelete, Test!DeleteAnswered
<1>6. ASSUME NEW d \in Test!Deletes, Test!ServeDelete(d)
      PROVE  v1 \ v1' \subseteq Named
  BY <1>6, TestServeStep
<1>7. v1' = v1 => v1 \ v1' \subseteq Named
  OBVIOUS
<1> QED
  BY <1>1, <1>2, <1>3, <1>4, <1>5, <1>6, <1>7 DEF Test!Next, Test!Answers
-----------------------------------------------------------------------------
(***************************************************************************)
(* The console: the page shown keeps its invariant, and its word.          *)
(***************************************************************************)

ConsoleInv ==
  /\ shown \in Pages
  /\ shown = "test" => TestInv
  /\ shown = "settings" => SettingsInv /\ SettingsShow
  /\ shown = "content" => ContentInv
  /\ shown = "history" => HistoryInv
  /\ shown = "wallet" => WalletInv

LEMMA ConsoleStarts == ConsoleInit => ConsoleInv
BY TestStarts, SettingsStarts, ShowStarts, ContentStarts, HistoryStarts, WalletStarts
   DEF ConsoleInit, ConsoleInv, Pages

\* A step of no page: a stuttering step, or a request that hangs.
LEMMA ConsoleStutters == ConsoleInv /\ UNCHANGED <<shown, state>> => ConsoleInv'
<1> SUFFICES ASSUME ConsoleInv, UNCHANGED <<shown, state>> PROVE ConsoleInv'
  OBVIOUS
<1>1. UNCHANGED <<shown, v1, v2, v3, v4, v5, v6, v7, v8, v9, v10, v11, v12, v13, v14>>
  BY DEF state
<1>2. TestInv => TestInv'
  BY <1>1 DEF TestInv, BatchesInv, ListsInv, Named, AllCounted, Test!TypeOK, Test!Active
<1>3. SettingsInv => SettingsInv'
  BY <1>1 DEF SettingsInv, SoundSave, Settings!TypeOK, Settings!Dirty
<1>3a. SettingsShow => SettingsShow'
  <2>1. CacheIsRead => CacheIsRead'
    BY <1>1 DEF CacheIsRead
  <2>2. OneSave => OneSave'
    BY <1>1 DEF OneSave, Settings!Active
  <2>3. SaveFits => SaveFits'
    BY <1>1 DEF SaveFits, Settings!Active, Settings!First
  <2>4. BaseIsKnown => BaseIsKnown'
    BY <1>1 DEF BaseIsKnown, Settings!Active, Settings!Mounted
  <2> QED
    BY <1>1, <2>1, <2>2, <2>3, <2>4 DEF SettingsShow, Quiet, Settings!Mounted
<1>4. ContentInv => ContentInv'
  <2> SUFFICES ASSUME ContentInv PROVE ContentInv'
    OBVIOUS
  <2>1. Content!TypeOK'
    BY <1>1 DEF ContentInv, Content!TypeOK
  <2>2. Good(v2)' /\ Good(v3)' /\ Good(v4.val)' /\ Good(v7.val)' /\ Distinct(v6.list)'
    BY <1>1 DEF ContentInv, Good, Distinct, Content!HasKeys, Content!Parse
  <2>3. Kept' /\ Content!SaveKeepsOthers'
    BY <1>1 DEF ContentInv, Kept, Content!SaveKeepsOthers, Content!Shown, Content!Parse,
                Content!Ofs
  <2> QED
    BY <2>1, <2>2, <2>3 DEF ContentInv
<1>5. HistoryInv => HistoryInv'
  BY <1>1 DEF HistoryInv, History!TypeOK, History!RowsAreOfPage, History!Query
<1>6. WalletInv => WalletInv'
  BY <1>1 DEF WalletInv, Wallet!TypeOK
<1> QED
  BY <1>1, <1>2, <1>3, <1>3a, <1>4, <1>5, <1>6 DEF ConsoleInv

\* What the page shown promises holds of its state, and of a step that leaves it.
LEMMA ConsoleHangs == ConsoleInv /\ Hang => ConsoleInv' /\ KeepsItsWord
<1> SUFFICES ASSUME ConsoleInv, Hang PROVE ConsoleInv' /\ KeepsItsWord
  OBVIOUS
<1>1. UNCHANGED <<shown, state>> /\ ConsoleInv'
  BY ConsoleStutters DEF Hang
<1>2. UNCHANGED <<shown, v1, v2, v3, v4, v5, v6, v7, v8, v9, v10, v11, v12, v13, v14>>
  BY <1>1 DEF state
<1>3. CASE shown = "test"
  <2>1. TestInv'
    BY <1>1, <1>2, <1>3 DEF ConsoleInv
  <2>2. (Test!BatchIsShown /\ Test!BatchModeHasBatch)' /\ Test!TypeOK'
    BY <2>1, TestKeepsWord, PTL DEF TestInv
  <2>3. Test!StopIsHonoured /\ Test!OthersAreKept
    BY <1>2 DEF Test!StopIsHonoured, Test!OthersAreKept
  <2> QED
    BY <1>1, <1>3, <2>2, <2>3 DEF KeepsItsWord
<1>4. CASE shown = "settings"
  <2>1. SettingsInv' /\ SettingsShow'
    BY <1>1, <1>2, <1>4 DEF ConsoleInv
  <2>2. Settings!SavedIsShown' /\ Settings!TypeOK'
    BY <2>1, SettingsKeepsWord, PTL DEF SettingsInv
  <2>3. Settings!OnlyTypedIsWritten
    BY <1>2 DEF Settings!OnlyTypedIsWritten
  <2> QED
    BY <1>1, <1>4, <2>2, <2>3 DEF KeepsItsWord
<1>5. CASE shown = "content"
  <2>1. ContentInv'
    BY <1>1, <1>2, <1>5 DEF ConsoleInv
  <2>2. (Content!IdsDiffer /\ Content!SaveKeepsOthers)' /\ Content!TypeOK'
    BY <2>1, ContentKeepsWord, PTL DEF ContentInv
  <2> QED
    BY <1>1, <1>5, <2>2 DEF KeepsItsWord
<1>6. CASE shown = "history"
  BY <1>1, <1>2, <1>6 DEF ConsoleInv, KeepsItsWord, HistoryInv
<1>7. CASE shown = "wallet"
  <2>1. WalletInv'
    BY <1>1, <1>2, <1>7 DEF ConsoleInv
  <2>2. (Wallet!OneOrderAtATime /\ Wallet!ConfirmAsks)' /\ Wallet!TypeOK'
    BY <2>1, WalletKeepsWord, PTL DEF WalletInv
  <2> QED
    BY <1>1, <1>7, <2>2 DEF KeepsItsWord
<1> QED
  BY <1>3, <1>4, <1>5, <1>6, <1>7 DEF ConsoleInv, Pages

LEMMA ConsoleSteps == ConsoleInv /\ ConsoleNext => ConsoleInv' /\ KeepsItsWord
<1> SUFFICES ASSUME ConsoleInv, ConsoleNext PROVE ConsoleInv' /\ KeepsItsWord
  OBVIOUS
<1>1. CASE InTest(Test!Next)
  <2>1. shown = "test" /\ shown' = "test" /\ TestInv /\ TestInv'
    BY <1>1, TestSteps DEF InTest, ConsoleInv
  <2>2. (Test!BatchIsShown /\ Test!BatchModeHasBatch)' /\ Test!TypeOK'
    BY <2>1, TestKeepsWord, PTL DEF TestInv
  <2>3. Test!StopIsHonoured /\ Test!OthersAreKept
    BY <1>1, <2>1, TestStopIsHonoured, TestOthersAreKept DEF InTest
  <2> QED
    BY <2>1, <2>2, <2>3 DEF ConsoleInv, KeepsItsWord, Pages
<1>2. CASE InSettings(Settings!Next)
  <2>1. /\ shown = "settings" /\ shown' = "settings"
        /\ SettingsInv /\ SettingsInv' /\ SettingsShow'
    BY <1>2, SettingsSteps, ShowSteps DEF InSettings, ConsoleInv
  <2>2. Settings!SavedIsShown' /\ Settings!TypeOK'
    BY <2>1, SettingsKeepsWord, PTL DEF SettingsInv
  <2>3. Settings!OnlyTypedIsWritten
    BY <1>2, <2>1, SettingsWritesTyped DEF InSettings
  <2> QED
    BY <2>1, <2>2, <2>3 DEF ConsoleInv, KeepsItsWord, Pages
<1>3. CASE InContent(Content!Next)
  <2>1. shown = "content" /\ shown' = "content" /\ ContentInv'
    BY <1>3, ContentSteps DEF InContent, ConsoleInv
  <2>2. (Content!IdsDiffer /\ Content!SaveKeepsOthers)' /\ Content!TypeOK'
    BY <2>1, ContentKeepsWord, PTL DEF ContentInv
  <2> QED
    BY <2>1, <2>2 DEF ConsoleInv, KeepsItsWord, Pages
<1>4. CASE InHistory(History!Next)
  <2>1. shown = "history" /\ shown' = "history" /\ HistoryInv'
    BY <1>4, HistorySteps DEF InHistory, ConsoleInv
  <2> QED
    BY <2>1 DEF ConsoleInv, KeepsItsWord, Pages, HistoryInv
<1>5. CASE InWallet(Wallet!Next)
  <2>1. shown = "wallet" /\ shown' = "wallet" /\ WalletInv'
    BY <1>5, WalletSteps DEF InWallet, ConsoleInv
  <2>2. (Wallet!OneOrderAtATime /\ Wallet!ConfirmAsks)' /\ Wallet!TypeOK'
    BY <2>1, WalletKeepsWord, PTL DEF WalletInv
  <2> QED
    BY <2>1, <2>2 DEF ConsoleInv, KeepsItsWord, Pages
<1> QED
  BY <1>1, <1>2, <1>3, <1>4, <1>5, ConsoleHangs DEF ConsoleNext, PageStep

\* Every step of the page shown keeps what KeepsItsWord says of the page, with the
\* exceptions named there (overlapping batches, deletions that follow one another,
\* refused updates and crossing saves, ids that clashed, outdated lists, pages that
\* were left), for every number of models, batches, saves, entries, words and
\* orders, and whichever requests hang.
THEOREM PagesAreSound == ConsoleSpec => PagesKeepTheirWord
<1>1. ConsoleInv /\ [ConsoleNext]_consoleVars => ConsoleInv'
  BY ConsoleSteps, ConsoleStutters DEF consoleVars
<1>2. ConsoleInv /\ [ConsoleNext]_consoleVars => [KeepsItsWord]_consoleVars
  BY ConsoleSteps
<1> QED
  BY ConsoleStarts, <1>1, <1>2, PTL DEF ConsoleSpec, PagesKeepTheirWord
-----------------------------------------------------------------------------
(***************************************************************************)
(* The orders the wallet asks for, on the server: module TopUp, for every  *)
(* set of orders and handlers.  An order is credited at most once whatever *)
(* is delivered to whatever node; and a credited order stays successful,   *)
(* but for a failure of Stripe that another node than the one that         *)
(* credited it had in hand: LockOrder is a lock of one process.            *)
(***************************************************************************)

Call == [pc : {"free", "work", "save"}, o : Orders \cup {NoOrder},
         kind : Kinds \cup {"none", "manual"}]

\* The types the proofs need.
Typed ==
    /\ status \in [Orders -> {"none", "pending", "success", "failed", "expired"}]
    /\ provider \in [Orders -> Providers \cup {"none"}]
    /\ credits \in [Orders -> Nat]
    /\ creditedOn \in [Orders -> SUBSET Nodes]
    /\ outcome \in [Orders -> Kinds \cup {"open"}]
    /\ hooks \subseteq [o : Orders, kind : Kinds]
    /\ handler \in [Handlers -> Call]
    /\ lock \in [Nodes -> [Orders -> SUBSET Handlers]]

\* A handler works on an order that exists, with cause.
Busy(h) == handler[h].pc # "free"

CallOK(h) ==
    Busy(h) =>
        /\ handler[h].o \in Orders
        /\ handler[h].kind \in Kinds => outcome[handler[h].o] = handler[h].kind
        /\ handler[h].kind = "manual" => Admin
        /\ status[handler[h].o] # "none"

HooksTell == \A e \in hooks : outcome[e.o] = e.kind /\ status[e.o] # "none"

\* Only a recharge makes an order successful, and it credits it.
Once ==
    \A o \in Orders :
        /\ credits[o] \in {0, 1}
        /\ status[o] = "success" => credits[o] = 1
        /\ credits[o] = 1 => status[o] \notin {"none", "pending"}
        /\ credits[o] = 1 => outcome[o] = "paid" \/ Admin

Inv ==
    /\ Typed
    /\ HooksTell
    /\ Once
    /\ \A h \in Handlers : CallOK(h)

-----------------------------------------------------------------------------
(* What the handlers' steps have in common.                                *)

\* A handler that ends is free, and leaves the other handlers and their locks.
LEMMA EndAt ==
    ASSUME Typed, NEW h \in Handlers, Busy(h), CallOK(h), NEW acked \in BOOLEAN, End(h, acked)
    PROVE  /\ handler' \in [Handlers -> Call]
           /\ handler'[h].pc = "free"
           /\ \A g \in Handlers : g # h => handler'[g] = handler[g]
           /\ lock' \in [Nodes -> [Orders -> SUBSET Handlers]]
           /\ \A n \in Nodes, o \in Orders : /\ lock'[n][o] \subseteq lock[n][o]
                                             /\ lock[n][o] \ {h} \subseteq lock'[n][o]
           /\ hooks' \subseteq hooks
<1>1. Free \in Call /\ Free.pc = "free"
  BY DEF Free, Call
<1>2. NodeOf[h] \in Nodes /\ handler[h].o \in Orders
  BY DEF Nodes, CallOK
<1>3. handler' = [handler EXCEPT ![h] = Free]
  BY DEF End
<1>4. lock' = [lock EXCEPT ![NodeOf[h]] = [lock[NodeOf[h]] EXCEPT ![handler[h].o] = @ \ {h}]]
  BY <1>2 DEF End, Typed
<1>5. lock[NodeOf[h]] \in [Orders -> SUBSET Handlers]
  BY <1>2 DEF Typed
<1>6. hooks' \subseteq hooks
  BY DEF End
<1>7. /\ lock' \in [Nodes -> [Orders -> SUBSET Handlers]]
      /\ \A n \in Nodes, o \in Orders : /\ lock'[n][o] \subseteq lock[n][o]
                                        /\ lock[n][o] \ {h} \subseteq lock'[n][o]
  BY <1>2, <1>4, <1>5 DEF Typed
<1> QED
  BY <1>1, <1>3, <1>6, <1>7 DEF Typed

\* What a handler does to its order: nothing, the credit, or the end of a pending
\* one; or the failure it had decided on before.
OrderStep(h) ==
    LET o == handler[h].o IN
    \/ UNCHANGED <<status, credits, creditedOn>>
    \/ (\E quota : Credit(h, quota)) /\ handler[h].kind \in {"paid", "manual"}
    \/ /\ status[o] = "pending" /\ UNCHANGED <<credits, creditedOn>>
       /\ status' = [status EXCEPT ![o] = "expired"]
    \/ /\ handler[h].pc = "save" /\ handler[h].kind = "failed"
       /\ UNCHANGED <<credits, creditedOn>>
       /\ status' = [status EXCEPT ![o] = "failed"]

\* It returns, or has looked at a pending order and goes on.
Looked(h) ==
    /\ handler' = [handler EXCEPT ![h].pc = "save"]
    /\ handler[h].pc = "work" /\ status[handler[h].o] = "pending"
    /\ UNCHANGED <<hooks, lock, status, credits, creditedOn>>

LEMMA ServeAt ==
    ASSUME NEW h \in Handlers, Serve(h)
    PROVE  /\ Busy(h)
           /\ outcome' = outcome /\ provider' = provider
           /\ OrderStep(h)
           /\ Looked(h) \/ \E acked \in BOOLEAN : End(h, acked)
<1>1. CASE EpayNotify(h) \/ StripeFulfill(h) \/ ManualCompleteTopUp(h)
  <2>1. /\ handler[h].pc = "work" /\ handler[h].kind \in {"paid", "manual"}
        /\ (\E quota : Credit(h, quota)) \/ UNCHANGED row
        /\ \E acked \in BOOLEAN : End(h, acked)
        /\ outcome' = outcome
    BY <1>1 DEF EpayNotify, StripeFulfill, ManualCompleteTopUp, At, Answer
  <2> QED
    BY <2>1 DEF OrderStep, Busy, row, Credit
<1>2. CASE StripeExpired(h)
  BY <1>2 DEF StripeExpired, At, Answer, OrderStep, Busy
<1>3. CASE StripeFailedRead(h) \/ CreemRead(h)
  BY <1>3 DEF StripeFailedRead, CreemRead, At, Answer, OrderStep, Busy, Looked, row
<1>4. CASE StripeFailedSave(h)
  BY <1>4 DEF StripeFailedSave, Answer, OrderStep, Busy
<1>5. CASE RechargeCreem(h)
  BY <1>5 DEF RechargeCreem, Answer, OrderStep, Busy, row, Credit
<1> QED
  BY <1>1, <1>2, <1>3, <1>4, <1>5 DEF Serve

\* The other handlers' calls, and what happens to this one.
LEMMA ServeHandlers ==
    ASSUME Inv, NEW h \in Handlers, Serve(h)
    PROVE  /\ handler' \in [Handlers -> Call]
           /\ \A g \in Handlers : g # h => handler'[g] = handler[g]
           /\ \/ handler'[h].pc = "free"
              \/ /\ handler'[h].pc = "save" /\ handler'[h].o = handler[h].o
                 /\ handler'[h].kind = handler[h].kind
                 /\ Looked(h)
           /\ lock' \in [Nodes -> [Orders -> SUBSET Handlers]]
           /\ \A n \in Nodes, o \in Orders : lock'[n][o] \subseteq lock[n][o]
           /\ \A n \in Nodes, o \in Orders : lock[n][o] \ {h} \subseteq lock'[n][o]
           /\ hooks' \subseteq hooks
<1>t. Typed /\ CallOK(h) /\ Busy(h)
  BY ServeAt DEF Inv
<1>1. CASE Looked(h)
  <2>1. /\ handler' \in [Handlers -> Call]
        /\ \A g \in Handlers : g # h => handler'[g] = handler[g]
        /\ handler'[h].pc = "save" /\ handler'[h].o = handler[h].o
        /\ handler'[h].kind = handler[h].kind
    BY <1>t, <1>1 DEF Looked, Typed, Call
  <2>2. hooks' = hooks /\ lock' = lock
    BY <1>1 DEF Looked
  <2> QED
    BY <1>t, <1>1, <2>1, <2>2 DEF Typed
<1>2. ASSUME NEW acked \in BOOLEAN, End(h, acked)
      PROVE  /\ handler' \in [Handlers -> Call]
             /\ \A g \in Handlers : g # h => handler'[g] = handler[g]
             /\ handler'[h].pc = "free"
             /\ lock' \in [Nodes -> [Orders -> SUBSET Handlers]]
             /\ \A n \in Nodes, o \in Orders : lock'[n][o] \subseteq lock[n][o]
             /\ \A n \in Nodes, o \in Orders : lock[n][o] \ {h} \subseteq lock'[n][o]
             /\ hooks' \subseteq hooks
  BY <1>t, <1>2, EndAt
<1> QED
  BY <1>1, <1>2, ServeAt

\* A handler starts to work on an order it has locked.
Starts(h, o, kind) ==
    /\ LockOrder(h, o)
    /\ handler' = [handler EXCEPT ![h] = [pc |-> "work", o |-> o, kind |-> kind]]

LEMMA StartAt ==
    ASSUME Typed, NEW h \in Handlers, NEW o \in Orders,
           NEW kind \in Kinds \cup {"manual"}, Starts(h, o, kind)
    PROVE  /\ handler' \in [Handlers -> Call]
           /\ \A g \in Handlers : g # h => handler'[g] = handler[g]
           /\ handler'[h].pc = "work" /\ handler'[h].o = o /\ handler'[h].kind = kind
           /\ lock' \in [Nodes -> [Orders -> SUBSET Handlers]]
           /\ NodeOf[h] \in Nodes
           /\ \A g : g \notin lock[NodeOf[h]][o] /\ (g \in lock'[NodeOf[h]][o] <=> g = h)
           /\ \A n \in Nodes, u \in Orders : n # NodeOf[h] \/ u # o => lock'[n][u] = lock[n][u]
<1>1. [pc |-> "work", o |-> o, kind |-> kind] \in Call
  BY DEF Call
<1>2. PICK c : c = [pc |-> "work", o |-> o, kind |-> kind]
  OBVIOUS
<1>3. /\ c \in Call /\ c.pc = "work" /\ c.o = o /\ c.kind = kind
      /\ handler' = [handler EXCEPT ![h] = c]
  BY <1>1, <1>2 DEF Starts
<1>4. NodeOf[h] \in Nodes
  BY DEF Nodes
<1>5. /\ handler' \in [Handlers -> Call]
      /\ \A g \in Handlers : g # h => handler'[g] = handler[g]
      /\ handler'[h] = c
  BY <1>3 DEF Typed
<1>6. /\ lock' \in [Nodes -> [Orders -> SUBSET Handlers]]
      /\ \A g : g \notin lock[NodeOf[h]][o] /\ (g \in lock'[NodeOf[h]][o] <=> g = h)
      /\ \A n \in Nodes, u \in Orders : n # NodeOf[h] \/ u # o => lock'[n][u] = lock[n][u]
  BY <1>4 DEF Typed, LockOrder, Starts
<1> QED
  BY <1>3, <1>4, <1>5, <1>6

-----------------------------------------------------------------------------
LEMMA InvInit == Init => Inv
<1> SUFFICES ASSUME Init
             PROVE  Inv
  OBVIOUS
<1>1. Free \in Call /\ Free.pc = "free"
  BY DEF Free, Call
<1>2. Typed
  BY <1>1 DEF Init, Typed
<1>3. \A h \in Handlers : CallOK(h)
  BY <1>1 DEF Init, CallOK, Busy
<1> QED
  BY <1>2, <1>3 DEF Init, Inv, HooksTell, Once

LEMMA InvInductive == Inv /\ [Next]_vars => Inv'
<1> SUFFICES ASSUME Inv, [Next]_vars
             PROVE  Inv'
  OBVIOUS
<1>t. Typed /\ HooksTell /\ Once /\ \A h \in Handlers : CallOK(h)
  BY DEF Inv
\* A handler's call stays justified.
<1>c. ASSUME NEW h \in Handlers, handler'[h] = handler[h],
             \A o \in Orders : outcome[o] # "open" => outcome'[o] = outcome[o],
             \A o \in Orders : status[o] # "none" => status'[o] # "none"
      PROVE  CallOK(h)'
  BY <1>t, <1>c DEF CallOK, Busy, Kinds
<1>m. \A o \in Orders : Gateways[o] \subseteq Providers
  BY TopUpAssumption
<1>1. ASSUME NEW o \in Orders, NEW by \in Providers, RequestPay(o, by)
      PROVE  Inv'
  <2>1. /\ status[o] = "none" /\ status' = [status EXCEPT ![o] = "pending"]
        /\ provider' = [provider EXCEPT ![o] = by]
        /\ UNCHANGED <<credits, creditedOn, outcome, hooks, handler, lock>>
    BY <1>1 DEF RequestPay
  <2>2. Typed'
    BY <1>t, <2>1 DEF Typed
  <2>3. Once' /\ HooksTell'
    BY <1>t, <2>1 DEF Typed, Once, HooksTell
  <2>4. \A h \in Handlers : CallOK(h)'
    BY <1>c, <1>t, <2>1 DEF Typed
  <2> QED
    BY <2>2, <2>3, <2>4 DEF Inv
<1>2. ASSUME NEW o \in Orders, NEW k \in Kinds, Decide(o, k)
      PROVE  Inv'
  <2>1. /\ outcome[o] = "open" /\ status[o] # "none"
        /\ outcome' = [outcome EXCEPT ![o] = k]
        /\ UNCHANGED <<status, provider, credits, creditedOn, handler, lock>>
    BY <1>2 DEF Decide, row
  <2>2. PICK e : e = [o |-> o, kind |-> k]
    OBVIOUS
  <2>3. hooks' = hooks \cup {e} /\ e.o = o /\ e.kind = k
        /\ e \in [o : Orders, kind : Kinds]
    BY <1>2, <2>2 DEF Decide
  <2>4. Typed'
    BY <1>t, <2>1, <2>3 DEF Typed
  <2>5. \A u \in Orders : outcome[u] # "open" => outcome'[u] = outcome[u]
    BY <1>t, <2>1 DEF Typed
  <2>6. HooksTell'
    <3>1. outcome'[o] = k
      BY <1>t, <2>1 DEF Typed
    <3>2. \A f \in hooks : f.o \in Orders /\ f.kind # "open"
      BY <1>t DEF Typed, Kinds
    <3> QED
      BY <1>t, <2>1, <2>3, <2>5, <3>1, <3>2 DEF HooksTell
  <2>7. Once'
    BY <1>t, <2>1, <2>5 DEF Once
  <2>8. \A h \in Handlers : CallOK(h)'
    BY <1>c, <2>1, <2>5
  <2> QED
    BY <2>4, <2>6, <2>7, <2>8 DEF Inv
<1>3. ASSUME UNCHANGED <<status, provider, credits, creditedOn, outcome, hooks, handler, lock>>
      PROVE  Inv'
  <2>1. \A h \in Handlers : CallOK(h)'
    BY <1>c, <1>3
  <2> QED
    BY <1>t, <1>3, <2>1 DEF Inv, Typed, HooksTell, Once
<1>4. ASSUME NEW h \in Handlers, Serve(h)
      PROVE  Inv'
  <2>s. /\ Busy(h) /\ outcome' = outcome /\ provider' = provider /\ OrderStep(h)
    BY <1>4, ServeAt
  <2>h. /\ handler' \in [Handlers -> Call]
        /\ \A g \in Handlers : g # h => handler'[g] = handler[g]
        /\ \/ handler'[h].pc = "free"
           \/ /\ handler'[h].pc = "save" /\ handler'[h].o = handler[h].o
              /\ handler'[h].kind = handler[h].kind
        /\ lock' \in [Nodes -> [Orders -> SUBSET Handlers]]
        /\ hooks' \subseteq hooks
    BY <1>4, ServeHandlers
  <2>o. PICK o \in Orders : o = handler[h].o
    BY <1>t, <2>s DEF CallOK
  <2>1. /\ status' \in [Orders -> {"none", "pending", "success", "failed", "expired"}]
        /\ credits' \in [Orders -> Nat] /\ creditedOn' \in [Orders -> SUBSET Nodes]
        /\ \A u \in Orders : u # o => status'[u] = status[u] /\ credits'[u] = credits[u]
        /\ \/ status'[o] = status[o] /\ credits'[o] = credits[o]
           \/ /\ status[o] = "pending" /\ handler[h].kind \in {"paid", "manual"}
              /\ status'[o] = "success" /\ credits'[o] = credits[o] + 1
           \/ status'[o] \in {"failed", "expired"} /\ credits'[o] = credits[o]
    <3>1. CASE UNCHANGED <<status, credits, creditedOn>>
      BY <1>t, <3>1 DEF Typed
    <3>2. CASE (\E quota : Credit(h, quota)) /\ handler[h].kind \in {"paid", "manual"}
      <4>1. NodeOf[h] \in Nodes
        BY DEF Nodes
      <4>2. /\ status[o] = "pending" /\ status' = [status EXCEPT ![o] = "success"]
            /\ credits' = [credits EXCEPT ![o] = @ + 1]
            /\ creditedOn' = [creditedOn EXCEPT ![o] = @ \cup {NodeOf[h]}]
        BY <2>o, <3>2 DEF Credit
      <4> QED
        BY <1>t, <3>2, <4>1, <4>2 DEF Typed
    <3>3. CASE \E s \in {"failed", "expired"} :
                   status' = [status EXCEPT ![o] = s] /\ UNCHANGED <<credits, creditedOn>>
      BY <1>t, <3>3 DEF Typed
    <3> QED
      BY <2>s, <2>o, <3>1, <3>2, <3>3 DEF OrderStep
  <2>2. \A u \in Orders : status[u] # "none" => status'[u] # "none"
    BY <2>1
  <2>3. Typed'
    BY <1>t, <2>s, <2>h, <2>1 DEF Typed
  <2>4. HooksTell'
    BY <1>t, <2>s, <2>h, <2>2 DEF HooksTell, Typed
  <2>5. Once'
    <3>1. /\ handler[h].kind = "paid" => outcome[o] = "paid"
          /\ handler[h].kind = "manual" => Admin
      BY <1>t, <2>s, <2>o DEF CallOK, Kinds
    <3>2. credits[o] \in {0, 1} /\ (status[o] = "pending" => credits[o] = 0)
      BY <1>t DEF Once
    <3>3. /\ credits'[o] \in {0, 1}
          /\ status'[o] = "success" => credits'[o] = 1
          /\ credits'[o] = 1 => status'[o] \notin {"none", "pending"}
          /\ credits'[o] = 1 => outcome'[o] = "paid" \/ Admin
      BY <1>t, <2>s, <2>1, <3>1, <3>2 DEF Once
    <3> QED
      BY <1>t, <2>s, <2>1, <3>3 DEF Once
  <2>6. \A g \in Handlers : CallOK(g)'
    <3>1. \A g \in Handlers : g # h => CallOK(g)'
      BY <1>c, <2>s, <2>h, <2>2
    <3>2. CallOK(h)'
      BY <1>t, <2>s, <2>h, <2>2 DEF CallOK, Busy
    <3> QED
      BY <3>1, <3>2
  <2> QED
    BY <2>3, <2>4, <2>5, <2>6 DEF Inv
<1>5. ASSUME NEW h \in Handlers, NEW o \in Orders, status[o] # "none",
             NEW kind \in Kinds \cup {"manual"}, Starts(h, o, kind),
             kind = "manual" => Admin, kind # "manual" => outcome[o] = kind,
             UNCHANGED <<status, provider, credits, creditedOn, outcome, hooks>>
      PROVE  Inv'
  <2>1. /\ handler' \in [Handlers -> Call]
        /\ \A g \in Handlers : g # h => handler'[g] = handler[g]
        /\ handler'[h].o = o /\ handler'[h].kind = kind
        /\ lock' \in [Nodes -> [Orders -> SUBSET Handlers]]
    BY <1>t, <1>5, StartAt
  <2>2. CallOK(h)'
    BY <1>5, <2>1 DEF CallOK, Kinds
  <2>3. \A g \in Handlers : g # h => CallOK(g)'
    BY <1>c, <1>5, <2>1
  <2> QED
    BY <1>t, <1>5, <2>1, <2>2, <2>3 DEF Inv, Typed, HooksTell, Once
<1>6. ASSUME NEW h \in Handlers, NEW e \in hooks, Deliver(h, e)
      PROVE  Inv'
  <2>1. /\ e.o \in Orders /\ e.kind \in Kinds /\ e.kind # "manual"
        /\ outcome[e.o] = e.kind /\ status[e.o] # "none"
    BY <1>t DEF Typed, HooksTell, Kinds
  <2> QED
    BY <1>5, <1>6, <2>1 DEF Deliver, Starts, row
<1>7. ASSUME NEW h \in Handlers, NEW o \in Orders, AdminCompletes(h, o)
      PROVE  Inv'
  BY <1>5, <1>7 DEF AdminCompletes, Starts, row
<1>8. ASSUME NEW n \in Nodes, Crash(n)
      PROVE  Inv'
  <2>1. UNCHANGED <<status, provider, credits, creditedOn, outcome, hooks>>
    BY <1>8 DEF Crash, row
  <2>2. Free \in Call /\ Free.pc = "free"
    BY DEF Free, Call
  <2>3. /\ handler' \in [Handlers -> Call]
        /\ \A h \in Handlers : handler'[h] = handler[h] \/ handler'[h].pc = "free"
    BY <1>t, <1>8, <2>2 DEF Crash, Typed
  <2>4. lock' \in [Nodes -> [Orders -> SUBSET Handlers]]
    BY <1>t, <1>8 DEF Crash, Typed
  <2>5. \A h \in Handlers : CallOK(h)'
    <3> TAKE h \in Handlers
    <3>1. CASE handler'[h] = handler[h]
      BY <1>c, <2>1, <3>1
    <3>2. CASE handler'[h].pc = "free"
      BY <3>2 DEF CallOK, Busy
    <3> QED
      BY <2>3, <3>1, <3>2
  <2> QED
    BY <1>t, <2>1, <2>3, <2>4, <2>5 DEF Inv, Typed, HooksTell, Once
<1> QED
  BY <1>m, <1>1, <1>2, <1>3, <1>4, <1>6, <1>7, <1>8 DEF Next, Spend, vars

LEMMA InvAlways == Spec => []Inv
BY InvInit, InvInductive, PTL DEF Spec

\* The first half of CreditedOnce, the books of an order: credited at most once,
\* exactly once if it is a success, and never if it was neither paid nor
\* completed by hand.
OrdersBalance ==
    \A o \in Orders :
        /\ credits[o] <= 1
        /\ status[o] = "success" => credits[o] = 1
        /\ credits[o] = 1 => outcome[o] = "paid" \/ Admin

\* Whatever webhooks are repeated, whatever nodes they reach and whatever the
\* administrator does, an order is credited at most once, a successful one exactly
\* once, and only if it was paid or completed by hand: the transaction of a
\* recharge looks at the status of the row it has locked (model/topup.go).
THEOREM BalancedOrders == Spec => []OrdersBalance
<1>1. Inv => OrdersBalance
  BY DEF Inv, Once, OrdersBalance
<1> QED
  BY <1>1, InvAlways, PTL

-----------------------------------------------------------------------------
(* LockOrder.                                                              *)

\* A busy handler holds the lock of its order on its node, alone; so an order
\* that a delayed failure has found pending is not credited on the same node.
Locked ==
    /\ \A n \in Nodes, o \in Orders : \A g, h \in lock[n][o] : g = h
    /\ \A h \in Handlers : Busy(h) => h \in lock[NodeOf[h]][handler[h].o]
    /\ \A h \in Handlers :
        handler[h].pc = "save" /\ handler[h].kind = "failed"
            => NodeOf[h] \notin creditedOn[handler[h].o]
    /\ \A o \in Orders : status[o] \in {"none", "pending"} => creditedOn[o] = {}

LEMMA LockedInit == Init => Locked
<1> SUFFICES ASSUME Init
             PROVE  Locked
  OBVIOUS
<1>1. \A h \in Handlers : handler[h].pc = "free"
  BY DEF Init, Free
<1>2. \A n \in Nodes, o \in Orders : lock[n][o] = {}
  BY DEF Init
<1> QED
  BY <1>1, <1>2 DEF Init, Locked, Busy

\* Two handlers that work on one order on one node are one.
LEMMA OneHandlerPerNode ==
    ASSUME Inv, Locked, NEW g \in Handlers, NEW h \in Handlers,
           Busy(g), Busy(h), handler[g].o = handler[h].o, NodeOf[g] = NodeOf[h]
    PROVE  g = h
<1>1. NodeOf[h] \in Nodes /\ handler[h].o \in Orders
  BY DEF Nodes, Inv, CallOK
<1>2. g \in lock[NodeOf[h]][handler[h].o] /\ h \in lock[NodeOf[h]][handler[h].o]
  BY DEF Locked
<1> QED
  BY <1>1, <1>2 DEF Locked

LEMMA LockedInductive == Inv /\ Locked /\ [Next]_vars => Locked'
<1> SUFFICES ASSUME Inv, Locked, [Next]_vars
             PROVE  Locked'
  OBVIOUS
<1>t. Typed /\ HooksTell /\ \A h \in Handlers : CallOK(h)
  BY DEF Inv
<1>n. \A h \in Handlers : NodeOf[h] \in Nodes
  BY DEF Nodes
<1>b. \A h \in Handlers : handler[h].pc \in {"work", "save"} => Busy(h)
  BY DEF Busy
\* Nothing changes for the handlers and their orders.
<1>1. ASSUME UNCHANGED <<handler, lock, creditedOn>>,
             \A o \in Orders : status[o] \notin {"none", "pending"} => status'[o] = status[o]
      PROVE  Locked'
  <2>1. \A h \in Handlers : Busy(h)' <=> Busy(h)
    BY <1>1 DEF Busy
  <2>2. \A o \in Orders : status'[o] \in {"none", "pending"} => creditedOn[o] = {}
    BY <1>1 DEF Locked
  <2> QED
    BY <1>1, <2>1, <2>2 DEF Locked
<1>2. ASSUME NEW o \in Orders, NEW by, RequestPay(o, by)
      PROVE  Locked'
  <2>1. \A u \in Orders : status[u] \notin {"none", "pending"} => status'[u] = status[u]
    BY <1>t, <1>2 DEF RequestPay, Typed
  <2> QED
    BY <1>1, <1>2, <2>1 DEF RequestPay
<1>3. ASSUME NEW h \in Handlers, Serve(h)
      PROVE  Locked'
  <2>s. Busy(h) /\ OrderStep(h)
    BY <1>3, ServeAt
  <2>h. /\ \A g \in Handlers : g # h => handler'[g] = handler[g]
        /\ \/ handler'[h].pc = "free"
           \/ /\ handler'[h].pc = "save" /\ handler'[h].o = handler[h].o
              /\ handler'[h].kind = handler[h].kind
              /\ Looked(h)
        /\ \A n \in Nodes, o \in Orders : lock'[n][o] \subseteq lock[n][o]
        /\ \A n \in Nodes, o \in Orders : lock[n][o] \ {h} \subseteq lock'[n][o]
    BY <1>3, ServeHandlers
  <2>o. PICK o \in Orders : o = handler[h].o
    BY <1>t, <2>s DEF CallOK
  \* The node that credits is the handler's.
  <2>c. /\ \A u \in Orders : u # o => creditedOn'[u] = creditedOn[u] /\ status'[u] = status[u]
        /\ creditedOn'[o] \subseteq creditedOn[o] \cup {NodeOf[h]}
        /\ status'[o] \in {"none", "pending"} =>
              status'[o] = status[o] /\ creditedOn'[o] = creditedOn[o]
    <3>1. CASE UNCHANGED <<status, creditedOn>>
      BY <3>1
    <3>2. CASE \E quota : Credit(h, quota)
      <4>1. /\ status' = [status EXCEPT ![o] = "success"]
            /\ creditedOn' = [creditedOn EXCEPT ![o] = @ \cup {NodeOf[h]}]
        BY <2>o, <3>2 DEF Credit
      <4> QED
        BY <1>t, <4>1 DEF Typed
    <3>3. CASE \E s \in {"failed", "expired"} :
                   status' = [status EXCEPT ![o] = s] /\ UNCHANGED creditedOn
      BY <1>t, <3>3 DEF Typed
    <3> QED
      BY <2>s, <2>o, <3>1, <3>2, <3>3 DEF OrderStep
  <2>1. \A n \in Nodes, u \in Orders : \A f, g \in lock'[n][u] : f = g
    BY <2>h DEF Locked
  <2>2. ASSUME NEW g \in Handlers, g # h
        PROVE  /\ Busy(g)' => g \in lock'[NodeOf[g]][handler'[g].o]
               /\ handler'[g].pc = "save" /\ handler'[g].kind = "failed"
                     => NodeOf[g] \notin creditedOn'[handler'[g].o]
    <3>1. handler'[g] = handler[g]
      BY <2>h, <2>2
    <3>2. Busy(g) => handler[g].o \in Orders /\ g \in lock'[NodeOf[g]][handler[g].o]
      BY <1>n, <1>t, <2>h, <2>2 DEF Locked, CallOK
    <3>3. ASSUME handler[g].pc = "save", handler[g].kind = "failed"
          PROVE  NodeOf[g] \notin creditedOn'[handler[g].o]
      <4>1. Busy(g) /\ NodeOf[g] \notin creditedOn[handler[g].o]
        BY <3>3 DEF Locked, Busy
      <4>2. handler[h].o # handler[g].o \/ NodeOf[h] # NodeOf[g]
        BY <2>s, <2>2, <4>1, OneHandlerPerNode
      <4> QED
        BY <2>c, <2>o, <3>2, <4>1, <4>2
    <3> QED
      BY <3>1, <3>2, <3>3 DEF Busy
  <2>3. /\ Busy(h)' => h \in lock'[NodeOf[h]][handler'[h].o]
        /\ handler'[h].pc = "save" /\ handler'[h].kind = "failed"
              => NodeOf[h] \notin creditedOn'[handler'[h].o]
    <3>1. CASE handler'[h].pc = "free"
      BY <3>1 DEF Busy
    <3>2. CASE handler'[h].o = handler[h].o /\ Looked(h)
      <4>1. creditedOn'[o] = {}
        BY <2>o, <3>2 DEF Looked, Locked
      <4>2. h \in lock'[NodeOf[h]][handler'[h].o]
        BY <2>s, <3>2 DEF Looked, Locked
      <4> QED
        BY <2>o, <3>2, <4>1, <4>2
    <3> QED
      BY <2>h, <3>1, <3>2
  <2>4. \A u \in Orders : status'[u] \in {"none", "pending"} => creditedOn'[u] = {}
    BY <2>c DEF Locked
  <2> QED
    BY <2>1, <2>2, <2>3, <2>4 DEF Locked
<1>4. ASSUME NEW h \in Handlers, NEW o \in Orders,
             NEW kind \in Kinds \cup {"manual"}, Starts(h, o, kind),
             UNCHANGED <<status, creditedOn>>, ~Busy(h)
      PROVE  Locked'
  <2>1. /\ \A g \in Handlers : g # h => handler'[g] = handler[g]
        /\ handler'[h].pc = "work" /\ handler'[h].o = o
        /\ \A g : g \notin lock[NodeOf[h]][o] /\ (g \in lock'[NodeOf[h]][o] <=> g = h)
        /\ \A n \in Nodes, u \in Orders : n # NodeOf[h] \/ u # o => lock'[n][u] = lock[n][u]
    <3>1. Typed /\ Starts(h, o, kind)
      BY <1>t, <1>4
    <3> QED
      BY <3>1, StartAt
  <2>2. \A n \in Nodes, u \in Orders : \A f, g \in lock'[n][u] : f = g
    BY <2>1 DEF Locked
  <2>3. ASSUME NEW g \in Handlers, Busy(g)'
        PROVE  g \in lock'[NodeOf[g]][handler'[g].o]
    <3>1. CASE g = h
      BY <1>4, <2>1, <3>1
    <3>2. CASE g # h
      <4>1. Busy(g) /\ handler'[g] = handler[g]
        BY <2>1, <2>3, <3>2 DEF Busy
      <4>2. g \in lock[NodeOf[g]][handler[g].o] /\ handler[g].o \in Orders
        BY <1>t, <4>1 DEF Locked, CallOK
      <4>3. NodeOf[g] # NodeOf[h] \/ handler[g].o # o
        BY <2>1, <4>2
      <4> QED
        BY <1>n, <2>1, <4>1, <4>2, <4>3
    <3> QED
      BY <3>1, <3>2
  <2>4. \A g \in Handlers : handler'[g].pc = "save" => handler'[g] = handler[g]
    BY <2>1
  <2> QED
    BY <1>4, <2>2, <2>3, <2>4 DEF Locked
<1>5. ASSUME NEW h \in Handlers, NEW e \in hooks, Deliver(h, e)
      PROVE  Locked'
  <2>1. e.o \in Orders /\ e.kind \in Kinds
    BY <1>t DEF Typed
  <2> QED
    BY <1>4, <1>5, <2>1 DEF Deliver, Starts, row, Busy
<1>6. ASSUME NEW h \in Handlers, NEW o \in Orders, AdminCompletes(h, o)
      PROVE  Locked'
  BY <1>4, <1>6 DEF AdminCompletes, Starts, row, Busy
<1>7. ASSUME NEW n \in Nodes, Crash(n)
      PROVE  Locked'
  <2>1. /\ \A h \in Handlers : NodeOf[h] = n => handler'[h].pc = "free"
        /\ \A h \in Handlers : NodeOf[h] # n => handler'[h] = handler[h]
    BY <1>7 DEF Crash, Free
  <2>2. \A m \in Nodes, o \in Orders :
            IF m = n THEN lock'[m][o] = {} ELSE lock'[m][o] = lock[m][o]
    BY <1>t, <1>7 DEF Crash, Typed
  <2>3. UNCHANGED <<status, creditedOn>>
    BY <1>7 DEF Crash, row
  <2>4. \A m \in Nodes, o \in Orders : \A f, g \in lock'[m][o] : f = g
    BY <2>2 DEF Locked
  <2>5. ASSUME NEW h \in Handlers, Busy(h)'
        PROVE  /\ h \in lock'[NodeOf[h]][handler'[h].o]
               /\ handler'[h] = handler[h]
    <3>1. NodeOf[h] # n /\ handler'[h] = handler[h] /\ Busy(h)
      BY <2>1, <2>5 DEF Busy
    <3>2. handler[h].o \in Orders
      BY <1>t, <3>1 DEF CallOK
    <3> QED
      BY <1>n, <2>2, <3>1, <3>2 DEF Locked
  <2> QED
    BY <2>3, <2>4, <2>5 DEF Locked, Busy
<1> QED
  BY <1>1, <1>2, <1>3, <1>5, <1>6, <1>7 DEF Next, Decide, Spend, row, vars

\* CreditedOnce, for every number of orders, handlers and nodes: nothing changes
\* the status of a credited order but sessionAsyncPaymentFailed, which reads and
\* saves the row in two statements, on a node where LockOrder did not see the
\* credit.
THEOREM CreditIsFinal == Spec => CreditedOnce
<1> DEFINE Stays ==
        \A o \in Orders :
            credits[o] = 1 /\ status'[o] # status[o] =>
                /\ status'[o] = "failed"
                /\ \E h \in Handlers :
                    /\ handler[h].pc = "save" /\ handler[h].kind = "failed"
                    /\ handler[h].o = o
                    /\ NodeOf[h] \notin creditedOn[o]
<1>1. Init => Inv /\ Locked
  BY InvInit, LockedInit
<1>2. Inv /\ Locked /\ [Next]_vars => (Inv /\ Locked)'
  BY InvInductive, LockedInductive
<1>3. ASSUME Inv, Locked, [Next]_vars
      PROVE  [Stays]_vars
  <2> SUFFICES ASSUME NEW o \in Orders, credits[o] = 1, status'[o] # status[o]
               PROVE  /\ status'[o] = "failed"
                      /\ \E h \in Handlers :
                          /\ handler[h].pc = "save" /\ handler[h].kind = "failed"
                          /\ handler[h].o = o
                          /\ NodeOf[h] \notin creditedOn[o]
    OBVIOUS
  <2>t. Typed /\ status[o] \notin {"none", "pending"}
    BY <1>3 DEF Inv, Once
  <2>1. ASSUME NEW u \in Orders, NEW by, RequestPay(u, by)
        PROVE  FALSE
    BY <2>t, <2>1 DEF RequestPay, Typed
  <2>2. \E h \in Handlers : Serve(h)
    <3>1. status' # status
      OBVIOUS
    <3> QED
      BY <1>3, <2>1, <3>1 DEF Next, vars, row, Decide, Spend, Deliver, AdminCompletes, Crash
  <2>3. PICK h \in Handlers : Serve(h)
    BY <2>2
  <2>4. Busy(h) /\ OrderStep(h)
    BY <2>3, ServeAt
  <2>5. CASE handler[h].o # o
    BY <2>t, <2>4, <2>5 DEF OrderStep, Credit, Typed
  <2>6. CASE handler[h].o = o
    <3>1. handler[h].pc = "save" /\ handler[h].kind = "failed" /\ status'[o] = "failed"
      BY <2>t, <2>4, <2>6 DEF OrderStep, Credit, Typed
    <3> QED
      BY <1>3, <2>6, <3>1 DEF Locked
  <2> QED
    BY <2>5, <2>6
<1> QED
  BY <1>1, <1>2, <1>3, BalancedOrders, PTL DEF Spec, CreditedOnce, OrdersBalance
==============================================================================
