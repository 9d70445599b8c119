-------------------------- MODULE RelayBillingProofs --------------------------
(***************************************************************************)
(* The books of a billing session, for every number of requests, routes and *)
(* balances: no request gets back more than was taken for it, one that ends  *)
(* without a failed call has cost what it owes, and an attempt is covered.   *)
(***************************************************************************)
EXTENDS RelayBilling, TLAPS

\* The token's share of an amount: a playground request has no token.
Share(r, n) == IF r \in Playground THEN 0 ELSE n

Before == {"idle", "check", "token", "fund", "rollback", "select", "more",
           "moreToken", "moreRollback", "attempt", "failed"}
Serving == {"stream", "settle"}
Ended == {"fee", "feeToken", "over"}

NoRecord(r) == \A g \in refunds : g.r # r

\* Until the handler settles or fails, the session's books agree with what was
\* taken from the wallet, and nothing says that they are closed.
Quiet(r) ==
    req[r].pc \in Before \cup Serving =>
        /\ ~session[r].settled /\ ~session[r].refunded /\ ~session[r].fundingSettled
        /\ session[r].tok = session[r].pre
        /\ paid[r] = session[r].consumed + Fund(r, stream[r].used)
        /\ NoRecord(r)
        /\ req[r].pc # "settle" => req[r].owed = 0
        /\ ~session[r].open =>
              session[r].pre = 0 /\ session[r].consumed = 0 /\ ~session[r].trusted
        /\ req[r].pc \in {"idle", "check", "token", "fund", "rollback"} => ~session[r].open
        /\ req[r].pc \in {"more", "moreToken", "moreRollback"} => session[r].open

\* Only a top-up under way, or one whose way back failed, has taken more from
\* the wallet than is reserved.
Reserved(r) ==
    /\ req[r].pc \in {"moreToken", "moreRollback"} =>
          session[r].consumed = Fund(r, session[r].pre + req[r].want)
    /\ req[r].pc \in (Before \cup Serving) \ {"moreToken", "moreRollback", "failed"} =>
          session[r].consumed = Fund(r, session[r].pre)
    /\ req[r].pc = "failed" =>
          /\ session[r].consumed >= Fund(r, session[r].pre)
          /\ faults = 0 => session[r].consumed = Fund(r, session[r].pre)

TokenReserved(r) ==
    /\ req[r].pc \in {"fund", "rollback"} => tokPaid[r] = Share(r, req[r].want)
    /\ req[r].pc \in (Before \cup Serving) \ {"fund", "rollback", "failed"} =>
          tokPaid[r] = Share(r, session[r].tok + stream[r].tokUsed)
    /\ req[r].pc = "failed" =>
          /\ tokPaid[r] >= Share(r, session[r].tok)
          /\ faults = 0 => tokPaid[r] = Share(r, session[r].tok)

\* The reservation follows the estimate of the route that is selected.
Covers(r) ==
    /\ req[r].pc \in {"check", "token", "fund", "rollback"} =>
          req[r].back \in {"select", "attempt"}
    /\ req[r].pc \in {"check", "token", "fund"} /\ req[r].back = "attempt" =>
          req[r].want = route[r].target
    /\ req[r].pc \in {"more", "moreToken"} =>
          session[r].pre + req[r].want = route[r].target
    /\ req[r].pc = "attempt" =>
          session[r].trusted \/ route[r].target <= session[r].pre

\* Only a websocket that was opened is charged beside its session.
Silent(r) ==
    /\ stream[r].left = 0 /\ stream[r].stage = "none"
    /\ stream[r].used = 0 /\ stream[r].tokUsed = 0

Silence(r) ==
    req[r].pc \in Before \cup {"fee", "feeToken", "crashed"} \/ ~NoRecord(r) => Silent(r)

\* Without a failed call the token is behind the wallet by the event at work.
Due(r) == IF stream[r].stage = "token" THEN stream[r].amount ELSE 0

Streams(r) == faults = 0 => stream[r].used = stream[r].tokUsed + Due(r)

\* The token has been charged the fee, or the price, only at the end.
TokenOwed(r) == IF req[r].pc = "over" THEN Share(r, req[r].owed) ELSE 0

\* What was taken covers what a refund goroutine still returns; without a
\* failed call the rest is what the request owes.
Ends(r) ==
    /\ req[r].pc = "settleToken" =>
          /\ paid[r] = Fund(r, req[r].owed + stream[r].used)
          /\ tokPaid[r] = Share(r, session[r].pre + stream[r].tokUsed)
          /\ NoRecord(r)
          /\ ~session[r].open => session[r].pre = 0
    /\ req[r].pc = "crashed" => NoRecord(r) /\ faults # 0
    /\ \A g, h \in refunds : g.r = r /\ h.r = r => g = h
    /\ req[r].pc \in Ended =>
        /\ req[r].pc = "fee" => req[r].owed = 0
        /\ req[r].pc = "feeToken" => req[r].owed = Fee
        /\ \A g \in refunds : g.r = r =>
             /\ paid[r] >= g.consumed /\ tokPaid[r] >= g.tok
             /\ faults = 0 => /\ paid[r] = g.consumed + Fund(r, req[r].owed)
                              /\ tokPaid[r] = g.tok + TokenOwed(r)
        /\ faults = 0 /\ NoRecord(r) =>
             /\ paid[r] = Fund(r, req[r].owed + stream[r].used)
             /\ tokPaid[r] = TokenOwed(r) + Share(r, stream[r].tokUsed)

\* A channel that may still be selected has an attempt left.
Routed(r) ==
    /\ req[r].pc \in {"idle", "check", "token", "fund", "select", "more",
                      "moreToken", "attempt"} =>
          \A c \in Channels : c \in route[r].excluded \/ route[r].tries[c] < MaxAttempts
    /\ \/ req[r].pc \in {"more", "moreToken", "attempt"}
       \/ req[r].pc \in {"check", "token", "fund"} /\ req[r].back = "attempt"
       => route[r].ch \in Channels \ route[r].excluded

Taken(r) == /\ paid[r] >= 0 /\ tokPaid[r] >= 0
            /\ r \in Unlimited => paid[r] = 0

RequestOK(r) ==
    /\ Quiet(r) /\ Reserved(r) /\ TokenReserved(r) /\ Covers(r)
    /\ Ends(r) /\ Routed(r) /\ Taken(r) /\ Silence(r) /\ Streams(r)

Inv == TypeOK /\ \A r \in Requests : RequestOK(r)

-----------------------------------------------------------------------------
(* What the helpers do, request by request.                                *)

\* Where a step leaves the handler of r.
Now(r, pc, want, back, owed) ==
    /\ req'[r].pc = pc /\ req'[r].want = want
    /\ req'[r].back = back /\ req'[r].owed = owed

LEMMA ReqAt ==
    ASSUME TypeOK, NEW r \in Requests, NEW q \in Request, req' = [req EXCEPT ![r] = q]
    PROVE  /\ req' \in [Requests -> Request] /\ req'[r] = q
           /\ \A d \in Requests : d # r => req'[d] = req[d]
BY DEF TypeOK

LEMMA GoToAt ==
    ASSUME TypeOK, NEW r \in Requests, NEW pc \in Pcs, GoTo(r, pc)
    PROVE  /\ req' \in [Requests -> Request]
           /\ Now(r, pc, req[r].want, req[r].back, req[r].owed)
           /\ \A d \in Requests : d # r => req'[d] = req[d]
<1>1. PICK q : q = [req[r] EXCEPT !.pc = pc]
  OBVIOUS
<1>2. /\ q \in Request /\ q.pc = pc /\ q.want = req[r].want /\ q.back = req[r].back
      /\ q.owed = req[r].owed
  BY <1>1 DEF TypeOK, Request
<1>3. req' = [req EXCEPT ![r] = q]
  BY <1>1 DEF GoTo
<1> QED
  BY <1>2, <1>3, ReqAt DEF Now

LEMMA ReturnAt ==
    ASSUME TypeOK, NEW r \in Requests, NEW pc \in Pcs, Return(r, pc)
    PROVE  /\ req' \in [Requests -> Request]
           /\ Now(r, pc, 0, "idle", req[r].owed)
           /\ \A d \in Requests : d # r => req'[d] = req[d]
<1>1. PICK q : q = [req[r] EXCEPT !.pc = pc, !.want = 0, !.back = "idle", !.userQuota = 0]
  OBVIOUS
<1>0. 0 \in Nat /\ 0 \in Int /\ "idle" \in Pcs
  BY DEF Pcs
<1>2. /\ q \in Request /\ q.pc = pc /\ q.want = 0 /\ q.back = "idle" /\ q.owed = req[r].owed
  BY <1>0, <1>1 DEF TypeOK, Request
<1>3. req' = [req EXCEPT ![r] = q]
  BY <1>1 DEF Return, TypeOK
<1> QED
  BY <1>2, <1>3, ReqAt DEF Now

LEMMA FaultAt ==
    ASSUME TypeOK, NEW kind, Fault(kind)
    PROVE  faults' \in 0..MaxFaults /\ faults' # 0
BY RelayAssumption DEF TypeOK, Fault

LEMMA FundingAt ==
    ASSUME TypeOK, NEW r \in Requests, NEW d \in Int, TakeFunding(r, d)
    PROVE  /\ wallet' \in Int /\ paid' \in [Requests -> Int] /\ faults' = faults
           /\ paid'[r] = paid[r] + Fund(r, d)
           /\ \A e \in Requests : e # r => paid'[e] = paid[e]
<1>1. Fund(r, d) \in Int
  BY DEF Fund
<1> QED
  BY <1>1 DEF TypeOK, TakeFunding

LEMMA TokenAt ==
    ASSUME TypeOK, NEW r \in Requests, NEW d \in Int, TakeToken(r, d)
    PROVE  /\ token' \in Int /\ tokPaid' \in [Requests -> Int] /\ faults' = faults
           /\ tokPaid'[r] = tokPaid[r] + d
           /\ \A e \in Requests : e # r => tokPaid'[e] = tokPaid[e]
BY DEF TypeOK, TakeToken

LEMMA SessionAt ==
    ASSUME TypeOK, NEW r \in Requests, NEW s \in Session, session' = [session EXCEPT ![r] = s]
    PROVE  /\ session' \in [Requests -> Session] /\ session'[r] = s
           /\ \A d \in Requests : d # r => session'[d] = session[d]
BY DEF TypeOK

\* A request that a step leaves alone stays in order, whatever calls failed.
LEMMA Unmoved ==
    ASSUME NEW d \in Requests, RequestOK(d), req'[d] = req[d], session'[d] = session[d],
           route'[d] = route[d], stream'[d] = stream[d],
           paid'[d] = paid[d], tokPaid'[d] = tokPaid[d],
           \A g : g.r = d => (g \in refunds' <=> g \in refunds),
           faults' = 0 => faults = 0
    PROVE  RequestOK(d)'
<1>1. NoRecord(d)' <=> NoRecord(d)
  BY DEF NoRecord
<1>2. Quiet(d)'
  BY <1>1 DEF RequestOK, Quiet
<1>3. Reserved(d)' /\ TokenReserved(d)' /\ Covers(d)' /\ Routed(d)' /\ Taken(d)'
  BY DEF RequestOK, Reserved, TokenReserved, Covers, Routed, Taken
<1>4. Ends(d)' /\ Silence(d)' /\ Streams(d)'
  BY <1>1 DEF RequestOK, Ends, TokenOwed, Silence, Silent, Streams, Due
<1> QED
  BY <1>2, <1>3, <1>4 DEF RequestOK

\* A step of r's handler leaves the other requests alone.
Apart(r) ==
    \A d \in Requests : d # r =>
        /\ req'[d] = req[d] /\ session'[d] = session[d] /\ route'[d] = route[d]
        /\ stream'[d] = stream[d] /\ paid'[d] = paid[d] /\ tokPaid'[d] = tokPaid[d]

FaultsGrow == faults' \in 0..MaxFaults /\ (faults' = 0 => faults = 0)

\* One that starts no goroutine keeps the invariant if it does so for r.
LEMMA HandlerStep ==
    ASSUME Inv, NEW r \in Requests, TypeOK', Apart(r), FaultsGrow, refunds' = refunds,
           RequestOK(r)'
    PROVE  Inv'
<1>1. ASSUME NEW d \in Requests, d # r
      PROVE  RequestOK(d)'
  BY <1>1, Unmoved DEF Inv, Apart, FaultsGrow
<1> QED
  BY <1>1 DEF Inv

\* All that a step does to the money of r.
Money(r, d, t) ==
    /\ wallet' \in Int /\ paid' \in [Requests -> Int]
    /\ token' \in Int /\ tokPaid' \in [Requests -> Int]
    /\ paid'[r] = paid[r] + d /\ tokPaid'[r] = tokPaid[r] + t
    /\ \A e \in Requests : e # r => paid'[e] = paid[e] /\ tokPaid'[e] = tokPaid[e]
    /\ FaultsGrow

LEMMA MoneyStays ==
    ASSUME TypeOK, NEW r \in Requests, FundingStays, TokenStays, FaultsGrow
    PROVE  Money(r, 0, 0)
BY DEF TypeOK, FundingStays, TokenStays, Money

LEMMA MoneyFunding ==
    ASSUME TypeOK, NEW r \in Requests, NEW d \in Int, TakeFunding(r, d), TokenStays
    PROVE  Money(r, Fund(r, d), 0) /\ faults' = faults
<1>1. FaultsGrow
  BY DEF TypeOK, FaultsGrow, TakeFunding
<1> QED
  BY <1>1, FundingAt DEF TypeOK, TokenStays, Money

LEMMA MoneyToken ==
    ASSUME TypeOK, NEW r \in Requests, NEW d \in Int, TakeToken(r, d), FundingStays
    PROVE  Money(r, 0, d) /\ faults' = faults
<1>1. FaultsGrow
  BY DEF TypeOK, FaultsGrow, TakeToken
<1> QED
  BY <1>1, TokenAt DEF TypeOK, FundingStays, Money

LEMMA NoFault ==
    ASSUME TypeOK, UNCHANGED faults
    PROVE  FaultsGrow /\ faults' = faults
BY DEF TypeOK, FaultsGrow

LEMMA SomeFault ==
    ASSUME TypeOK, NEW kind, Fault(kind)
    PROVE  FaultsGrow /\ faults' # 0
BY FaultAt DEF FaultsGrow

\* A step that moves the handler of r and its money.
LEMMA ReqStep ==
    ASSUME Inv, NEW r \in Requests, NEW d, NEW t, Money(r, d, t),
           req' \in [Requests -> Request],
           \A e \in Requests : e # r => req'[e] = req[e],
           session' \in [Requests -> Session],
           \A e \in Requests : e # r => session'[e] = session[e],
           UNCHANGED <<route, stream, refunds>>, RequestOK(r)'
    PROVE  Inv'
<1>1. TypeOK'
  BY DEF Inv, TypeOK, Money, FaultsGrow
<1>2. Apart(r)
  BY DEF Apart, Money
<1> QED
  BY <1>1, <1>2, HandlerStep DEF Money

\* What the books say of a handler that has not served its request.
LEMMA BooksAt ==
    ASSUME TypeOK, NEW r \in Requests, RequestOK(r), req[r].pc \in Before
    PROVE  /\ session[r].pre \in Nat /\ session[r].tok \in Nat /\ session[r].consumed \in Nat
           /\ Silent(r) /\ paid[r] = session[r].consumed
           /\ session[r].tok + stream[r].tokUsed = session[r].tok
           /\ Share(r, session[r].tok) \in Nat
<1>1. session[r].pre \in Nat /\ session[r].tok \in Nat /\ session[r].consumed \in Nat
  BY DEF TypeOK, Session
<1>2. Silent(r)
  BY DEF RequestOK, Silence
<1> QED
  BY <1>1, <1>2 DEF RequestOK, Quiet, Silent, Fund, Share

-----------------------------------------------------------------------------
(* Reservation.                                                            *)

LEMMA BeginStep ==
    ASSUME Inv, NEW r \in Requests, NEW est \in Targets \cup {0}, Begin(r, est)
    PROVE  Inv'
<1>t. TypeOK /\ RequestOK(r)
  BY DEF Inv
<1>e. est \in Nat
  <2>1. Targets \subseteq Nat /\ 0 \in Nat
    BY RelayAssumption
  <2> QED
    BY <2>1
<1>0. 0 \in Nat /\ 0 \in Int /\ "idle" \in Pcs /\ "select" \in Pcs /\ "check" \in Pcs /\ est \in Nat
  BY <1>e DEF Pcs
<1>p. PICK pc \in {"check", "select"} :
         /\ req[r].pc = "idle"
         /\ req' = [req EXCEPT ![r] = [Fresh EXCEPT !.pc = pc, !.want = est,
                                         !.back = "select", !.tokenQuota = token]]
  BY DEF Begin
<1>1. PICK q : q = [Fresh EXCEPT !.pc = pc, !.want = est,
                                 !.back = "select", !.tokenQuota = token]
  OBVIOUS
<1>2. /\ q \in Request /\ q.pc = pc
      /\ q.back = "select" /\ q.owed = 0
  BY <1>t, <1>0, <1>1 DEF Request, Fresh, TypeOK
<1>3. req' = [req EXCEPT ![r] = q] /\ req[r].pc = "idle"
  BY <1>p, <1>1
<1>4. /\ req' \in [Requests -> Request] /\ req'[r] = q
      /\ \A d \in Requests : d # r => req'[d] = req[d]
  BY <1>t, <1>2, <1>3, ReqAt
<1>5. UNCHANGED <<wallet, token, paid, tokPaid, session, route, stream, refunds, faults>>
  BY DEF Begin, billing
<1>6. Money(r, 0, 0)
  BY <1>t, <1>5, NoFault, MoneyStays DEF FundingStays, TokenStays
<1>7. RequestOK(r)'
  BY <1>t, <1>2, <1>3, <1>4, <1>5
     DEF RequestOK, Quiet, NoRecord, Reserved, TokenReserved, Covers, Ends, Routed, Taken, Silence, Streams, Before, Serving, Ended, Silent, Due, Fund
<1> QED
  BY <1>t, <1>4, <1>5, <1>6, <1>7, ReqStep DEF TypeOK

\* Where a refused reservation leaves the handler, nothing taken.
LEMMA RefusedAt ==
    ASSUME NEW r \in Requests
    PROVE  Refused(r) \in {"over", "failed"} /\ Refused(r) \in Pcs
BY DEF Refused, Pcs

LEMMA CheckWalletStep ==
    ASSUME Inv, NEW r \in Requests, CheckWallet(r)
    PROVE  Inv'
<1>t. TypeOK /\ RequestOK(r) /\ req[r].pc = "check"
  BY DEF Inv, CheckWallet
<1>1. UNCHANGED <<wallet, token, paid, tokPaid, session, route, stream, refunds>> /\ FaultsGrow
  BY <1>t, NoFault, SomeFault DEF CheckWallet, billing
<1>2. Money(r, 0, 0)
  BY <1>t, <1>1, MoneyStays DEF FundingStays, TokenStays
<1>5. CASE GoTo(r, "token")
  <2>1. /\ req' \in [Requests -> Request] /\ Now(r, "token", req[r].want, req[r].back, req[r].owed)
        /\ \A d \in Requests : d # r => req'[d] = req[d]
    BY <1>t, <1>5, GoToAt DEF Pcs
  <2>2. RequestOK(r)'
    BY <1>t, <1>1, <2>1
       DEF RequestOK, Quiet, NoRecord, Reserved, TokenReserved, Covers, Ends, Routed, Taken, Silence, Streams,
           Before, Serving, Ended, Silent, Due, Fund, Now, FaultsGrow
  <2> QED
    BY <1>t, <1>1, <1>2, <2>1, <2>2, ReqStep DEF TypeOK
<1>3. CASE Return(r, Refused(r))
  <2>1. /\ req' \in [Requests -> Request] /\ Now(r, Refused(r), 0, "idle", req[r].owed)
        /\ \A d \in Requests : d # r => req'[d] = req[d]
    BY <1>t, <1>3, RefusedAt, ReturnAt
  <2>2. RequestOK(r)'
    BY <1>t, <1>1, <2>1, RefusedAt
       DEF RequestOK, Quiet, NoRecord, Reserved, TokenReserved, Covers, Ends, Routed, Taken, Silence, Streams,
           Before, Serving, Ended, Silent, Due, Fund, Now, TokenOwed, Share, TypeOK
  <2> QED
    BY <1>t, <1>1, <1>2, <2>1, <2>2, ReqStep DEF TypeOK
<1>4. CASE req' = [req EXCEPT ![r].pc = "token", ![r].userQuota = wallet]
  <2>1. PICK q : q = [req[r] EXCEPT !.pc = "token", !.userQuota = wallet]
    OBVIOUS
  <2>2. /\ q \in Request /\ q.pc = "token" /\ q.want = req[r].want /\ q.back = req[r].back
        /\ q.owed = req[r].owed
    BY <1>t, <2>1 DEF Request, TypeOK, Pcs
  <2>3. req' = [req EXCEPT ![r] = q]
    BY <1>t, <1>4, <2>1 DEF TypeOK
  <2>4. /\ req' \in [Requests -> Request] /\ req'[r] = q
        /\ \A d \in Requests : d # r => req'[d] = req[d]
    BY <1>t, <2>2, <2>3, ReqAt
  <2>5. RequestOK(r)'
    BY <1>t, <1>1, <2>2, <2>4
       DEF RequestOK, Quiet, NoRecord, Reserved, TokenReserved, Covers, Ends, Routed, Taken, Silence, Streams, Before, Serving, Ended, Silent, Due, Fund
  <2> QED
    BY <1>t, <1>1, <1>2, <2>4, <2>5, ReqStep DEF TypeOK
<1> QED
  BY <1>3, <1>4, <1>5 DEF CheckWallet

LEMMA PreConsumeTokenStep ==
    ASSUME Inv, NEW r \in Requests, PreConsumeToken(r)
    PROVE  Inv'
<1>t. TypeOK /\ RequestOK(r) /\ req[r].pc = "token"
  BY DEF Inv, PreConsumeToken
<1>1. FundingStays /\ UNCHANGED <<route, stream, refunds>>
  BY DEF PreConsumeToken
<1>b. req[r].back \in {"select", "attempt"} /\ req[r].back \in Pcs /\ req[r].want \in Nat
  BY <1>t DEF RequestOK, Covers, TypeOK, Request
<1>2. CASE /\ session' = [session EXCEPT ![r] = [NoSession EXCEPT !.open = TRUE, !.trusted = TRUE]]
           /\ Return(r, req[r].back)
           /\ TokenStays /\ UNCHANGED faults
  <2>1. PICK s : s = [NoSession EXCEPT !.open = TRUE, !.trusted = TRUE]
    OBVIOUS
  <2>0. 0 \in Nat
    OBVIOUS
  <2>2. /\ s \in Session /\ s.open /\ s.trusted /\ ~s.settled /\ ~s.refunded /\ ~s.fundingSettled
        /\ s.pre = 0 /\ s.tok = 0 /\ s.consumed = 0
    BY <2>0, <2>1 DEF Session, NoSession
  <2>3. session' = [session EXCEPT ![r] = s]
    BY <1>2, <2>1
  <2>4. /\ session' \in [Requests -> Session] /\ session'[r] = s
        /\ \A d \in Requests : d # r => session'[d] = session[d]
    BY <1>t, <2>2, <2>3, SessionAt
  <2>5. /\ req' \in [Requests -> Request] /\ Now(r, req[r].back, 0, "idle", req[r].owed)
        /\ \A d \in Requests : d # r => req'[d] = req[d]
    BY <1>t, <1>b, <1>2, ReturnAt
  <2>6. Money(r, 0, 0) /\ faults' = faults
    BY <1>t, <1>1, <1>2, NoFault, MoneyStays
  <2>7. RequestOK(r)'
    BY <1>t, <1>1, <1>b, <2>2, <2>4, <2>5, <2>6
       DEF RequestOK, Quiet, NoRecord, Reserved, TokenReserved, Covers, Ends, Routed, Taken, Silence, Streams,
           Before, Serving, Ended, Silent, Due, Fund, Now, Share, TokenOwed, Money, TypeOK
  <2> QED
    BY <1>1, <2>4, <2>5, <2>6, <2>7, ReqStep
<1>3. CASE /\ r \in Playground \/ req[r].want = 0
           /\ GoTo(r, "fund")
           /\ TokenStays /\ UNCHANGED <<faults, session>>
  <2>1. /\ req' \in [Requests -> Request] /\ Now(r, "fund", req[r].want, req[r].back, req[r].owed)
        /\ \A d \in Requests : d # r => req'[d] = req[d]
    BY <1>t, <1>3, GoToAt DEF Pcs
  <2>2. Money(r, 0, 0) /\ faults' = faults
    BY <1>t, <1>1, <1>3, NoFault, MoneyStays
  <2>3. RequestOK(r)'
    BY <1>t, <1>1, <1>b, <1>3, <2>1, <2>2
       DEF RequestOK, Quiet, NoRecord, Reserved, TokenReserved, Covers, Ends, Routed, Taken, Silence, Streams,
           Before, Serving, Ended, Silent, Due, Fund, Now, Share, TokenOwed, Money, TypeOK
  <2> QED
    BY <1>t, <1>1, <1>3, <2>1, <2>2, <2>3, ReqStep DEF TypeOK
<1>4. CASE /\ r \notin Playground /\ TakeToken(r, req[r].want)
           /\ GoTo(r, "fund") /\ UNCHANGED session
  <2>1. /\ req' \in [Requests -> Request] /\ Now(r, "fund", req[r].want, req[r].back, req[r].owed)
        /\ \A d \in Requests : d # r => req'[d] = req[d]
    BY <1>t, <1>4, GoToAt DEF Pcs
  <2>2. Money(r, 0, req[r].want) /\ faults' = faults
    BY <1>t, <1>b, <1>1, <1>4, MoneyToken
  <2>3. RequestOK(r)'
    BY <1>t, <1>1, <1>b, <1>4, <2>1, <2>2
       DEF RequestOK, Quiet, NoRecord, Reserved, TokenReserved, Covers, Ends, Routed, Taken, Silence, Streams,
           Before, Serving, Ended, Silent, Due, Fund, Now, Share, TokenOwed, Money, TypeOK
  <2> QED
    BY <1>t, <1>1, <1>4, <2>1, <2>2, <2>3, ReqStep DEF TypeOK
<1>5. CASE /\ TokenStays /\ UNCHANGED session /\ Return(r, Refused(r))
           /\ faults' = faults \/ Fault("token")
  <2>1. /\ req' \in [Requests -> Request] /\ Now(r, Refused(r), 0, "idle", req[r].owed)
        /\ \A d \in Requests : d # r => req'[d] = req[d]
    BY <1>t, <1>5, RefusedAt, ReturnAt
  <2>2. FaultsGrow
    BY <1>t, <1>5, NoFault, SomeFault
  <2>3. Money(r, 0, 0)
    BY <1>t, <1>1, <1>5, <2>2, MoneyStays
  <2>4. RequestOK(r)'
    BY <1>t, <1>1, <1>b, <1>5, <2>1, <2>2, <2>3, RefusedAt
       DEF RequestOK, Quiet, NoRecord, Reserved, TokenReserved, Covers, Ends, Routed, Taken, Silence, Streams,
           Before, Serving, Ended, Silent, Due, Fund, Now, Share, TokenOwed, Money, TypeOK
  <2> QED
    BY <1>t, <1>1, <1>5, <2>1, <2>3, <2>4, ReqStep DEF TypeOK
<1> QED
  BY <1>2, <1>3, <1>4, <1>5 DEF PreConsumeToken, TokenStays, TokenFails

LEMMA PreConsumeFundingStep ==
    ASSUME Inv, NEW r \in Requests, PreConsumeFunding(r)
    PROVE  Inv'
<1>t. TypeOK /\ RequestOK(r) /\ req[r].pc = "fund"
  BY DEF Inv, PreConsumeFunding
<1>1. TokenStays /\ UNCHANGED <<route, stream, refunds>>
  BY DEF PreConsumeFunding
<1>b. req[r].back \in {"select", "attempt"} /\ req[r].back \in Pcs /\ req[r].want \in Nat
  BY <1>t DEF RequestOK, Covers, TypeOK, Request
<1>2. CASE /\ TakeFunding(r, req[r].want)
           /\ session' = [session EXCEPT ![r] =
                            [NoSession EXCEPT !.open = TRUE, !.pre = req[r].want,
                                              !.tok = req[r].want, !.consumed = Fund(r, req[r].want)]]
           /\ Return(r, req[r].back)
  <2>0. Fund(r, req[r].want) \in Nat
    BY <1>b DEF Fund
  <2>1. PICK s : s = [NoSession EXCEPT !.open = TRUE, !.pre = req[r].want,
                                       !.tok = req[r].want, !.consumed = Fund(r, req[r].want)]
    OBVIOUS
  <2>2. /\ s \in Session /\ s.open /\ ~s.trusted /\ ~s.settled /\ ~s.refunded /\ ~s.fundingSettled
        /\ s.pre = req[r].want /\ s.tok = req[r].want /\ s.consumed = Fund(r, req[r].want)
    BY <1>b, <2>1, <2>0 DEF Session, NoSession
  <2>3. session' = [session EXCEPT ![r] = s]
    BY <1>2, <2>1
  <2>4. /\ session' \in [Requests -> Session] /\ session'[r] = s
        /\ \A d \in Requests : d # r => session'[d] = session[d]
    BY <1>t, <2>2, <2>3, SessionAt
  <2>5. /\ req' \in [Requests -> Request] /\ Now(r, req[r].back, 0, "idle", req[r].owed)
        /\ \A d \in Requests : d # r => req'[d] = req[d]
    BY <1>t, <1>b, <1>2, ReturnAt
  <2>6. Money(r, Fund(r, req[r].want), 0) /\ faults' = faults
    BY <1>t, <1>b, <1>1, <1>2, MoneyFunding
  <2>7. RequestOK(r)'
    BY <1>t, <1>1, <1>b, <2>2, <2>4, <2>5, <2>6
       DEF RequestOK, Quiet, NoRecord, Reserved, TokenReserved, Covers, Ends, Routed, Taken, Silence, Streams,
           Before, Serving, Ended, Silent, Due, Fund, Now, Share, TokenOwed, Money, TypeOK
  <2> QED
    BY <1>1, <2>4, <2>5, <2>6, <2>7, ReqStep
<1>3. CASE /\ FundingStays /\ UNCHANGED session /\ GoTo(r, "rollback")
           /\ faults' = faults \/ Fault("wallet")
  <2>1. /\ req' \in [Requests -> Request]
        /\ Now(r, "rollback", req[r].want, req[r].back, req[r].owed)
        /\ \A d \in Requests : d # r => req'[d] = req[d]
    BY <1>t, <1>3, GoToAt DEF Pcs
  <2>2. FaultsGrow
    BY <1>t, <1>3, NoFault, SomeFault
  <2>3. Money(r, 0, 0)
    BY <1>t, <1>1, <1>3, <2>2, MoneyStays
  <2>4. RequestOK(r)'
    BY <1>t, <1>1, <1>b, <1>3, <2>1, <2>2, <2>3
       DEF RequestOK, Quiet, NoRecord, Reserved, TokenReserved, Covers, Ends, Routed, Taken, Silence, Streams,
           Before, Serving, Ended, Silent, Due, Fund, Now, Share, TokenOwed, Money, TypeOK
  <2> QED
    BY <1>t, <1>1, <1>3, <2>1, <2>3, <2>4, ReqStep DEF TypeOK
<1> QED
  BY <1>2, <1>3 DEF PreConsumeFunding, FundingStays, FundingFails

LEMMA RollbackTokenStep ==
    ASSUME Inv, NEW r \in Requests, RollbackToken(r)
    PROVE  Inv'
<1>t. TypeOK /\ RequestOK(r) /\ req[r].pc = "rollback"
  BY DEF Inv, RollbackToken
<1>1. FundingStays /\ UNCHANGED <<session, route, stream, refunds>> /\ Return(r, Refused(r))
  BY DEF RollbackToken
<1>b. req[r].back \in {"select", "attempt"} /\ req[r].want \in Nat /\ -req[r].want \in Int
  BY <1>t DEF RequestOK, Covers, TypeOK, Request
<1>2. /\ req' \in [Requests -> Request] /\ Now(r, Refused(r), 0, "idle", req[r].owed)
      /\ \A d \in Requests : d # r => req'[d] = req[d]
  BY <1>t, <1>1, RefusedAt, ReturnAt
<1>3. CASE r \in Playground /\ TokenStays /\ UNCHANGED faults
  <2>1. Money(r, 0, 0) /\ faults' = faults
    BY <1>t, <1>1, <1>3, NoFault, MoneyStays
  <2>2. RequestOK(r)'
    BY <1>t, <1>1, <1>2, <1>3, <2>1, RefusedAt
       DEF RequestOK, Quiet, NoRecord, Reserved, TokenReserved, Covers, Ends, Routed, Taken, Silence, Streams,
           Before, Serving, Ended, Silent, Due, Fund, Now, Share, TokenOwed, Money, TypeOK
  <2> QED
    BY <1>t, <1>1, <1>2, <2>1, <2>2, ReqStep DEF TypeOK
<1>4. CASE r \notin Playground /\ TakeToken(r, -req[r].want)
  <2>1. Money(r, 0, -req[r].want) /\ faults' = faults
    BY <1>t, <1>b, <1>1, <1>4, MoneyToken
  <2>2. tokPaid[r] = req[r].want
    BY <1>t, <1>4 DEF RequestOK, TokenReserved, Share
  <2>3. tokPaid'[r] = 0
    BY <1>b, <2>1, <2>2 DEF Money
  <2>4. RequestOK(r)'
    BY <1>t, <1>1, <1>2, <2>1, <2>3, RefusedAt
       DEF RequestOK, Quiet, NoRecord, Reserved, TokenReserved, Covers, Ends, Routed, Taken, Silence, Streams,
           Before, Serving, Ended, Silent, Due, Fund, Now, Share, TokenOwed, Money, TypeOK
  <2> QED
    BY <1>t, <1>1, <1>2, <2>1, <2>4, ReqStep DEF TypeOK
<1>5. CASE TokenFails
  <2>1. FaultsGrow /\ faults' # 0 /\ TokenStays
    BY <1>t, <1>5, SomeFault DEF TokenFails, TokenStays
  <2>2. Money(r, 0, 0)
    BY <1>t, <1>1, <2>1, MoneyStays
  <2>3. RequestOK(r)'
    BY <1>t, <1>1, <1>b, <1>2, <2>1, <2>2, RefusedAt
       DEF RequestOK, Quiet, NoRecord, Reserved, TokenReserved, Covers, Ends, Routed, Taken, Silence, Streams,
           Before, Serving, Ended, Silent, Due, Fund, Now, Share, TokenOwed, Money, TypeOK
  <2> QED
    BY <1>t, <1>1, <1>2, <2>2, <2>3, ReqStep DEF TypeOK
<1> QED
  BY <1>3, <1>4, <1>5 DEF RollbackToken
-----------------------------------------------------------------------------
(* The route.                                                              *)

\* A step that moves the handler of r along its route, without money.
LEMMA RouteStep ==
    ASSUME Inv, NEW r \in Requests, NEW x \in Route, route' = [route EXCEPT ![r] = x],
           req' \in [Requests -> Request],
           \A e \in Requests : e # r => req'[e] = req[e],
           UNCHANGED <<wallet, token, paid, tokPaid, session, refunds, faults>>,
           stream' \in [Requests -> Stream],
           \A e \in Requests : e # r => stream'[e] = stream[e],
           route'[r] = x => RequestOK(r)'
    PROVE  Inv'
<1>1. /\ route' \in [Requests -> Route] /\ route'[r] = x
      /\ \A e \in Requests : e # r => route'[e] = route[e]
  BY DEF Inv, TypeOK
<1>2. TypeOK' /\ FaultsGrow
  BY <1>1 DEF Inv, TypeOK, FaultsGrow
<1>3. Apart(r)
  BY <1>1 DEF Apart
<1> QED
  BY <1>1, <1>2, <1>3, HandlerStep

LEMMA SelectChannelStep ==
    ASSUME Inv, NEW r \in Requests, NEW c \in Channels, NEW target \in Targets \cup {0},
           SelectChannel(r, c, target)
    PROVE  Inv'
<1>t. TypeOK /\ RequestOK(r) /\ req[r].pc = "select" /\ c \notin route[r].excluded
  BY DEF Inv, SelectChannel
<1>1. /\ UNCHANGED <<wallet, token, paid, tokPaid, session, refunds, faults>>
      /\ stream' = stream /\ stream' \in [Requests -> Stream]
  BY <1>t DEF SelectChannel, billing, TypeOK
<1>b. target \in Nat /\ session[r].pre \in Nat /\ 0 \in Nat
  BY <1>t, RelayAssumption DEF TypeOK, Session
<1>2. PICK x : x = [route[r] EXCEPT !.ch = c, !.target = target]
  OBVIOUS
<1>3. /\ x \in Route /\ x.ch = c /\ x.target = target
      /\ x.tries = route[r].tries /\ x.excluded = route[r].excluded
  BY <1>t, <1>2 DEF TypeOK, Route
<1>4. route' = [route EXCEPT ![r] = x]
  BY <1>t, <1>2 DEF SelectChannel, TypeOK
<1>5. CASE ~session[r].open /\ StartSession(r, target, "attempt")
  <2>1. PICK q : q = [req[r] EXCEPT !.pc = "check", !.want = target, !.back = "attempt"]
    OBVIOUS
  <2>2. /\ q \in Request /\ q.pc = "check" /\ q.want = target /\ q.back = "attempt"
        /\ q.owed = req[r].owed
    BY <1>t, <1>b, <2>1 DEF TypeOK, Request, Pcs
  <2>3. req' = [req EXCEPT ![r] = q]
    BY <1>t, <1>5, <2>1 DEF StartSession, TypeOK
  <2>4. /\ req' \in [Requests -> Request] /\ req'[r] = q
        /\ \A d \in Requests : d # r => req'[d] = req[d]
    BY <1>t, <2>2, <2>3, ReqAt
  <2>5. route'[r] = x => RequestOK(r)'
    BY <1>t, <1>1, <1>3, <1>5, <2>2, <2>4
       DEF RequestOK, Quiet, NoRecord, Reserved, TokenReserved, Covers, Ends, Routed, Taken, Silence, Streams,
           Before, Serving, Ended, Silent, Due, Fund, Now, Share, TokenOwed, Money, TypeOK
  <2> QED
    BY <1>1, <1>3, <1>4, <2>4, <2>5, RouteStep
<1>6. CASE /\ session[r].open /\ NeedsMore(r, target)
           /\ req' = [req EXCEPT ![r].pc = "more", ![r].want = target - session[r].pre]
  <2>0. target - session[r].pre \in Nat
    BY <1>b, <1>6 DEF NeedsMore
  <2>1. PICK q : q = [req[r] EXCEPT !.pc = "more", !.want = target - session[r].pre]
    OBVIOUS
  <2>2. /\ q \in Request /\ q.pc = "more" /\ q.want = target - session[r].pre
        /\ q.owed = req[r].owed
    BY <1>t, <2>0, <2>1 DEF TypeOK, Request, Pcs
  <2>3. req' = [req EXCEPT ![r] = q]
    BY <1>t, <1>6, <2>1 DEF TypeOK
  <2>4. /\ req' \in [Requests -> Request] /\ req'[r] = q
        /\ \A d \in Requests : d # r => req'[d] = req[d]
    BY <1>t, <2>2, <2>3, ReqAt
  <2>5. session[r].pre + q.want = target
    BY <1>b, <2>2
  <2>6. route'[r] = x => RequestOK(r)'
    BY <1>t, <1>1, <1>3, <1>6, <2>2, <2>4, <2>5
       DEF RequestOK, Quiet, NoRecord, Reserved, TokenReserved, Covers, Ends, Routed, Taken, Silence, Streams,
           Before, Serving, Ended, Silent, Due, Fund, Now, Share, TokenOwed, Money, TypeOK
  <2> QED
    BY <1>1, <1>3, <1>4, <2>4, <2>6, RouteStep
<1>7. CASE GoTo(r, "attempt") /\ (target = 0 \/ (session[r].open /\ ~NeedsMore(r, target)))
  <2>1. /\ req' \in [Requests -> Request]
        /\ Now(r, "attempt", req[r].want, req[r].back, req[r].owed)
        /\ \A d \in Requests : d # r => req'[d] = req[d]
    BY <1>t, <1>7, GoToAt DEF Pcs
  <2>2. session[r].trusted \/ target <= session[r].pre
    BY <1>t, <1>b, <1>7 DEF NeedsMore, RequestOK, Quiet, Before
  <2>3. route'[r] = x => RequestOK(r)'
    BY <1>t, <1>1, <1>3, <2>1, <2>2
       DEF RequestOK, Quiet, NoRecord, Reserved, TokenReserved, Covers, Ends, Routed, Taken, Silence, Streams,
           Before, Serving, Ended, Silent, Due, Fund, Now, Share, TokenOwed, Money, TypeOK
  <2> QED
    BY <1>1, <1>3, <1>4, <2>1, <2>3, RouteStep
<1> QED
  BY <1>5, <1>6, <1>7 DEF SelectChannel

LEMMA NoChannelLeftStep ==
    ASSUME Inv, NEW r \in Requests, NoChannelLeft(r)
    PROVE  Inv'
<1>t. TypeOK /\ RequestOK(r) /\ req[r].pc = "select"
  BY DEF Inv, NoChannelLeft
<1>k. /\ session[r].pre \in Nat /\ session[r].tok \in Nat /\ session[r].consumed \in Nat
      /\ Silent(r) /\ paid[r] = session[r].consumed
      /\ session[r].tok + stream[r].tokUsed = session[r].tok
      /\ Share(r, session[r].tok) \in Nat
  BY <1>t, BooksAt DEF Before
<1>1. UNCHANGED <<wallet, token, paid, tokPaid, session, route, stream, refunds, faults>>
  BY DEF NoChannelLeft, billing
<1>2. /\ req' \in [Requests -> Request]
      /\ Now(r, "failed", req[r].want, req[r].back, req[r].owed)
      /\ \A d \in Requests : d # r => req'[d] = req[d]
  BY <1>t, GoToAt DEF Pcs, NoChannelLeft
<1>3. Money(r, 0, 0)
  BY <1>t, <1>1, NoFault, MoneyStays DEF FundingStays, TokenStays
<1>4. RequestOK(r)'
  BY <1>t, <1>k, <1>1, <1>2
     DEF RequestOK, Quiet, NoRecord, Reserved, TokenReserved, Covers, Ends, Routed, Taken, Silence, Streams,
         Before, Serving, Ended, Silent, Due, Fund, Now, Share, TokenOwed, Money, TypeOK
<1> QED
  BY <1>t, <1>1, <1>2, <1>3, <1>4, ReqStep DEF TypeOK

\* One more attempt on the channel of the route.
LEMMA TriedAt ==
    ASSUME TypeOK, NEW r \in Requests, NEW c \in Channels,
           route[r].tries[c] < MaxAttempts
    PROVE  \E x \in Route :
             /\ [route EXCEPT ![r].tries[c] = @ + 1] = [route EXCEPT ![r] = x]
             /\ x.ch = route[r].ch /\ x.target = route[r].target
             /\ x.excluded = route[r].excluded
             /\ x.tries[c] = route[r].tries[c] + 1
             /\ \A d \in Channels : d # c => x.tries[d] = route[r].tries[d]
<1>1. route[r].tries \in [Channels -> 0..MaxAttempts] /\ MaxAttempts \in Nat
  BY RelayAssumption DEF TypeOK, Route
<1>2. PICK w : w = [route[r].tries EXCEPT ![c] = @ + 1]
  OBVIOUS
<1>3. /\ w \in [Channels -> 0..MaxAttempts] /\ w[c] = route[r].tries[c] + 1
      /\ \A d \in Channels : d # c => w[d] = route[r].tries[d]
  BY <1>1, <1>2
<1>4. PICK x : x = [route[r] EXCEPT !.tries = w]
  OBVIOUS
<1>5. /\ x \in Route /\ x.ch = route[r].ch /\ x.target = route[r].target
      /\ x.excluded = route[r].excluded /\ x.tries = w
  BY <1>3, <1>4 DEF TypeOK, Route
<1>6. [route EXCEPT ![r].tries[c] = @ + 1] = [route EXCEPT ![r] = x]
  BY <1>2, <1>4 DEF TypeOK
<1> QED
  BY <1>3, <1>5, <1>6

LEMMA AttemptStep ==
    ASSUME Inv, NEW r \in Requests, Attempt(r)
    PROVE  Inv'
<1> DEFINE c == route[r].ch
           tried == [route EXCEPT ![r].tries[c] = @ + 1]
<1>t. TypeOK /\ RequestOK(r) /\ req[r].pc = "attempt"
  BY DEF Inv, Attempt
<1>k. /\ session[r].pre \in Nat /\ session[r].tok \in Nat /\ session[r].consumed \in Nat
      /\ Silent(r) /\ paid[r] = session[r].consumed
      /\ session[r].tok + stream[r].tokUsed = session[r].tok
      /\ Share(r, session[r].tok) \in Nat
  BY <1>t, BooksAt DEF Before
<1>1. UNCHANGED <<wallet, token, paid, tokPaid, session, refunds, faults>>
  BY DEF Attempt, billing
<1>b. c \in Channels /\ c \notin route[r].excluded /\ route[r].tries[c] < MaxAttempts
  BY <1>t DEF RequestOK, Routed
<1>2. PICK x \in Route :
         /\ tried = [route EXCEPT ![r] = x]
         /\ x.ch = c /\ x.target = route[r].target /\ x.excluded = route[r].excluded
         /\ x.tries[c] = route[r].tries[c] + 1
         /\ \A d \in Channels : d # c => x.tries[d] = route[r].tries[d]
  BY <1>t, <1>b, TriedAt
<1>n. /\ MaxAttempts \in Nat /\ x.tries \in [Channels -> 0..MaxAttempts]
      /\ route[r].tries \in [Channels -> 0..MaxAttempts]
  BY <1>t, RelayAssumption DEF TypeOK, Route
<1>s. ASSUME stream' = stream
      PROVE  stream' \in [Requests -> Stream]
  BY <1>s, <1>t DEF TypeOK
<1>3. ASSUME NEW actual \in Actuals, stream' = stream,
             req' = [req EXCEPT ![r].pc = "settle", ![r].owed = actual], route' = tried
      PROVE  Inv'
  <2>0. actual \in Nat
    BY RelayAssumption
  <2>1. PICK q : q = [req[r] EXCEPT !.pc = "settle", !.owed = actual]
    OBVIOUS
  <2>2. /\ q \in Request /\ q.pc = "settle" /\ q.owed = actual
    BY <1>t, <2>0, <2>1 DEF TypeOK, Request, Pcs
  <2>3. req' = [req EXCEPT ![r] = q]
    BY <1>t, <1>3, <2>1 DEF TypeOK
  <2>4. /\ req' \in [Requests -> Request] /\ req'[r] = q
        /\ \A d \in Requests : d # r => req'[d] = req[d]
    BY <1>t, <2>2, <2>3, ReqAt
  <2>6. route'[r] = x => RequestOK(r)'
    BY <1>t, <1>1, <1>3, <2>2, <2>4
       DEF RequestOK, Quiet, NoRecord, Reserved, TokenReserved, Covers, Ends, Routed, Taken, Silence, Streams,
           Before, Serving, Ended, Silent, Due, Fund, Now, Share, TokenOwed, Money, TypeOK
  <2> QED
    BY <1>1, <1>2, <1>3, <1>s, <2>4, <2>6, RouteStep
<1>7. CASE /\ GoTo(r, "stream") /\ route' = tried
           /\ stream' = [stream EXCEPT ![r].left = MaxUsages]
  <2>1. /\ req' \in [Requests -> Request]
        /\ Now(r, "stream", req[r].want, req[r].back, req[r].owed)
        /\ \A d \in Requests : d # r => req'[d] = req[d]
    BY <1>t, <1>7, GoToAt DEF Pcs
  <2>2. PICK m : m = [stream[r] EXCEPT !.left = MaxUsages]
    OBVIOUS
  <2>3. /\ m \in Stream /\ m.stage = stream[r].stage /\ m.amount = stream[r].amount
        /\ m.used = stream[r].used /\ m.tokUsed = stream[r].tokUsed
    BY <1>t, <2>2, RelayAssumption DEF TypeOK, Stream
  <2>4. stream' = [stream EXCEPT ![r] = m]
    BY <1>t, <1>7, <2>2 DEF TypeOK
  <2>5. /\ stream' \in [Requests -> Stream] /\ stream'[r] = m
        /\ \A d \in Requests : d # r => stream'[d] = stream[d]
    BY <1>t, <2>3, <2>4 DEF TypeOK
  <2>6. route'[r] = x => RequestOK(r)'
    BY <1>t, <1>1, <2>1, <2>3, <2>5
       DEF RequestOK, Quiet, NoRecord, Reserved, TokenReserved, Covers, Ends, Routed, Taken, Silence, Streams,
           Before, Serving, Ended, Silent, Due, Fund, Now, Share, TokenOwed, Money, TypeOK
  <2> QED
    BY <1>1, <1>2, <1>7, <2>1, <2>5, <2>6, RouteStep
<1>4. CASE GoTo(r, "failed") /\ route' = tried /\ stream' = stream
  <2>1. /\ req' \in [Requests -> Request]
        /\ Now(r, "failed", req[r].want, req[r].back, req[r].owed)
        /\ \A d \in Requests : d # r => req'[d] = req[d]
    BY <1>t, <1>4, GoToAt DEF Pcs
  <2>2. route'[r] = x => RequestOK(r)'
    BY <1>t, <1>k, <1>1, <1>4, <2>1
       DEF RequestOK, Quiet, NoRecord, Reserved, TokenReserved, Covers, Ends, Routed, Taken, Silence, Streams,
           Before, Serving, Ended, Silent, Due, Fund, Now, Share, TokenOwed, Money, TypeOK
  <2> QED
    BY <1>1, <1>2, <1>4, <1>s, <2>1, <2>2, RouteStep
<1>5. CASE CanAttempt(route[r].tries[c] + 1) /\ route' = tried /\ UNCHANGED req /\ stream' = stream
  <2>1. \A d \in Channels : d \in x.excluded \/ x.tries[d] < MaxAttempts
    BY <1>t, <1>2, <1>5 DEF CanAttempt, RequestOK, Routed
  <2>2. route'[r] = x => RequestOK(r)'
    BY <1>t, <1>1, <1>b, <1>2, <1>5, <2>1
       DEF RequestOK, Quiet, NoRecord, Reserved, TokenReserved, Covers, Ends, Routed, Taken, Silence, Streams,
           Before, Serving, Ended, Silent, Due, Fund, Now, Share, TokenOwed, Money, TypeOK
  <2> QED
    BY <1>t, <1>1, <1>2, <1>5, <1>s, <2>2, RouteStep DEF TypeOK
<1>6. CASE /\ route' = [tried EXCEPT ![r].excluded = @ \cup {c}]
           /\ GoTo(r, "select") /\ stream' = stream
  <2>1. /\ req' \in [Requests -> Request]
        /\ Now(r, "select", req[r].want, req[r].back, req[r].owed)
        /\ \A d \in Requests : d # r => req'[d] = req[d]
    BY <1>t, <1>6, GoToAt DEF Pcs
  <2>2. PICK y : y = [x EXCEPT !.excluded = @ \cup {c}]
    OBVIOUS
  <2>3. y \in Route /\ y.tries = x.tries /\ y.excluded = route[r].excluded \cup {c}
    BY <1>b, <1>2, <2>2 DEF Route
  <2>4. route' = [route EXCEPT ![r] = y]
    <3>1. route' = [[route EXCEPT ![r] = x] EXCEPT ![r].excluded = @ \cup {c}]
      BY <1>2, <1>6
    <3>2. route \in [Requests -> Route]
      BY <1>t DEF TypeOK
    <3> HIDE DEF c, tried
    <3> QED
      BY <2>2, <3>1, <3>2
  <2>5. \A d \in Channels : d \in y.excluded \/ y.tries[d] < MaxAttempts
    BY <1>t, <1>2, <2>3 DEF RequestOK, Routed
  <2>6. route'[r] = y => RequestOK(r)'
    BY <1>t, <1>1, <1>6, <2>1, <2>5
       DEF RequestOK, Quiet, NoRecord, Reserved, TokenReserved, Covers, Ends, Routed, Taken, Silence, Streams,
           Before, Serving, Ended, Silent, Due, Fund, Now, Share, TokenOwed, Money, TypeOK
  <2> QED
    BY <1>1, <1>6, <1>s, <2>1, <2>3, <2>4, <2>6, RouteStep
<1> QED
  BY <1>3, <1>4, <1>5, <1>6, <1>7 DEF Attempt
-----------------------------------------------------------------------------
(* Top-up of the reservation.                                              *)

LEMMA ReserveFundingStep ==
    ASSUME Inv, NEW r \in Requests, ReserveFunding(r)
    PROVE  Inv'
<1>t. TypeOK /\ RequestOK(r) /\ req[r].pc = "more"
  BY DEF Inv, ReserveFunding
<1>k. /\ session[r].pre \in Nat /\ session[r].tok \in Nat /\ session[r].consumed \in Nat
      /\ Silent(r) /\ paid[r] = session[r].consumed
      /\ session[r].tok + stream[r].tokUsed = session[r].tok
      /\ Share(r, session[r].tok) \in Nat
  BY <1>t, BooksAt DEF Before
<1>1. TokenStays /\ UNCHANGED <<route, stream, refunds>>
  BY DEF ReserveFunding
<1>b. req[r].want \in Nat /\ session[r].consumed \in Nat
  BY <1>t DEF TypeOK, Request, Session
<1>2. CASE /\ TakeFunding(r, req[r].want)
           /\ session' = [session EXCEPT ![r].consumed = @ + Fund(r, req[r].want)]
           /\ GoTo(r, "moreToken")
  <2>0. session[r].consumed + Fund(r, req[r].want) \in Nat
    BY <1>b DEF Fund
  <2>1. PICK s : s = [session[r] EXCEPT !.consumed = @ + Fund(r, req[r].want)]
    OBVIOUS
  <2>2. /\ s \in Session /\ s.open = session[r].open /\ s.trusted = session[r].trusted
        /\ s.settled = session[r].settled /\ s.refunded = session[r].refunded
        /\ s.fundingSettled = session[r].fundingSettled
        /\ s.pre = session[r].pre /\ s.tok = session[r].tok
        /\ s.consumed = session[r].consumed + Fund(r, req[r].want)
    BY <1>t, <2>0, <2>1 DEF TypeOK, Session
  <2>3. session' = [session EXCEPT ![r] = s]
    BY <1>t, <1>2, <2>1 DEF TypeOK
  <2>4. /\ session' \in [Requests -> Session] /\ session'[r] = s
        /\ \A d \in Requests : d # r => session'[d] = session[d]
    BY <1>t, <2>2, <2>3, SessionAt
  <2>5. /\ req' \in [Requests -> Request]
        /\ Now(r, "moreToken", req[r].want, req[r].back, req[r].owed)
        /\ \A d \in Requests : d # r => req'[d] = req[d]
    BY <1>t, <1>2, GoToAt DEF Pcs
  <2>6. Money(r, Fund(r, req[r].want), 0) /\ faults' = faults
    BY <1>t, <1>b, <1>1, <1>2, MoneyFunding
  <2>7. RequestOK(r)'
    BY <1>t, <1>1, <1>b, <2>2, <2>4, <2>5, <2>6
       DEF RequestOK, Quiet, NoRecord, Reserved, TokenReserved, Covers, Ends, Routed, Taken, Silence, Streams,
           Before, Serving, Ended, Silent, Due, Fund, Now, Share, TokenOwed, Money, TypeOK
  <2> QED
    BY <1>1, <2>4, <2>5, <2>6, <2>7, ReqStep
<1>3. CASE FundingFails(r) /\ Return(r, "failed") /\ UNCHANGED session
  <2>1. /\ req' \in [Requests -> Request] /\ Now(r, "failed", 0, "idle", req[r].owed)
        /\ \A d \in Requests : d # r => req'[d] = req[d]
    BY <1>t, <1>3, ReturnAt DEF Pcs
  <2>2. FaultsGrow /\ faults' # 0 /\ FundingStays
    BY <1>t, <1>3, SomeFault DEF FundingFails, FundingStays
  <2>3. Money(r, 0, 0)
    BY <1>t, <1>1, <2>2, MoneyStays
  <2>4. RequestOK(r)'
    BY <1>t, <1>k, <1>1, <1>b, <1>3, <2>1, <2>2, <2>3
       DEF RequestOK, Quiet, NoRecord, Reserved, TokenReserved, Covers, Ends, Routed, Taken, Silence, Streams,
           Before, Serving, Ended, Silent, Due, Fund, Now, Share, TokenOwed, Money, TypeOK
  <2> QED
    BY <1>t, <1>1, <1>3, <2>1, <2>3, <2>4, ReqStep DEF TypeOK
<1> QED
  BY <1>2, <1>3 DEF ReserveFunding

LEMMA ReserveTokenStep ==
    ASSUME Inv, NEW r \in Requests, ReserveToken(r)
    PROVE  Inv'
<1>t. TypeOK /\ RequestOK(r) /\ req[r].pc = "moreToken"
  BY DEF Inv, ReserveToken
<1>1. FundingStays /\ UNCHANGED <<route, stream, refunds>>
  BY DEF ReserveToken
<1>b. /\ req[r].want \in Nat /\ session[r].consumed \in Nat
      /\ session[r].pre \in Nat /\ session[r].tok \in Nat
  BY <1>t DEF TypeOK, Request, Session
<1>2. CASE /\ IF r \in Playground THEN TokenStays /\ UNCHANGED faults
              ELSE TakeToken(r, req[r].want)
           /\ session' = [session EXCEPT ![r].pre = @ + req[r].want,
                                         ![r].tok = @ + req[r].want]
           /\ Return(r, "attempt")
  <2>0. session[r].pre + req[r].want \in Nat /\ session[r].tok + req[r].want \in Nat
    BY <1>b
  <2>1. PICK s : s = [session[r] EXCEPT !.pre = @ + req[r].want, !.tok = @ + req[r].want]
    OBVIOUS
  <2>2. /\ s \in Session /\ s.open = session[r].open /\ s.trusted = session[r].trusted
        /\ s.settled = session[r].settled /\ s.refunded = session[r].refunded
        /\ s.fundingSettled = session[r].fundingSettled
        /\ s.pre = session[r].pre + req[r].want /\ s.tok = session[r].tok + req[r].want
        /\ s.consumed = session[r].consumed
    BY <1>t, <2>0, <2>1 DEF TypeOK, Session
  <2>3. session' = [session EXCEPT ![r] = s]
    BY <1>t, <1>2, <2>1 DEF TypeOK
  <2>4. /\ session' \in [Requests -> Session] /\ session'[r] = s
        /\ \A d \in Requests : d # r => session'[d] = session[d]
    BY <1>t, <2>2, <2>3, SessionAt
  <2>5. /\ req' \in [Requests -> Request] /\ Now(r, "attempt", 0, "idle", req[r].owed)
        /\ \A d \in Requests : d # r => req'[d] = req[d]
    BY <1>t, <1>2, ReturnAt DEF Pcs
  <2>6. Money(r, 0, Share(r, req[r].want)) /\ faults' = faults
    <3>1. CASE r \in Playground
      BY <1>t, <1>1, <1>2, <3>1, NoFault, MoneyStays DEF Share
    <3>2. CASE r \notin Playground
      BY <1>t, <1>b, <1>1, <1>2, <3>2, MoneyToken DEF Share
    <3> QED
      BY <3>1, <3>2
  <2>7. RequestOK(r)'
    BY <1>t, <1>1, <1>b, <2>2, <2>4, <2>5, <2>6
       DEF RequestOK, Quiet, NoRecord, Reserved, TokenReserved, Covers, Ends, Routed, Taken, Silence, Streams,
           Before, Serving, Ended, Silent, Due, Fund, Now, Share, TokenOwed, Money, TypeOK
  <2> QED
    BY <1>1, <2>4, <2>5, <2>6, <2>7, ReqStep
<1>3. CASE /\ TokenStays /\ GoTo(r, "moreRollback") /\ UNCHANGED session
           /\ faults' = faults \/ Fault("token")
  <2>1. /\ req' \in [Requests -> Request]
        /\ Now(r, "moreRollback", req[r].want, req[r].back, req[r].owed)
        /\ \A d \in Requests : d # r => req'[d] = req[d]
    BY <1>t, <1>3, GoToAt DEF Pcs
  <2>2. FaultsGrow
    BY <1>t, <1>3, NoFault, SomeFault
  <2>3. Money(r, 0, 0)
    BY <1>t, <1>1, <1>3, <2>2, MoneyStays
  <2>4. RequestOK(r)'
    BY <1>t, <1>1, <1>b, <1>3, <2>1, <2>2, <2>3
       DEF RequestOK, Quiet, NoRecord, Reserved, TokenReserved, Covers, Ends, Routed, Taken, Silence, Streams,
           Before, Serving, Ended, Silent, Due, Fund, Now, Share, TokenOwed, Money, TypeOK
  <2> QED
    BY <1>t, <1>1, <1>3, <2>1, <2>3, <2>4, ReqStep DEF TypeOK
<1> QED
  BY <1>2, <1>3 DEF ReserveToken, TokenStays, TokenFails

LEMMA RollbackFundingStep ==
    ASSUME Inv, NEW r \in Requests, RollbackFunding(r)
    PROVE  Inv'
<1>t. TypeOK /\ RequestOK(r) /\ req[r].pc = "moreRollback"
  BY DEF Inv, RollbackFunding
<1>k. /\ session[r].pre \in Nat /\ session[r].tok \in Nat /\ session[r].consumed \in Nat
      /\ Silent(r) /\ paid[r] = session[r].consumed
      /\ session[r].tok + stream[r].tokUsed = session[r].tok
      /\ Share(r, session[r].tok) \in Nat
  BY <1>t, BooksAt DEF Before
<1>1. TokenStays /\ UNCHANGED <<route, stream, refunds>> /\ Return(r, "failed")
  BY DEF RollbackFunding
<1>b. /\ req[r].want \in Nat /\ session[r].consumed \in Nat /\ session[r].pre \in Nat
      /\ session[r].consumed = Fund(r, session[r].pre + req[r].want)
      /\ -req[r].want \in Int
  BY <1>t DEF TypeOK, Request, Session, RequestOK, Reserved
<1>2. /\ req' \in [Requests -> Request] /\ Now(r, "failed", 0, "idle", req[r].owed)
      /\ \A d \in Requests : d # r => req'[d] = req[d]
  BY <1>t, <1>1, ReturnAt DEF Pcs
<1>3. CASE /\ TakeFunding(r, -req[r].want)
           /\ session' = [session EXCEPT ![r].consumed = @ - Fund(r, req[r].want)]
  <2>0. /\ session[r].consumed - Fund(r, req[r].want) = Fund(r, session[r].pre)
        /\ Fund(r, session[r].pre) \in Nat
    BY <1>b DEF Fund
  <2>1. PICK s : s = [session[r] EXCEPT !.consumed = @ - Fund(r, req[r].want)]
    OBVIOUS
  <2>2. /\ s \in Session /\ s.open = session[r].open /\ s.trusted = session[r].trusted
        /\ s.settled = session[r].settled /\ s.refunded = session[r].refunded
        /\ s.fundingSettled = session[r].fundingSettled
        /\ s.pre = session[r].pre /\ s.tok = session[r].tok
        /\ s.consumed = Fund(r, session[r].pre)
    BY <1>t, <1>b, <2>0, <2>1 DEF TypeOK, Session
  <2>3. session' = [session EXCEPT ![r] = s]
    BY <1>t, <1>3, <2>1 DEF TypeOK
  <2>4. /\ session' \in [Requests -> Session] /\ session'[r] = s
        /\ \A d \in Requests : d # r => session'[d] = session[d]
    BY <1>t, <2>2, <2>3, SessionAt
  <2>5. Money(r, Fund(r, -req[r].want), 0) /\ faults' = faults
    BY <1>t, <1>b, <1>1, <1>3, MoneyFunding
  <2>6. paid'[r] = Fund(r, session[r].pre)
    <3>1. paid[r] = Fund(r, session[r].pre + req[r].want)
      BY <1>t, <1>b DEF RequestOK, Quiet, Before, Silence, Silent, Fund
    <3> QED
      BY <1>b, <2>5, <3>1 DEF Money, Fund
  <2>7. RequestOK(r)'
    <3>1. /\ stream'[r] = stream[r] /\ tokPaid'[r] = tokPaid[r] /\ tokPaid[r] = Share(r, session[r].tok)
          /\ NoRecord(r)' /\ NoRecord(r) /\ req[r].owed = 0 /\ session[r].open
      BY <1>t, <1>k, <1>1 DEF RequestOK, TokenReserved, Before, TokenStays, NoRecord, Quiet
    <3>2. Reserved(r)' /\ TokenReserved(r)'
      <4>1. req'[r].pc = "failed" /\ session'[r] = s
        BY <1>2, <2>4 DEF Now
      <4>2. s.consumed >= Fund(r, s.pre) /\ s.consumed = Fund(r, s.pre)
        BY <2>0, <2>2
      <4>3. tokPaid'[r] >= Share(r, s.tok) /\ tokPaid'[r] = Share(r, s.tok)
        BY <1>k, <2>2, <3>1
      <4> QED
        BY <4>1, <4>2, <4>3 DEF Reserved, TokenReserved
    <3>5. Quiet(r)'
      <4>1. paid'[r] = s.consumed + Fund(r, stream[r].used) /\ s.tok = s.pre
        BY <1>t, <1>k, <2>0, <2>2, <2>6 DEF RequestOK, Quiet, Before, Silent, Fund
      <4>2. ~s.settled /\ ~s.refunded /\ ~s.fundingSettled /\ s.open
        BY <1>t, <2>2 DEF RequestOK, Quiet, Before
      <4> QED
        BY <1>2, <2>4, <3>1, <4>1, <4>2 DEF Quiet, Now
    <3>3. Taken(r)' /\ Covers(r)' /\ Routed(r)' /\ Silence(r)' /\ Streams(r)'
      BY <1>t, <1>k, <1>2, <2>0, <2>6, <3>1
         DEF RequestOK, Taken, Covers, Routed, Silence, Silent, Streams, Due, Now, Fund
    <3>4. Ends(r)'
      BY <1>t, <1>1, <1>2, <3>1 DEF RequestOK, Ends, Ended, Now, NoRecord
    <3> QED
      BY <3>2, <3>3, <3>4, <3>5 DEF RequestOK
  <2> QED
    BY <1>1, <1>2, <2>4, <2>5, <2>7, ReqStep
<1>4. CASE FundingFails(r) /\ UNCHANGED session
  <2>1. FaultsGrow /\ faults' # 0 /\ FundingStays
    BY <1>t, <1>4, SomeFault DEF FundingFails, FundingStays
  <2>2. Money(r, 0, 0)
    BY <1>t, <1>1, <2>1, MoneyStays
  <2>3. RequestOK(r)'
    BY <1>t, <1>k, <1>1, <1>b, <1>2, <1>4, <2>1, <2>2
       DEF RequestOK, Quiet, NoRecord, Reserved, TokenReserved, Covers, Ends, Routed, Taken, Silence, Streams,
           Before, Serving, Ended, Silent, Due, Fund, Now, Share, TokenOwed, Money, TypeOK
  <2> QED
    BY <1>t, <1>1, <1>2, <1>4, <2>2, <2>3, ReqStep DEF TypeOK
<1> QED
  BY <1>3, <1>4 DEF RollbackFunding

-----------------------------------------------------------------------------
(* The charges of a websocket.                                             *)

\* A step of the stream of r: what it takes from wallet and token it notes.
LEMMA StreamStep ==
    ASSUME Inv, NEW r \in Requests, ~Silent(r), NEW m \in Stream,
           stream' = [stream EXCEPT ![r] = m],
           UNCHANGED <<req, session, route, refunds>>,
           NEW a \in Nat, m.used = stream[r].used + a,
           NEW b \in Nat, m.tokUsed = stream[r].tokUsed + b,
           Money(r, Fund(r, a), Share(r, b)),
           faults' = 0 => m.used = m.tokUsed + (IF m.stage = "token" THEN m.amount ELSE 0)
    PROVE  Inv'
<1>t. TypeOK /\ RequestOK(r) /\ req[r] \in Request
  BY DEF Inv, TypeOK
<1>1. /\ stream' \in [Requests -> Stream] /\ stream'[r] = m
      /\ \A e \in Requests : e # r => stream'[e] = stream[e]
  BY <1>t DEF TypeOK
<1>2. TypeOK' /\ Apart(r) /\ FaultsGrow
  BY <1>t, <1>1 DEF TypeOK, Money, Apart, FaultsGrow
<1>3. req[r].pc \in {"stream", "settle", "settleToken", "over"} /\ NoRecord(r)
  BY <1>t DEF RequestOK, Silence, Before, Pcs, Request
<1>n. /\ stream[r].used \in Nat /\ stream[r].tokUsed \in Nat /\ req[r].owed \in Nat
      /\ session[r].consumed \in Nat /\ session[r].pre \in Nat /\ session[r].tok \in Nat
      /\ paid[r] \in Int /\ tokPaid[r] \in Int
  BY <1>t DEF TypeOK, Stream, Request, Session
<1>4. paid'[r] = paid[r] + Fund(r, a) /\ tokPaid'[r] = tokPaid[r] + Share(r, b)
  BY DEF Money
<1>5. NoRecord(r)'
  BY <1>3 DEF NoRecord
<1>6. Quiet(r)' /\ Reserved(r)' /\ TokenReserved(r)' /\ Covers(r)' /\ Routed(r)'
  <2>1. Quiet(r)'
    BY <1>t, <1>1, <1>3, <1>4, <1>5, <1>n DEF RequestOK, Quiet, Before, Serving, Fund
  <2>2. Reserved(r)'
    BY <1>t, <1>3 DEF RequestOK, Reserved, Before, Serving
  <2>3. TokenReserved(r)'
    BY <1>t, <1>1, <1>3, <1>4, <1>n DEF RequestOK, TokenReserved, Before, Serving, Share
  <2>4. Covers(r)' /\ Routed(r)'
    BY <1>t, <1>3 DEF RequestOK, Covers, Routed
  <2> QED
    BY <2>1, <2>2, <2>3, <2>4
<1>7. Taken(r)'
  BY <1>t, <1>4, <1>n DEF RequestOK, Taken, Fund, Share
<1>8. Silence(r)' /\ Streams(r)'
  BY <1>1, <1>3, <1>5 DEF Silence, Streams, Due, Before
<1>9. Ends(r)'
  <2>1. TokenOwed(r)' = TokenOwed(r) /\ TokenOwed(r) \in Nat
    BY <1>n DEF TokenOwed, Share
  <2>2. CASE req[r].pc = "settleToken"
    BY <1>t, <1>1, <1>3, <1>4, <1>5, <1>n, <2>2 DEF RequestOK, Ends, Ended, Fund, Share
  <2>3. CASE req[r].pc = "over"
    <3>1. faults' = 0 => /\ paid[r] = Fund(r, req[r].owed + stream[r].used)
                         /\ tokPaid[r] = TokenOwed(r) + Share(r, stream[r].tokUsed)
      BY <1>t, <1>2, <1>3, <2>3 DEF RequestOK, Ends, Ended, FaultsGrow
    <3>2. faults' = 0 => /\ paid'[r] = Fund(r, req[r].owed + m.used)
                         /\ tokPaid'[r] = TokenOwed(r) + Share(r, m.tokUsed)
      BY <1>4, <1>n, <2>1, <3>1 DEF Fund, Share
    <3> QED
      BY <1>t, <1>1, <1>3, <1>5, <2>1, <2>3, <3>2 DEF RequestOK, Ends, Ended, NoRecord
  <2>4. CASE req[r].pc \in {"stream", "settle"}
    BY <1>t, <1>3, <2>4 DEF RequestOK, Ends, Ended
  <2> QED
    BY <1>3, <2>2, <2>3, <2>4
<1> QED
  BY <1>2, <1>6, <1>7, <1>8, <1>9, HandlerStep DEF RequestOK

LEMMA UsageStep ==
    ASSUME Inv, NEW r \in Requests, NEW a \in Usages, Usage(r, a)
    PROVE  Inv'
<1>t. /\ TypeOK /\ RequestOK(r) /\ stream[r].left > 0 /\ stream[r].stage = "none"
      /\ ~Silent(r)
  BY DEF Inv, Usage, Silent
<1>0. /\ a \in Nat /\ stream[r] \in Stream
      /\ stream[r].left \in 0..MaxUsages /\ stream[r].left - 1 \in 0..MaxUsages
  <2>1. a \in Nat /\ MaxUsages \in Nat
    BY RelayAssumption
  <2>2. stream[r] \in Stream /\ stream[r].left \in 0..MaxUsages
    BY <1>t DEF TypeOK, Stream
  <2> QED
    BY <1>t, <2>1, <2>2
<1>1. PICK m : m = [stream[r] EXCEPT !.left = @ - 1, !.stage = "fund", !.amount = a]
  OBVIOUS
<1>2. /\ m \in Stream /\ m.stage = "fund" /\ m.used = stream[r].used
      /\ m.tokUsed = stream[r].tokUsed
      /\ stream[r].used \in Nat /\ stream[r].tokUsed \in Nat
  BY <1>0, <1>1 DEF Stream
<1>3. stream' = [stream EXCEPT ![r] = m]
  BY <1>t, <1>1 DEF Usage, TypeOK
<1>4. UNCHANGED <<wallet, token, paid, tokPaid, req, session, route, refunds, faults>>
  BY DEF Usage, billing
<1>5. Money(r, 0, 0) /\ Fund(r, 0) = 0 /\ Share(r, 0) = 0
  BY <1>t, <1>4, NoFault, MoneyStays DEF FundingStays, TokenStays, Fund, Share
<1>6. faults' = 0 => m.used = m.tokUsed + (IF m.stage = "token" THEN m.amount ELSE 0)
  BY <1>t, <1>2, <1>4 DEF RequestOK, Streams, Due
<1>7. /\ 0 \in Nat /\ m.used = stream[r].used + 0 /\ m.tokUsed = stream[r].tokUsed + 0
  BY <1>2
<1> QED
  BY <1>t, <1>2, <1>3, <1>4, <1>5, <1>6, <1>7, StreamStep

LEMMA UsageFundingStep ==
    ASSUME Inv, NEW r \in Requests, UsageFunding(r)
    PROVE  Inv'
<1>t. TypeOK /\ RequestOK(r) /\ stream[r].stage = "fund" /\ ~Silent(r)
  BY DEF Inv, UsageFunding, Silent
<1>1. TokenStays /\ UNCHANGED <<req, session, route, refunds>>
  BY DEF UsageFunding
<1>b. /\ stream[r].used \in Nat /\ stream[r].tokUsed \in Nat /\ stream[r].amount \in Nat
      /\ faults = 0 => stream[r].used = stream[r].tokUsed
  BY <1>t DEF TypeOK, Stream, RequestOK, Streams, Due
<1>2. CASE /\ TakeFunding(r, stream[r].amount)
           /\ stream' = [stream EXCEPT ![r].stage = "token",
                                       ![r].used = @ + stream[r].amount]
  <2>1. PICK m : m = [stream[r] EXCEPT !.stage = "token", !.used = @ + stream[r].amount]
    OBVIOUS
  <2>2. /\ m \in Stream /\ m.stage = "token" /\ m.used = stream[r].used + stream[r].amount
        /\ m.tokUsed = stream[r].tokUsed + 0 /\ m.amount = stream[r].amount
    <3>1. /\ stream[r] \in Stream /\ stream[r].used + stream[r].amount \in Nat
          /\ stream[r].tokUsed + stream[r].amount \in Nat /\ 0 \in Nat
          /\ stream[r].used + 0 = stream[r].used /\ stream[r].tokUsed + 0 = stream[r].tokUsed
      BY <1>t, <1>b DEF TypeOK
    <3> QED
      BY <2>1, <3>1 DEF Stream
  <2>3. stream' = [stream EXCEPT ![r] = m]
    BY <1>t, <1>2, <2>1 DEF TypeOK
  <2>4. /\ Money(r, Fund(r, stream[r].amount), Share(r, 0)) /\ faults' = faults /\ 0 \in Nat
    BY <1>t, <1>b, <1>1, <1>2, MoneyFunding DEF Share
  <2>5. faults' = 0 => m.used = m.tokUsed + (IF m.stage = "token" THEN m.amount ELSE 0)
    BY <1>b, <2>2, <2>4
  <2> QED
    BY <1>t, <1>b, <1>1, <2>2, <2>3, <2>4, <2>5, StreamStep
<1>3. CASE /\ FundingFails(r)
           /\ stream' = [stream EXCEPT ![r].stage = "none", ![r].amount = 0]
  <2>1. PICK m : m = [stream[r] EXCEPT !.stage = "none", !.amount = 0]
    OBVIOUS
  <2>2. /\ m \in Stream /\ m.used = stream[r].used + 0
        /\ m.tokUsed = stream[r].tokUsed + 0 /\ 0 \in Nat
    <3>1. /\ stream[r] \in Stream /\ stream[r].used + stream[r].amount \in Nat
          /\ stream[r].tokUsed + stream[r].amount \in Nat /\ 0 \in Nat
          /\ stream[r].used + 0 = stream[r].used /\ stream[r].tokUsed + 0 = stream[r].tokUsed
      BY <1>t, <1>b DEF TypeOK
    <3> QED
      BY <2>1, <3>1 DEF Stream
  <2>3. stream' = [stream EXCEPT ![r] = m]
    BY <1>t, <1>3, <2>1 DEF TypeOK
  <2>4. FaultsGrow /\ faults' # 0 /\ FundingStays
    BY <1>t, <1>3, SomeFault DEF FundingFails, FundingStays
  <2>5. Money(r, Fund(r, 0), Share(r, 0))
    BY <1>t, <1>1, <2>4, MoneyStays DEF Fund, Share
  <2> QED
    BY <1>t, <1>1, <2>2, <2>3, <2>4, <2>5, StreamStep
<1> QED
  BY <1>2, <1>3 DEF UsageFunding

LEMMA UsageTokenStep ==
    ASSUME Inv, NEW r \in Requests, UsageToken(r)
    PROVE  Inv'
<1>t. TypeOK /\ RequestOK(r) /\ stream[r].stage = "token" /\ ~Silent(r)
  BY DEF Inv, UsageToken, Silent
<1>1. FundingStays /\ UNCHANGED <<req, session, route, refunds>>
  BY DEF UsageToken
<1>b. /\ stream[r].used \in Nat /\ stream[r].tokUsed \in Nat /\ stream[r].amount \in Nat
      /\ faults = 0 => stream[r].used = stream[r].tokUsed + stream[r].amount
  BY <1>t DEF TypeOK, Stream, RequestOK, Streams, Due
<1>2. CASE /\ IF r \in Playground THEN TokenStays /\ UNCHANGED faults
              ELSE TakeToken(r, stream[r].amount)
           /\ stream' = [stream EXCEPT ![r].stage = "none", ![r].amount = 0,
                                       ![r].tokUsed = @ + stream[r].amount]
  <2>1. PICK m : m = [stream[r] EXCEPT !.stage = "none", !.amount = 0,
                                       !.tokUsed = @ + stream[r].amount]
    OBVIOUS
  <2>2. /\ m \in Stream /\ m.stage = "none" /\ m.used = stream[r].used + 0
        /\ m.tokUsed = stream[r].tokUsed + stream[r].amount /\ 0 \in Nat
    <3>1. /\ stream[r] \in Stream /\ stream[r].used + stream[r].amount \in Nat
          /\ stream[r].tokUsed + stream[r].amount \in Nat /\ 0 \in Nat
          /\ stream[r].used + 0 = stream[r].used /\ stream[r].tokUsed + 0 = stream[r].tokUsed
      BY <1>t, <1>b DEF TypeOK
    <3> QED
      BY <2>1, <3>1 DEF Stream
  <2>3. stream' = [stream EXCEPT ![r] = m]
    BY <1>t, <1>2, <2>1 DEF TypeOK
  <2>4. Money(r, 0, Share(r, stream[r].amount)) /\ faults' = faults
    <3>1. CASE r \in Playground
      BY <1>t, <1>1, <1>2, <3>1, NoFault, MoneyStays DEF Share
    <3>2. CASE r \notin Playground
      BY <1>t, <1>b, <1>1, <1>2, <3>2, MoneyToken DEF Share
    <3> QED
      BY <3>1, <3>2
  <2>5. Fund(r, 0) = 0
    BY DEF Fund
  <2>6. faults' = 0 => m.used = m.tokUsed + (IF m.stage = "token" THEN m.amount ELSE 0)
    BY <1>b, <2>2, <2>4
  <2> QED
    BY <1>t, <1>b, <1>1, <2>2, <2>3, <2>4, <2>5, <2>6, StreamStep
<1>3. CASE /\ TokenFails
           /\ stream' = [stream EXCEPT ![r].stage = "none", ![r].amount = 0]
  <2>1. PICK m : m = [stream[r] EXCEPT !.stage = "none", !.amount = 0]
    OBVIOUS
  <2>2. /\ m \in Stream /\ m.used = stream[r].used + 0
        /\ m.tokUsed = stream[r].tokUsed + 0 /\ 0 \in Nat
    <3>1. /\ stream[r] \in Stream /\ stream[r].used + stream[r].amount \in Nat
          /\ stream[r].tokUsed + stream[r].amount \in Nat /\ 0 \in Nat
          /\ stream[r].used + 0 = stream[r].used /\ stream[r].tokUsed + 0 = stream[r].tokUsed
      BY <1>t, <1>b DEF TypeOK
    <3> QED
      BY <2>1, <3>1 DEF Stream
  <2>3. stream' = [stream EXCEPT ![r] = m]
    BY <1>t, <1>3, <2>1 DEF TypeOK
  <2>4. FaultsGrow /\ faults' # 0 /\ TokenStays
    BY <1>t, <1>3, SomeFault DEF TokenFails, TokenStays
  <2>5. Money(r, Fund(r, 0), Share(r, 0))
    BY <1>t, <1>1, <2>4, MoneyStays DEF Fund, Share
  <2> QED
    BY <1>t, <1>1, <2>2, <2>3, <2>4, <2>5, StreamStep
<1> QED
  BY <1>2, <1>3 DEF UsageToken

LEMMA EndStreamStep ==
    ASSUME Inv, NEW r \in Requests, NEW actual \in Actuals, EndStream(r, actual)
    PROVE  Inv'
<1>t. TypeOK /\ RequestOK(r) /\ req[r].pc = "stream" /\ actual \in Nat
  BY RelayAssumption DEF Inv, EndStream
<1>1. UNCHANGED <<wallet, token, paid, tokPaid, session, route, stream, refunds, faults>>
  BY DEF EndStream, billing
<1>2. PICK q : q = [req[r] EXCEPT !.pc = "settle", !.owed = actual]
  OBVIOUS
<1>3. q \in Request /\ q.pc = "settle" /\ q.owed = actual
  BY <1>t, <1>2 DEF TypeOK, Request, Pcs
<1>4. req' = [req EXCEPT ![r] = q]
  BY <1>t, <1>2 DEF EndStream, TypeOK
<1>5. /\ req' \in [Requests -> Request] /\ req'[r] = q
      /\ \A d \in Requests : d # r => req'[d] = req[d]
  BY <1>t, <1>3, <1>4, ReqAt
<1>6. Money(r, 0, 0)
  BY <1>t, <1>1, NoFault, MoneyStays DEF FundingStays, TokenStays
<1>7. RequestOK(r)'
  BY <1>t, <1>1, <1>3, <1>5
     DEF RequestOK, Quiet, NoRecord, Reserved, TokenReserved, Covers, Ends, Routed, Taken, Silence, Streams,
         Before, Serving, Ended, Silent, Due, Fund, Now, Share, TokenOwed, Money, TypeOK
<1> QED
  BY <1>t, <1>1, <1>5, <1>6, <1>7, ReqStep DEF TypeOK

-----------------------------------------------------------------------------
(* Settlement.                                                             *)

LEMMA SettleFundingStep ==
    ASSUME Inv, NEW r \in Requests, SettleFunding(r)
    PROVE  Inv'
<1>t. TypeOK /\ RequestOK(r) /\ req[r].pc = "settle"
  BY DEF Inv, SettleFunding
<1>1. TokenStays /\ UNCHANGED <<route, stream, refunds>>
  BY DEF SettleFunding
<1>b. /\ req[r].owed \in Nat /\ session[r].pre \in Nat
      /\ stream[r].used \in Nat /\ stream[r].tokUsed \in Nat
      /\ paid[r] = Fund(r, session[r].pre + stream[r].used)
      /\ session[r].tok = session[r].pre
      /\ tokPaid[r] = Share(r, session[r].pre + stream[r].tokUsed)
      /\ ~session[r].open => session[r].pre = 0
      /\ NoRecord(r) /\ paid[r] \in Int /\ tokPaid[r] \in Int
  BY <1>t DEF TypeOK, Request, Session, Stream, RequestOK, Quiet, Reserved, TokenReserved, Serving, Fund
<1>2. CASE /\ Delta(r) = 0
           /\ session' = IF session[r].open
                         THEN [session EXCEPT ![r].settled = TRUE] ELSE session
           /\ GoTo(r, "over") /\ FundingStays /\ UNCHANGED faults
  <2>1. /\ req' \in [Requests -> Request]
        /\ Now(r, "over", req[r].want, req[r].back, req[r].owed)
        /\ \A d \in Requests : d # r => req'[d] = req[d]
    BY <1>t, <1>2, GoToAt DEF Pcs
  <2>2. /\ session' \in [Requests -> Session]
        /\ \A d \in Requests : d # r => session'[d] = session[d]
    <3>1. PICK s : s = [session[r] EXCEPT !.settled = TRUE]
      OBVIOUS
    <3>2. s \in Session
      BY <1>t, <3>1 DEF TypeOK, Session
    <3>3. CASE session[r].open
      <4>1. session' = [session EXCEPT ![r] = s]
        BY <1>t, <1>2, <3>1, <3>3 DEF TypeOK
      <4> QED
        BY <1>t, <3>2, <4>1, SessionAt
    <3>4. CASE ~session[r].open
      BY <1>t, <1>2, <3>4 DEF TypeOK
    <3> QED
      BY <3>3, <3>4
  <2>3. Money(r, 0, 0) /\ faults' = faults
    BY <1>t, <1>1, <1>2, NoFault, MoneyStays
  <2>4. req[r].owed = session[r].pre
    BY <1>b, <1>2 DEF Delta
  <2>5. RequestOK(r)'
    BY <1>t, <1>1, <1>b, <2>1, <2>3, <2>4
       DEF RequestOK, Quiet, NoRecord, Reserved, TokenReserved, Covers, Ends, Routed, Taken, Silence, Streams,
           Before, Serving, Ended, Silent, Due, Fund, Now, Share, TokenOwed, Money, TypeOK
  <2> QED
    BY <1>1, <2>1, <2>2, <2>3, <2>5, ReqStep
<1>3. CASE /\ TakeFunding(r, Delta(r))
           /\ session' = IF session[r].open
                         THEN [session EXCEPT ![r].fundingSettled = TRUE] ELSE session
           /\ GoTo(r, "settleToken")
  <2>1. /\ req' \in [Requests -> Request]
        /\ Now(r, "settleToken", req[r].want, req[r].back, req[r].owed)
        /\ \A d \in Requests : d # r => req'[d] = req[d]
    BY <1>t, <1>3, GoToAt DEF Pcs
  <2>5. /\ session' \in [Requests -> Session] /\ session'[r].pre = session[r].pre
        /\ session'[r].open = session[r].open
        /\ \A d \in Requests : d # r => session'[d] = session[d]
    <3>1. PICK s : s = [session[r] EXCEPT !.fundingSettled = TRUE]
      OBVIOUS
    <3>2. s \in Session /\ s.pre = session[r].pre /\ s.open = session[r].open
      BY <1>t, <3>1 DEF TypeOK, Session
    <3>3. CASE session[r].open
      <4>1. session' = [session EXCEPT ![r] = s]
        BY <1>t, <1>3, <3>1, <3>3 DEF TypeOK
      <4> QED
        BY <1>t, <3>2, <4>1, SessionAt
    <3>4. CASE ~session[r].open
      BY <1>t, <1>3, <3>4 DEF TypeOK
    <3> QED
      BY <3>3, <3>4
  <2>6. Delta(r) \in Int /\ session[r].pre + Delta(r) = req[r].owed
    BY <1>b DEF Delta
  <2>7. Money(r, Fund(r, Delta(r)), 0) /\ faults' = faults
    BY <1>t, <1>1, <1>3, <2>6, MoneyFunding
  <2>8. /\ paid'[r] = Fund(r, req[r].owed + stream[r].used)
        /\ tokPaid'[r] = Share(r, session[r].pre + stream[r].tokUsed)
    BY <1>b, <2>6, <2>7 DEF Money, Fund, Share
  <2>9. RequestOK(r)'
    BY <1>t, <1>1, <1>b, <2>1, <2>5, <2>7, <2>8
       DEF RequestOK, Quiet, NoRecord, Reserved, TokenReserved, Covers, Ends, Routed, Taken, Silence, Streams,
           Before, Serving, Ended, Silent, Due, Fund, Now, Share, TokenOwed, Money, TypeOK
  <2> QED
    BY <1>1, <2>1, <2>5, <2>7, <2>9, ReqStep
<1>4. CASE FundingFails(r) /\ GoTo(r, "over") /\ UNCHANGED session
  <2>1. /\ req' \in [Requests -> Request]
        /\ Now(r, "over", req[r].want, req[r].back, req[r].owed)
        /\ \A d \in Requests : d # r => req'[d] = req[d]
    BY <1>t, <1>4, GoToAt DEF Pcs
  <2>2. FaultsGrow /\ faults' # 0 /\ FundingStays
    BY <1>t, <1>4, SomeFault DEF FundingFails, FundingStays
  <2>3. Money(r, 0, 0)
    BY <1>t, <1>1, <2>2, MoneyStays
  <2>4. RequestOK(r)'
    BY <1>t, <1>1, <1>b, <1>4, <2>1, <2>2, <2>3
       DEF RequestOK, Quiet, NoRecord, Reserved, TokenReserved, Covers, Ends, Routed, Taken, Silence, Streams,
           Before, Serving, Ended, Silent, Due, Fund, Now, Share, TokenOwed, Money, TypeOK
  <2> QED
    BY <1>t, <1>1, <1>4, <2>1, <2>3, <2>4, ReqStep DEF TypeOK
<1> QED
  BY <1>2, <1>3, <1>4 DEF SettleFunding

LEMMA SettleTokenStep ==
    ASSUME Inv, NEW r \in Requests, SettleToken(r)
    PROVE  Inv'
<1>t. TypeOK /\ RequestOK(r) /\ req[r].pc = "settleToken"
  BY DEF Inv, SettleToken
<1>1. /\ FundingStays /\ UNCHANGED <<route, stream, refunds>> /\ GoTo(r, "over")
      /\ session' = IF session[r].open
                    THEN [session EXCEPT ![r].settled = TRUE] ELSE session
  BY DEF SettleToken
<1>b. /\ req[r].owed \in Nat /\ session[r].pre \in Nat
      /\ stream[r].used \in Nat /\ stream[r].tokUsed \in Nat
      /\ paid[r] = Fund(r, req[r].owed + stream[r].used)
      /\ tokPaid[r] = Share(r, session[r].pre + stream[r].tokUsed) /\ NoRecord(r)
  BY <1>t DEF TypeOK, Request, Session, Stream, RequestOK, Ends
<1>2. /\ req' \in [Requests -> Request]
      /\ Now(r, "over", req[r].want, req[r].back, req[r].owed)
      /\ \A d \in Requests : d # r => req'[d] = req[d]
  BY <1>t, <1>1, GoToAt DEF Pcs
<1>3. /\ session' \in [Requests -> Session]
      /\ \A d \in Requests : d # r => session'[d] = session[d]
  <2>1. PICK s : s = [session[r] EXCEPT !.settled = TRUE]
    OBVIOUS
  <2>2. s \in Session
    BY <1>t, <2>1 DEF TypeOK, Session
  <2>3. CASE session[r].open
    <3>1. session' = [session EXCEPT ![r] = s]
      BY <1>t, <1>1, <2>1, <2>3 DEF TypeOK
    <3> QED
      BY <1>t, <2>2, <3>1, SessionAt
  <2>4. CASE ~session[r].open
    BY <1>t, <1>1, <2>4 DEF TypeOK
  <2> QED
    BY <2>3, <2>4
<1>4. CASE r \in Playground /\ TokenStays /\ UNCHANGED faults
  <2>1. Money(r, 0, 0) /\ faults' = faults
    BY <1>t, <1>1, <1>4, NoFault, MoneyStays
  <2>2. RequestOK(r)'
    BY <1>t, <1>1, <1>b, <1>2, <1>4, <2>1
       DEF RequestOK, Quiet, NoRecord, Reserved, TokenReserved, Covers, Ends, Routed, Taken, Silence, Streams,
           Before, Serving, Ended, Silent, Due, Fund, Now, Share, TokenOwed, Money, TypeOK
  <2> QED
    BY <1>1, <1>2, <1>3, <2>1, <2>2, ReqStep
<1>5. CASE r \notin Playground /\ TakeToken(r, Delta(r))
  <2>1. Delta(r) \in Int /\ session[r].pre + Delta(r) = req[r].owed
    BY <1>b DEF Delta
  <2>2. Money(r, 0, Delta(r)) /\ faults' = faults
    BY <1>t, <1>1, <1>5, <2>1, MoneyToken
  <2>3. /\ tokPaid'[r] = req[r].owed + stream[r].tokUsed
        /\ paid'[r] = Fund(r, req[r].owed + stream[r].used)
    BY <1>b, <1>5, <2>1, <2>2 DEF Money, Share, Fund
  <2>4. RequestOK(r)'
    BY <1>t, <1>1, <1>b, <1>2, <1>5, <2>2, <2>3
       DEF RequestOK, Quiet, NoRecord, Reserved, TokenReserved, Covers, Ends, Routed, Taken, Silence, Streams,
           Before, Serving, Ended, Silent, Due, Fund, Now, Share, TokenOwed, Money, TypeOK
  <2> QED
    BY <1>1, <1>2, <1>3, <2>2, <2>4, ReqStep
<1>6. CASE TokenFails
  <2>1. FaultsGrow /\ faults' # 0 /\ TokenStays
    BY <1>t, <1>6, SomeFault DEF TokenFails, TokenStays
  <2>2. Money(r, 0, 0)
    BY <1>t, <1>1, <2>1, MoneyStays
  <2>3. RequestOK(r)'
    BY <1>t, <1>1, <1>b, <1>2, <2>1, <2>2
       DEF RequestOK, Quiet, NoRecord, Reserved, TokenReserved, Covers, Ends, Routed, Taken, Silence, Streams,
           Before, Serving, Ended, Silent, Due, Fund, Now, Share, TokenOwed, Money, TypeOK
  <2> QED
    BY <1>1, <1>2, <1>3, <2>2, <2>3, ReqStep
<1> QED
  BY <1>4, <1>5, <1>6 DEF SettleToken
-----------------------------------------------------------------------------
(* Failure, fee and refund.                                                *)

\* A step of r that touches no goroutine of another request.
LEMMA RefundStep ==
    ASSUME Inv, NEW r \in Requests, TypeOK', Apart(r), FaultsGrow,
           \A g : g.r # r => (g \in refunds' <=> g \in refunds), RequestOK(r)'
    PROVE  Inv'
<1>1. ASSUME NEW d \in Requests, d # r
      PROVE  RequestOK(d)'
  <2>1. \A g : g.r = d => (g \in refunds' <=> g \in refunds)
    BY <1>1
  <2> QED
    BY <1>1, <2>1, Unmoved DEF Inv, Apart, FaultsGrow
<1> QED
  BY <1>1 DEF Inv

LEMMA FailStep ==
    ASSUME Inv, NEW r \in Requests, Fail(r)
    PROVE  Inv'
<1>t. TypeOK /\ RequestOK(r) /\ req[r].pc = "failed"
  BY DEF Inv, Fail
<1>1. UNCHANGED <<wallet, token, paid, tokPaid, route, stream, faults>> /\ FaultsGrow
  BY <1>t, NoFault DEF Fail, billing
<1>b. /\ session[r] \in Session /\ paid[r] = session[r].consumed /\ NoRecord(r)
      /\ Silent(r) /\ stream'[r] = stream[r]
      /\ tokPaid[r] >= Share(r, session[r].tok)
      /\ req[r].owed = 0 /\ session[r].tok = session[r].pre
      /\ faults = 0 => /\ session[r].consumed = Fund(r, session[r].pre)
                       /\ tokPaid[r] = Share(r, session[r].tok)
  <2>1. Silent(r) /\ req[r].pc \in Before
    BY <1>t DEF RequestOK, Silence, Before
  <2>2. session[r] \in Session /\ session[r].consumed \in Nat
    BY <1>t DEF TypeOK, Session
  <2>3. paid[r] = session[r].consumed
    BY <1>t, <2>1, <2>2 DEF RequestOK, Quiet, Silent, Fund
  <2> QED
    BY <1>t, <1>1, <2>1, <2>2, <2>3 DEF RequestOK, Quiet, Reserved, TokenReserved
<1>n. /\ session[r].consumed \in Nat /\ session[r].tok \in Nat /\ session[r].pre \in Nat
      /\ Share(r, session[r].tok) \in Nat
  BY <1>b DEF Session, Share
<1>2. PICK pc \in {"fee", "over"} : GoTo(r, pc)
  BY DEF Fail
<1>3. /\ req' \in [Requests -> Request] /\ Now(r, pc, req[r].want, req[r].back, req[r].owed)
      /\ \A d \in Requests : d # r => req'[d] = req[d]
  BY <1>t, <1>2, GoToAt DEF Pcs
<1>4. CASE NeedsRefund(r)
  <2>1. PICK s : s = [session[r] EXCEPT !.refunded = TRUE]
    OBVIOUS
  <2>2. s \in Session
    BY <1>b, <2>1 DEF Session
  <2>3. session' = [session EXCEPT ![r] = s]
    BY <1>t, <1>4, <2>1 DEF Fail, TypeOK
  <2>4. /\ session' \in [Requests -> Session]
        /\ \A d \in Requests : d # r => session'[d] = session[d]
    BY <1>t, <2>2, <2>3, SessionAt
  <2>5. PICK g : g = [r |-> r, consumed |-> session[r].consumed,
                      tok |-> IF r \in Playground THEN 0 ELSE session[r].tok]
    OBVIOUS
  <2>6. /\ g.r = r /\ g.consumed = session[r].consumed /\ g.tok = Share(r, session[r].tok)
        /\ g \in [r : Requests, consumed : Nat, tok : Nat]
    BY <1>n, <2>5 DEF Share
  <2>7. refunds' = refunds \cup {g}
    BY <1>4, <2>5 DEF Fail
  <2>8. \A h : h \in refunds' /\ h.r = r <=> h = g
    BY <1>b, <2>6, <2>7 DEF NoRecord
  <2>9. \A h : h.r # r => (h \in refunds' <=> h \in refunds)
    BY <2>6, <2>7
  <2>10. TypeOK' /\ Apart(r)
    BY <1>t, <1>1, <1>3, <2>4, <2>6, <2>7 DEF TypeOK, Apart
  <2>11. RequestOK(r)'
    <3>1. ~NoRecord(r)'
      BY <2>6, <2>7 DEF NoRecord
    <3>2. Ends(r)'
      BY <1>t, <1>1, <1>b, <1>n, <1>3, <2>6, <2>8, <3>1
         DEF Ends, Ended, Now, TokenOwed, Share, Fund, TypeOK, Before
    <3>3. Quiet(r)' /\ Reserved(r)' /\ TokenReserved(r)' /\ Covers(r)' /\ Routed(r)'
      BY <1>3 DEF Quiet, Reserved, TokenReserved, Covers, Routed, Now, Before, Serving
    <3>5. Silence(r)' /\ Streams(r)'
      BY <1>b DEF Silence, Silent, Streams, Due
    <3>4. Taken(r)'
      BY <1>t, <1>1 DEF RequestOK, Taken
    <3> QED
      BY <3>2, <3>3, <3>4, <3>5 DEF RequestOK
  <2> QED
    BY <1>1, <2>9, <2>10, <2>11, RefundStep
<1>5. CASE ~NeedsRefund(r)
  <2>1. UNCHANGED <<session, refunds>>
    BY <1>5 DEF Fail
  <2>2. session[r].tok = 0
    <3>1. CASE session[r].open
      BY <1>t, <1>n, <1>5, <3>1 DEF NeedsRefund, RequestOK, Quiet, Before
    <3>2. CASE ~session[r].open
      BY <1>t, <3>2 DEF RequestOK, Quiet, Before
    <3> QED
      BY <3>1, <3>2
  <2>3. Money(r, 0, 0)
    BY <1>t, <1>1, MoneyStays DEF FundingStays, TokenStays
  <2>4. RequestOK(r)'
    BY <1>t, <1>1, <1>b, <1>2, <1>3, <2>1, <2>2
       DEF RequestOK, Quiet, NoRecord, Reserved, TokenReserved, Covers, Ends, Routed, Taken, Silence, Streams,
           Before, Serving, Ended, Silent, Due, Fund, Now, Share, TokenOwed, Money, TypeOK
  <2> QED
    BY <1>t, <1>1, <1>3, <2>1, <2>3, <2>4, ReqStep DEF TypeOK
<1> QED
  BY <1>4, <1>5

LEMMA ChargeFeeStep ==
    ASSUME Inv, NEW r \in Requests, ChargeFee(r)
    PROVE  Inv'
<1>t. TypeOK /\ RequestOK(r) /\ req[r].pc = "fee" /\ Fee \in Nat
  BY RelayAssumption DEF Inv, ChargeFee
<1>1. TokenStays /\ UNCHANGED <<session, route, stream, refunds>>
  BY DEF ChargeFee
<1>b. /\ paid[r] \in Int /\ tokPaid[r] \in Int /\ paid[r] >= 0
      /\ req[r].owed = 0 /\ Silent(r)
      /\ \A g \in refunds : g.consumed \in Nat /\ g.tok \in Nat
  BY <1>t DEF TypeOK, RequestOK, Taken, Ends, Ended, Silence
<1>2. CASE /\ TakeFunding(r, Fee)
           /\ req' = [req EXCEPT ![r].pc = "feeToken", ![r].owed = Fee]
  <2>1. PICK q : q = [req[r] EXCEPT !.pc = "feeToken", !.owed = Fee]
    OBVIOUS
  <2>2. q \in Request /\ q.pc = "feeToken" /\ q.owed = Fee
    BY <1>t, <2>1 DEF TypeOK, Request, Pcs
  <2>3. req' = [req EXCEPT ![r] = q]
    BY <1>t, <1>2, <2>1 DEF TypeOK
  <2>4. /\ req' \in [Requests -> Request] /\ req'[r] = q
        /\ \A d \in Requests : d # r => req'[d] = req[d]
    BY <1>t, <2>2, <2>3, ReqAt
  <2>5. Money(r, Fund(r, Fee), 0) /\ faults' = faults
    BY <1>t, <1>1, <1>2, MoneyFunding
  <2>6. RequestOK(r)'
    BY <1>t, <1>1, <1>b, <2>2, <2>4, <2>5
       DEF RequestOK, Quiet, NoRecord, Reserved, TokenReserved, Covers, Ends, Routed, Taken, Silence, Streams,
           Before, Serving, Ended, Silent, Due, Fund, Now, Share, TokenOwed, Money, TypeOK
  <2> QED
    BY <1>t, <1>1, <2>4, <2>5, <2>6, ReqStep DEF TypeOK
<1>3. CASE FundingFails(r) /\ GoTo(r, "over")
  <2>1. /\ req' \in [Requests -> Request]
        /\ Now(r, "over", req[r].want, req[r].back, req[r].owed)
        /\ \A d \in Requests : d # r => req'[d] = req[d]
    BY <1>t, <1>3, GoToAt DEF Pcs
  <2>2. FaultsGrow /\ faults' # 0 /\ FundingStays
    BY <1>t, <1>3, SomeFault DEF FundingFails, FundingStays
  <2>3. Money(r, 0, 0)
    BY <1>t, <1>1, <2>2, MoneyStays
  <2>4. RequestOK(r)'
    BY <1>t, <1>1, <1>b, <2>1, <2>2, <2>3
       DEF RequestOK, Quiet, NoRecord, Reserved, TokenReserved, Covers, Ends, Routed, Taken, Silence, Streams,
           Before, Serving, Ended, Silent, Due, Fund, Now, Share, TokenOwed, Money, TypeOK
  <2> QED
    BY <1>t, <1>1, <2>1, <2>3, <2>4, ReqStep DEF TypeOK
<1> QED
  BY <1>2, <1>3 DEF ChargeFee

LEMMA ChargeFeeTokenStep ==
    ASSUME Inv, NEW r \in Requests, ChargeFeeToken(r)
    PROVE  Inv'
<1>t. TypeOK /\ RequestOK(r) /\ req[r].pc = "feeToken" /\ Fee \in Nat
  BY RelayAssumption DEF Inv, ChargeFeeToken
<1>1. FundingStays /\ UNCHANGED <<session, route, stream, refunds>> /\ GoTo(r, "over")
  BY DEF ChargeFeeToken
<1>b. /\ paid[r] \in Int /\ tokPaid[r] \in Int /\ tokPaid[r] >= 0
      /\ req[r].owed = Fee /\ Silent(r)
      /\ \A g \in refunds : g.consumed \in Nat /\ g.tok \in Nat
  BY <1>t DEF TypeOK, RequestOK, Taken, Ends, Ended, Silence
<1>2. /\ req' \in [Requests -> Request]
      /\ Now(r, "over", req[r].want, req[r].back, req[r].owed)
      /\ \A d \in Requests : d # r => req'[d] = req[d]
  BY <1>t, <1>1, GoToAt DEF Pcs
<1>3. CASE r \in Playground /\ TokenStays /\ UNCHANGED faults
  <2>1. Money(r, 0, 0) /\ faults' = faults
    BY <1>t, <1>1, <1>3, NoFault, MoneyStays
  <2>2. RequestOK(r)'
    BY <1>t, <1>1, <1>b, <1>2, <1>3, <2>1
       DEF RequestOK, Quiet, NoRecord, Reserved, TokenReserved, Covers, Ends, Routed, Taken, Silence, Streams,
           Before, Serving, Ended, Silent, Due, Fund, Now, Share, TokenOwed, Money, TypeOK
  <2> QED
    BY <1>t, <1>1, <1>2, <2>1, <2>2, ReqStep DEF TypeOK
<1>4. CASE r \notin Playground /\ TakeToken(r, Fee)
  <2>1. Money(r, 0, Fee) /\ faults' = faults
    BY <1>t, <1>1, <1>4, MoneyToken
  <2>2. RequestOK(r)'
    BY <1>t, <1>1, <1>b, <1>2, <1>4, <2>1
       DEF RequestOK, Quiet, NoRecord, Reserved, TokenReserved, Covers, Ends, Routed, Taken, Silence, Streams,
           Before, Serving, Ended, Silent, Due, Fund, Now, Share, TokenOwed, Money, TypeOK
  <2> QED
    BY <1>t, <1>1, <1>2, <2>1, <2>2, ReqStep DEF TypeOK
<1>5. CASE TokenFails
  <2>1. FaultsGrow /\ faults' # 0 /\ TokenStays
    BY <1>t, <1>5, SomeFault DEF TokenFails, TokenStays
  <2>2. Money(r, 0, 0)
    BY <1>t, <1>1, <2>1, MoneyStays
  <2>3. RequestOK(r)'
    BY <1>t, <1>1, <1>b, <1>2, <2>1, <2>2
       DEF RequestOK, Quiet, NoRecord, Reserved, TokenReserved, Covers, Ends, Routed, Taken, Silence, Streams,
           Before, Serving, Ended, Silent, Due, Fund, Now, Share, TokenOwed, Money, TypeOK
  <2> QED
    BY <1>t, <1>1, <1>2, <2>2, <2>3, ReqStep DEF TypeOK
<1> QED
  BY <1>3, <1>4, <1>5 DEF ChargeFeeToken

\* What is known of a goroutine and its request.
LEMMA RecordAt ==
    ASSUME Inv, NEW g \in refunds
    PROVE  /\ g \in [r : Requests, consumed : Nat, tok : Nat]
           /\ g.r \in Requests /\ g.consumed \in Nat /\ g.tok \in Nat
           /\ RequestOK(g.r) /\ req[g.r].pc \in Ended
           /\ \A h \in refunds : h.r = g.r => h = g
           /\ paid[g.r] \in Int /\ tokPaid[g.r] \in Int
           /\ paid[g.r] >= g.consumed /\ tokPaid[g.r] >= g.tok
           /\ req[g.r].owed \in Nat /\ TokenOwed(g.r) \in Nat
           /\ Fund(g.r, req[g.r].owed) \in Nat /\ Silent(g.r)
           /\ faults = 0 => /\ paid[g.r] = g.consumed + Fund(g.r, req[g.r].owed)
                            /\ tokPaid[g.r] = g.tok + TokenOwed(g.r)
<1>1. /\ g \in [r : Requests, consumed : Nat, tok : Nat]
      /\ g.r \in Requests /\ g.consumed \in Nat /\ g.tok \in Nat
  BY DEF Inv, TypeOK
<1>2. RequestOK(g.r) /\ ~NoRecord(g.r) /\ req[g.r] \in Request /\ req[g.r].pc \in Pcs
  BY <1>1 DEF Inv, NoRecord, TypeOK, Request
<1>3. req[g.r].pc \in Ended
  BY <1>2 DEF RequestOK, Quiet, Ends, Before, Serving, Ended, Pcs
<1>4. paid[g.r] \in Int /\ tokPaid[g.r] \in Int /\ req[g.r].owed \in Nat
  BY <1>1, <1>2 DEF Inv, TypeOK, Request
<1>5. TokenOwed(g.r) \in Nat /\ Fund(g.r, req[g.r].owed) \in Nat
  BY <1>4 DEF TokenOwed, Share, Fund
<1>6. Silent(g.r)
  BY <1>2 DEF RequestOK, Silence
<1> QED
  BY <1>1, <1>2, <1>3, <1>4, <1>5, <1>6 DEF RequestOK, Ends

\* The handler of an ended request stays where it is; the money is returned, or
\* a call has failed.
LEMMA EndedStays ==
    ASSUME Inv, NEW r \in Requests, req[r].pc \in Ended,
           NEW d, NEW t, Money(r, d, t), UNCHANGED <<req, session, route, stream>>,
           refunds' \subseteq [r : Requests, consumed : Nat, tok : Nat],
           \A g : g.r # r => (g \in refunds' <=> g \in refunds), Silent(r), Ends(r)', Taken(r)'
    PROVE  Inv'
<1>1. TypeOK' /\ Apart(r) /\ FaultsGrow
  BY DEF Inv, TypeOK, Money, FaultsGrow, Apart
<1>2. Quiet(r)' /\ Reserved(r)' /\ TokenReserved(r)' /\ Covers(r)' /\ Routed(r)'
  BY DEF Quiet, Reserved, TokenReserved, Covers, Routed, Before, Serving, Ended
<1>3. Silence(r)' /\ Streams(r)'
  BY DEF Silence, Silent, Streams, Due
<1> QED
  BY <1>1, <1>2, <1>3, RefundStep DEF RequestOK

LEMMA RefundFundingStep ==
    ASSUME Inv, NEW g \in refunds, RefundFunding(g)
    PROVE  Inv'
<1>t. TypeOK /\ TokenStays /\ UNCHANGED <<req, session, route, stream>>
  BY DEF Inv, RefundFunding
<1>r. /\ g \in [r : Requests, consumed : Nat, tok : Nat]
      /\ g.r \in Requests /\ g.consumed \in Nat /\ g.tok \in Nat
      /\ RequestOK(g.r) /\ req[g.r].pc \in Ended
      /\ \A h \in refunds : h.r = g.r => h = g
      /\ paid[g.r] \in Int /\ tokPaid[g.r] \in Int
      /\ paid[g.r] >= g.consumed /\ tokPaid[g.r] >= g.tok
      /\ req[g.r].owed \in Nat /\ TokenOwed(g.r) \in Nat
      /\ Fund(g.r, req[g.r].owed) \in Nat /\ Silent(g.r)
      /\ faults = 0 => /\ paid[g.r] = g.consumed + Fund(g.r, req[g.r].owed)
                       /\ tokPaid[g.r] = g.tok + TokenOwed(g.r)
  BY RecordAt
<1>1. PICK k : k = [g EXCEPT !.consumed = 0]
  OBVIOUS
<1>0. 0 \in Nat
  OBVIOUS
<1>2. /\ k \in [r : Requests, consumed : Nat, tok : Nat]
      /\ k.r = g.r /\ k.consumed = 0 /\ k.tok = g.tok
  BY <1>0, <1>r, <1>1
<1>3. refunds' = (refunds \ {g}) \cup {k}
  BY <1>1 DEF RefundFunding
<1>4. /\ refunds' \subseteq [r : Requests, consumed : Nat, tok : Nat]
      /\ \A h : h.r # g.r => (h \in refunds' <=> h \in refunds)
      /\ \A h : h \in refunds' /\ h.r = g.r <=> h = k
  BY <1>t, <1>r, <1>2, <1>3 DEF TypeOK
<1>5. ~NoRecord(g.r)' /\ TokenOwed(g.r)' = TokenOwed(g.r)
  BY <1>t, <1>2, <1>3 DEF NoRecord, TokenOwed
<1>u. g.r \in Unlimited => g.consumed = 0
  BY <1>r DEF RequestOK, Taken
<1>6. ASSUME NEW d, Money(g.r, d, 0), paid'[g.r] >= 0,
             g.r \in Unlimited => paid'[g.r] = 0,
             faults' = 0 => faults = 0 /\ paid'[g.r] = Fund(g.r, req[g.r].owed)
      PROVE  Inv'
  <2>1. tokPaid'[g.r] = tokPaid[g.r]
    BY <1>t DEF TokenStays
  <2>2. Taken(g.r)'
    BY <1>r, <1>6, <2>1 DEF Taken
  <2>3. \A h \in refunds' : h.r = g.r =>
           /\ paid'[g.r] >= h.consumed /\ tokPaid'[g.r] >= h.tok
           /\ faults' = 0 => /\ paid'[g.r] = h.consumed + Fund(g.r, req[g.r].owed)
                             /\ tokPaid'[g.r] = h.tok + TokenOwed(g.r)
    BY <1>r, <1>2, <1>4, <1>6, <2>1
  <2>4. Ends(g.r)'
    BY <1>t, <1>r, <1>4, <1>5, <2>3 DEF Ends, Ended, RequestOK
  <2> QED
    BY <1>t, <1>r, <1>4, <1>6, <2>2, <2>4, EndedStays
<1>7. CASE TakeFunding(g.r, -g.consumed)
  <2>1. -g.consumed \in Int
    BY <1>r
  <2>2. Money(g.r, Fund(g.r, -g.consumed), 0) /\ faults' = faults
    BY <1>t, <1>r, <1>7, <2>1, MoneyFunding
  <2>3. /\ paid'[g.r] = paid[g.r] - Fund(g.r, g.consumed) /\ paid'[g.r] >= 0
        /\ g.r \in Unlimited => paid'[g.r] = 0
        /\ faults' = 0 => paid'[g.r] = Fund(g.r, req[g.r].owed)
    BY <1>r, <1>u, <2>2 DEF Money, Fund, RequestOK, Taken
  <2> QED
    BY <1>r, <1>6, <2>2, <2>3
<1>8. CASE FundingFails(g.r)
  <2>1. FaultsGrow /\ faults' # 0 /\ FundingStays
    BY <1>t, <1>8, SomeFault DEF FundingFails, FundingStays
  <2>2. Money(g.r, 0, 0)
    BY <1>t, <1>r, <2>1, MoneyStays
  <2>3. paid'[g.r] >= 0 /\ (g.r \in Unlimited => paid'[g.r] = 0)
    BY <1>r, <2>1 DEF FundingStays, RequestOK, Taken
  <2> QED
    BY <1>6, <2>1, <2>2, <2>3
<1> QED
  BY <1>7, <1>8 DEF RefundFunding

LEMMA RefundTokenStep ==
    ASSUME Inv, NEW g \in refunds, RefundToken(g)
    PROVE  Inv'
<1>t. TypeOK /\ FundingStays /\ UNCHANGED <<req, session, route, stream>> /\ g.consumed = 0
  BY DEF Inv, RefundToken
<1>r. /\ g.r \in Requests /\ g.tok \in Nat
      /\ RequestOK(g.r) /\ req[g.r].pc \in Ended
      /\ \A h \in refunds : h.r = g.r => h = g
      /\ paid[g.r] \in Int /\ tokPaid[g.r] \in Int
      /\ paid[g.r] >= 0 /\ tokPaid[g.r] >= g.tok
      /\ req[g.r].owed \in Nat /\ TokenOwed(g.r) \in Nat
      /\ Fund(g.r, req[g.r].owed) \in Nat /\ Silent(g.r)
      /\ faults = 0 => /\ paid[g.r] = Fund(g.r, req[g.r].owed)
                       /\ tokPaid[g.r] = g.tok + TokenOwed(g.r)
  <2>1. \A n \in Nat : 0 + n = n
    OBVIOUS
  <2> QED
    BY <1>t, <2>1, RecordAt
<1>1. refunds' = refunds \ {g}
  BY DEF RefundToken
<1>2. /\ refunds' \subseteq [r : Requests, consumed : Nat, tok : Nat]
      /\ \A h : h.r # g.r => (h \in refunds' <=> h \in refunds)
      /\ \A h \in refunds' : h.r # g.r
  BY <1>t, <1>r, <1>1 DEF TypeOK
<1>3. TokenOwed(g.r)' = TokenOwed(g.r)
  BY <1>t DEF TokenOwed
<1>4. ASSUME NEW d, Money(g.r, 0, d), tokPaid'[g.r] >= 0,
             faults' = 0 => faults = 0 /\ tokPaid'[g.r] = TokenOwed(g.r)
      PROVE  Inv'
  <2>1. paid'[g.r] = paid[g.r]
    BY <1>t DEF FundingStays
  <2>2. Taken(g.r)'
    BY <1>r, <1>4, <2>1 DEF Taken, RequestOK
  <2>3. Ends(g.r)'
    <3>1. /\ req[g.r].owed + stream[g.r].used = req[g.r].owed
          /\ TokenOwed(g.r) + Share(g.r, stream[g.r].tokUsed) = TokenOwed(g.r)
      BY <1>r DEF Silent, Share
    <3> QED
      BY <1>t, <1>r, <1>2, <1>3, <1>4, <2>1, <3>1 DEF Ends, Ended, RequestOK, Share
  <2> QED
    BY <1>t, <1>r, <1>2, <1>4, <2>2, <2>3, EndedStays
<1>5. CASE g.tok = 0 /\ TokenStays /\ UNCHANGED faults
  <2>1. Money(g.r, 0, 0) /\ faults' = faults
    BY <1>t, <1>r, <1>5, NoFault, MoneyStays
  <2>2. tokPaid'[g.r] = tokPaid[g.r]
    BY <1>5 DEF TokenStays
  <2> QED
    BY <1>r, <1>4, <1>5, <2>1, <2>2
<1>6. CASE TakeToken(g.r, -g.tok)
  <2>1. -g.tok \in Int
    BY <1>r
  <2>2. Money(g.r, 0, -g.tok) /\ faults' = faults
    BY <1>t, <1>r, <1>6, <2>1, MoneyToken
  <2>3. tokPaid'[g.r] = tokPaid[g.r] - g.tok
    BY <1>r, <2>2 DEF Money
  <2> QED
    BY <1>r, <1>4, <2>2, <2>3
<1>7. CASE TokenFails
  <2>1. FaultsGrow /\ faults' # 0 /\ TokenStays
    BY <1>t, <1>7, SomeFault DEF TokenFails, TokenStays
  <2>2. Money(g.r, 0, 0)
    BY <1>t, <1>r, <2>1, MoneyStays
  <2>3. tokPaid'[g.r] >= 0
    BY <1>r, <2>1 DEF TokenStays
  <2> QED
    BY <1>4, <2>1, <2>2, <2>3
<1> QED
  BY <1>5, <1>6, <1>7 DEF RefundToken

\* No memory survives a crash: what was taken stays taken.
LEMMA CrashStep ==
    ASSUME Inv, Crash
    PROVE  Inv'
<1>t. TypeOK /\ \A r \in Requests : RequestOK(r)
  BY DEF Inv
<1>1. faults' \in 0..MaxFaults /\ faults' # 0
  BY <1>t, SomeFault DEF Crash, FaultsGrow
<1>2. UNCHANGED <<wallet, token, paid, tokPaid, route>> /\ refunds' = {}
  BY DEF Crash, billing
<1>0. 0 \in Nat /\ 0 \in Int /\ "idle" \in Pcs /\ "crashed" \in Pcs
  BY DEF Pcs
<1>3. PICK n : n = NoSession
  OBVIOUS
<1>4. /\ n \in Session /\ ~n.open /\ ~n.trusted /\ ~n.settled /\ ~n.refunded
      /\ ~n.fundingSettled /\ n.pre = 0 /\ n.tok = 0 /\ n.consumed = 0
  BY <1>0, <1>3 DEF NoSession, Session
<1>5. session' = [r \in Requests |-> n]
  BY <1>3 DEF Crash
<1>6. PICK f : f = Fresh
  OBVIOUS
<1>7. PICK x : x = [Fresh EXCEPT !.pc = "crashed"]
  OBVIOUS
<1>8. f \in Request /\ f.pc = "idle" /\ f.owed = 0 /\ x \in Request /\ x.pc = "crashed"
  BY <1>0, <1>6, <1>7 DEF Fresh, Request
<1>9. req' = [r \in Requests |-> IF req[r].pc = "idle" THEN f ELSE x]
  BY <1>6, <1>7 DEF Crash
<1>s. PICK m : m = NoStream
  OBVIOUS
<1>m. /\ m \in Stream /\ m.left = 0 /\ m.stage = "none" /\ m.used = 0 /\ m.tokUsed = 0
      /\ stream' = [r \in Requests |-> m]
  BY <1>0, <1>s, RelayAssumption DEF Stream, NoStream, Crash
<1>10. TypeOK'
  <2>1. /\ req' \in [Requests -> Request] /\ session' \in [Requests -> Session]
        /\ stream' \in [Requests -> Stream]
    BY <1>4, <1>5, <1>8, <1>9, <1>m
  <2> QED
    BY <1>t, <1>1, <1>2, <2>1 DEF TypeOK
<1>11. ASSUME NEW r \in Requests
       PROVE  RequestOK(r)'
  <2>1. /\ session'[r] = n /\ req'[r] = (IF req[r].pc = "idle" THEN f ELSE x)
        /\ stream'[r] = m
    BY <1>5, <1>9, <1>m
  <2>2. NoRecord(r)' /\ Taken(r)'
    BY <1>t, <1>2 DEF NoRecord, RequestOK, Taken
  <2>3. CASE req[r].pc = "idle"
    <3>0. Silent(r) /\ session[r] \in Session
      BY <1>t, <2>3 DEF RequestOK, Silence, Before, TypeOK
    <3>1. paid'[r] = 0 /\ tokPaid'[r] = 0
      BY <1>t, <1>2, <2>3, <3>0
         DEF RequestOK, Quiet, TokenReserved, Before, Share, Fund, Silent, Session
    <3> QED
      BY <1>t, <1>1, <1>2, <1>4, <1>8, <1>m, <2>1, <2>2, <2>3, <3>1
         DEF RequestOK, Quiet, NoRecord, Reserved, TokenReserved, Covers, Ends, Routed, Taken, Silence, Streams,
         Before, Serving, Ended, Silent, Due, Fund, Now, Share, TokenOwed, Money, TypeOK
  <2>4. CASE req[r].pc # "idle"
    BY <1>1, <1>2, <1>8, <1>m, <2>1, <2>2, <2>4
       DEF RequestOK, Quiet, NoRecord, Reserved, TokenReserved, Covers, Ends, Routed, Taken, Silence, Streams,
           Before, Serving, Ended, Silent, Due, Fund, Now, Share, TokenOwed, Money, TypeOK
  <2> QED
    BY <2>3, <2>4
<1> QED
  BY <1>10, <1>11 DEF Inv

-----------------------------------------------------------------------------
(* The theorems.                                                           *)

LEMMA InvInit == Init => Inv
<1> SUFFICES ASSUME Init
             PROVE  Inv
  OBVIOUS
<1>0. /\ 0 \in Nat /\ 0 \in Int /\ "idle" \in Pcs /\ Wallet \in Nat
      /\ MaxFaults \in Nat /\ MaxAttempts \in Nat /\ MaxAttempts > 0
  BY RelayAssumption DEF Pcs
<1>1. PICK n : n = NoSession
  OBVIOUS
<1>2. PICK f : f = Fresh
  OBVIOUS
<1>3. PICK x : x = FreshRoute
  OBVIOUS
<1>4. /\ n \in Session /\ ~n.open /\ ~n.trusted /\ ~n.settled /\ ~n.refunded
      /\ ~n.fundingSettled /\ n.pre = 0 /\ n.tok = 0 /\ n.consumed = 0
  BY <1>0, <1>1 DEF NoSession, Session
<1>5. f \in Request /\ f.pc = "idle" /\ f.owed = 0
  BY <1>0, <1>2 DEF Fresh, Request
<1>6. /\ x \in Route /\ \A c \in Channels : x.tries[c] < MaxAttempts
  <2>1. [c \in Channels |-> 0] \in [Channels -> 0..MaxAttempts]
    BY <1>0
  <2> QED
    BY <1>0, <1>3, <2>1 DEF FreshRoute, Route
<1>s. PICK m : m = NoStream
  OBVIOUS
<1>m. /\ m \in Stream /\ m.left = 0 /\ m.stage = "none" /\ m.used = 0 /\ m.tokUsed = 0
      /\ stream = [r \in Requests |-> m]
  BY <1>0, <1>s, RelayAssumption DEF Stream, NoStream, Init
<1>7. /\ req = [r \in Requests |-> f] /\ session = [r \in Requests |-> n]
      /\ route = [r \in Requests |-> x] /\ refunds = {} /\ faults = 0
      /\ paid = [r \in Requests |-> 0] /\ tokPaid = [r \in Requests |-> 0]
  BY <1>1, <1>2, <1>3 DEF Init
<1>8. wallet \in Int /\ token \in Int
  BY <1>0, RelayAssumption DEF Init
<1>9. TypeOK
  BY <1>0, <1>4, <1>5, <1>6, <1>7, <1>8, <1>m DEF TypeOK
<1>10. ASSUME NEW r \in Requests
       PROVE  RequestOK(r)
  <2>1. /\ req[r] = f /\ session[r] = n /\ route[r] = x /\ paid[r] = 0 /\ tokPaid[r] = 0
        /\ stream[r] = m
    BY <1>7, <1>m
  <2> QED
    BY <1>4, <1>5, <1>6, <1>7, <1>m, <2>1
       DEF RequestOK, Quiet, NoRecord, Reserved, TokenReserved, Covers, Ends, Routed, Taken, Silence, Streams,
           Before, Serving, Ended, Silent, Due, Fund, Now, Share, TokenOwed, Money, TypeOK
<1> QED
  BY <1>9, <1>10 DEF Inv

LEMMA InvNext == Inv /\ [Next]_vars => Inv'
<1> SUFFICES ASSUME Inv, [Next]_vars
             PROVE  Inv'
  OBVIOUS
<1>1. ASSUME NEW r \in Requests, Handler(r)
      PROVE  Inv'
  BY <1>1, CheckWalletStep, PreConsumeTokenStep, PreConsumeFundingStep, RollbackTokenStep,
     RollbackFundingStep, SelectChannelStep, NoChannelLeftStep, ReserveFundingStep,
     ReserveTokenStep, AttemptStep, EndStreamStep, SettleFundingStep, SettleTokenStep, FailStep,
     ChargeFeeStep, ChargeFeeTokenStep DEF Handler
<1>r. ASSUME NEW r \in Requests, Reader(r)
      PROVE  Inv'
  BY <1>r, UsageStep, UsageFundingStep, UsageTokenStep DEF Reader
<1>2. ASSUME NEW r \in Requests, NEW e \in Targets \cup {0}, Begin(r, e)
      PROVE  Inv'
  BY <1>2, BeginStep
<1>3. ASSUME Refunder
      PROVE  Inv'
  BY <1>3, RefundFundingStep, RefundTokenStep DEF Refunder
<1>4. ASSUME Crash
      PROVE  Inv'
  BY <1>4, CrashStep
<1>5. ASSUME UNCHANGED vars
      PROVE  Inv'
  <2>1. /\ req' = req /\ session' = session /\ route' = route /\ refunds' = refunds
        /\ paid' = paid /\ tokPaid' = tokPaid /\ faults' = faults
        /\ wallet' = wallet /\ token' = token /\ stream' = stream
    BY <1>5 DEF vars
  <2>2. TypeOK'
    BY <2>1 DEF Inv, TypeOK
  <2>3. \A r \in Requests : RequestOK(r)'
    BY <2>1, Unmoved DEF Inv
  <2> QED
    BY <2>2, <2>3 DEF Inv
<1> QED
  BY <1>1, <1>r, <1>2, <1>3, <1>4, <1>5 DEF Next

LEMMA Invariance == Spec => []Inv
BY InvInit, InvNext, PTL DEF Spec

\* Types, with the bound of RouteState: no channel is attempted more often than
\* MaxAttempts, whichever routes a request takes.
THEOREM TypeCorrect == Spec => []TypeOK
<1>1. Inv => TypeOK
  BY DEF Inv
<1> QED
  BY <1>1, Invariance, PTL

\* No refund, rollback or settlement returns more than was taken for the
\* request, whichever calls fail and whenever the process dies.
THEOREM NothingPaidOut == Spec => []NeverPaidOut
<1>1. Inv => NeverPaidOut
  BY DEF Inv, RequestOK, Taken, NeverPaidOut
<1> QED
  BY <1>1, Invariance, PTL

\* While no call fails, a request that is over, its refund and the charges of its
\* stream included, has cost wallet and token exactly its price or fee, and a
\* websocket the usage charged in its stream once more; the wallet of an unlimited
\* user and the token of a playground request pay nothing.
THEOREM OwedIsCharged == Spec => []ChargedWhatIsOwed
<1>1. Inv => ChargedWhatIsOwed
  <2> SUFFICES ASSUME Inv, faults = 0, NEW r \in Requests, Finished(r)
               PROVE  /\ paid[r] = IF r \in Unlimited THEN 0 ELSE Cost(r)
                      /\ tokPaid[r] = IF r \in Playground THEN 0 ELSE Cost(r)
    BY DEF ChargedWhatIsOwed
  <2>1. req[r].pc = "over" /\ NoRecord(r) /\ stream[r].stage = "none" /\ RequestOK(r)
    BY DEF Inv, Finished, NoRecord
  <2>2. /\ stream[r].used \in Nat /\ stream[r].tokUsed \in Nat /\ req[r].owed \in Nat
    BY DEF Inv, TypeOK, Stream, Request
  <2>3. stream[r].used = stream[r].tokUsed
    BY <2>1, <2>2 DEF RequestOK, Streams, Due
  <2> QED
    BY <2>1, <2>2, <2>3 DEF RequestOK, Ends, Ended, TokenOwed, Share, Fund, Cost
<1> QED
  BY <1>1, Invariance, PTL

\* Before each upstream attempt of an untrusted request the estimate of the
\* route selected last has been taken from the wallet, unless the user is
\* unlimited, and from the token, unless it is a playground request.
THEOREM AttemptCovered == Spec => []AttemptIsCovered
<1>1. Inv => AttemptIsCovered
  <2> SUFFICES ASSUME Inv, NEW r \in Requests, req[r].pc = "attempt", ~session[r].trusted
               PROVE  /\ r \in Unlimited \/ paid[r] >= route[r].target
                      /\ r \in Playground \/ tokPaid[r] >= route[r].target
    BY DEF AttemptIsCovered
  <2>1. route[r].target <= session[r].pre /\ session[r].pre \in Nat
    BY DEF Inv, TypeOK, Session, RequestOK, Covers
  <2>0. Silent(r) /\ session[r].pre \in Nat /\ session[r].consumed \in Nat
    BY DEF Inv, RequestOK, Silence, Before, TypeOK, Session
  <2>2. paid[r] = Fund(r, session[r].pre) /\ tokPaid[r] = Share(r, session[r].pre)
    BY <2>0
       DEF Inv, RequestOK, Quiet, Reserved, TokenReserved, Before, Silent, Fund, Share
  <2>3. route[r].target \in Nat
    <3>1. route[r].target \in Targets \cup {0}
      BY DEF Inv, TypeOK, Route
    <3>2. 0 \in Nat /\ Targets \subseteq Nat
      BY RelayAssumption
    <3> QED
      BY <3>1, <3>2
  <2> QED
    BY <2>1, <2>2, <2>3 DEF Share, Fund
<1> QED
  BY <1>1, Invariance, PTL
==============================================================================
