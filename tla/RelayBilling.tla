---------------------------- MODULE RelayBilling ----------------------------
(***************************************************************************)
(* Requests of one user and token through the synchronous relay: the        *)
(* billing session that reserves before an upstream attempt, tops up when a  *)
(* dearer route is selected, settles after a success and gives back, in a    *)
(* goroutine, after a failure; and the charges that a realtime websocket      *)
(* makes beside it while it streams.                                        *)
(*                                                                         *)
(* Sources: controller/relay.go (Relay), service/billing.go,                *)
(* service/billing_session.go, service/funding_source.go, service/quota.go,  *)
(* service/tiered_settle.go, service/route_state.go, service/violation_fee.go *)
(* and relay/channel/openai/relay_realtime.go.  Wallet and token are         *)
(* balances that one call moves at once, which is what module Account says   *)
(* of them and module Quota shows.                                          *)
(***************************************************************************)
EXTENDS Integers, FiniteSets

CONSTANTS Requests,
          Channels,
          Targets,      \* estimates of a paid route
          Actuals,      \* what a successful attempt on a paid route costs
          Fee,          \* violation fee, 0: switched off
          Wallet,       \* user balance at the start
          Toks,         \* token balances to start from
          Trust,        \* GetTrustQuota, 0: no trust
          Playground,   \* requests without a token
          Unlimited,    \* requests of a user with UserUnlimitedQuota
          TokenUnlimited, \* requests whose token has no limit
          Realtime,     \* realtime websockets that pay by usage
          Usages,       \* what a usage event of a websocket costs
          MaxAttempts,  \* per channel
          MaxChannels,  \* MaxDistinctChannelsPerRequest
          MaxRequests,  \* bound: requests that are started
          MaxUsages,    \* bound: usage events of a websocket that are charged
          Faults,       \* which calls may fail
          MaxFaults,    \* bound: failed calls and crashes
          NoChannel

ASSUME RelayAssumption ==
    /\ Targets \subseteq Nat \ {0}
    /\ Actuals \subseteq Nat
    /\ Usages \subseteq Nat
    /\ {Fee, Wallet, Trust, MaxRequests, MaxUsages, MaxFaults} \subseteq Nat
    /\ Toks \subseteq Nat
    /\ {MaxAttempts, MaxChannels} \subseteq Nat \ {0}
    /\ {Playground, Unlimited, TokenUnlimited, Realtime} \subseteq SUBSET Requests
    /\ Faults \subseteq {"wallet", "token", "crash"}
    /\ NoChannel \notin Channels

VARIABLES wallet,   \* balance of the user
          token,    \* balance of the token
          req,      \* where each request is in its handler
          session,  \* relayInfo.Billing of each request
          route,    \* its RouteState and the estimate of the selected route
          stream,   \* the charges a realtime websocket makes while it is open
          refunds,  \* refund goroutines: request and what is left to return
          paid,     \* what was taken from the wallet for each request
          tokPaid,  \* and from the token
          faults

vars == <<wallet, token, req, session, route, stream, refunds, paid, tokPaid, faults>>
billing == <<wallet, token, paid, tokPaid>>

Pcs == {"idle", "check", "token", "fund", "rollback", "select", "more",
        "moreToken", "moreRollback", "attempt", "stream", "settle", "settleToken",
        "failed", "fee", "feeToken", "over", "crashed"}

\* No billing session: relayInfo.Billing is nil.
NoSession == [open |-> FALSE, pre |-> 0, tok |-> 0, consumed |-> 0,
              trusted |-> FALSE, settled |-> FALSE, fundingSettled |-> FALSE,
              refunded |-> FALSE]

\* want: the amount being reserved; back: where the handler goes on; userQuota,
\* tokenQuota: the balances read for the trust check; owed: what it must cost.
Fresh == [pc |-> "idle", want |-> 0, back |-> "idle", userQuota |-> 0,
          tokenQuota |-> 0, owed |-> 0]

\* left: events still to come; amount: the one at work, checked ("fund") or taken
\* from the wallet ("token"); used, tokUsed: what wallet and token were asked.
NoStream == [left |-> 0, stage |-> "none", amount |-> 0, used |-> 0, tokUsed |-> 0]

FreshRoute == [ch |-> NoChannel, tries |-> [c \in Channels |-> 0],
               excluded |-> {}, target |-> 0]

Request == [pc : Pcs, want : Nat, back : Pcs, userQuota : Int,
            tokenQuota : Int, owed : Nat]

Session == [open : BOOLEAN, pre : Nat, tok : Nat, consumed : Nat,
            trusted : BOOLEAN, settled : BOOLEAN, fundingSettled : BOOLEAN,
            refunded : BOOLEAN]

Stream == [left : 0..MaxUsages, stage : {"none", "fund", "token"}, amount : Nat,
           used : Nat, tokUsed : Nat]

Route == [ch : Channels \cup {NoChannel}, tries : [Channels -> 0..MaxAttempts],
          excluded : SUBSET Channels, target : Targets \cup {0}]

\* No channel is attempted more often than RouteState allows.
TypeOK ==
    /\ {wallet, token} \subseteq Int
    /\ req \in [Requests -> Request]
    /\ session \in [Requests -> Session]
    /\ route \in [Requests -> Route]
    /\ stream \in [Requests -> Stream]
    /\ refunds \subseteq [r : Requests, consumed : Nat, tok : Nat]
    /\ paid \in [Requests -> Int]
    /\ tokPaid \in [Requests -> Int]
    /\ faults \in 0..MaxFaults

-----------------------------------------------------------------------------
(* Balances: what a call to model/ does.                                   *)

Fault(kind) == kind \in Faults /\ faults < MaxFaults /\ faults' = faults + 1

\* The wallet's part of an amount: UnlimitedFunding leaves the wallet alone, and
\* so does PostConsumeQuota for its user.
Fund(r, d) == IF r \in Unlimited THEN 0 ELSE d

\* DecreaseUserQuota and IncreaseUserQuota: unconditional, d of any sign.
TakeFunding(r, d) ==
    /\ wallet' = wallet - Fund(r, d)
    /\ paid' = [paid EXCEPT ![r] = @ + Fund(r, d)]
    /\ UNCHANGED faults

\* DecreaseTokenQuota and IncreaseTokenQuota.
TakeToken(r, d) ==
    /\ token' = token - d
    /\ tokPaid' = [tokPaid EXCEPT ![r] = @ + d]
    /\ UNCHANGED faults

\* A call that returns an error leaves its balance.
FundingFails(r) == r \notin Unlimited /\ Fault("wallet") /\ UNCHANGED <<wallet, paid>>
TokenFails == Fault("token") /\ UNCHANGED <<token, tokPaid>>

TokenStays == UNCHANGED <<token, tokPaid>>
FundingStays == UNCHANGED <<wallet, paid>>
GoTo(r, pc) == req' = [req EXCEPT ![r].pc = pc]

\* The handler goes on after a reservation, whose parameters are of no use now.
Return(r, pc) ==
    req' = [req EXCEPT ![r].pc = pc, ![r].want = 0, ![r].back = "idle",
                       ![r].userQuota = 0]

-----------------------------------------------------------------------------
(* Reservation.                                                            *)

\* A failed reservation ends the request, in the first one before the deferred
\* refund is registered.
Refused(r) == IF req[r].back = "select" THEN "over" ELSE "failed"

\* PreConsumeBilling for an amount: NewBillingSession starts.
StartSession(r, want, back) ==
    req' = [req EXCEPT ![r].pc = "check", ![r].want = want, ![r].back = back]

\* Relay: a free model skips the reservation, unless EnableFreeModelPreConsume
\* opens a session with nothing in it.
Begin(r, est) ==
    /\ req[r].pc = "idle"
    /\ Cardinality({q \in Requests : req[q].pc # "idle"}) < MaxRequests
    /\ \E pc \in {"check"} \cup (IF est = 0 THEN {"select"} ELSE {}) :
         req' = [req EXCEPT ![r] = [Fresh EXCEPT !.pc = pc, !.want = est,
                                      !.back = "select", !.tokenQuota = token]]
    /\ UNCHANGED <<billing, session, route, stream, refunds, faults>>

\* NewBillingSession: an unlimited user has no wallet to look at; tryWallet turns
\* a user with too little away at once.
CheckWallet(r) ==
    /\ req[r].pc = "check"
    /\ \/ /\ r \in Unlimited
          /\ GoTo(r, "token") /\ UNCHANGED faults
       \/ /\ r \notin Unlimited /\ wallet > 0 /\ wallet >= req[r].want
          /\ req' = [req EXCEPT ![r].pc = "token", ![r].userQuota = wallet]
          /\ UNCHANGED faults
       \/ /\ r \notin Unlimited
          /\ \/ (wallet <= 0 \/ wallet < req[r].want) /\ UNCHANGED faults
             \/ Fault("wallet")
          /\ Return(r, Refused(r))
    /\ UNCHANGED <<billing, session, route, stream, refunds>>

\* shouldTrust, with the balances read earlier: never with UnlimitedFunding.
ShouldTrust(r) ==
    /\ Trust > 0
    /\ r \in TokenUnlimited \/ req[r].tokenQuota > Trust
    /\ r \notin Unlimited /\ req[r].userQuota > Trust

\* TryReserveTokenQuota: a token without limit is reduced all the same.
TokenHas(r, n) == r \in TokenUnlimited \/ token >= n

\* preConsume, token part: a trusted request reserves nothing; otherwise the
\* token is checked and reduced in one step.
PreConsumeToken(r) ==
    /\ req[r].pc = "token"
    /\ \/ /\ ShouldTrust(r)
          /\ session' = [session EXCEPT ![r] =
                           [NoSession EXCEPT !.open = TRUE, !.trusted = TRUE]]
          /\ Return(r, req[r].back)
          /\ TokenStays /\ UNCHANGED faults
       \/ /\ ~ShouldTrust(r)
          /\ \/ /\ r \in Playground \/ req[r].want = 0
                /\ GoTo(r, "fund")
                /\ TokenStays /\ UNCHANGED faults
             \/ /\ r \notin Playground /\ req[r].want > 0 /\ TokenHas(r, req[r].want)
                /\ TakeToken(r, req[r].want)
                /\ GoTo(r, "fund")
             \/ /\ r \notin Playground /\ req[r].want > 0
                /\ \/ ~TokenHas(r, req[r].want) /\ TokenStays /\ UNCHANGED faults
                   \/ TokenFails
                /\ Return(r, Refused(r))
          /\ UNCHANGED session
    /\ FundingStays
    /\ UNCHANGED <<route, stream, refunds>>

\* preConsume, funding part: nothing is asked for 0.
PreConsumeFunding(r) ==
    /\ req[r].pc = "fund"
    /\ \/ /\ r \in Unlimited \/ req[r].want = 0 \/ wallet >= req[r].want
          /\ TakeFunding(r, req[r].want)
          /\ session' = [session EXCEPT ![r] =
                           [NoSession EXCEPT !.open = TRUE,
                              !.pre = req[r].want, !.tok = req[r].want,
                              !.consumed = Fund(r, req[r].want)]]
          /\ Return(r, req[r].back)
       \/ /\ r \notin Unlimited /\ req[r].want > 0
          /\ \/ wallet < req[r].want /\ FundingStays /\ UNCHANGED faults
             \/ FundingFails(r)
          /\ GoTo(r, "rollback")
          /\ UNCHANGED session
    /\ TokenStays
    /\ UNCHANGED <<route, stream, refunds>>

\* The token's part of a reservation that the wallet refused.
RollbackToken(r) ==
    /\ req[r].pc = "rollback"
    /\ IF r \in Playground THEN TokenStays /\ UNCHANGED faults
       ELSE TakeToken(r, -req[r].want) \/ TokenFails
    /\ Return(r, Refused(r))
    /\ FundingStays
    /\ UNCHANGED <<session, route, stream, refunds>>

-----------------------------------------------------------------------------
(* The route: channels, attempts, top-up of the reservation.               *)

Tried(r) == {c \in Channels : route[r].tries[c] > 0}

\* Variant: the reservation of the first route is kept.
NeedsMoreNever(r, target) == FALSE

\* BillingSession.Reserve asks for more than is reserved.
NeedsMore(r, target) ==
    /\ ~session[r].settled /\ ~session[r].refunded /\ ~session[r].trusted
    /\ target > session[r].pre

\* PrepareBillingForSelectedRoute, up to the calls that move money.  An estimate
\* of 0 opens a session if the route is paid by tiers, and none otherwise.
SelectChannel(r, c, target) ==
    /\ req[r].pc = "select"
    /\ Cardinality(Tried(r)) < MaxChannels
    /\ c \notin route[r].excluded
    /\ route' = [route EXCEPT ![r].ch = c, ![r].target = target]
    /\ \/ /\ ~session[r].open
          /\ StartSession(r, target, "attempt")
       \/ /\ session[r].open /\ NeedsMore(r, target)
          /\ req' = [req EXCEPT ![r].pc = "more",
                                ![r].want = target - session[r].pre]
       \/ /\ target = 0 \/ (session[r].open /\ ~NeedsMore(r, target))
          /\ GoTo(r, "attempt")
    /\ UNCHANGED <<billing, session, stream, refunds, faults>>

\* No channel is left, or as many were tried as a request may try.
NoChannelLeft(r) ==
    /\ req[r].pc = "select"
    /\ Cardinality(Tried(r)) >= MaxChannels \/ route[r].excluded = Channels
    /\ GoTo(r, "failed")
    /\ UNCHANGED <<billing, session, route, stream, refunds, faults>>

\* reserveFunding: the whole difference, whatever the balance; nothing for an
\* unlimited user.
ReserveFunding(r) ==
    /\ req[r].pc = "more"
    /\ \/ /\ TakeFunding(r, req[r].want)
          /\ session' = [session EXCEPT ![r].consumed = @ + Fund(r, req[r].want)]
          /\ GoTo(r, "moreToken")
       \/ /\ FundingFails(r)
          /\ Return(r, "failed")
          /\ UNCHANGED session
    /\ TokenStays
    /\ UNCHANGED <<route, stream, refunds>>

\* reserveToken, and the books of the session.
ReserveToken(r) ==
    /\ req[r].pc = "moreToken"
    /\ \/ /\ r \in Playground \/ TokenHas(r, req[r].want)
          /\ IF r \in Playground THEN TokenStays /\ UNCHANGED faults
             ELSE TakeToken(r, req[r].want)
          /\ session' = [session EXCEPT ![r].pre = @ + req[r].want,
                                        ![r].tok = @ + req[r].want]
          /\ Return(r, "attempt")
       \/ /\ r \notin Playground
          /\ \/ ~TokenHas(r, req[r].want) /\ TokenStays /\ UNCHANGED faults
             \/ TokenFails
          /\ GoTo(r, "moreRollback")
          /\ UNCHANGED session
    /\ FundingStays
    /\ UNCHANGED <<route, stream, refunds>>

\* Variant: what was returned stays in consumed.
RollbackKeepsConsumed(r) ==
    /\ req[r].pc = "moreRollback"
    /\ TakeFunding(r, -req[r].want) \/ FundingFails(r)
    /\ Return(r, "failed")
    /\ TokenStays
    /\ UNCHANGED <<session, route, stream, refunds>>

\* rollbackFundingReserve: consumed keeps what could not be returned.
RollbackFunding(r) ==
    /\ req[r].pc = "moreRollback"
    /\ \/ /\ TakeFunding(r, -req[r].want)
          /\ session' = [session EXCEPT ![r].consumed = @ - Fund(r, req[r].want)]
       \/ FundingFails(r) /\ UNCHANGED session
    /\ Return(r, "failed")
    /\ TokenStays
    /\ UNCHANGED <<route, stream, refunds>>

\* RouteState.CanAttempt.
CanAttempt(tries) == tries < MaxAttempts

\* One upstream attempt: it succeeds (an estimate of 0 may have been a price
\* rounded down); a websocket is open on both sides; it fails for good (also when
\* the answer has begun); or may be repeated, here or on another channel.
Attempt(r) ==
    /\ req[r].pc = "attempt"
    /\ LET c == route[r].ch
           tried == [route EXCEPT ![r].tries[c] = @ + 1]
       IN \/ /\ r \notin Realtime
             /\ \E actual \in Actuals :
                  req' = [req EXCEPT ![r].pc = "settle", ![r].owed = actual]
             /\ route' = tried /\ UNCHANGED stream
          \/ /\ r \in Realtime
             /\ GoTo(r, "stream") /\ route' = tried
             /\ stream' = [stream EXCEPT ![r].left = MaxUsages]
          \/ GoTo(r, "failed") /\ route' = tried /\ UNCHANGED stream
          \/ /\ IF CanAttempt(route[r].tries[c] + 1)
                THEN route' = tried /\ UNCHANGED req
                ELSE /\ route' = [tried EXCEPT ![r].excluded = @ \cup {c}]
                     /\ GoTo(r, "select")
             /\ UNCHANGED stream
    /\ UNCHANGED <<billing, session, refunds, faults>>

-----------------------------------------------------------------------------
(* A realtime websocket: preConsumeUsage in the goroutine that reads the   *)
(* target, which the handler does not wait for, and once more for what is  *)
(* left when it goes on.                                                   *)

\* PreWssConsumeQuota: both balances are read; an event they do not cover costs
\* nothing (and ends the stream).
Usage(r, a) ==
    /\ stream[r].left > 0 /\ stream[r].stage = "none"
    /\ r \in Unlimited \/ wallet >= a
    /\ TokenHas(r, a)
    /\ stream' = [stream EXCEPT ![r].left = @ - 1, ![r].stage = "fund", ![r].amount = a]
    /\ UNCHANGED <<billing, req, session, route, refunds, faults>>

\* PostConsumeQuota, beside the session: the wallet ...
UsageFunding(r) ==
    /\ stream[r].stage = "fund"
    /\ \/ /\ TakeFunding(r, stream[r].amount)
          /\ stream' = [stream EXCEPT ![r].stage = "token",
                                      ![r].used = @ + stream[r].amount]
       \/ /\ FundingFails(r)
          /\ stream' = [stream EXCEPT ![r].stage = "none", ![r].amount = 0]
    /\ TokenStays
    /\ UNCHANGED <<req, session, route, refunds>>

\* ... and then the token.
UsageToken(r) ==
    /\ stream[r].stage = "token"
    /\ \/ /\ IF r \in Playground THEN TokenStays /\ UNCHANGED faults
             ELSE TakeToken(r, stream[r].amount)
          /\ stream' = [stream EXCEPT ![r].stage = "none", ![r].amount = 0,
                                      ![r].tokUsed = @ + stream[r].amount]
       \/ /\ TokenFails
          /\ stream' = [stream EXCEPT ![r].stage = "none", ![r].amount = 0]
    /\ FundingStays
    /\ UNCHANGED <<req, session, route, refunds>>

\* Either side closes, or an error is reported: PostWssConsumeQuota prices the
\* whole usage, what was charged for in the stream included.
EndStream(r, actual) ==
    /\ req[r].pc = "stream"
    /\ req' = [req EXCEPT ![r].pc = "settle", ![r].owed = actual]
    /\ UNCHANGED <<billing, session, route, stream, refunds, faults>>

-----------------------------------------------------------------------------
(* Settlement and refund.                                                  *)

\* Settle: what is still to be taken, or given back.
Delta(r) == req[r].owed - session[r].pre

\* SettleBilling: BillingSession.Settle or, without a session, PostConsumeQuota;
\* the funding part.  An error ends it and is logged.
SettleFunding(r) ==
    /\ req[r].pc = "settle"
    /\ \/ /\ Delta(r) = 0
          /\ session' = IF session[r].open
                        THEN [session EXCEPT ![r].settled = TRUE] ELSE session
          /\ GoTo(r, "over")
          /\ FundingStays /\ UNCHANGED faults
       \/ /\ Delta(r) # 0
          /\ \/ /\ TakeFunding(r, Delta(r))
                /\ session' = IF session[r].open
                              THEN [session EXCEPT ![r].fundingSettled = TRUE]
                              ELSE session
                /\ GoTo(r, "settleToken")
             \/ /\ FundingFails(r)
                /\ GoTo(r, "over")
                /\ UNCHANGED session
    /\ TokenStays
    /\ UNCHANGED <<route, stream, refunds>>

\* The token part; the session is settled whatever comes of it.
SettleToken(r) ==
    /\ req[r].pc = "settleToken"
    /\ IF r \in Playground THEN TokenStays /\ UNCHANGED faults
       ELSE TakeToken(r, Delta(r)) \/ TokenFails
    /\ session' = IF session[r].open
                  THEN [session EXCEPT ![r].settled = TRUE] ELSE session
    /\ GoTo(r, "over")
    /\ FundingStays
    /\ UNCHANGED <<route, stream, refunds>>

\* Variant: what the token was charged decides, and a playground has none.
NeedsRefundByToken(r) ==
    /\ session[r].open /\ tokPaid[r] > 0
    /\ ~session[r].settled /\ ~session[r].refunded

\* needsRefundLocked.
NeedsRefund(r) ==
    /\ session[r].open
    /\ ~session[r].settled /\ ~session[r].refunded
    /\ ~session[r].fundingSettled
    /\ session[r].tok > 0

\* The deferred function of Relay: Refund, then the violation fee.
Fail(r) ==
    /\ req[r].pc = "failed"
    /\ IF NeedsRefund(r)
       THEN /\ session' = [session EXCEPT ![r].refunded = TRUE]
            /\ refunds' = refunds \cup
                 {[r |-> r, consumed |-> session[r].consumed,
                   tok |-> IF r \in Playground THEN 0 ELSE session[r].tok]}
       ELSE UNCHANGED <<session, refunds>>
    /\ \/ Fee > 0 /\ GoTo(r, "fee")
       \/ GoTo(r, "over")
    /\ UNCHANGED <<billing, route, stream, faults>>

\* ChargeViolationFeeIfNeeded: PostConsumeQuota, wallet first.
ChargeFee(r) ==
    /\ req[r].pc = "fee"
    /\ \/ /\ TakeFunding(r, Fee)
          /\ req' = [req EXCEPT ![r].pc = "feeToken", ![r].owed = Fee]
       \/ FundingFails(r) /\ GoTo(r, "over")
    /\ TokenStays
    /\ UNCHANGED <<session, route, stream, refunds>>

ChargeFeeToken(r) ==
    /\ req[r].pc = "feeToken"
    /\ IF r \in Playground THEN TokenStays /\ UNCHANGED faults
       ELSE TakeToken(r, Fee) \/ TokenFails
    /\ GoTo(r, "over")
    /\ FundingStays
    /\ UNCHANGED <<session, route, stream, refunds>>

\* The goroutine of Refund gives the funding back, once ...
RefundFunding(g) ==
    /\ g \in refunds /\ g.consumed > 0
    /\ TakeFunding(g.r, -g.consumed) \/ FundingFails(g.r)
    /\ refunds' = (refunds \ {g}) \cup {[g EXCEPT !.consumed = 0]}
    /\ TokenStays
    /\ UNCHANGED <<req, session, route, stream>>

\* ... and then the token.
RefundToken(g) ==
    /\ g \in refunds /\ g.consumed = 0
    /\ IF g.tok = 0 THEN TokenStays /\ UNCHANGED faults
       ELSE TakeToken(g.r, -g.tok) \/ TokenFails
    /\ refunds' = refunds \ {g}
    /\ FundingStays
    /\ UNCHANGED <<req, session, route, stream>>

\* The process dies: handlers, sessions and goroutines are gone.
Crash ==
    /\ Fault("crash")
    /\ req' = [r \in Requests |->
                 IF req[r].pc = "idle" THEN Fresh
                 ELSE [Fresh EXCEPT !.pc = "crashed"]]
    /\ session' = [r \in Requests |-> NoSession]
    /\ stream' = [r \in Requests |-> NoStream]
    /\ refunds' = {}
    /\ UNCHANGED <<billing, route>>

-----------------------------------------------------------------------------

Init ==
    /\ wallet = Wallet
    /\ token \in Toks
    /\ req = [r \in Requests |-> Fresh]
    /\ session = [r \in Requests |-> NoSession]
    /\ route = [r \in Requests |-> FreshRoute]
    /\ stream = [r \in Requests |-> NoStream]
    /\ refunds = {}
    /\ paid = [r \in Requests |-> 0]
    /\ tokPaid = [r \in Requests |-> 0]
    /\ faults = 0

Handler(r) ==
    \/ CheckWallet(r) \/ PreConsumeToken(r) \/ PreConsumeFunding(r)
    \/ RollbackToken(r) \/ RollbackFunding(r)
    \/ \E c \in Channels, t \in Targets \cup {0} : SelectChannel(r, c, t)
    \/ NoChannelLeft(r) \/ ReserveFunding(r) \/ ReserveToken(r) \/ Attempt(r)
    \/ \E actual \in Actuals : EndStream(r, actual)
    \/ SettleFunding(r) \/ SettleToken(r) \/ Fail(r)
    \/ ChargeFee(r) \/ ChargeFeeToken(r)

Reader(r) == (\E a \in Usages : Usage(r, a)) \/ UsageFunding(r) \/ UsageToken(r)

Refunder == \E g \in refunds : RefundFunding(g) \/ RefundToken(g)

Next ==
    \/ \E r \in Requests : Reader(r) \/ Handler(r) \/ \E e \in Targets \cup {0} : Begin(r, e)
    \/ Refunder
    \/ Crash

Spec == Init /\ [][Next]_vars

-----------------------------------------------------------------------------
(* Properties.                                                             *)

Finished(r) ==
    /\ req[r].pc = "over" /\ stream[r].stage = "none"
    /\ ~\E g \in refunds : g.r = r

\* What a request must have cost in the end: its price after a success, the fee or
\* nothing after a failure.  A realtime websocket pays its usage twice: what the
\* stream was charged stays taken when the whole usage is settled.
Cost(r) == req[r].owed + stream[r].used

\* While no call fails: a request that is over, its refund and the charges of its
\* stream included, has cost wallet and token exactly that, whatever routes it
\* took, with a session or without, and whoever shares the balances.  The wallet
\* of an unlimited user pays nothing, and a playground request has no token.
ChargedWhatIsOwed ==
    faults = 0 =>
        \A r \in Requests : Finished(r) =>
            /\ paid[r] = IF r \in Unlimited THEN 0 ELSE Cost(r)
            /\ tokPaid[r] = IF r \in Playground THEN 0 ELSE Cost(r)

\* Whatever calls fail and whenever the process dies, no request ever gets
\* back more than was taken for it: IncreaseUserQuota is not idempotent, and a
\* settled session is not refunded.
NeverPaidOut ==
    \A r \in Requests : paid[r] >= 0 /\ tokPaid[r] >= 0

\* An upstream attempt of an untrusted request is covered: wallet and token
\* were reduced by at least the estimate of the route now selected; a wallet
\* without limit is not, nor is the token of a playground request, and a token
\* without limit is whatever its balance.
AttemptIsCovered ==
    \A r \in Requests :
        req[r].pc = "attempt" /\ ~session[r].trusted =>
            /\ r \in Unlimited \/ paid[r] >= route[r].target
            /\ r \in Playground \/ tokPaid[r] >= route[r].target
=============================================================================
