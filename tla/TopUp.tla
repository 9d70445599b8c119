------------------------------- MODULE TopUp -------------------------------
(***************************************************************************)
(* Top-up orders: an order is created pending, the payment provider         *)
(* delivers its webhook until it is acknowledged, perhaps twice and to       *)
(* several nodes at once, and an administrator may complete the order by     *)
(* hand.                                                                    *)
(*                                                                         *)
(* Sources: model/topup.go, controller/topup.go (Epay, LockOrder, manual     *)
(* completion), controller/topup_stripe.go, controller/topup_creem.go.  A    *)
(* database transaction that locks the order's row is one step.             *)
(***************************************************************************)
EXTENDS Integers, FiniteSets

CONSTANTS Orders,
          Handlers,   \* goroutines that serve webhooks or the administrator
          NodeOf,     \* node of each handler
          Amount,     \* what an order is for: TopUp.Amount, with Stripe TopUp.Money
          QuotaPerUnit,
          Gateways,   \* bound: the providers an order may be placed with
          Start,      \* wallet at the start
          MaxWallet,  \* MaxWalletQuota
          Spends,     \* the user may spend from the wallet
          Admin,      \* the administrator completes orders
          Faults,     \* "db": a transaction fails; "ack": the answer is lost;
                      \* "crash": a node dies
          MaxFaults,  \* bound: faults
          NoOrder

Nodes == {NodeOf[h] : h \in Handlers}
Providers == {"epay", "stripe", "creem"}
Kinds == {"paid", "other", "failed", "expired"}

ASSUME TopUpAssumption ==
    /\ {Amount, QuotaPerUnit, Start, MaxWallet, MaxFaults} \subseteq Nat
    /\ Gateways \in [Orders -> SUBSET Providers]
    /\ {Spends, Admin} \subseteq BOOLEAN
    /\ Faults \subseteq {"db", "ack", "crash"}
    /\ NoOrder \notin Orders

VARIABLES status,   \* of each order's row; "none": no row yet
          provider, \* payment_provider of each order's row
          wallet,   \* quota of the user
          credits,  \* how often each order was credited
          creditedOn, \* the nodes that credited each order
          outcome,  \* what the provider knows of the payment; "other": paid, but
                    \* not as a one-time order
          hooks,    \* webhooks not acknowledged: order and kind
          handler,  \* what each handler does
          lock,     \* LockOrder: node and order -> holding handlers
          faults

vars == <<status, provider, wallet, credits, creditedOn, outcome, hooks, handler,
          lock, faults>>
row == <<status, provider, wallet, credits, creditedOn>>

Free == [pc |-> "free", o |-> NoOrder, kind |-> "none"]

TypeOK ==
    /\ status \in [Orders -> {"none", "pending", "success", "failed", "expired"}]
    /\ provider \in [Orders -> Providers \cup {"none"}]
    /\ wallet \in 0..MaxWallet
    /\ credits \in [Orders -> Nat]
    /\ creditedOn \in [Orders -> SUBSET Nodes]
    /\ outcome \in [Orders -> Kinds \cup {"open"}]
    /\ hooks \subseteq [o : Orders, kind : Kinds]
    /\ handler \in [Handlers ->
                      [pc : {"free", "work", "save"}, o : Orders \cup {NoOrder},
                       kind : Kinds \cup {"none", "manual"}]]
    /\ \A n \in Nodes, o \in Orders : Cardinality(lock[n][o]) <= 1
    /\ faults \in 0..MaxFaults

-----------------------------------------------------------------------------

CanFault(kind) == kind \in Faults /\ faults < MaxFaults
Fault(kind) == CanFault(kind) /\ faults' = faults + 1

\* What a paid order credits: Creem's Amount is the quota itself.
Quota(by) == IF by = "creem" THEN Amount ELSE Amount * QuotaPerUnit

\* creditTopUpQuota: the ceiling and the increment in one statement.
HasRoom(quota) == wallet <= MaxWallet - quota

\* RequestEpay, RequestStripePay, RequestCreemPay: before the payment the quota
\* is held against the ceiling (ValidateTopUpQuotaCapacity); then the row.
RequestPay(o, by) ==
    /\ status[o] = "none"
    /\ HasRoom(Quota(by))
    /\ status' = [status EXCEPT ![o] = "pending"]
    /\ provider' = [provider EXCEPT ![o] = by]
    /\ UNCHANGED <<wallet, credits, creditedOn, outcome, hooks, handler, lock, faults>>

\* The provider decides once what became of the payment and sends a webhook;
\* only Stripe reports delayed failures and expired sessions, and only Creem
\* tells the type of the paid order.
Decide(o, kind) ==
    /\ outcome[o] = "open" /\ status[o] # "none"
    /\ kind \in {"failed", "expired"} => provider[o] = "stripe"
    /\ kind = "other" => provider[o] = "creem"
    /\ outcome' = [outcome EXCEPT ![o] = kind]
    /\ hooks' = hooks \cup {[o |-> o, kind |-> kind]}
    /\ UNCHANGED <<row, handler, lock, faults>>

\* The user's requests use up quota.
Spend ==
    /\ Spends /\ wallet > 0
    /\ wallet' = wallet - 1
    /\ UNCHANGED <<status, provider, credits, creditedOn, outcome, hooks, handler,
                   lock, faults>>

\* LockOrder: one handler per order and process.
LockOrder(h, o) ==
    /\ lock[NodeOf[h]][o] = {}
    /\ lock' = [lock EXCEPT ![NodeOf[h]][o] = {h}]

\* A webhook reaches a handler, also one that another handler has in hand.
Deliver(h, e) ==
    /\ handler[h].pc = "free"
    /\ e \in hooks
    /\ LockOrder(h, e.o)
    /\ handler' = [handler EXCEPT ![h] =
                     [pc |-> "work", o |-> e.o, kind |-> e.kind]]
    /\ UNCHANGED <<row, outcome, hooks, faults>>

\* AdminCompleteTopUp.
AdminCompletes(h, o) ==
    /\ Admin
    /\ handler[h].pc = "free"
    /\ status[o] # "none"
    /\ LockOrder(h, o)
    /\ handler' = [handler EXCEPT ![h] =
                     [pc |-> "work", o |-> o, kind |-> "manual"]]
    /\ UNCHANGED <<row, outcome, hooks, faults>>

-----------------------------------------------------------------------------

\* Variant: the webhook is always acknowledged.
EndAcknowledges(h, acked) ==
    LET n == NodeOf[h]
        o == handler[h].o
    IN /\ handler' = [handler EXCEPT ![h] = Free]
       /\ lock' = [lock EXCEPT ![n][o] = @ \ {h}]
       /\ hooks' = hooks \ {[o |-> o, kind |-> handler[h].kind]}

\* The handler returns: UnlockOrder, and the webhook is acknowledged or not.
End(h, acked) ==
    LET n == NodeOf[h]
        o == handler[h].o
    IN /\ handler' = [handler EXCEPT ![h] = Free]
       /\ lock' = [lock EXCEPT ![n][o] = @ \ {h}]
       /\ hooks' = IF acked
                   THEN hooks \ {[o |-> o, kind |-> handler[h].kind]} ELSE hooks

\* The answer arrives, or is lost and the provider sends the webhook again.
Answer(h, ok) ==
    \/ End(h, ok) /\ UNCHANGED faults
    \/ ok /\ Fault("ack") /\ End(h, FALSE)

\* Variant: the status is not looked at again.
CreditAnyStatus(h, quota) ==
    LET o == handler[h].o IN
    /\ HasRoom(quota)
    /\ status' = [status EXCEPT ![o] = "success"]
    /\ wallet' = wallet + quota
    /\ credits' = [credits EXCEPT ![o] = @ + 1]
    /\ creditedOn' = [creditedOn EXCEPT ![o] = @ \cup {NodeOf[h]}]
    /\ UNCHANGED provider

\* The transaction of a recharge: a pending order and its credit, or nothing.
Credit(h, quota) ==
    LET o == handler[h].o IN
    /\ status[o] = "pending" /\ HasRoom(quota)
    /\ status' = [status EXCEPT ![o] = "success"]
    /\ wallet' = wallet + quota
    /\ credits' = [credits EXCEPT ![o] = @ + 1]
    /\ creditedOn' = [creditedOn EXCEPT ![o] = @ \cup {NodeOf[h]}]
    /\ UNCHANGED provider

Refused(h, quota) == status[handler[h].o] # "pending" \/ ~HasRoom(quota)

At(h, kind, by) ==
    /\ handler[h].pc = "work" /\ handler[h].kind = kind
    /\ provider[handler[h].o] = by

\* EpayNotify: "success" also for an order done before, otherwise "fail".
EpayNotify(h) ==
    LET o == handler[h].o IN
    /\ At(h, "paid", "epay")
    /\ \/ Credit(h, Quota("epay")) /\ Answer(h, TRUE)
       \/ status[o] = "success" /\ UNCHANGED row /\ Answer(h, TRUE)
       \/ /\ status[o] # "success" /\ Refused(h, Quota("epay"))
          /\ UNCHANGED row /\ Answer(h, FALSE)
       \/ Fault("db") /\ UNCHANGED row /\ End(h, FALSE)
    /\ UNCHANGED outcome

\* fulfillOrder of Stripe: whatever Recharge returns, the answer is 200.
StripeFulfill(h) ==
    /\ At(h, "paid", "stripe")
    /\ \/ Credit(h, Quota("stripe")) /\ Answer(h, TRUE)
       \/ Refused(h, Quota("stripe")) /\ UNCHANGED row /\ Answer(h, TRUE)
       \/ Fault("db") /\ UNCHANGED row /\ End(h, TRUE)
    /\ UNCHANGED outcome

\* sessionExpired of Stripe: UpdatePendingTopUpStatus.
StripeExpired(h) ==
    LET o == handler[h].o IN
    /\ At(h, "expired", "stripe")
    /\ \/ /\ status' = IF status[o] = "pending"
                       THEN [status EXCEPT ![o] = "expired"] ELSE status
          /\ Answer(h, TRUE)
       \/ Fault("db") /\ UNCHANGED status /\ End(h, TRUE)
    /\ UNCHANGED <<provider, wallet, credits, creditedOn, outcome>>

\* sessionAsyncPaymentFailed reads the row; a read that fails is acknowledged ...
StripeFailedRead(h) ==
    LET o == handler[h].o IN
    /\ At(h, "failed", "stripe")
    /\ \/ /\ status[o] = "pending"
          /\ handler' = [handler EXCEPT ![h].pc = "save"]
          /\ UNCHANGED <<hooks, lock, faults>>
       \/ status[o] # "pending" /\ Answer(h, TRUE)
       \/ Fault("db") /\ End(h, TRUE)
    /\ UNCHANGED <<row, outcome>>

\* ... and saves it, as failed, whatever it holds by now.
StripeFailedSave(h) ==
    LET o == handler[h].o IN
    /\ handler[h].pc = "save" /\ handler[h].kind = "failed"
    /\ \/ status' = [status EXCEPT ![o] = "failed"] /\ Answer(h, TRUE)
       \/ Fault("db") /\ UNCHANGED status /\ End(h, TRUE)
    /\ UNCHANGED <<provider, wallet, credits, creditedOn, outcome>>

\* handleCheckoutCompleted of Creem acknowledges an order that is not a one-time
\* order without more; of the others it looks at the status first ...
CreemRead(h) ==
    LET o == handler[h].o IN
    /\ \/ /\ At(h, "other", "creem")
          /\ Answer(h, TRUE)
       \/ /\ At(h, "paid", "creem")
          /\ status[o] = "pending"
          /\ handler' = [handler EXCEPT ![h].pc = "save"]
          /\ UNCHANGED <<hooks, lock, faults>>
       \/ /\ At(h, "paid", "creem")
          /\ status[o] # "pending"
          /\ Answer(h, TRUE)
       \/ /\ At(h, "paid", "creem") \/ At(h, "other", "creem")
          /\ Fault("db")
          /\ End(h, FALSE)
    /\ UNCHANGED <<row, outcome>>

\* ... and then recharges; an error is answered with 500.
RechargeCreem(h) ==
    /\ handler[h].pc = "save" /\ handler[h].kind = "paid"
    /\ \/ Credit(h, Quota("creem")) /\ Answer(h, TRUE)
       \/ Refused(h, Quota("creem")) /\ UNCHANGED row /\ Answer(h, FALSE)
       \/ Fault("db") /\ UNCHANGED row /\ End(h, FALSE)
    /\ UNCHANGED outcome

\* ManualCompleteTopUp: the amount times QuotaPerUnit, with Creem's orders too.
ManualCompleteTopUp(h) ==
    LET quota == Amount * QuotaPerUnit IN
    /\ handler[h].pc = "work" /\ handler[h].kind = "manual"
    /\ \/ Credit(h, quota) /\ End(h, FALSE) /\ UNCHANGED faults
       \/ /\ Refused(h, quota)
          /\ UNCHANGED row /\ End(h, FALSE) /\ UNCHANGED faults
       \/ Fault("db") /\ UNCHANGED row /\ End(h, FALSE)
    /\ UNCHANGED outcome

\* A node dies: its handlers and its locks are gone.
Crash(n) ==
    /\ Fault("crash")
    /\ handler' = [h \in Handlers |->
                     IF NodeOf[h] = n THEN Free ELSE handler[h]]
    /\ lock' = [lock EXCEPT ![n] = [o \in Orders |-> {}]]
    /\ UNCHANGED <<row, outcome, hooks>>

-----------------------------------------------------------------------------

Init ==
    /\ status = [o \in Orders |-> "none"]
    /\ provider = [o \in Orders |-> "none"]
    /\ wallet = Start
    /\ credits = [o \in Orders |-> 0]
    /\ creditedOn = [o \in Orders |-> {}]
    /\ outcome = [o \in Orders |-> "open"]
    /\ hooks = {}
    /\ handler = [h \in Handlers |-> Free]
    /\ lock = [n \in Nodes |-> [o \in Orders |-> {}]]
    /\ faults = 0

Serve(h) ==
    \/ EpayNotify(h) \/ StripeFulfill(h) \/ StripeExpired(h)
    \/ StripeFailedRead(h) \/ StripeFailedSave(h)
    \/ CreemRead(h) \/ RechargeCreem(h) \/ ManualCompleteTopUp(h)

Next ==
    \/ \E o \in Orders :
        \/ \E by \in Gateways[o] : RequestPay(o, by)
        \/ \E k \in Kinds : Decide(o, k)
    \/ Spend
    \/ \E h \in Handlers :
        \/ Serve(h)
        \/ \E e \in hooks : Deliver(h, e)
        \/ \E o \in Orders : AdminCompletes(h, o)
    \/ \E n \in Nodes : Crash(n)

Spec == Init /\ [][Next]_vars

\* Handlers come to an end, and a provider repeats a webhook until it is
\* acknowledged; the lock of an order is free again and again, not for good.
FairSpec ==
    /\ Spec
    /\ \A h \in Handlers : WF_vars(Serve(h))
    /\ \A o \in Orders :
        SF_vars(\E h \in Handlers, e \in hooks : e.o = o /\ Deliver(h, e))

-----------------------------------------------------------------------------
(* Properties.                                                             *)

\* However often and to how many nodes a webhook is delivered, and whoever
\* completes the order meanwhile: an order is credited at most once, a
\* successful order exactly once, and one that was neither paid nor completed by
\* hand never.  The status of a credited order changes in one case only:
\* sessionAsyncPaymentFailed on another node than the one that credited it read it
\* while it was pending, and saves it as failed (LockOrder knows one process);
\* it is not credited again then.
CreditedOnce ==
    /\ [](\A o \in Orders :
            /\ credits[o] <= 1
            /\ status[o] = "success" => credits[o] = 1
            /\ credits[o] = 1 => outcome[o] = "paid" \/ Admin)
    /\ [][\A o \in Orders :
            credits[o] = 1 /\ status'[o] # status[o] =>
                /\ status'[o] = "failed"
                /\ \E h \in Handlers :
                    /\ handler[h].pc = "save" /\ handler[h].kind = "failed"
                    /\ handler[h].o = o
                    /\ NodeOf[h] \notin creditedOn[o]]_vars

\* A payment is credited in the end, if the wallet has room for it:
\* transactions that fail, nodes that die and answers that are lost only delay
\* it.  Not so for Stripe, whose webhook acknowledges also a failed recharge, and
\* for an order that Creem does not call one-time (outcome "other"), whose webhook
\* is acknowledged and left at that.
PaidIsCredited ==
    \A o \in Orders :
        outcome[o] = "paid" /\ provider[o] # "stripe"
            ~> credits[o] = 1 \/ ~HasRoom(Quota(provider[o]))
=============================================================================
