--------------------------- MODULE WalletPayment ---------------------------
(***************************************************************************)
(* Paying from the wallet page (features/wallet): an amount is typed or    *)
(* picked, a payment method is chosen, the server is asked what the amount *)
(* costs with the method, a dialog shows the price, and its confirmation   *)
(* creates the order.  Every change of the amount asks for a price of its  *)
(* own and the answers set one shared price, in the order they come.       *)
(***************************************************************************)
EXTENDS Naturals

CONSTANTS Amounts,
          Methods,     \* the payment methods the server offers
          Kind,        \* "regular", "waffo" or "pancake", for each method
          MinOf,       \* the least amount of each method
          Default,     \* the method whose price is shown before one is chosen
          MaxEvents, MaxFaults

Kinds == {"regular", "waffo", "pancake"}
NoMethod == "none"

WalletAssumption ==
  /\ Amounts \subseteq Nat /\ Amounts # {}
  /\ Kind \in [Methods -> Kinds] /\ MinOf \in [Methods -> Nat]
  /\ Default \in Methods /\ NoMethod \notin Methods
  /\ MaxEvents \in Nat /\ MaxFaults \in Nat

VARIABLES amount, method,
          waffo,       \* selectedWaffoMethodIndex is set
          price,       \* what the price on screen is the price of
          calculating,
          choosing,    \* paymentLoading: the method whose price is awaited
          dialog,      \* the confirmation is open
          processing,  \* the flags of the three payment hooks
          quotes,      \* requests for a price that are not answered yet
          payments,    \* requests for an order that are not answered yet
          events, faults

vars == <<amount, method, waffo, price, calculating, choosing, dialog, processing,
          quotes, payments, events, faults>>

NoPrice == [amount |-> 0, method |-> NoMethod]
LeastAmount == CHOOSE a \in Amounts : \A b \in Amounts : a <= b

\* getCurrentPaymentType
CurrentPaymentType == IF method = NoMethod THEN Default ELSE method

\* calculatePaymentAmount
Quote(a, m, opens) ==
  /\ quotes' = quotes \cup {[id |-> events', amount |-> a, method |-> m, opens |-> opens]}
  /\ calculating' = TRUE

\* The page as it is once the effect has asked for the price of the least amount.
Init ==
  /\ amount = LeastAmount /\ method = NoMethod /\ waffo = FALSE
  /\ price = NoPrice /\ calculating = TRUE
  /\ choosing = NoMethod /\ dialog = FALSE
  /\ processing = [k \in Kinds |-> FALSE]
  /\ quotes = {[id |-> 0, amount |-> LeastAmount, method |-> Default, opens |-> FALSE]}
  /\ payments = {}
  /\ events = 0 /\ faults = 0

-----------------------------------------------------------------------------
(* The user.                                                               *)

Event == events < MaxEvents /\ events' = events + 1

\* handleTopupAmountChange, handleSelectPreset; the dialog is modal.
ChangeAmount(a) ==
  /\ Event /\ ~dialog
  /\ a \in Amounts \ {amount}
  /\ amount' = a
  /\ Quote(a, CurrentPaymentType, FALSE)
  /\ UNCHANGED <<method, waffo, price, choosing, dialog, processing, payments, faults>>

\* The waffo buttons set the index with the method, the others clear it.
IndexSet(m) == Kind[m] = "waffo"

\* handlePaymentMethodSelect, handleWaffoMethodSelect: the buttons ask for the
\* least amount, and for a choice that is not under way.
ChooseMethod(m) ==
  /\ Event /\ ~dialog
  /\ choosing = NoMethod /\ amount >= MinOf[m]
  /\ method' = m
  /\ waffo' = IndexSet(m)
  /\ choosing' = m
  /\ Quote(amount, m, TRUE)
  /\ UNCHANGED <<amount, price, dialog, processing, payments, faults>>

\* The flag the dialog's buttons are disabled by: that of any payment hook.
Busy == \E k \in Kinds : processing[k]

\* handlePaymentConfirm and dispatchSelectedPayment: without an index the waffo
\* dispatch ends before it asks for anything.
Confirm ==
  /\ Event /\ dialog /\ ~Busy
  /\ method # NoMethod
  /\ Kind[method] = "waffo" => waffo
  /\ processing' = [processing EXCEPT ![Kind[method]] = TRUE]
  /\ payments' = payments \cup {[id |-> events', amount |-> amount, method |-> method]}
  /\ UNCHANGED <<amount, method, waffo, price, calculating, choosing, dialog, quotes, faults>>

\* Cancel or, at any time, Escape.
CloseDialog ==
  /\ dialog
  /\ dialog' = FALSE
  /\ UNCHANGED <<amount, method, waffo, price, calculating, choosing, processing,
                 quotes, payments, events, faults>>

-----------------------------------------------------------------------------
(* Answers.                                                                *)

\* The end of a choice: the finally of the handler.
ChoiceEnds(q) == q.opens

\* A refused, failed or empty answer is a price of 0; the dialog opens anyway.
QuoteAnswered(q) ==
  /\ quotes' = quotes \ {q}
  /\ \/ price' = [amount |-> q.amount, method |-> q.method] /\ UNCHANGED faults
     \/ price' = NoPrice /\ faults < MaxFaults /\ faults' = faults + 1
  /\ calculating' = FALSE
  /\ choosing' = IF ChoiceEnds(q) THEN NoMethod ELSE choosing
  /\ dialog' = (dialog \/ q.opens)
  /\ UNCHANGED <<amount, method, waffo, processing, payments, events>>

\* The order exists and its page opens, or the request failed.
PaymentAnswered(p) ==
  /\ payments' = payments \ {p}
  /\ processing' = [processing EXCEPT ![Kind[p.method]] = FALSE]
  /\ \/ dialog' = FALSE /\ UNCHANGED faults
     \/ faults < MaxFaults /\ faults' = faults + 1 /\ UNCHANGED dialog
  /\ UNCHANGED <<amount, method, waffo, price, calculating, choosing, quotes, events>>

-----------------------------------------------------------------------------
Next ==
  \/ \E a \in Amounts : ChangeAmount(a)
  \/ \E m \in Methods : ChooseMethod(m)
  \/ Confirm \/ CloseDialog
  \/ \E q \in quotes : QuoteAnswered(q)
  \/ \E p \in payments : PaymentAnswered(p)

Spec == Init /\ [][Next]_vars

-----------------------------------------------------------------------------
(* Properties.                                                             *)

Prices == [amount : Amounts, method : Methods]

TypeOK ==
  /\ amount \in Amounts /\ method \in Methods \cup {NoMethod}
  /\ price \in Prices \cup {NoPrice}
  /\ waffo \in BOOLEAN /\ calculating \in BOOLEAN /\ dialog \in BOOLEAN
  /\ choosing \in Methods \cup {NoMethod}
  /\ processing \in [Kinds -> BOOLEAN]
  /\ quotes \subseteq [id : 0..MaxEvents, amount : Amounts, method : Methods, opens : BOOLEAN]
  /\ payments \subseteq [id : 0..MaxEvents, amount : Amounts, method : Methods]
  /\ events \in 0..MaxEvents /\ faults \in 0..MaxFaults

\* One order at a time: however the dialog is closed and opened again with
\* another method while an order is requested, no second one is requested before
\* the first is answered (the dialog's processing flag joins three hooks).
OneOrderAtATime == \A p, q \in payments : p = q

\* A confirmation is never swallowed: when the dialog is open, a method is chosen
\* and a waffo method has its index, so dispatchSelectedPayment asks for an order.
ConfirmAsks == dialog => method # NoMethod /\ (Kind[method] = "waffo" => waffo)

\* A payment button shows its spinner and the others are disabled.
Waiting == choosing # NoMethod
=============================================================================
