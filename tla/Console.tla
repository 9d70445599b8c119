------------------------------ MODULE Console ------------------------------
(***************************************************************************)
(* Five pages of the web console, of which a tab shows one.  Each page is  *)
(* a module of its own; their states have no part in common (a page that   *)
(* is left drops its state, and what it saved is read from the server), so *)
(* they take turns in the variables v1 to v14.                             *)
(***************************************************************************)
EXTENDS Naturals, FiniteSets

CONSTANTS TestedModels, ModelPosition, Concurrency, MaxBatches, MaxSingles, MaxDeletes,
          MaxOpens,
          SavedKeys, KeyPosition, Values, RebuiltDefaults, MaxSaves, MaxOutside,
          Styles, StoredLists, MaxEntries, MaxListSaves, MaxRequestFaults,
          Words, NoWord, Sizes, OrdersFor, MaxEvents,
          Amounts, Methods, Kind, MinOf, Default,
          MaxHung    \* bound: requests that are never answered

VARIABLES shown,
          hung,      \* requests that are never answered
          v1, v2, v3, v4, v5, v6, v7, v8, v9, v10, v11, v12, v13, v14

state == <<v1, v2, v3, v4, v5, v6, v7, v8, v9, v10, v11, v12, v13, v14>>
consoleVars == <<shown, hung, state>>

\* The dialog that tests the models of a channel.
Test == INSTANCE ChannelTest WITH
  Models <- TestedModels, Position <- ModelPosition,
  srv <- v1, list <- v2, row <- v3, ui <- v4, batch <- v5, single <- v6,
  del <- v7, opens <- v8, stopped <- v9, overlap <- v10

\* A form of the system settings.
Settings == INSTANCE SettingsForm WITH
  Keys <- SavedKeys, Position <- KeyPosition, MaxEvents <- MaxOutside,
  srv <- v1, cache <- v2, stale <- v3, waiting <- v4, get <- v5, page <- v6,
  form <- v7, save <- v8, typed <- v9, behind <- v10, crossed <- v11, events <- v12

\* A list editor of the content settings.
Content == INSTANCE ContentList WITH
  Start <- StoredLists, MaxSaves <- MaxListSaves, MaxFaults <- MaxRequestFaults,
  style <- v1, srv <- v2, data <- v3, get <- v4, mounted <- v5, ui <- v6,
  save <- v7, next <- v8, gone <- v9, behind <- v10, clash <- v11, saves <- v12,
  faults <- v13

\* The order history of the wallet.
History == INSTANCE BillingHistory WITH
  Orders <- OrdersFor, MaxFaults <- MaxRequestFaults,
  isAdmin <- v1, page <- v2, size <- v3, keyword <- v4, debounced <- v5,
  latest <- v6, loading <- v7, records <- v8, requests <- v9,
  confirming <- v10, completion <- v11, left <- v12, events <- v13, faults <- v14

\* The recharge form of the wallet.
Wallet == INSTANCE WalletPayment WITH
  MaxFaults <- MaxRequestFaults,
  amount <- v1, method <- v2, waffo <- v3, price <- v4, calculating <- v5,
  choosing <- v6, dialog <- v7, processing <- v8, quotes <- v9,
  payments <- v10, events <- v11, faults <- v12

Pages == {"test", "settings", "content", "history", "wallet"}
Unused == "unused"

ASSUME ConsoleAssumption ==
  /\ Test!ChannelTestAssumption
  /\ Settings!SettingsFormAssumption
  /\ Content!ContentListAssumption
  /\ History!HistoryAssumption
  /\ Wallet!WalletAssumption

-----------------------------------------------------------------------------
ConsoleInit ==
  /\ hung = {}
  /\ \/ /\ shown = "test" /\ Test!Init
        /\ v11 = Unused /\ v12 = Unused /\ v13 = Unused /\ v14 = Unused
     \/ shown = "settings" /\ Settings!Init /\ v13 = Unused /\ v14 = Unused
     \/ shown = "content" /\ Content!Init /\ v14 = Unused
     \/ shown = "history" /\ History!Init
     \/ shown = "wallet" /\ Wallet!Init /\ v13 = Unused /\ v14 = Unused

InTest(A) == shown = "test" /\ A /\ UNCHANGED <<shown, hung, v11, v12, v13, v14>>
InSettings(A) == shown = "settings" /\ A /\ UNCHANGED <<shown, hung, v13, v14>>
InContent(A) == shown = "content" /\ A /\ UNCHANGED <<shown, hung, v14>>
InHistory(A) == shown = "history" /\ A /\ UNCHANGED <<shown, hung>>
InWallet(A) == shown = "wallet" /\ A /\ UNCHANGED <<shown, hung, v13, v14>>

\* The requests on their way that a page may be waiting for; of a settings form
\* the saves, whose updates follow one another.
Requests ==
  CASE shown = "test" -> {r \in (1..MaxBatches) \X TestedModels : r[2] \in v5[r[1]].flight}
    [] shown = "settings" -> {s \in 1..MaxSaves : Settings!Active(s)}
    [] shown = "content" -> {}
    [] shown \in {"history", "wallet"} -> {r.id : r \in v9}

\* A request will not be answered: api has no timeout that would end it, and by
\* default neither has the server's call to the upstream that a test waits for.
Hang ==
  /\ Cardinality(hung) < MaxHung
  /\ \E r \in Requests \ hung : hung' = hung \cup {r}
  /\ UNCHANGED <<shown, state>>

PageStep ==
  /\ \/ InTest(Test!Next)
     \/ InSettings(Settings!Next)
     \/ InContent(Content!Next)
     \/ InHistory(History!Next)
     \/ InWallet(Wallet!Next)
  /\ hung \subseteq Requests'

ConsoleNext == PageStep \/ Hang

ConsoleSpec == ConsoleInit /\ [][ConsoleNext]_consoleVars

\* A request that does not hang is answered or fails, its continuation runs, and
\* timers fire.
Fairness ==
  /\ \A b \in 1..MaxBatches :
       WF_consoleVars(InTest(\/ Test!Wake(b)
                             \/ \E m \in TestedModels, r \in Test!Outcome :
                                   <<b, m>> \notin hung /\ Test!BatchAnswered(b, m, r)))
  /\ \A s \in 1..MaxSaves :
       WF_consoleVars(InSettings(/\ s \notin hung
                                 /\ \/ Settings!ServeUpdate(s) \/ Settings!UpdateAnswered(s)
                                    \/ Settings!UpdateFailed(s)))
  /\ WF_consoleVars(InHistory(History!Settle))
  /\ WF_consoleVars(InHistory(\E r \in v9 : r.id \notin hung /\ History!Answer(r)))
  /\ WF_consoleVars(InWallet(\E q \in v9 : q.id \notin hung /\ Wallet!QuoteAnswered(q)))

FairConsoleSpec == ConsoleSpec /\ Fairness

-----------------------------------------------------------------------------
(* Properties.                                                             *)

\* What each page promises of its steps, with the exceptions its module states.
\* A batch of tests is shown while it runs and a stop is honoured, unless the
\* dialog was reopened and a second batch started before the first one looked at
\* the stop flag (overlap); a deletion takes only models that failed, of its own
\* or of an earlier deletion's (channel-test-dialog.tsx).  A settings form writes
\* only what was typed since it was last filled and comes to show what the server
\* holds, unless an update was refused or failed, another administrator or save
\* interfered, or an answer was outdated (use-settings-form.ts).  A list's entries
\* have their own ids, unless they clashed when it was stored, and a save keeps
\* the entries nobody deleted, unless the list was replaced by an older one
\* (behind; content/*.tsx).  Rows are those of the page shown, unless a completion
\* refreshed a page that had been left (use-billing-history.ts).  One order is
\* requested at a time, and a confirmation requests one (features/wallet/index.tsx).
KeepsItsWord ==
  CASE shown = "test" ->
         /\ (Test!TypeOK /\ Test!BatchIsShown /\ Test!BatchModeHasBatch)'
         /\ Test!StopIsHonoured /\ Test!OthersAreKept
    [] shown = "settings" ->
         /\ (Settings!TypeOK /\ Settings!SavedIsShown)'
         /\ Settings!OnlyTypedIsWritten
    [] shown = "content" ->
         (Content!TypeOK /\ Content!IdsDiffer /\ Content!SaveKeepsOthers)'
    [] shown = "history" -> (History!TypeOK /\ History!RowsAreOfPage)'
    [] shown = "wallet" -> (Wallet!TypeOK /\ Wallet!OneOrderAtATime /\ Wallet!ConfirmAsks)'

\* Every step of the page shown keeps what the page promises, as KeepsItsWord
\* lists it with its exceptions.
PagesKeepTheirWord == [][KeepsItsWord]_consoleVars

\* The page shown keeps its user waiting: a batch of tests that was stopped still
\* runs, options are being saved, the history shows placeholders, or the payment
\* buttons are disabled until a price is known.
Waits ==
  CASE shown = "test" -> Test!Waiting
    [] shown = "settings" -> Settings!Submitting
    [] shown = "content" -> FALSE
    [] shown = "history" -> History!Waiting
    [] shown = "wallet" -> Wallet!Waiting

\* A request hangs that the page waits for: a test of the batch, an update of the
\* form's own save, the last fetch, or the price of the method that was chosen.
Stuck ==
  CASE shown = "test" -> hung \cap Requests # {}
    [] shown = "settings" -> \E s \in hung : v8[s].mine /\ Settings!Active(s)
    [] shown = "content" -> FALSE
    [] shown = "history" -> v6 \in hung
    [] shown = "wallet" -> \E q \in v9 : q.id \in hung /\ q.opens

\* No page waits for ever unless the very request it waits for hangs: the stopped
\* batch ends, the save ends whatever its answers, the placeholders go although
\* outdated answers do not count or never come, and the payment buttons can be
\* used again after every choice, whatever becomes of earlier prices.
WaitingEnds == Waits ~> (~Waits \/ Stuck)
=============================================================================
