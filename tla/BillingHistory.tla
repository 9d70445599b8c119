--------------------------- MODULE BillingHistory ---------------------------
(***************************************************************************)
(* The order history of the wallet (use-billing-history.ts and             *)
(* billing-history-dialog.tsx): a list that is fetched whenever its page,  *)
(* its page size or its settled search word changes, with a counter that   *)
(* tells the answer of the last request from answers that come late, and   *)
(* for administrators a button that completes a pending order and then     *)
(* refreshes the list.                                                     *)
(***************************************************************************)
EXTENDS Naturals

CONSTANTS Words,      \* what is typed into the search field, with NoWord
          NoWord,
          Sizes,      \* page sizes
          Orders,     \* how many orders match a word
          MaxEvents,  \* bound on what the user does
          MaxFaults   \* bound on requests that fail

HistoryAssumption ==
  /\ NoWord \in Words
  /\ Sizes \subseteq Nat \ {0} /\ Sizes # {}
  /\ Orders \in [Words -> Nat]
  /\ \E w \in Words : \A v \in Words : Orders[v] <= Orders[w]
  /\ MaxEvents \in Nat /\ MaxFaults \in Nat

VARIABLES isAdmin, page, size, keyword,
          debounced,   \* the search word once it has settled
          latest,      \* requestIdRef
          loading, records,
          requests,    \* fetches that are not answered yet
          confirming,  \* the "Complete Order" question is open
          completion,  \* the completion that runs, if one does
          left,        \* history: the last fetch was of a page that had been left
          events, faults

vars == <<isAdmin, page, size, keyword, debounced, latest, loading, records, requests,
          confirming, completion, left, events, faults>>

\* The number of the last page with rows; a list has a first page in any case.
Pages(word, n) == IF Orders[word] = 0 THEN 1 ELSE (Orders[word] + n - 1) \div n
MaxPage == 1 + CHOOSE m \in {Orders[w] : w \in Words} : \A w \in Words : Orders[w] <= m

Queries == [page : 1..MaxPage, size : Sizes, word : Words]

\* What the dialog shows: the rows of a query, or nothing after a failure.
NoRecords == [page |-> 0]
HasRows ==
  /\ records # NoRecords
  /\ Orders[records.word] > 0 /\ records.page <= Pages(records.word, records.size)
TotalPages == Pages(records.word, size)

NoCompletion == [stage |-> "idle"]
FirstSize == CHOOSE n \in Sizes : \A m \in Sizes : n <= m
Query == [page |-> page, size |-> size, word |-> debounced]

\* fetchBillingHistory of the render that has query q.
Fetch(q) ==
  /\ latest' = latest + 1
  /\ requests' = requests \cup {[id |-> latest + 1, query |-> q]}
  /\ loading' = TRUE
  /\ left' = (q # [page |-> page', size |-> size', word |-> debounced'])

\* The effect: a fetch once the word has settled, of the state the step leaves.
Effect ==
  IF keyword' = debounced'
    THEN Fetch([page |-> page', size |-> size', word |-> debounced'])
    ELSE UNCHANGED <<latest, requests, loading, left>>

Init ==
  /\ isAdmin \in BOOLEAN
  /\ page = 1 /\ size = FirstSize
  /\ keyword = NoWord /\ debounced = NoWord
  /\ latest = 1 /\ loading = TRUE
  /\ records = NoRecords
  /\ requests = {[id |-> 1, query |-> [page |-> 1, size |-> FirstSize, word |-> NoWord]]}
  /\ confirming = FALSE
  /\ completion = NoCompletion /\ left = FALSE
  /\ events = 0 /\ faults = 0

-----------------------------------------------------------------------------
(* The user; the question is modal.                                        *)

Event == ~confirming /\ events < MaxEvents /\ events' = events + 1

\* The two buttons of the pagination.
ChangePage(p) ==
  /\ Event
  /\ ~loading /\ HasRows
  /\ \/ p = page - 1 /\ page > 1
     \/ p = page + 1 /\ page < TotalPages
  /\ page' = p
  /\ UNCHANGED <<isAdmin, size, keyword, debounced, records, confirming, completion, faults>>
  /\ Effect

ChangeSize(n) ==
  /\ Event
  /\ n \in Sizes \ {size}
  /\ size' = n
  /\ page' = 1
  /\ UNCHANGED <<isAdmin, keyword, debounced, records, confirming, completion, faults>>
  /\ Effect

\* handleSearch: what is on its way is outdated from here on.
Search(word) ==
  /\ Event
  /\ word \in Words \ {keyword}
  /\ keyword' = word /\ page' = 1
  /\ UNCHANGED <<isAdmin, size, debounced, records, confirming, completion, faults>>
  /\ IF word = debounced
       THEN /\ latest' = latest + 2
            /\ requests' = requests \cup
                 {[id |-> latest + 2, query |-> [page |-> 1, size |-> size, word |-> word]]}
            /\ loading' = TRUE /\ left' = FALSE
       ELSE latest' = latest + 1 /\ UNCHANGED <<requests, loading, left>>

\* The dialog's question, asked for a row; the closing of it (Cancel, Escape).
AskComplete ==
  /\ Event
  /\ isAdmin /\ ~loading /\ HasRows /\ completion = NoCompletion
  /\ confirming' = TRUE
  /\ UNCHANGED <<isAdmin, page, size, keyword, debounced, latest, loading, records, requests,
                 completion, left, faults>>

CloseQuestion ==
  /\ confirming
  /\ confirming' = FALSE
  /\ UNCHANGED <<isAdmin, page, size, keyword, debounced, latest, loading, records, requests,
                 completion, left, events, faults>>

\* handleCompleteOrder, of the render that was on screen: it keeps the query.
ConfirmComplete ==
  /\ confirming /\ completion = NoCompletion
  /\ completion' = [stage |-> "posted", query |-> Query]
  /\ UNCHANGED <<isAdmin, page, size, keyword, debounced, latest, loading, records, requests,
                 confirming, left, events, faults>>

-----------------------------------------------------------------------------
(* Timers and answers.                                                     *)

\* useDebounce: every keystroke starts the timer again.
Settle ==
  /\ keyword # debounced
  /\ debounced' = keyword
  /\ UNCHANGED <<isAdmin, page, size, keyword, records, confirming, completion, events, faults>>
  /\ Effect

\* An answer counts if no request was made and nothing was typed since.
\* Variant: a request remembers the counter as it was before.
CountsBefore(r) == r.id + 1 = latest
Counts(r) == r.id = latest

\* The end of the refresh ends the completion and closes the question.
Refreshed(r) == completion.stage = "refreshing" /\ completion.id = r.id

Answer(r) ==
  /\ requests' = requests \ {r}
  /\ \/ records' = (IF Counts(r) THEN r.query ELSE records) /\ UNCHANGED faults
     \/ /\ faults < MaxFaults /\ faults' = faults + 1
        /\ records' = IF Counts(r) THEN NoRecords ELSE records
  /\ loading' = IF Counts(r) THEN FALSE ELSE loading
  /\ completion' = IF Refreshed(r) THEN NoCompletion ELSE completion
  /\ confirming' = IF Refreshed(r) THEN FALSE ELSE confirming
  /\ UNCHANGED <<isAdmin, page, size, keyword, debounced, latest, left, events>>

CompleteAnswered ==
  /\ completion.stage = "posted"
  /\ UNCHANGED <<isAdmin, page, size, keyword, debounced, records, confirming, events>>
  /\ \/ /\ Fetch(completion.query)
        /\ completion' = [stage |-> "refreshing", id |-> latest + 1]
        /\ UNCHANGED faults
     \/ /\ faults < MaxFaults /\ faults' = faults + 1
        /\ completion' = NoCompletion
        /\ UNCHANGED <<latest, requests, loading, left>>

-----------------------------------------------------------------------------
Next ==
  \/ \E p \in 1..MaxPage : ChangePage(p)
  \/ \E n \in Sizes : ChangeSize(n)
  \/ \E w \in Words : Search(w)
  \/ AskComplete \/ CloseQuestion \/ ConfirmComplete
  \/ Settle
  \/ \E r \in requests : Answer(r)
  \/ CompleteAnswered

Spec == Init /\ [][Next]_vars

-----------------------------------------------------------------------------
(* Properties.                                                             *)

TypeOK ==
  /\ isAdmin \in BOOLEAN
  /\ page \in 1..MaxPage /\ size \in Sizes
  /\ keyword \in Words /\ debounced \in Words
  /\ latest \in Nat /\ loading \in BOOLEAN /\ confirming \in BOOLEAN /\ left \in BOOLEAN
  /\ records \in Queries \cup {NoRecords}
  /\ requests \subseteq [id : 1..latest, query : Queries]
  /\ completion \in {NoCompletion} \cup [stage : {"posted"}, query : Queries]
                    \cup [stage : {"refreshing"}, id : 1..latest]
  /\ events \in 0..MaxEvents /\ faults \in 0..MaxFaults

\* The rows on screen are those of the page, the size and the word the dialog
\* shows, once the word has settled and nothing is loading: answers that come
\* late or out of order never replace them (requestIdRef).  Excepted is the
\* refresh after an administrator's completion, which fetches the page of the
\* click: if that page was left meanwhile, its rows stay until the next fetch.
RowsAreOfPage ==
  ~left /\ ~loading /\ keyword = debounced => records \in {Query, NoRecords}

\* The list is behind its placeholders.
Waiting == loading
=============================================================================
