----------------------------- MODULE TableState -----------------------------
(***************************************************************************)
(* The state of a data table of the web console (the channels and the API  *)
(* keys table): its filters and its page live in the URL and in React      *)
(* state at the same time (hooks/use-table-url-state.ts), one text filter  *)
(* is typed through a debounced field (components/data-table/hooks/        *)
(* use-debounced-column-filter.ts), the global search through the toolbar  *)
(* (components/data-table/toolbar/toolbar.tsx), and the page is pulled     *)
(* back into range when the list turns out shorter (hooks/use-data-table). *)
(*                                                                         *)
(* A handler changes the state of the components and pushes URLs; the      *)
(* router hands the new URL to the table later (Route); the effects whose  *)
(* dependencies changed run in one step, in React's order, before the next *)
(* event is taken (Effects); timers and answers come at any time.          *)
(***************************************************************************)
EXTENDS Naturals, Sequences, SequencesExt

CONSTANTS
    Words,             \* the texts a user types, apart from blanks
    Statuses,          \* the options of the status chip
    PageSizes,         \* the page sizes offered
    DefaultPageSize,   \* defaultPageSize
    Rows(_, _, _),     \* how many rows the server has for text, status, global
    RemembersStatus,   \* the channels table keeps the status in localStorage
    MaxEvents,         \* bound: what the user does
    MaxHistory         \* bound: URLs in the tab's history

NoWord == "empty"
NoStatus == "none"

ASSUME TableAssumption ==
    /\ NoWord \notin Words /\ NoStatus \notin Statuses
    /\ PageSizes \subseteq Nat \ {0} /\ DefaultPageSize \in PageSizes
    /\ RemembersStatus \in BOOLEAN
    /\ MaxEvents \in Nat /\ MaxHistory \in Nat \ {0}

\* A text is a word, or none, with or without blanks around it.
Texts == [word : Words \cup {NoWord}, padded : BOOLEAN]
Empty == [word |-> NoWord, padded |-> FALSE]
IsBlank(t) == t.word = NoWord

Trim(t) == [t EXCEPT !.padded = FALSE]

Options == Statuses \cup {NoStatus}
MaxRows == CHOOSE n \in {Rows(t, s, g) : t, g \in Texts, s \in Options} :
             \A t, g \in Texts, s \in Options : Rows(t, s, g) <= n

(***************************************************************************)
(* A URL holds the page (1 when absent), the page size (0 when absent),    *)
(* the text filter, the status and the global search.                      *)
(***************************************************************************)
Urls == [page : 1 .. MaxRows, size : PageSizes \cup {0},
         text : Texts, status : Options, global : Texts]
FirstUrl == [page |-> 1, size |-> 0, text |-> Empty,
             status |-> NoStatus, global |-> Empty]

VARIABLES
    history,   \* the tab's URLs up to the current one
    search,    \* the URL the router has handed to the table
    pageSize,  \* pagination's page size, memoised on search
    astray,    \* Back has changed the URL's search since it was last written
    stored,    \* localStorage: page-size (0: none) and the channels' status
    filters,   \* columnFilters: the text and the status
    global,    \* globalFilter
    field,     \* the debounced field: inputValue, pendingValue, debouncedValue
    draft,     \* the toolbar's searchDraft (baseValue, value), or NoDraft
    searched,  \* the toolbar's debouncedSearchValue
    composing, \* the input an IME composition is under way in
    data,      \* the list's query and its total
    seen,      \* the dependencies the effects last ran with
    left       \* events the user may still cause

vars == <<history, search, pageSize, astray, stored, filters, global, field, draft, searched,
          composing, data, seen, left>>

NoDraft == [base |-> Empty, value |-> Empty, on |-> FALSE]
Filters == [text : Texts, status : Options]

Url == Last(history)

---------------------------------------------------------------------------
(* What the components compute from their state when they render. *)

\* deserialize of the channels table: without a status in the URL the
\* remembered one counts.
StatusOf(raw) ==
    IF raw = NoStatus /\ RemembersStatus THEN stored.status ELSE raw

\* initialColumnFilters
InitialFilters(url) == [text |-> IF IsBlank(url.text) THEN Empty ELSE url.text,
                        status |-> StatusOf(url.status)]

\* pagination, computed when the search has changed.
PageSize(url) ==
    IF url.size # 0 THEN url.size
    ELSE IF stored.size # 0 THEN stored.size ELSE DefaultPageSize

Query == [text |-> filters.text, status |-> filters.status, global |-> global,
          page |-> search.page, size |-> pageSize]

PageCount == (data.total + pageSize - 1) \div pageSize

\* The toolbar shows the draft while the value it was typed over is current.
ActiveDraft == draft.on /\ (composing = "search" \/ draft.base = global)
SearchValue == IF ActiveDraft THEN draft.value ELSE global

\* What the dependency arrays of the effects hold in this render.
Deps == [search |-> search, value |-> filters.text,
         debounced |-> field.debounced, global |-> global,
         searched |-> searched, shown |-> SearchValue,
         composing |-> (composing = "search"),
         pages |-> PageCount]

EffectsDue == Deps # seen

---------------------------------------------------------------------------
(* Navigation: the new search is computed from the latest URL, and a URL   *)
(* equal to the current one is not pushed again.                           *)

Push(h, url) == IF url = Last(h) THEN h ELSE Append(h, url)
Replace(h, url) == Append(Front(h), url)

\* The URL onColumnFiltersChange makes: every configured filter is written,
\* blank ones as absent, and the page starts over.
WithFilters(url, f) ==
    [url EXCEPT !.page = 1, !.status = f.status,
                !.text = IF IsBlank(f.text) THEN Empty ELSE f.text]

WithGlobal(url, t) == [url EXCEPT !.page = 1, !.global = Trim(t)]

\* handleColumnFiltersChange of the channels table remembers the status.
Remember(status) ==
    [stored EXCEPT !.status = IF RemembersStatus THEN status ELSE @]

---------------------------------------------------------------------------
(* The effects, in the order React runs them: the toolbar's first (a       *)
(* child), then the table's own.                                           *)

\* The toolbar commits what was typed once the typing has settled.
CommitsSearch ==
    /\ <<Deps.global, Deps.searched, Deps.shown, Deps.composing>>
         # <<seen.global, seen.searched, seen.shown, seen.composing>>
    /\ composing # "search" /\ searched = SearchValue /\ searched # global

\* The debounced field applies its value when that and the filter differ.
AppliesField ==
    /\ Deps.value # seen.value \/ Deps.debounced # seen.debounced
    /\ field.debounced # filters.text

Applied == [filters EXCEPT !.text = field.debounced]

\* ensurePageInRange, called after every render.
OutOfRange == PageCount > 0 /\ search.page > PageCount

\* Variant: the URL's filters are taken only when the table mounts.
NextFiltersLocal == IF AppliesField THEN Applied ELSE filters

NextFilters ==
    IF AppliesField THEN Applied
    ELSE IF search # seen.search THEN InitialFilters(search) ELSE filters

NextHistory ==
    LET h1 == IF CommitsSearch THEN Push(history, WithGlobal(Url, searched))
              ELSE history
        h2 == IF AppliesField THEN Push(h1, WithFilters(Last(h1), Applied))
              ELSE h1
    IN  IF OutOfRange THEN Replace(h2, [Last(h2) EXCEPT !.page = 1]) ELSE h2

\* The field is aligned with a filter that changed, unless it is composed in.
AlignedField ==
    IF Deps.value = seen.value THEN field
    ELSE [field EXCEPT !.pending = filters.text,
                       !.input = IF composing = "filter" THEN @
                                 ELSE filters.text]

Effects ==
    /\ EffectsDue
    /\ Len(NextHistory) <= MaxHistory
    /\ seen' = Deps
    /\ history' = NextHistory
    /\ global' = IF CommitsSearch THEN Trim(searched) ELSE global
    /\ astray' = (astray /\ ~CommitsSearch)
    /\ filters' = NextFilters
    /\ field' = AlignedField
    /\ UNCHANGED <<search, pageSize, stored, draft, searched, composing, data, left>>

---------------------------------------------------------------------------
(* The router, the timers and the server. *)

Route ==
    /\ ~EffectsDue /\ search # Url
    /\ search' = Url
    /\ pageSize' = PageSize(Url)
    /\ UNCHANGED <<history, astray, stored, filters, global, field, draft, searched,
                   composing, data, seen, left>>

FieldTimer ==
    /\ ~EffectsDue /\ field.debounced # field.pending
    /\ field' = [field EXCEPT !.debounced = field.pending]
    /\ UNCHANGED <<history, search, pageSize, astray, stored, filters, global, draft, searched,
                   composing, data, seen, left>>

SearchTimer ==
    /\ ~EffectsDue /\ searched # SearchValue
    /\ searched' = SearchValue
    /\ UNCHANGED <<history, search, pageSize, astray, stored, filters, global, field, draft,
                   composing, data, seen, left>>

\* The list arrives; until then the previous one stands in (placeholderData).
DataArrives ==
    /\ ~EffectsDue /\ data.query # Query
    /\ \E total \in {Rows(Query.text, Query.status, Query.global), 0} :
         data' = [query |-> Query, total |-> total]
    /\ UNCHANGED <<history, search, pageSize, astray, stored, filters, global, field, draft,
                   searched, composing, seen, left>>

---------------------------------------------------------------------------
(* The user. The router needs no network to change the search of the page  *)
(* it shows, so it is done before the user's next event; a timer may still *)
(* come first.                                                             *)

Event == ~EffectsDue /\ search = Url /\ left > 0 /\ left' = left - 1

\* updateInputValue: text under composition is not pending yet.
TypeField(t) ==
    /\ Event /\ t # field.input
    /\ field' = [field EXCEPT !.input = t,
                              !.pending = IF composing = "filter" THEN @ ELSE t]
    /\ UNCHANGED <<history, search, pageSize, astray, stored, filters, global, draft, searched,
                   composing, data, seen>>

\* handleSearchChange
TypeSearch(t) ==
    /\ Event /\ t # SearchValue
    /\ draft' = [base |-> global, value |-> t, on |-> TRUE]
    /\ UNCHANGED <<history, search, pageSize, astray, stored, filters, global, field, searched,
                   composing, data, seen>>

ComposeStart(input) ==
    /\ Event /\ composing = "none"
    /\ composing' = input
    /\ UNCHANGED <<history, search, pageSize, astray, stored, filters, global, field, draft,
                   searched, data, seen>>

\* handleCompositionEnd of the field, handleSearchCompositionEnd.
ComposeEnd ==
    /\ ~EffectsDue /\ composing # "none"
    /\ composing' = "none"
    /\ field' = IF composing = "filter"
                THEN [field EXCEPT !.pending = field.input] ELSE field
    /\ draft' = IF composing = "search"
                THEN [base |-> global, value |-> SearchValue, on |-> TRUE]
                ELSE draft
    /\ UNCHANGED <<history, search, pageSize, astray, stored, filters, global, searched, data,
                   seen, left>>

\* handleOptionSelect of a chip: chooses it, or clears the chosen one.
ChooseStatus(s) ==
    LET next == [filters EXCEPT !.status = IF @ = s THEN NoStatus ELSE s] IN
    /\ Event
    /\ Len(Push(history, WithFilters(Url, next))) <= MaxHistory
    /\ filters' = next
    /\ stored' = Remember(next.status)
    /\ history' = Push(history, WithFilters(Url, next))
    /\ UNCHANGED <<search, pageSize, astray, global, field, draft, searched,
                   composing, data, seen>>

\* onPaginationChange with another page; the buttons end at the page count.
ChangePage(p) ==
    LET url == [Url EXCEPT !.page = p, !.size = pageSize] IN
    /\ Event /\ p \in 1 .. PageCount /\ p # search.page
    /\ Len(Push(history, url)) <= MaxHistory
    /\ history' = Push(history, url)
    /\ UNCHANGED <<search, pageSize, astray, stored, filters, global, field, draft, searched,
                   composing, data, seen>>

\* table.setPageSize keeps the first row of the page in view.
ChangePageSize(n) ==
    LET top == pageSize * (search.page - 1)
        url == [Url EXCEPT !.page = top \div n + 1, !.size = n]
    IN  /\ Event /\ n # pageSize
        /\ Len(Push(history, url)) <= MaxHistory
        /\ history' = Push(history, url)
        /\ stored' = [stored EXCEPT !.size = n]
        /\ UNCHANGED <<search, pageSize, astray, filters, global, field, draft,
                       searched, composing, data, seen>>

IsFiltered == filters # [text |-> Empty, status |-> NoStatus] \/ global # Empty

\* handleReset and the table's onReset (resetInput): everything is emptied at
\* once, the column filters and the search each by a navigation.
Reset ==
    LET none == [text |-> Empty, status |-> NoStatus]
        h1 == Push(history, WithFilters(Url, none))
        h2 == Push(h1, WithGlobal(Last(h1), Empty))
    IN  /\ Event /\ IsFiltered
        /\ Len(h2) <= MaxHistory
        /\ history' = h2
        /\ filters' = none
        /\ stored' = Remember(NoStatus)
        /\ global' = Empty
        /\ draft' = NoDraft
        /\ field' = [field EXCEPT !.input = Empty, !.pending = Empty]
        /\ composing' = "none"
        /\ astray' = FALSE
        /\ UNCHANGED <<search, pageSize, searched, data, seen>>

\* The browser's Back button, within the table's own URLs.  No effect brings the
\* URL's search to the table.
Back ==
    /\ Event /\ Len(history) > 1
    /\ history' = Front(history)
    /\ astray' = (astray \/ Last(Front(history)).global # Url.global)
    /\ UNCHANGED <<search, pageSize, stored, filters, global, field, draft,
                   searched, composing, data, seen>>

User ==
    \/ \E t \in Texts : TypeField(t) \/ TypeSearch(t)
    \/ \E i \in {"filter", "search"} : ComposeStart(i)
    \/ ComposeEnd
    \/ \E s \in Statuses : ChooseStatus(s)
    \/ \E p \in 1 .. MaxRows : ChangePage(p)
    \/ \E n \in PageSizes : ChangePageSize(n)
    \/ Reset
    \/ Back

---------------------------------------------------------------------------
\* The table is opened without a search, nothing stored yet.
Init ==
    /\ history = <<FirstUrl>> /\ search = FirstUrl
    /\ pageSize = DefaultPageSize /\ astray = FALSE
    /\ stored = [size |-> 0, status |-> NoStatus]
    /\ filters = [text |-> Empty, status |-> NoStatus]
    /\ global = Empty
    /\ field = [input |-> Empty, pending |-> Empty, debounced |-> Empty]
    /\ draft = NoDraft /\ searched = Empty /\ composing = "none"
    /\ data = [query |-> [text |-> Empty, status |-> NoStatus,
                          global |-> Empty, page |-> 1,
                          size |-> DefaultPageSize],
               total |-> Rows(Empty, NoStatus, Empty)]
    /\ seen = [search |-> FirstUrl, value |-> Empty, debounced |-> Empty,
               global |-> Empty, searched |-> Empty, shown |-> Empty,
               composing |-> FALSE,
               pages |-> (Rows(Empty, NoStatus, Empty) + DefaultPageSize - 1)
                           \div DefaultPageSize]
    /\ left = MaxEvents

System == Effects \/ Route \/ FieldTimer \/ SearchTimer \/ DataArrives

Next == System \/ User

Spec == Init /\ [][Next]_vars

\* The browser runs effects, navigations, timers and answers sooner or later.
FairSpec ==
    Spec /\ WF_vars(Effects) /\ WF_vars(Route) /\ WF_vars(FieldTimer)
         /\ WF_vars(SearchTimer) /\ WF_vars(DataArrives)

---------------------------------------------------------------------------
(***************************************************************************)
(* Properties                                                              *)
(***************************************************************************)

\* Every part of the state keeps its type; in particular the page in the URL
\* is one the list can have.
TypeOK ==
    /\ history \in Seq(Urls) /\ Len(history) \in 1 .. MaxHistory
    /\ search \in Urls /\ pageSize \in PageSizes /\ astray \in BOOLEAN
    /\ stored \in [size : PageSizes \cup {0}, status : Options]
    /\ filters \in Filters /\ global \in Texts /\ ~global.padded
    /\ field \in [input : Texts, pending : Texts, debounced : Texts]
    /\ draft \in [base : Texts, value : Texts, on : BOOLEAN]
    /\ searched \in Texts /\ composing \in {"none", "filter", "search"}
    /\ data.total \in 0 .. MaxRows
    /\ left \in 0 .. MaxEvents

\* Nothing is under way: the router, the effects, the timers and the list
\* have caught up with what was done last.
Quiet ==
    /\ ~EffectsDue /\ search = Url
    /\ field.debounced = field.pending /\ searched = SearchValue
    /\ data.query = Query

\* Blank texts filter nothing.
SameText(t, u) == t = u \/ (IsBlank(t) /\ IsBlank(u))

\* The rows are filtered by what the URL says, so that a link or a reload shows
\* the same list.  Column filters follow the URL whatever changed it; the global
\* search is only written to it, so that after a Back over a search the table
\* keeps the search it had, until the next one is committed or all is reset.
ShownIsUrl == /\ filters.status = InitialFilters(Url).status
              /\ SameText(filters.text, Url.text)
              /\ astray \/ global = Url.global

\* The two inputs show what the list is filtered by: nothing typed is lost,
\* nothing is applied unseen.
InputsAreApplied ==
    composing = "none" => field.input = filters.text /\ Trim(SearchValue) = global

\* The table does not stand on a page behind the end of a list that has rows.
PageInRange == data.total > 0 => search.page <= PageCount

\* Whatever was done, effects, navigations and timers come to rest, no effect
\* undoes another for ever; and then the inputs show what the rows are filtered
\* by, the rows are those of the URL, but for its search after a Back over one
\* (use-table-url-state.ts:183 reads it only when the table mounts), and the page
\* exists (use-table-url-state.ts, use-debounced-column-filter.ts, toolbar.tsx).
\* The user may stop at any time, so this is so of every rest.
ComesToRest == <>[](Quiet /\ ShownIsUrl /\ InputsAreApplied /\ PageInRange)
=============================================================================
