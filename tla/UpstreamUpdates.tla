-------------------------- MODULE UpstreamUpdates --------------------------
(***************************************************************************)
(* Staged model updates of channels.  A detection compares the models of a *)
(* channel with the list its upstream offers and stages what could be      *)
(* added and removed; an administrator picks from the staged lists in a    *)
(* dialog of the web console (use-channel-upstream-updates.ts,             *)
(* upstream-update-dialog.tsx), or applies all of them.  On the server     *)
(* (controller/channel_upstream_update.go) each handler reads channels and *)
(* later writes their settings back whole, so handlers overlap.            *)
(***************************************************************************)
EXTENDS Naturals, FiniteSets

CONSTANTS Channels, Models,
          Base,        \* the models of each channel at first
          Sources,     \* the names each channel's model_mapping redirects ...
          Targets,     \* ... and the names it redirects them to
          Patterns,    \* the models that a `regex:` entry of its ignored list matches
          Offers,      \* the lists an upstream may answer with
          AutoSync,    \* channels whose scheduled detection adds at once
          Jobs,        \* the handlers used, see JobKinds
          MaxJobs,     \* bound on the handlers started
          MaxEvents    \* bound on lost requests, failed fetches and changes of
                       \* what upstreams offer

JobKinds == {"apply", "all", "detect", "task"}

ASSUME ChannelAssumption ==
  /\ {Base, Sources, Targets, Patterns} \subseteq [Channels -> SUBSET Models]
  /\ Offers \subseteq SUBSET Models
  /\ AutoSync \subseteq Channels
ASSUME JobAssumption ==
  /\ Jobs \subseteq JobKinds
  /\ MaxJobs \in Nat /\ MaxEvents \in Nat

VARIABLES db,        \* models and settings of the channels
          offered,   \* what each upstream lists now
          rows,      \* the staged lists as the console's table has them
          modal,     \* the hook: the dialog's channel and its two lists
          selected,  \* the dialog: the ticked models of each list
          asking,    \* the dialog: "Partial Submission" is open
          job,       \* the handlers
          seen,      \* what upstreams have ever listed, and ever left out
          told,      \* what applies have reported as added, removed and ignored,
                     \* and no later handler has been asked to undo
          crossed,   \* channels a handler wrote after another had, since its read
          jobs, events

console == <<rows, modal, selected, asking>>
bounds == <<jobs, events>>
history == <<seen, told, crossed>>
updatesVars == <<db, offered, console, job, history, bounds>>

NoChannel == "none"
Nothing == [add |-> {}, remove |-> {}]
Closed == [channel |-> NoChannel, add |-> {}, remove |-> {}]
NoDecision == [add |-> {}, remove |-> {}, ignore |-> {}]
NoJob == [stage |-> "idle", todo |-> {}, snap |-> <<>>, ask |-> Nothing,
          ignore |-> {}]

Staged(c) == [add |-> db[c].add, remove |-> db[c].remove]

\* collectPendingUpstreamModelChangesFromModels: a redirect covers its target,
\* and its source is an alias that no upstream has to list.
PendingAdd(s, c) == offered[c] \ (s.models \cup Targets[c] \cup s.ignored \cup Patterns[c])
PendingRemove(s, c) == (s.models \ Sources[c]) \ offered[c]

NewChannel(c) == [models |-> Base[c], add |-> {}, remove |-> {}, ignored |-> {}]

\* At first the channels have not been looked at, or a detection has staged
\* what their upstreams offer and the table shows it.
UpdatesInit ==
  /\ offered \in [Channels -> Offers]
  /\ \/ db = [c \in Channels |-> NewChannel(c)]
     \/ db = [c \in Channels |->
                [NewChannel(c) EXCEPT !.add = PendingAdd(NewChannel(c), c),
                                      !.remove = PendingRemove(NewChannel(c), c)]]
  /\ rows = [c \in Channels |-> Staged(c)]
  /\ modal = Closed
  /\ selected = Nothing
  /\ asking = FALSE
  /\ job = [j \in Jobs |-> NoJob]
  /\ seen = [c \in Channels |-> [listed |-> offered[c], absent |-> Models \ offered[c]]]
  /\ told = [c \in Channels |-> NoDecision]
  /\ crossed = {}
  /\ jobs = 0 /\ events = 0

-----------------------------------------------------------------------------
(* The console.                                                            *)

\* openModal, from the tags of a row: the lists of the row become the dialog's.
\* The dialog is always mounted, so its ticks are those of the last opening.
OpenModal(c) ==
  /\ modal.channel = NoChannel
  /\ rows[c] # Nothing
  /\ modal' = [channel |-> c, add |-> rows[c].add, remove |-> rows[c].remove]
  /\ UNCHANGED <<db, offered, rows, selected, asking, job, history, bounds>>

CloseModal ==
  /\ modal.channel # NoChannel /\ ~asking
  /\ modal' = Closed
  /\ UNCHANGED <<db, offered, rows, selected, asking, job, history, bounds>>

Flip(S, m) == IF m \in S THEN S \ {m} ELSE S \cup {m}

\* toggleModel; ticking all that are visible is a sequence of these.
Toggle(list, m) ==
  /\ modal.channel # NoChannel /\ ~asking
  /\ m \in modal[list]
  /\ selected' = [selected EXCEPT ![list] = Flip(@, m)]
  /\ UNCHANGED <<db, offered, rows, modal, asking, job, history, bounds>>

\* applyUpdates: one request at a time; what is not ticked is to be ignored.
SendApply ==
  /\ "apply" \in Jobs /\ jobs < MaxJobs
  /\ job["apply"].stage = "idle"
  /\ job' = [job EXCEPT !["apply"] =
               [NoJob EXCEPT !.stage = "sent", !.todo = {modal.channel},
                             !.ask = selected, !.ignore = modal.add \ selected.add]]
  /\ jobs' = jobs + 1
  /\ UNCHANGED <<db, offered, rows, modal, selected, history, events>>

OneKindOnly ==
  /\ modal.add # {} /\ modal.remove # {}
  /\ (selected.add # {}) # (selected.remove # {})

\* handleConfirm, whose button is disabled while a request is out: a selection
\* of one kind, where both are staged, asks first.
Confirm ==
  /\ modal.channel # NoChannel /\ ~asking
  /\ ~OneKindOnly /\ SendApply /\ UNCHANGED asking

AskPartial ==
  /\ modal.channel # NoChannel /\ ~asking
  /\ "apply" \in Jobs /\ job["apply"].stage = "idle"
  /\ OneKindOnly
  /\ asking' = TRUE
  /\ UNCHANGED <<db, offered, rows, modal, selected, job, history, bounds>>

ConfirmPartial == asking /\ SendApply /\ asking' = FALSE

CancelPartial ==
  /\ asking
  /\ asking' = FALSE
  /\ UNCHANGED <<db, offered, rows, modal, selected, job, history, bounds>>

\* applyAllUpdates, detectChannelUpdates, and a detection of all channels by
\* detectAllUpdates or the schedule: each has a guard against a second start.
Start(j, todo) ==
  /\ j \in Jobs \ {"apply"} /\ jobs < MaxJobs
  /\ job[j].stage = "idle"
  /\ job' = [job EXCEPT ![j] = [NoJob EXCEPT !.stage = "sent", !.todo = todo]]
  /\ jobs' = jobs + 1
  /\ UNCHANGED <<db, offered, console, history, events>>

StartAll == Start("all", Channels)
StartDetect == \E c \in Channels : Start("detect", {c})
StartTask == Start("task", Channels)

\* The answer: success closes the dialog, whichever channel it shows by now,
\* and the table is fetched again; a failure leaves both as they are.  The
\* finally block releases the guard whatever the answer was.
JobAnswered(j) ==
  /\ job[j].stage \in {"written", "failed"}
  /\ LET ok == job[j].stage = "written"
     IN  /\ modal' = IF ok /\ j = "apply" THEN Closed ELSE modal
         /\ rows' = IF ok THEN [c \in Channels |-> Staged(c)] ELSE rows
         /\ job' = [job EXCEPT ![j] = NoJob]
  /\ UNCHANGED <<db, offered, selected, asking, history, bounds>>

\* A request or its answer is lost.
Lost(j) ==
  /\ job[j].stage \in {"sent", "written"} /\ events < MaxEvents
  /\ job' = [job EXCEPT ![j].stage = "failed"]
  /\ events' = events + 1
  /\ UNCHANGED <<db, offered, console, history, jobs>>

\* The table is fetched again for any other reason.
Refetch ==
  /\ rows' = [c \in Channels |-> Staged(c)]
  /\ UNCHANGED <<db, offered, modal, selected, asking, job, history, bounds>>

-----------------------------------------------------------------------------
(* The server.                                                             *)

\* The channels of the handler are read.
Read(j) ==
  /\ job[j].stage = "sent"
  /\ job' = [job EXCEPT ![j].stage = "read", ![j].snap = db]
  /\ UNCHANGED <<db, offered, console, history, bounds>>

Done(j, c) ==
  job' = [job EXCEPT ![j].todo = @ \ {c},
                     ![j].stage = IF job[j].todo = {c} THEN "written" ELSE @]

\* updateChannelUpstreamModelSettings: the row of c is written whatever it is by
\* now.  It is not what the handler read when another one has written it since.
Write(j, c, row) ==
  /\ db' = [db EXCEPT ![c] = row]
  /\ crossed' = IF job[j].snap[c] = db[c] THEN crossed ELSE crossed \cup {c}

\* checkAndPersistChannelUpstreamModelUpdates: the settings read are written
\* back with new staged lists; the models only when the schedule adds some.
Detect(j, c) ==
  /\ j \in {"detect", "task"} /\ job[j].stage = "read" /\ c \in job[j].todo
  /\ LET s == job[j].snap[c]
         add == PendingAdd(s, c)
     IN  \/ /\ Write(j, c, [s EXCEPT !.models = db[c].models, !.add = add,
                                     !.remove = PendingRemove(s, c)])
            /\ UNCHANGED told
         \/ /\ j = "task" /\ c \in AutoSync /\ add # {}
            /\ Write(j, c, [s EXCEPT !.models = @ \cup add, !.add = {},
                                     !.remove = PendingRemove(s, c)])
            /\ told' = [told EXCEPT ![c].remove = @ \ add]
  /\ Done(j, c)
  /\ UNCHANGED <<offered, console, seen, bounds>>

\* The upstream cannot be asked: the settings read are written back, and a
\* single detection answers with the error.
FetchFails(j, c) ==
  /\ j \in {"detect", "task"} /\ job[j].stage = "read" /\ c \in job[j].todo
  /\ events < MaxEvents
  /\ Write(j, c, [job[j].snap[c] EXCEPT !.models = db[c].models])
  /\ IF j = "detect"
     THEN job' = [job EXCEPT ![j].todo = @ \ {c}, ![j].stage = "failed"]
     ELSE Done(j, c)
  /\ events' = events + 1
  /\ UNCHANGED <<offered, console, seen, told, jobs>>

\* The schedule passes over a channel that was checked a moment ago, an apply of
\* all over one with nothing staged; both over one whose checks are turned off.
Skip(j, c) ==
  /\ j \in {"all", "task"} /\ job[j].stage = "read" /\ c \in job[j].todo
  /\ Done(j, c)
  /\ UNCHANGED <<db, offered, console, history, bounds>>

\* Variant: what the dialog sends is taken as it comes.
AskedAsSent(j, c) == [add |-> job[j].ask.add, remove |-> job[j].ask.remove \ job[j].ask.add]

\* Only what is staged for this channel is added or removed; a model in both
\* lists is added.
Asked(j, c) ==
  LET s == job[j].snap[c]
      add == IF j = "all" THEN s.add ELSE job[j].ask.add \cap s.add
      remove == IF j = "all" THEN s.remove ELSE job[j].ask.remove \cap s.remove
  IN  [add |-> add, remove |-> remove \ add]

\* applyChannelUpstreamModelUpdates: the models are written only when they
\* differ from those read.  The answer reports what was added, removed and
\* ignored.
Apply(j, c) ==
  /\ j \in {"apply", "all"} /\ job[j].stage = "read" /\ c \in job[j].todo
  /\ LET s == job[j].snap[c]
         ask == Asked(j, c)
         ignore == job[j].ignore \cap s.add
         next == (s.models \cup ask.add) \ ask.remove
     IN  /\ j = "all" => s.add \cup s.remove # {}
         /\ Write(j, c, [models  |-> IF next # s.models THEN next ELSE db[c].models,
                         add     |-> s.add \ (ask.add \cup ignore),
                         remove  |-> s.remove \ ask.remove,
                         ignored |-> (s.ignored \cup ignore) \ ask.add])
         /\ told' = [told EXCEPT ![c] =
                       [add    |-> (@.add \ ask.remove) \cup ask.add,
                        remove |-> (@.remove \ ask.add) \cup ask.remove,
                        ignore |-> (@.ignore \cup ignore) \ ask.add]]
  /\ Done(j, c)
  /\ UNCHANGED <<offered, console, seen, bounds>>

\* An upstream lists other models.
OfferChanges(c) ==
  /\ events < MaxEvents
  /\ \E S \in Offers :
       /\ offered' = [offered EXCEPT ![c] = S]
       /\ seen' = [seen EXCEPT ![c] = [listed |-> @.listed \cup S,
                                       absent |-> @.absent \cup (Models \ S)]]
  /\ events' = events + 1
  /\ UNCHANGED <<db, console, job, told, crossed, jobs>>

-----------------------------------------------------------------------------
Serve(j) == Read(j) \/ \E c \in Channels : Detect(j, c) \/ Apply(j, c) \/ Skip(j, c)

UpdatesNext ==
  \/ \E c \in Channels : OpenModal(c) \/ OfferChanges(c)
  \/ CloseModal
  \/ \E m \in Models : Toggle("add", m) \/ Toggle("remove", m)
  \/ Confirm \/ AskPartial \/ ConfirmPartial \/ CancelPartial
  \/ StartAll \/ StartDetect \/ StartTask \/ Refetch
  \/ \E j \in Jobs :
       \/ Serve(j) \/ JobAnswered(j) \/ Lost(j)
       \/ \E c \in Channels : FetchFails(j, c)

UpdatesSpec == UpdatesInit /\ [][UpdatesNext]_updatesVars

-----------------------------------------------------------------------------
(* Every variable has its type, and a closed dialog has no lists.          *)
UpdatesTypeOK ==
  /\ db \in [Channels -> [models : SUBSET Models, add : SUBSET Models,
                          remove : SUBSET Models, ignored : SUBSET Models]]
  /\ offered \in [Channels -> SUBSET Models]
  /\ rows \in [Channels -> [add : SUBSET Models, remove : SUBSET Models]]
  /\ modal = Closed \/ modal \in [channel : Channels, add : SUBSET Models, remove : SUBSET Models]
  /\ selected \in [add : SUBSET Models, remove : SUBSET Models]
  /\ asking \in BOOLEAN
  /\ \A j \in Jobs : job[j].stage \in {"idle", "sent", "read", "written", "failed"}

(* Whatever handlers overlap, and however old the rows and the ticks of    *)
(* the dialog are: a channel gains only models its upstream has listed,    *)
(* and loses only models its upstream has left out (the intersections with *)
(* the staged lists in applyChannelUpstreamModelUpdates).  It never gains  *)
(* a redirect's target or a model that a pattern ignores, and never loses  *)
(* a redirect's source (the subtractions of the detection).                *)
OnlyReportedChanges ==
  \A c \in Channels :
    /\ db[c].models \ Base[c] \subseteq seen[c].listed \ (Targets[c] \cup Patterns[c])
    /\ Base[c] \ db[c].models \subseteq seen[c].absent \ Sources[c]

(* On a channel where no handler has written over another's write: what an *)
(* apply has reported as added is there and is not staged again, what it   *)
(* has reported as removed is gone, and what it has reported as ignored is *)
(* neither there nor staged, until a later apply or the schedule is to     *)
(* change just that.  Where a handler did write over another's write, that *)
(* write is lost with all it reported: settings are written whole, and     *)
(* models as they were read (updateChannelUpstreamModelSettings).          *)
ReportedDecisionsHold ==
  \A c \in Channels \ crossed :
    /\ told[c].add \subseteq db[c].models \ db[c].add
    /\ told[c].remove \cap db[c].models = {}
    /\ told[c].ignore \cap (db[c].models \cup db[c].add) = {}

(* Models change only as upstreams have reported and redirects allow, and  *)
(* what applies have reported stays done on every channel where handlers   *)
(* did not write over each other.                                          *)
UpdatesAreSound == OnlyReportedChanges /\ ReportedDecisionsHold
=============================================================================
