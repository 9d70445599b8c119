----------------------------- MODULE ChannelTest -----------------------------
(***************************************************************************)
(* The dialog that tests the models of a channel and deletes those that    *)
(* failed: web/src/features/channels/components/dialogs/channel-test-      *)
(* dialog.tsx, with handleTestChannel of lib/channel-actions.ts and, on    *)
(* the server, UpdateChannel of controller/channel.go.                     *)
(*                                                                         *)
(* JavaScript runs one task at a time, so an action is what happens between *)
(* two awaits: a click, the answer to a request with the continuation it    *)
(* resumes, a timer.  The dialog stays mounted when it is closed (its key   *)
(* is the channel), so a batch that was running goes on in the background.  *)
(* Nobody else edits the channel meanwhile.                                 *)
(* Endpoint, stream mode, row selection (for the clipboard), response times *)
(* and messages are data.                                                   *)
(***************************************************************************)
EXTENDS Naturals, FiniteSets

CONSTANTS Models,       \* models of the channel
          Position,     \* their places in the list
          Concurrency,  \* BATCH_TEST_CONCURRENCY
          MaxBatches,   \* bound: batches started
          MaxSingles,   \* bound: single tests of one model in flight
          MaxDeletes,   \* bound: delete requests
          MaxOpens      \* bound: times the dialog is opened

ChannelTestAssumption ==
    /\ IsFiniteSet(Models) /\ Position \in [Models -> Nat]
    /\ \A m, n \in Models : Position[m] = Position[n] => m = n
    /\ Concurrency \in Nat \ {0}
    /\ {MaxBatches, MaxSingles, MaxDeletes, MaxOpens} \subseteq Nat

Batches == 1..MaxBatches
Deletes == 1..MaxDeletes
Outcome == {"success", "error"}

VARIABLES srv,      \* server: models of the channel
          list,     \* the row of the channel in the cached channel list
          row,      \* currentRow.models, taken from the list when opened
          ui,       \* state of the dialog
          batch,    \* calls of handleBatchTest
          single,   \* number of single tests in flight, per model
          del,      \* calls of handleDeleteFailedModels
          opens,    \* times the dialog was opened
          stopped,  \* history: batches the user stopped or closed on
          overlap   \* history: a batch was started while another one ran

vars == <<srv, list, row, ui, batch, single, del, opens, stopped, overlap>>

\* progress names the batch whose counts are shown (0: none).
UiState == [open : BOOLEAN, stop : BOOLEAN, batching : BOOLEAN,
            stopping : BOOLEAN,
            progress : [of : 0..MaxBatches, done : Nat, ok : Nat],
            results : [Models -> {"idle", "testing"} \cup Outcome],
            testing : SUBSET Models, removed : SUBSET Models,
            confirm : BOOLEAN, deleting : BOOLEAN]
NoProgress == [of |-> 0, done |-> 0, ok |-> 0]
NoBatch == [pc |-> "none", asked |-> {}, todo |-> {}, flight |-> {},
            done |-> 0, ok |-> 0]
NoDelete == [pc |-> "none", failed |-> {}, remaining |-> {}]

TypeOK ==
    /\ srv \subseteq Models
    /\ list \subseteq Models
    /\ row \subseteq Models
    /\ ui \in UiState
    /\ batch \in [Batches -> [pc : {"none", "wait", "sleep", "over"},
                              asked : SUBSET Models,
                              todo : SUBSET Models, flight : SUBSET Models,
                              done : Nat, ok : Nat]]
    /\ single \in [Models -> 0..MaxSingles]
    /\ del \in [Deletes -> [pc : {"none", "sent", "ok", "failed", "over"},
                            failed : SUBSET Models,
                            remaining : SUBSET Models]]
    /\ opens \in 0..MaxOpens
    /\ stopped \subseteq Batches
    /\ overlap \in BOOLEAN

-----------------------------------------------------------------------------
(* Derived state of the dialog.                                            *)

models == row \ ui.removed
failedModels == {m \in models : ui.results[m] = "error"}
isAnyTesting == ui.testing # {} \/ ui.batching
Active(b) == batch[b].pc \in {"wait", "sleep"}

\* The user can reach the controls of the dialog (no confirmation above it).
Ready == ui.open /\ ~ui.confirm

-----------------------------------------------------------------------------
(* Testing.                                                                *)

\* testSingleModel until its await: the models of S are marked.
MarkTesting(u, S) ==
    [u EXCEPT !.testing = @ \cup S,
              !.results = [m \in Models |-> IF m \in S THEN "testing" ELSE @[m]]]

\* handleTestChannel reports the outcome in every branch, and the finally of
\* testSingleModel unmarks the model.
RecordResult(u, m, r) ==
    [u EXCEPT !.testing = @ \ {m}, !.results[m] = r]

TestSingle(m) ==
    /\ Ready /\ m \in models
    /\ m \notin ui.testing /\ ~ui.batching
    /\ single[m] < MaxSingles
    /\ single' = [single EXCEPT ![m] = @ + 1]
    /\ ui' = MarkTesting(ui, {m})
    /\ UNCHANGED <<srv, list, row, batch, del, opens, stopped, overlap>>

SingleAnswered(m, r) ==
    /\ single[m] > 0
    /\ single' = [single EXCEPT ![m] = @ - 1]
    /\ ui' = RecordResult(ui, m, r)
    /\ UNCHANGED <<srv, list, row, batch, del, opens, stopped, overlap>>

\* The next group: those with fewer than Concurrency models before them.
Before(m, todo) == {k \in todo : Position[k] < Position[m]}
FirstGroup(todo) == {m \in todo : Cardinality(Before(m, todo)) < Concurrency}

\* One round of the loop of handleBatchTest until Promise.allSettled.
LaunchGroup(b, c, u) ==
    LET group == FirstGroup(c.todo)
    IN  /\ batch' = [batch EXCEPT ![b] =
                        [c EXCEPT !.pc = "wait", !.flight = group,
                                  !.todo = @ \ group]]
        /\ ui' = MarkTesting(u, group)

\* handleBatchTest, from the button "test all" (of the models that match the
\* search term).
StartBatch(b, matching) ==
    /\ Ready /\ ~isAnyTesting
    /\ batch[b].pc = "none" /\ \A c \in 1..(b - 1) : batch[c].pc # "none"
    /\ matching \subseteq models /\ matching # {}
    /\ LaunchGroup(b,
         [NoBatch EXCEPT !.asked = matching, !.todo = matching],
         [ui EXCEPT !.stop = FALSE, !.batching = TRUE, !.stopping = FALSE,
                    !.progress = [NoProgress EXCEPT !.of = b]])
    /\ overlap' = (overlap \/ \E c \in Batches : Active(c))
    /\ UNCHANGED <<srv, list, row, single, del, opens, stopped>>

\* The finally of handleBatchTest (its refreshChannelLists: ListRefetched).
Finished(u) ==
    [u EXCEPT !.stop = FALSE, !.batching = FALSE, !.stopping = FALSE,
              !.progress = NoProgress]

EndBatch(b, u) ==
    /\ batch' = [batch EXCEPT ![b] = [NoBatch EXCEPT !.pc = "over"]]
    /\ ui' = Finished(u)

Counted(c, r) ==
    [c EXCEPT !.done = @ + 1, !.ok = IF r = "success" THEN @ + 1 ELSE @]

\* A test of batch b is answered: recordBatchResult and, after the last one of
\* the group, the end of the batch or the pause before the next group.
BatchAnswered(b, m, r) ==
    /\ batch[b].pc = "wait" /\ m \in batch[b].flight
    /\ LET n == Counted(batch[b], r)
           c == [n EXCEPT !.flight = @ \ {m}]
           u == [RecordResult(ui, m, r) EXCEPT
                    !.progress = [of |-> b, done |-> c.done, ok |-> c.ok]]
       IN  \/ /\ c.flight # {}
              /\ batch' = [batch EXCEPT ![b] = c]
              /\ ui' = u
           \/ /\ c.flight = {} /\ (ui.stop \/ c.todo = {})
              /\ EndBatch(b, u)
           \/ /\ c.flight = {} /\ ~ui.stop /\ c.todo # {}
              /\ batch' = [batch EXCEPT ![b] = [c EXCEPT !.pc = "sleep"]]
              /\ ui' = u
    /\ UNCHANGED <<srv, list, row, single, del, opens, stopped, overlap>>

\* Variant: the flag is not looked at again after the pause.
WakeWithoutCheck(b) ==
    /\ batch[b].pc = "sleep"
    /\ LaunchGroup(b, batch[b], ui)
    /\ UNCHANGED <<srv, list, row, single, del, opens, stopped, overlap>>

\* The pause of BATCH_TEST_DELAY_MS ends: the head of the loop.
Wake(b) ==
    /\ batch[b].pc = "sleep"
    /\ IF ui.stop THEN EndBatch(b, ui) ELSE LaunchGroup(b, batch[b], ui)
    /\ UNCHANGED <<srv, list, row, single, del, opens, stopped, overlap>>

handleStopBatchTest ==
    /\ Ready /\ ui.batching /\ ~ui.stopping
    /\ ui' = [ui EXCEPT !.stop = TRUE, !.stopping = TRUE]
    /\ stopped' = stopped \cup {b \in Batches : Active(b)}
    /\ UNCHANGED <<srv, list, row, batch, single, del, opens, overlap>>

-----------------------------------------------------------------------------
(* Deleting the models that failed.                                        *)

OpenConfirm ==
    /\ Ready /\ ~ui.batching /\ failedModels # {}
    /\ ui' = [ui EXCEPT !.confirm = TRUE]
    /\ UNCHANGED <<srv, list, row, batch, single, del, opens, stopped, overlap>>

\* Cancel, or the Escape key, which also works while the request runs.
CancelConfirm ==
    /\ ui.open /\ ui.confirm
    /\ ui' = [ui EXCEPT !.confirm = FALSE]
    /\ UNCHANGED <<srv, list, row, batch, single, del, opens, stopped, overlap>>

Remaining == models \ failedModels

\* handleDeleteFailedModels until its await.
ConfirmDelete(d) ==
    /\ ui.open /\ ui.confirm /\ ~ui.deleting
    /\ del[d].pc = "none" /\ \A e \in 1..(d - 1) : del[e].pc # "none"
    /\ IF failedModels = {}
       THEN /\ ui' = [ui EXCEPT !.confirm = FALSE]
            /\ del' = del
       ELSE /\ ui' = [ui EXCEPT !.deleting = TRUE]
            /\ del' = [del EXCEPT ![d] = [pc |-> "sent", failed |-> failedModels,
                                          remaining |-> Remaining]]
    /\ UNCHANGED <<srv, list, row, batch, single, opens, stopped, overlap>>

\* UpdateChannel: an empty string is a zero value, which Updates leaves out.
StoredModels(ms) == IF ms = {} THEN srv ELSE ms

\* A request may fail, or its answer be lost, before or after it was stored.
ServeDelete(d) ==
    /\ del[d].pc = "sent"
    /\ \/ /\ srv' = StoredModels(del[d].remaining)
          /\ del' = [del EXCEPT ![d].pc = "ok"]
       \/ /\ srv' \in {srv, StoredModels(del[d].remaining)}
          /\ del' = [del EXCEPT ![d].pc = "failed"]
    /\ UNCHANGED <<list, row, ui, batch, single, opens, stopped, overlap>>

DeleteAnswered(d) ==
    /\ del[d].pc \in {"ok", "failed"}
    /\ ui' = IF del[d].pc = "ok"
             THEN [ui EXCEPT
                     !.removed = @ \cup del[d].failed,
                     !.results = [m \in Models |->
                                    IF m \in del[d].failed THEN "idle" ELSE @[m]],
                     !.confirm = FALSE, !.deleting = FALSE]
             ELSE [ui EXCEPT !.deleting = FALSE]
    /\ del' = [del EXCEPT ![d].pc = "over"]
    /\ UNCHANGED <<srv, list, row, batch, single, opens, stopped, overlap>>

-----------------------------------------------------------------------------
(* Opening and closing; the rest of the system.                            *)

FreshUi == [open |-> FALSE, stop |-> FALSE, batching |-> FALSE,
            stopping |-> FALSE, progress |-> NoProgress,
            results |-> [m \in Models |-> "idle"], testing |-> {},
            removed |-> {}, confirm |-> FALSE,
            deleting |-> FALSE]

\* handleTest of the row's menu: the row is what the list shows now.
Open ==
    /\ ~ui.open /\ opens < MaxOpens
    /\ row' = list
    /\ ui' = [ui EXCEPT !.open = TRUE]
    /\ opens' = opens + 1
    /\ UNCHANGED <<srv, list, batch, single, del, stopped, overlap>>

\* handleClose: resetState, then closed.  Requests and batches go on.
handleClose ==
    /\ Ready
    /\ ui' = [FreshUi EXCEPT !.stop = TRUE]
    /\ stopped' = stopped \cup {b \in Batches : Active(b)}
    /\ UNCHANGED <<srv, list, row, batch, single, del, opens, overlap>>

\* The list is fetched (refreshChannelLists, a focus, an interval).
ListRefetched ==
    /\ list # srv
    /\ list' = srv
    /\ UNCHANGED <<srv, row, ui, batch, single, del, opens, stopped, overlap>>

-----------------------------------------------------------------------------

Init ==
    /\ srv \in (SUBSET Models) \ {{}}
    /\ list = srv
    /\ row = srv
    /\ ui = FreshUi
    /\ batch = [b \in Batches |-> NoBatch]
    /\ single = [m \in Models |-> 0]
    /\ del = [d \in Deletes |-> NoDelete]
    /\ opens = 0
    /\ stopped = {}
    /\ overlap = FALSE

Answers ==
    \E r \in Outcome, m \in Models :
        SingleAnswered(m, r) \/ \E b \in Batches : BatchAnswered(b, m, r)

Next ==
    \/ Open \/ handleClose \/ OpenConfirm \/ CancelConfirm
    \/ handleStopBatchTest \/ ListRefetched
    \/ Answers
    \/ \E m \in Models : TestSingle(m)
    \/ \E b \in Batches : Wake(b) \/ \E S \in SUBSET Models : StartBatch(b, S)
    \/ \E d \in Deletes : ConfirmDelete(d) \/ ServeDelete(d) \/ DeleteAnswered(d)

Spec == Init /\ [][Next]_vars

-----------------------------------------------------------------------------
(* Properties.                                                             *)

\* While handleBatchTest runs in an open dialog, the dialog says so and shows
\* how many of the batch's models have been answered, and nothing but its
\* finally takes them away; unless the dialog was closed and a second batch started before the
\* first one looked at the stop flag.
BatchIsShown ==
    \A b \in Batches :
        Active(b) /\ b \notin stopped /\ ~overlap =>
            /\ ui.open /\ ui.batching /\ ~ui.stop
            /\ ui.progress.of = b
            /\ ui.progress.done = Cardinality(batch[b].asked)
                                  - Cardinality(batch[b].flight)
                                  - Cardinality(batch[b].todo)

\* The dialog never stays in batch mode without a batch that will end it,
\* whatever was closed, reopened or started twice (it would lock every
\* button but Stop, and Stop has nobody to tell).
BatchModeHasBatch == ui.batching => \E b \in Batches : Active(b)

\* A batch that the user stopped, or closed the dialog on, sends no further
\* tests, be it waiting for answers or pausing between two groups (same
\* exception as in BatchIsShown).
StopIsHonoured ==
    \A b \in stopped : overlap' \/ batch'[b].flight \subseteq batch[b].flight

\* A deletion takes only models that failed: those hidden by the search term
\* and those not tested stay in the channel, also when the dialog was opened on
\* an outdated list, or a deletion is answered after the dialog was closed,
\* opened again and used for another one.  (What one deletion took, a later one
\* may then bring back and take again.)
OthersAreKept ==
    \A m \in srv \ srv' : \E d \in Deletes : m \in del[d].failed

\* The dialog shows that a stop is being carried out.
Waiting == ui.stopping
=============================================================================
