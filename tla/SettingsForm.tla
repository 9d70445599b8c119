---------------------------- MODULE SettingsForm ----------------------------
(***************************************************************************)
(* A form of the system settings: the options on the server, the copy that *)
(* react-query caches, the request that fetches it (one GET per URL at a   *)
(* time, shared by everyone who asks meanwhile) and the form, which saves   *)
(* the changed options one request after the other.                         *)
(*                                                                         *)
(* Sources, under web/src: features/system-settings/hooks/                 *)
(* use-settings-form.ts, use-update-option.ts, use-system-options.ts,       *)
(* components/form-navigation-guard.tsx and settings-page-context.tsx, the  *)
(* three sections of general/ that use the hook, and lib/http-client.ts.    *)
(*                                                                         *)
(* Options are flat keys here: nesting and dot paths only name them.        *)
(* baselineRef, defaultValuesRef, serializedDefaultsRef and the defaults of *)
(* the form change together and are one variable, base; a field is dirty    *)
(* when it differs from it.                                                 *)
(***************************************************************************)
EXTENDS Naturals

CONSTANTS Keys,            \* options of the form
          Position,        \* their places in the order they are saved in
          Values,          \* values of an option
          RebuiltDefaults, \* the section builds defaultValues on every render
          MaxSaves,        \* bound: submissions
          MaxEvents        \* bound: updates refused or failed, and options
                           \* changed by somebody else

SettingsFormAssumption ==
    /\ Position \in [Keys -> Nat]
    /\ \A j, k \in Keys : Position[j] = Position[k] => j = k
    /\ RebuiltDefaults \in BOOLEAN
    /\ {MaxSaves, MaxEvents} \subseteq Nat

Saves == 1..MaxSaves
Options == [Keys -> Values]

VARIABLES srv,      \* options of the server, as the node that answers has them
          cache,    \* query data of ['system-options']
          stale,    \* the query was invalidated while nobody used it
          waiting,  \* the query waits for a GET
          get,      \* the GET in flight (inFlightGet)
          page,     \* "here", "asking" (navigation guard) or "away"
          form,     \* values of the fields and their base
          save,     \* calls of handleSubmit
          typed,    \* history: options typed into since the form was last filled
          behind,   \* history: the query last took an answer that was read
                    \* before an update was stored
          crossed,  \* history: a save was started while another one ran, or in a
                    \* form that was filled with other values than the server's
          events

vars == <<srv, cache, stale, waiting, get, page, form, save, typed, behind, crossed,
          events>>

Blank == [k \in Keys |-> CHOOSE v \in Values : TRUE]
NoGet == [pc |-> "none", val |-> Blank]
NoSave == [pc |-> "none", mine |-> FALSE, data |-> Blank, todo |-> {}]

TypeOK ==
    /\ srv \in Options
    /\ cache \in Options
    /\ stale \in BOOLEAN
    /\ waiting \in BOOLEAN
    /\ get \in [pc : {"none", "sent", "answered"}, val : Options]
    /\ page \in {"here", "asking", "away"}
    /\ form \in [vals : Options, base : Options]
    /\ save \in [Saves -> [pc : {"none", "sent", "stored", "refused", "failed",
                                 "over"},
                           mine : BOOLEAN, data : Options, todo : SUBSET Keys]]
    /\ typed \subseteq Keys
    /\ behind \in BOOLEAN /\ crossed \in BOOLEAN
    /\ events \in 0..MaxEvents

-----------------------------------------------------------------------------

Mounted == page # "away"
Dirty(f) == {k \in Keys : f.vals[k] # f.base[k]}
Active(s) == save[s].pc \notin {"none", "over"}
Submitting == \E s \in Saves : save[s].mine /\ Active(s)

FormOf(o) == [vals |-> o, base |-> o]

\* The effect of useSettingsForm, after a render with the defaults o.
AfterEffect(f, o) == IF o # f.base THEN FormOf(o) ELSE f

\* form.reset(o) by the hook itself, and the effect of the render it causes.
ResetBy(o) ==
    IF RebuiltDefaults THEN AfterEffect(FormOf(o), cache) ELSE FormOf(o)

-----------------------------------------------------------------------------
(* The query.                                                              *)

\* api.get: joins the GET in flight, or sends one.
JoinGet == IF get.pc = "none" THEN [NoGet EXCEPT !.pc = "sent"] ELSE get

\* invalidateQueries: a mounted query fetches again (react-query drops what it
\* was waiting for), another one is marked.
Invalidate ==
    /\ waiting' = (waiting \/ Mounted)
    /\ get' = IF Mounted THEN JoinGet ELSE get
    /\ stale' = (stale \/ ~Mounted)

ServeGet ==
    /\ get.pc = "sent"
    /\ get' = [pc |-> "answered", val |-> srv]
    /\ UNCHANGED <<srv, cache, stale, waiting, page, form, save, typed, behind, crossed,
                   events>>

\* The answer reaches the query; new data re-renders the form, whose effect
\* compares it with the base.
GetAnswered ==
    /\ get.pc = "answered"
    /\ cache' = IF waiting THEN get.val ELSE cache
    /\ waiting' = FALSE
    /\ form' = IF Mounted /\ cache' # cache THEN AfterEffect(form, cache') ELSE form
    /\ typed' = IF form'.base = form.base THEN typed ELSE {}
    /\ behind' = IF waiting THEN get.val # srv ELSE behind
    /\ get' = NoGet
    /\ UNCHANGED <<srv, stale, page, save, crossed, events>>

-----------------------------------------------------------------------------
(* The user.                                                               *)

Type(k, v) ==
    /\ page = "here"
    /\ v # form.vals[k]
    /\ form' = [form EXCEPT !.vals[k] = v]
    /\ typed' = typed \cup {k}
    /\ UNCHANGED <<srv, cache, stale, waiting, get, page, save, behind, crossed, events>>

handleReset ==
    /\ page = "here" /\ ~Submitting /\ Dirty(form) # {}
    /\ form' = ResetBy(form.base)
    /\ typed' = {}
    /\ UNCHANGED <<srv, cache, stale, waiting, get, page, save, behind, crossed, events>>

\* The option a save sends first of those left to save.
First(todo) == CHOOSE k \in todo : \A j \in todo : Position[k] <= Position[j]

\* handleSubmit and onSubmit until the first await: the changed fields are saved.
\* Without changes it only says so.
handleSubmit(s) ==
    /\ page = "here" /\ ~Submitting
    /\ save[s].pc = "none" /\ \A r \in 1..(s - 1) : save[r].pc # "none"
    /\ Dirty(form) # {}
    /\ save' = [save EXCEPT ![s] = [pc |-> "sent", mine |-> TRUE,
                                    data |-> form.vals, todo |-> Dirty(form)]]
    /\ crossed' = (crossed \/ form.base # srv \/ \E r \in Saves : Active(r))
    /\ UNCHANGED <<srv, cache, stale, waiting, get, page, form, typed, behind, events>>

\* UpdateOption of the server: stored, refused ({success: false}) by a check
\* before the option is stored or by updateOptionMap after it, or an HTTP error
\* or a lost answer, before or after it was stored.
ServeUpdate(s) ==
    /\ save[s].pc = "sent"
    /\ LET k == First(save[s].todo)
           stored == [srv EXCEPT ![k] = save[s].data[k]]
       IN  \/ /\ srv' = stored
              /\ save' = [save EXCEPT ![s].pc = "stored"]
              /\ UNCHANGED events
           \/ /\ events < MaxEvents /\ events' = events + 1
              /\ srv' \in {srv, stored}
              /\ \E p \in {"refused", "failed"} : save' = [save EXCEPT ![s].pc = p]
    /\ UNCHANGED <<cache, stale, waiting, get, page, form, typed, behind, crossed>>

\* The loop of onSubmit goes on with the next option ...
NextOption(s) ==
    /\ save[s].todo # {First(save[s].todo)}
    /\ save' = [save EXCEPT ![s].pc = "sent", ![s].todo = @ \ {First(@)}]
    /\ UNCHANGED <<form, typed>>

\* ... or is done, and handleSubmit takes its data as the new base.
LastOption(s) ==
    /\ save[s].todo = {First(save[s].todo)}
    /\ save' = [save EXCEPT ![s] = [NoSave EXCEPT !.pc = "over"]]
    /\ form' = IF save[s].mine THEN ResetBy(save[s].data) ELSE form
    /\ typed' = IF save[s].mine THEN {} ELSE typed

\* mutateAsync resolves: onSuccess invalidates the query if the server stored
\* the option; a refusal only shows a message.
UpdateAnswered(s) ==
    /\ save[s].pc \in {"stored", "refused"}
    /\ IF save[s].pc = "stored" THEN Invalidate
       ELSE UNCHANGED <<stale, waiting, get>>
    /\ NextOption(s) \/ LastOption(s)
    /\ UNCHANGED <<srv, cache, page, behind, crossed, events>>

\* mutateAsync rejects: onSubmit and handleSubmit end there.
UpdateFailed(s) ==
    /\ save[s].pc = "failed"
    /\ save' = [save EXCEPT ![s] = [NoSave EXCEPT !.pc = "over"]]
    /\ UNCHANGED <<srv, cache, stale, waiting, get, page, form, typed, behind, crossed,
                   events>>

\* The user leaves: at once if the form is clean, else after the guard asked.
\* A save that runs goes on, without a form to report to.
Leave ==
    /\ (page = "here" /\ Dirty(form) = {}) \/ page = "asking"
    /\ page' = "away"
    /\ save' = [s \in Saves |-> [save[s] EXCEPT !.mine = FALSE]]
    /\ UNCHANGED <<srv, cache, stale, waiting, get, form, typed, behind, crossed, events>>

Ask ==
    /\ page = "here" /\ Dirty(form) # {}
    /\ page' = "asking"
    /\ UNCHANGED <<srv, cache, stale, waiting, get, form, save, typed, behind, crossed,
                   events>>

Stay ==
    /\ page = "asking"
    /\ page' = "here"
    /\ UNCHANGED <<srv, cache, stale, waiting, get, form, save, typed, behind, crossed,
                   events>>

\* The form is mounted with the cached options, which are fetched if they are
\* stale (invalidated, or older than staleTime).
Return ==
    /\ page = "away"
    /\ page' = "here"
    /\ form' = FormOf(cache)
    /\ \/ /\ waiting' = TRUE /\ get' = JoinGet
       \/ ~stale /\ UNCHANGED <<waiting, get>>
    /\ stale' = FALSE
    /\ typed' = {}
    /\ UNCHANGED <<srv, cache, save, behind, crossed, events>>

\* Another administrator saves an option.
EditedElsewhere(k, v) ==
    /\ events < MaxEvents
    /\ srv[k] # v
    /\ srv' = [srv EXCEPT ![k] = v]
    /\ events' = events + 1
    /\ UNCHANGED <<cache, stale, waiting, get, page, form, save, typed, behind, crossed>>

-----------------------------------------------------------------------------

Init ==
    /\ srv \in Options
    /\ cache = srv
    /\ stale = FALSE
    /\ waiting = FALSE
    /\ get = NoGet
    /\ page = "here"
    /\ form = FormOf(cache)
    /\ save = [s \in Saves |-> NoSave]
    /\ typed = {}
    /\ behind = FALSE
    /\ crossed = FALSE
    /\ events = 0

Next ==
    \/ ServeGet \/ GetAnswered \/ handleReset \/ Leave \/ Ask \/ Stay \/ Return
    \/ \E s \in Saves : \/ handleSubmit(s) \/ ServeUpdate(s)
                        \/ UpdateAnswered(s) \/ UpdateFailed(s)
    \/ \E k \in Keys, v \in Values : Type(k, v) \/ EditedElsewhere(k, v)

Spec == Init /\ [][Next]_vars

-----------------------------------------------------------------------------
(* Properties.                                                             *)

\* A save takes on only options the user typed into since the form was last
\* filled: a value that a refetch, a reset or the end of an earlier save brought
\* into the form, and with it what somebody else had changed, is not written back.
OnlyTypedIsWritten ==
    \A s \in Saves : save'[s].todo \subseteq save[s].todo \cup typed

\* Once the saves and the fetch have ended, the form is filled with what the
\* server holds, so that leaving it with no question loses nothing: also when
\* the form was left and opened again during a save, or the fetch of one option
\* was answered while the next one was being stored.  Excepted are forms of
\* several administrators and updates that were refused or failed (the form
\* keeps a refused value as a saved one), saves that crossed, and an answer
\* read before the last update was stored (the invalidation joins its GET).
AtRest == Mounted /\ ~waiting /\ \A s \in Saves : ~Active(s)
SavedIsShown ==
    AtRest /\ events = 0 /\ ~crossed /\ ~behind => form.base = srv
=============================================================================
