----------------------------- MODULE ContentList -----------------------------
(***************************************************************************)
(* The list editors of the content settings: announcements and Uptime Kuma *)
(* groups keep a copy of the list that is replaced whenever the option is   *)
(* fetched anew; the API addresses keep a draft that exists only while      *)
(* there are changes.  Each saves the whole list as one option.             *)
(*                                                                         *)
(* Sources, under web/src/features/system-settings/content:                 *)
(* announcements-section.tsx, uptime-kuma-section.tsx (style "copy") and    *)
(* api-info-section.tsx (style "draft"), with ../hooks/use-update-option.ts *)
(* and the shared GET of lib/http-client.ts.                                *)
(*                                                                         *)
(* An entry is its id and, as a history, the identity `of' it was created   *)
(* with; its texts and its place in the list are data.  Id 0 stands for an  *)
(* entry stored without one: such entries were in the list from the start,  *)
(* where `of' is the place.                                                 *)
(* The switch of a section is an option of its own and is left out, except  *)
(* that it makes the option be fetched, which may happen at any time.       *)
(***************************************************************************)
EXTENDS Naturals, FiniteSetsExt

CONSTANTS Styles,     \* of "copy" and "draft"
          Start,      \* lists the server may hold at the start
          MaxEntries, \* bound: entries ever in the list, and their ids
          MaxSaves,   \* bound: saves
          MaxFaults   \* bound: saves refused or failed

Entries == 1..MaxEntries
Entry == [id : 0..MaxEntries, of : Entries]
Ofs(l) == {e.of : e \in l}
Ids(l) == {e.id : e \in l}

\* An entry without an id takes its position.
Parse(l) == {[e EXCEPT !.id = IF @ = 0 THEN e.of ELSE @] : e \in l}

\* The entries of a list can be told apart by their ids.
HasKeys(l) == \A e, f \in l : e.id = f.id => e = f

ContentListAssumption ==
    /\ Styles \subseteq {"copy", "draft"}
    /\ \A l \in Start : l \subseteq Entry
    /\ {MaxEntries, MaxSaves, MaxFaults} \subseteq Nat

VARIABLES style,    \* the member of Styles this section follows
          srv,      \* the option on the server, as the node that answers has it
          data,     \* the prop of the section: what the query last fetched
          get,      \* the GET in flight: nothing, or the list it will bring
          mounted,  \* the section is shown
          ui,       \* state of the section
          save,     \* the save in flight
          next,     \* history: next identity
          gone,     \* history: entries the user has deleted
          behind,   \* history: the list shown was taken from an answer that
                    \* the last save had not got into
          clash,    \* history: the list at the start gives two entries one id
                    \* (some had one and some took their position)
          saves, faults

vars == <<style, srv, data, get, mounted, ui, save, next, gone, behind, clash,
          saves, faults>>

\* has stands for hasChanges (a draft that is not null), list for the copy or
\* the draft.
Fresh == [list |-> {}, has |-> FALSE, sel |-> {}, dialog |-> "none",
          target |-> "single", editing |-> 0]
NoSave == [pc |-> "none", val |-> {}]
NoGet == [pc |-> "none", val |-> {}]

TypeOK ==
    /\ style \in Styles
    /\ srv \subseteq Entry /\ data \subseteq Entry
    /\ get \in [pc : {"none", "sent", "answered"}, val : SUBSET Entry]
    /\ mounted \in BOOLEAN
    /\ ui \in [list : SUBSET [id : Entries, of : Entries],
               has : BOOLEAN, sel : SUBSET Entries,
               dialog : {"none", "form", "delete"},
               target : {"single", "batch"}, editing : 0..MaxEntries]
    /\ save \in [pc : {"none", "sent", "stored", "refused", "failed"},
                 val : SUBSET Entry]
    /\ next \in 1..(MaxEntries + 1)
    /\ gone \subseteq Entries /\ behind \in BOOLEAN /\ clash \in BOOLEAN
    /\ saves \in 0..MaxSaves /\ faults \in 0..MaxFaults

-----------------------------------------------------------------------------
(* The list that is shown.                                                 *)

Shown == IF style = "draft" /\ ~ui.has THEN Parse(data) ELSE ui.list
Idle == mounted /\ ui.dialog = "none"

\* What every edit does: a new list, and the changes are to be saved.
Edit(u, l) == [u EXCEPT !.list = l, !.has = TRUE]

\* A dialog closes.  What it was opened for is set anew by whatever opens the
\* next one, so it is forgotten here.
Closed(u) == [u EXCEPT !.dialog = "none", !.editing = 0, !.target = "single"]

NewId(l) == Max(Ids(l) \cup {0}) + 1

\* The list d was read before what the last save stores was there.
IsBehind(d) == d # srv \/ save.pc = "sent"

-----------------------------------------------------------------------------
(* The user.                                                               *)

\* handleAdd and handleEdit: the dialog with the form.
OpenForm ==
    /\ Idle
    /\ \E i \in Ids(Shown) \cup {0} :
        ui' = [ui EXCEPT !.dialog = "form", !.editing = i]
    /\ UNCHANGED <<style, srv, data, get, mounted, save, next, gone, behind,
                   clash, saves, faults>>

\* handleSubmitForm: an edit replaces the texts of the entry with that id.
handleSubmitForm ==
    /\ mounted /\ ui.dialog = "form"
    /\ \/ /\ ui.editing # 0
          /\ ui' = Closed(Edit(ui, Shown))
          /\ UNCHANGED next
       \/ /\ ui.editing = 0 /\ next <= MaxEntries
          /\ NewId(Shown) <= MaxEntries
          /\ ui' = Closed(Edit(ui, Shown \cup {[id |-> NewId(Shown), of |-> next]}))
          /\ next' = next + 1
    /\ UNCHANGED <<style, srv, data, get, mounted, save, gone, behind, clash,
                   saves, faults>>

\* handleDelete of a row, and handleBatchDelete.
OpenDelete ==
    /\ Idle
    /\ \/ \E i \in Ids(Shown) :
            ui' = [ui EXCEPT !.dialog = "delete", !.target = "single",
                             !.editing = i]
       \/ /\ ui.sel # {}
          /\ ui' = [ui EXCEPT !.dialog = "delete", !.target = "batch"]
    /\ UNCHANGED <<style, srv, data, get, mounted, save, next, gone, behind,
                   clash, saves, faults>>

Removed == IF ui.target = "single" THEN {ui.editing} ELSE ui.sel

confirmDelete ==
    /\ mounted /\ ui.dialog = "delete"
    /\ LET kept == {e \in Shown : e.id \notin Removed}
       IN  /\ ui' = [Closed(Edit(ui, kept)) EXCEPT
                        !.sel = IF ui.target = "batch" THEN {} ELSE @]
           /\ gone' = gone \cup (Ofs(Shown) \ Ofs(kept))
    /\ UNCHANGED <<style, srv, data, get, mounted, save, next, behind, clash,
                   saves, faults>>

\* Cancel of either dialog.
Cancel ==
    /\ mounted /\ ui.dialog # "none"
    /\ ui' = Closed(ui)
    /\ UNCHANGED <<style, srv, data, get, mounted, save, next, gone, behind,
                   clash, saves, faults>>

\* toggleSelectOne and toggleSelectAll.
Toggle ==
    /\ Idle
    /\ \/ \E i \in Ids(Shown) :
            ui' = [ui EXCEPT !.sel = IF i \in @ THEN @ \ {i} ELSE @ \cup {i}]
       \/ \E all \in {{}, Ids(Shown)} : ui' = [ui EXCEPT !.sel = all]
    /\ UNCHANGED <<style, srv, data, get, mounted, save, next, gone, behind,
                   clash, saves, faults>>

-----------------------------------------------------------------------------
(* Saving and fetching.                                                    *)

handleSaveAll ==
    /\ Idle /\ ui.has /\ save.pc = "none" /\ saves < MaxSaves
    /\ save' = [pc |-> "sent", val |-> Shown]
    /\ saves' = saves + 1
    /\ UNCHANGED <<style, srv, data, get, mounted, ui, next, gone, behind, clash,
                   faults>>

\* UpdateOption of the server: stored, refused by ValidateConsoleSettings, or an
\* HTTP error or a lost answer, before or after the list was stored.
ServeSave ==
    /\ save.pc = "sent"
    /\ \/ /\ srv' = save.val
          /\ save' = [save EXCEPT !.pc = "stored"]
          /\ UNCHANGED faults
       \/ /\ faults < MaxFaults /\ faults' = faults + 1
          /\ \/ srv' = srv /\ save' = [save EXCEPT !.pc = "refused"]
             \/ srv' \in {srv, save.val} /\ save' = [save EXCEPT !.pc = "failed"]
    /\ UNCHANGED <<style, data, get, mounted, ui, next, gone, behind, clash, saves>>

\* mutateAsync resolves unless the request failed.  The copy takes a refusal
\* for a success; the draft is dropped only if the list was stored.
SettledUi ==
    IF style = "copy"
    THEN IF save.pc = "failed" THEN ui ELSE [ui EXCEPT !.has = FALSE]
    ELSE IF save.pc = "stored" THEN [ui EXCEPT !.has = FALSE, !.list = {}]
         ELSE ui

\* The answer: onSuccess of useUpdateOption fetches the options again, joining
\* a GET in flight, then handleSaveAll goes on.
SaveAnswered ==
    /\ save.pc \in {"stored", "refused", "failed"}
    /\ get' = IF save.pc = "stored" /\ mounted /\ get.pc = "none"
              THEN [pc |-> "sent", val |-> {}] ELSE get
    /\ ui' = IF mounted THEN SettledUi ELSE ui
    /\ behind' = IF mounted /\ style = "draft" /\ save.pc = "stored"
                 THEN IsBehind(data) ELSE behind
    /\ save' = NoSave
    /\ UNCHANGED <<style, srv, data, mounted, next, gone, clash, saves, faults>>

\* Another option of the page is saved and the options are fetched.
Refetch ==
    /\ mounted /\ get.pc = "none"
    /\ get' = [pc |-> "sent", val |-> {}]
    /\ UNCHANGED <<style, srv, data, mounted, ui, save, next, gone, behind,
                   clash, saves, faults>>

ServeGet ==
    /\ get.pc = "sent"
    /\ get' = [pc |-> "answered", val |-> srv]
    /\ UNCHANGED <<style, srv, data, mounted, ui, save, next, gone, behind,
                   clash, saves, faults>>

\* The effect on data: the copy is replaced if the string has changed, be it
\* only in a text; a draft stays, without one the new list is shown.
GetAnswered ==
    /\ get.pc = "answered"
    /\ data' = get.val
    /\ \E changed \in {get.val # data, TRUE} :
        /\ ui' = IF mounted /\ style = "copy" /\ changed
                 THEN [ui EXCEPT !.list = Parse(get.val)] ELSE ui
        /\ behind' = IF IF style = "copy" THEN changed ELSE ~ui.has
                     THEN IsBehind(get.val) ELSE behind
    /\ get' = NoGet
    /\ UNCHANGED <<style, srv, mounted, save, next, gone, clash, saves, faults>>

\* The section is unmounted; a save goes on.
Leave ==
    /\ Idle
    /\ mounted' = FALSE
    /\ ui' = Fresh
    /\ UNCHANGED <<style, srv, data, get, save, next, gone, behind, clash, saves,
                   faults>>

Return ==
    /\ ~mounted
    /\ mounted' = TRUE
    /\ ui' = IF style = "copy" THEN [Fresh EXCEPT !.list = Parse(data)] ELSE Fresh
    /\ get' = IF get.pc = "none" THEN [pc |-> "sent", val |-> {}] ELSE get
    /\ behind' = IsBehind(data)
    /\ UNCHANGED <<style, srv, data, save, next, gone, clash, saves, faults>>

-----------------------------------------------------------------------------

Init ==
    /\ style \in Styles
    /\ srv \in Start
    /\ data = srv
    /\ get = NoGet
    /\ mounted = TRUE
    /\ ui = IF style = "copy" THEN [Fresh EXCEPT !.list = Parse(data)] ELSE Fresh
    /\ save = NoSave
    /\ next = Max(Ofs(srv) \cup {0}) + 1
    /\ gone = {}
    /\ behind = FALSE
    /\ clash = ~HasKeys(Parse(srv))
    /\ saves = 0
    /\ faults = 0

Next ==
    \/ OpenForm \/ handleSubmitForm \/ OpenDelete \/ confirmDelete \/ Cancel
    \/ Toggle \/ handleSaveAll \/ ServeSave \/ SaveAnswered
    \/ Refetch \/ ServeGet \/ GetAnswered \/ Leave \/ Return

Spec == Init /\ [][Next]_vars

-----------------------------------------------------------------------------
(* Properties.                                                             *)

\* The entries of the list have different ids, so that an edit or a deletion
\* by id reaches one entry: after any deletions, additions, saves and fetches,
\* also of lists stored without ids.  Excepted are lists that were stored with
\* ids for some entries only and give the position of one as the id of another.
IdsDiffer == clash \/ HasKeys(Shown)

\* With one administrator a save never takes away an entry that the server has
\* and no deletion in the list took out, unless the list on screen was replaced
\* by one that is older than the last save: an answer read before the save
\* arrived after it was sent, or a draft was dropped before the list was fetched
\* again.  (Of entries with one id a deletion takes out all.)
SaveKeepsOthers ==
    save.pc = "sent" /\ ~behind => Ofs(srv) \subseteq Ofs(save.val) \cup gone
=============================================================================
