---------------------------- MODULE ChannelProofs ----------------------------
(***************************************************************************)
(* Theorems about the channels, for every deployment, threshold, window    *)
(* and bound.  Of ChannelBan, which this module extends: the rows stay     *)
(* well typed, which bounds the failures a row can count, no failure is    *)
(* lost between nodes, and a selection restores a channel only when its    *)
(* last ban has been served.  Of UpstreamUpdates, which it extends too:    *)
(* only reported models are added and removed, and what applies report     *)
(* stays done.                                                             *)
(***************************************************************************)
EXTENDS ChannelBan, UpstreamUpdates, TLAPS

\* A row, or a copy of it, after c calls: each save of a form can bring back a
\* count that is one higher than the last, each enabling by tag lets it grow by
\* one more.
Fits(r, c) == r \in Rows /\ r.fails <= Threshold + c

Copy(r, c) == r = NoRow \/ Fits(r, c)

\* The failures a streak can have after c calls.
Cap(c) == Threshold * (c + 1)

\* The row: its count, its streak, and the end of its ban.
RowFits ==
  /\ Fits(row, calls)
  /\ row.status = "enabled" => row.fails < Threshold + calls
  /\ streak \in Nat /\ streak <= Cap(calls)
  /\ row.status = "enabled" => /\ streak < Cap(calls)
                               /\ streak + Threshold <= Cap(calls) + row.fails

\* A row has the end of the last ban or none, and without tags only an
\* automatically disabled row has one.
BanKnown ==
  ~EndMayBeOld => /\ row.until \in {0, banEnd}
                  /\ ~use.tags /\ row.status # "auto" => row.until = 0

\* Copies of the row, wherever they are.
CopiesFit ==
  /\ Copy(form, calls)
  /\ \A n \in Nodes : Fits(cache[n], calls) /\ Copy(held[n], calls) /\ Copy(snap[n], calls)
  /\ \A p \in Callers : Copy(caller[p].copy, calls)

\* A caller that is about to write a copy has one, and a caller that disables
\* the channel, which only the balance check does, read it while it was not banned.
CallerOK(p) ==
  /\ caller[p] \in Callings
  /\ caller[p].pc \in {"save", "swap"} => caller[p].copy # NoRow
  /\ ~EndMayBeOld /\ caller[p].pc = "save" /\ caller[p].want = "auto" => caller[p].copy.until = 0
  /\ caller[p].want = "auto" \/ (p = "balance" /\ caller[p].pc = "testing") =>
        "balance" \in use.callers

\* The rest of the state, and the form.
Rest ==
  /\ use \in Uses
  /\ waiting \in [Nodes -> SUBSET {"clear", "restore"}]
  /\ now \in 0..MaxTime /\ calls \in 0..MaxCalls
  /\ banEnd \in 0..MaxTime /\ disabled \in BOOLEAN
  /\ form # NoRow => use.form

\* The variables that are functions.
Domains ==
  /\ cache = [n \in Nodes |-> cache[n]]
  /\ held = [n \in Nodes |-> held[n]]
  /\ snap = [n \in Nodes |-> snap[n]]
  /\ caller = [p \in Callers |-> caller[p]]

Inv ==
  /\ RowFits /\ BanKnown /\ FailuresAreCounted
  /\ CopiesFit /\ (\A p \in Callers : CallerOK(p))
  /\ Rest /\ Domains

-----------------------------------------------------------------------------
\* The fields of a row.
LEMMA RowFields ==
  ASSUME NEW r \in Rows
  PROVE  /\ r.status \in Statuses /\ r.until \in 0..MaxTime /\ r.until \in Nat /\ r.fails \in Nat
         /\ r # NoRow
         /\ r = [status |-> r.status, until |-> r.until, fails |-> r.fails]
<1>1. r.status \in Statuses /\ r.until \in 0..MaxTime /\ r.fails \in 0..(Threshold + MaxCalls)
  BY DEF Rows
<1>2. r # NoRow
  BY <1>1 DEF NoRow, Statuses
<1> QED
  BY <1>1, <1>2, BanAssumption DEF Rows

\* A record whose count is low enough is a row.
LEMMA RowMade ==
  ASSUME NEW r, NEW st \in Statuses, NEW u \in 0..MaxTime, NEW f \in Nat, NEW c \in 0..MaxCalls,
         r = [status |-> st, until |-> u, fails |-> f], f <= Threshold + c
  PROVE  Fits(r, c)
<1>1. f \in 0..(Threshold + MaxCalls)
  BY BanAssumption
<1> QED
  BY <1>1 DEF Fits, Rows

\* Calls only make room.
LEMMA Room ==
  ASSUME NEW c \in 0..MaxCalls, NEW d \in 0..MaxCalls, c <= d
  PROVE  /\ \A r : (Fits(r, c) => Fits(r, d)) /\ (Copy(r, c) => Copy(r, d))
         /\ Cap(c) \in Nat /\ Cap(d) \in Nat /\ Cap(c) <= Cap(d)
         /\ Cap(c) >= Threshold
         /\ c # d => Cap(c) + Threshold <= Cap(d)
<1>1. c \in Nat /\ d \in Nat /\ Threshold \in Nat
  BY BanAssumption
<1>2. ASSUME NEW r, Fits(r, c) PROVE Fits(r, d)
  BY <1>1, <1>2, RowFields DEF Fits
<1>3. \A r : (Fits(r, c) => Fits(r, d)) /\ (Copy(r, c) => Copy(r, d))
  BY <1>2 DEF Copy
<1>4. PICK k \in Nat : d = c + k
  BY <1>1
<1>5. Cap(d) = Cap(c) + Threshold * k /\ Cap(c) = Threshold * c + Threshold
  BY <1>1, <1>4 DEF Cap
<1>6. Threshold * c \in Nat /\ Threshold * k \in Nat /\ (k # 0 => Threshold * k >= Threshold)
  BY <1>1
<1> QED
  BY <1>1, <1>3, <1>4, <1>5, <1>6

\* Numbers and the use.
LEMMA Numbers ==
  ASSUME Rest
  PROVE  /\ calls \in Nat /\ now \in Nat /\ banEnd \in Nat
         /\ Threshold \in Nat /\ Threshold >= 1 /\ Window \in Nat /\ Window >= 1
         /\ MaxTime \in Nat /\ MaxCalls \in Nat
         /\ use.form \in BOOLEAN /\ use.nodes \subseteq Nodes
BY BanAssumption DEF Rest

-----------------------------------------------------------------------------
(* Who writes the row, and what becomes of the count and of the ban.       *)

RowOK == RowFits /\ BanKnown /\ FailuresAreCounted

\* What is known of the row before a step.
LEMMA RowNow ==
  ASSUME Inv
  PROVE  /\ row \in Rows /\ row.status \in Statuses /\ row.until \in 0..MaxTime
         /\ row.until \in Nat /\ row.fails \in Nat /\ streak \in Nat
         /\ row.fails <= Threshold + calls /\ streak <= Cap(calls)
         /\ row.status = "enabled" => /\ row.fails < Threshold + calls
                                      /\ streak < Cap(calls)
                                      /\ streak + Threshold <= Cap(calls) + row.fails
         /\ Cap(calls) \in Nat /\ Cap(calls) >= Threshold
         /\ calls \in 0..MaxCalls
         /\ RowOK /\ Rest
<1>1. RowOK /\ Rest /\ calls \in 0..MaxCalls /\ row \in Rows
  BY DEF Inv, RowOK, RowFits, Rest, Fits
<1>2. Cap(calls) \in Nat /\ Cap(calls) >= Threshold
  BY <1>1, Numbers, Room
<1> QED
  BY <1>1, <1>2, RowFields DEF RowOK, RowFits, Fits

\* A step that leaves the row alone, and may end a streak.
LEMMA RowKept ==
  ASSUME Inv, UNCHANGED <<use, row, banEnd>>, streak' \in {0, streak},
         calls' \in 0..MaxCalls, calls <= calls'
  PROVE  RowOK'
<1>1. Fits(row', calls') /\ Cap(calls) <= Cap(calls') /\ Cap(calls') \in Nat
  BY RowNow, Room DEF RowOK, RowFits
<1>2. calls \in Nat /\ calls' \in Nat /\ Threshold \in Nat
  BY RowNow, Numbers
<1>3. RowFits'
  BY <1>1, <1>2, RowNow DEF RowFits
<1>4. BanKnown'
  BY RowNow DEF BanKnown, RowOK, EndMayBeOld
<1>5. FailuresAreCounted'
  BY RowNow DEF FailuresAreCounted, RowOK
<1> QED
  BY <1>3, <1>4, <1>5 DEF RowOK

\* A step that makes the row r, given its fields.
LEMMA RowWritten ==
  ASSUME Inv, UNCHANGED <<use, calls>>,
         NEW st \in Statuses, NEW u \in 0..MaxTime, NEW f \in Nat,
         row' = [status |-> st, until |-> u, fails |-> f], f <= Threshold + calls,
         streak' \in Nat, streak' <= Cap(calls),
         st = "enabled" => /\ f < Threshold + calls
                           /\ streak' < Cap(calls)
                           /\ streak' + Threshold <= Cap(calls) + f
                           /\ f >= streak' \/ use.form,
         EndMayBeOld \/ u = 0 \/ (u = banEnd' /\ (st = "auto" \/ use.tags))
  PROVE  RowOK'
<1>1. Fits(row', calls')
  BY RowNow, RowMade
<1>2. row'.status = st /\ row'.until = u /\ row'.fails = f
  OBVIOUS
<1>3. RowFits'
  BY <1>1, <1>2 DEF RowFits
<1>4. BanKnown'
  BY <1>2 DEF BanKnown, EndMayBeOld
<1>5. FailuresAreCounted'
  BY <1>2 DEF FailuresAreCounted
<1> QED
  BY <1>3, <1>4, <1>5 DEF RowOK

\* RecordChannelAutoBanFailure adds to the count of the row it has locked.
LEMMA FailureRow ==
  ASSUME Inv, NEW n \in Nodes, RecordFailure(n)
  PROVE  RowOK'
<1> DEFINE f == row.fails + 1
<1>0. /\ calls \in Nat /\ now \in Nat /\ Threshold \in Nat /\ Window \in Nat /\ MaxTime \in Nat
      /\ Threshold >= 1
  BY RowNow, Numbers
<1>1. /\ row.status = "enabled" /\ row.fails \in Nat /\ streak \in Nat
      /\ row.fails < Threshold + calls /\ streak < Cap(calls)
      /\ streak + Threshold <= Cap(calls) + row.fails /\ Cap(calls) \in Nat
  BY RowNow DEF RecordFailure
<1>2. /\ f \in Nat /\ f <= Threshold + calls
      /\ streak' \in Nat /\ streak' = streak + 1 /\ streak' <= Cap(calls)
      /\ streak' + Threshold <= Cap(calls) + f
  BY <1>0, <1>1 DEF RecordFailure
<1>3. UNCHANGED <<use, calls>>
  BY DEF RecordFailure
<1>4. CASE f >= Threshold
  <2>1. row' = [status |-> "auto", until |-> now + Window, fails |-> f] /\ banEnd' = now + Window
        /\ now + Window <= MaxTime
    BY <1>4 DEF RecordFailure, CountedFailures, Banned
  <2>2. now + Window \in 0..MaxTime
    BY <1>0, <2>1
  <2>3. "auto" \in Statuses /\ "auto" # "enabled"
    BY DEF Statuses
  <2> QED
    BY <1>2, <1>3, <2>1, <2>2, <2>3, RowWritten
<1>5. CASE ~(f >= Threshold)
  <2>1. row' = [status |-> row.status, until |-> row.until, fails |-> f] /\ banEnd' = banEnd
    <3>1. row' = [row EXCEPT !.fails = f]
      BY <1>5 DEF RecordFailure, CountedFailures
    <3> QED
      BY <1>5, <3>1, RowNow, RowFields DEF RecordFailure, CountedFailures
  <2>2. f < Threshold + calls /\ streak' < Cap(calls)
    BY <1>0, <1>1, <1>2, <1>5
  <2>3. f >= streak' \/ use.form
    BY <1>1, <1>2, RowNow DEF RowOK, FailuresAreCounted
  <2>4. EndMayBeOld \/ row.until = 0 \/ (row.until = banEnd' /\ use.tags)
    BY <1>1, <2>1, RowNow DEF RowOK, BanKnown
  <2> QED
    BY <1>2, <1>3, <2>1, <2>2, <2>3, <2>4, RowNow, RowWritten
<1> QED
  BY <1>4, <1>5

\* ClearChannelAutoBanFailures and MaybeRestoreAutoBannedChannel end the streak
\* together with the count.
LEMMA ResetRow ==
  ASSUME Inv, NEW n \in Nodes, ClearFailures(n) \/ MaybeRestore(n)
  PROVE  RowOK'
<1>0. /\ calls \in Nat /\ Threshold \in Nat /\ Threshold >= 1 /\ 0 \in 0..MaxTime
      /\ Cap(calls) \in Nat /\ Cap(calls) >= Threshold /\ 0 \in Nat
  BY RowNow, Numbers
<1>1. UNCHANGED <<use, calls, banEnd>>
  BY DEF ClearFailures, MaybeRestore
<1>2. CASE row' = row /\ streak' \in {0, streak}
  BY <1>0, <1>1, <1>2, RowNow, RowKept
<1>3. ASSUME NEW u \in 0..MaxTime, row' = [status |-> "enabled", until |-> u, fails |-> 0],
             streak' = 0, EndMayBeOld \/ u = 0 \/ (u = banEnd' /\ use.tags)
      PROVE  RowOK'
  <2>1. "enabled" \in Statuses
    BY DEF Statuses
  <2>2. /\ 0 < Threshold + calls /\ 0 <= Threshold + calls /\ 0 < Cap(calls) /\ 0 <= Cap(calls)
        /\ 0 + Threshold <= Cap(calls) + 0 /\ 0 >= 0
    BY <1>0
  <2> QED
    BY <1>0, <1>1, <1>3, <2>1, <2>2, RowWritten
<1>4. CASE row' = [row EXCEPT !.fails = 0] /\ row.status = "enabled" /\ streak' = 0
  <2>1. row' = [status |-> "enabled", until |-> row.until, fails |-> 0]
    BY <1>4, RowNow, RowFields
  <2>2. EndMayBeOld \/ row.until = 0 \/ (row.until = banEnd' /\ use.tags)
    BY <1>1, <1>4, RowNow DEF RowOK, BanKnown
  <2> QED
    BY <1>3, <1>4, <2>1, <2>2, RowNow
<1>5. CASE row' = FreshRow /\ streak' = 0
  BY <1>0, <1>3, <1>5 DEF FreshRow
<1> QED
  BY <1>2, <1>4, <1>5 DEF ClearFailures, MaybeRestore

\* saveStatusState writes a copy that another node may have overtaken: what it
\* brings back is never a ban.
LEMMA SavedRow ==
  ASSUME Inv, NEW p \in Callers, StatusSave(p)
  PROVE  RowOK'
<1> DEFINE copy == caller[p].copy
           want == caller[p].want
<1>0. /\ calls \in Nat /\ Threshold \in Nat /\ Threshold >= 1 /\ 0 \in 0..MaxTime
      /\ Cap(calls) \in Nat /\ Cap(calls) >= Threshold /\ 0 \in Nat
  BY RowNow, Numbers
<1>1. caller[p].pc = "save" /\ want \in Statuses /\ UNCHANGED <<use, calls, banEnd>>
  BY DEF StatusSave, Inv, CallerOK, Callings
<1>2. copy \in Rows /\ copy.fails <= Threshold + calls
  BY <1>1 DEF Inv, CallerOK, CopiesFit, Copy, Fits
<1>3. /\ copy.until \in 0..MaxTime /\ copy.fails \in Nat
      /\ copy = [status |-> copy.status, until |-> copy.until, fails |-> copy.fails]
  BY <1>2, RowFields
<1>4. CASE want = "auto"
  <2>1. row' = [status |-> want, until |-> copy.until, fails |-> copy.fails]
    <3>1. row' = [copy EXCEPT !.status = want]
      BY <1>4 DEF StatusSave, Saved
    <3> QED
      BY <1>3, <3>1
  <2>2. streak' = streak
    BY <1>4, <2>1 DEF StatusSave
  <2>3. EndMayBeOld \/ copy.until = 0
    BY <1>1, <1>4 DEF Inv, CallerOK
  <2>4. want # "enabled"
    BY <1>4
  <2> QED
    BY <1>1, <1>2, <1>3, <2>1, <2>2, <2>3, <2>4, RowNow, RowWritten
<1>5. CASE want # "auto"
  <2>1. row' = [status |-> want, until |-> 0, fails |-> 0]
    <3>1. row' = [Cleared(copy) EXCEPT !.status = want]
      BY <1>5 DEF StatusSave, Saved
    <3> QED
      BY <1>3, <3>1 DEF Cleared
  <2>2. streak' = IF want = "enabled" THEN 0 ELSE streak
    BY <2>1 DEF StatusSave
  <2>3. /\ streak' \in Nat /\ streak' <= Cap(calls) /\ 0 <= Threshold + calls
        /\ want = "enabled" => /\ 0 < Threshold + calls /\ streak' < Cap(calls)
                               /\ streak' + Threshold <= Cap(calls) + 0 /\ 0 >= streak'
    BY <1>0, <2>2, RowNow
  <2> QED
    BY <1>0, <1>1, <2>1, <2>3, RowWritten
<1> QED
  BY <1>4, <1>5

\* A form that is saved brings back the count and the end it has loaded.
LEMMA FormRow ==
  ASSUME Inv, NEW n \in Nodes, SaveForm(n)
  PROVE  RowOK'
<1>0. /\ calls \in Nat /\ Threshold \in Nat /\ Threshold >= 1 /\ MaxCalls \in Nat
  BY RowNow, Numbers
<1>1. /\ calls' = calls + 1 /\ calls' \in 0..MaxCalls /\ calls' \in Nat
      /\ UNCHANGED <<use, streak, banEnd>> /\ use.form
  BY <1>0, RowNow DEF SaveForm, books, Rest
<1>2. form \in Rows /\ form.fails <= Threshold + calls
  BY DEF SaveForm, Inv, CopiesFit, Copy, Fits
<1>3. form.until \in 0..MaxTime /\ form.fails \in Nat
  BY <1>2, RowFields
<1>4. row' = [status |-> row.status, until |-> form.until, fails |-> form.fails]
  <2>1. row' = [row EXCEPT !.until = form.until, !.fails = form.fails]
    BY DEF SaveForm
  <2>2. row = [status |-> row.status, until |-> row.until, fails |-> row.fails]
    BY RowNow, RowFields
  <2> QED
    BY <2>1, <2>2
<1>5. form.fails < Threshold + calls' /\ form.fails <= Threshold + calls'
  BY <1>0, <1>1, <1>2, <1>3
<1>6. Fits(row', calls')
  BY <1>1, <1>3, <1>4, <1>5, RowNow, RowMade
<1>7. Cap(calls) + Threshold <= Cap(calls') /\ Cap(calls) \in Nat /\ Cap(calls') \in Nat
  <2>1. calls <= calls' /\ calls # calls'
    BY <1>0, <1>1
  <2> QED
    BY <1>1, <2>1, RowNow, Room
<1>8. /\ streak' \in Nat /\ streak' <= Cap(calls') /\ streak' < Cap(calls')
      /\ streak' + Threshold <= Cap(calls') + form.fails
  BY <1>0, <1>1, <1>3, <1>7, RowNow
<1>9. RowFits'
  BY <1>4, <1>5, <1>6, <1>8 DEF RowFits
<1> QED
  BY <1>1, <1>9 DEF RowOK, BanKnown, EndMayBeOld, FailuresAreCounted

\* An enabling by tag leaves the count and the end where they are.
LEMMA TagRow ==
  ASSUME Inv, NEW n \in Nodes, NEW want \in Statuses, TagStatus(n, want)
  PROVE  RowOK'
<1>0. /\ calls \in Nat /\ Threshold \in Nat /\ Threshold >= 1 /\ MaxCalls \in Nat
  BY RowNow, Numbers
<1>1. /\ calls' = calls + 1 /\ calls' \in 0..MaxCalls /\ calls' \in Nat
      /\ UNCHANGED <<use, banEnd>> /\ use.tags /\ want # "auto"
      /\ streak' = IF row.status # want /\ want = "enabled" THEN 0 ELSE streak
  BY <1>0, RowNow DEF TagStatus
<1>2. row' = [status |-> want, until |-> row.until, fails |-> row.fails]
  <2>1. row' = [row EXCEPT !.status = want]
    BY DEF TagStatus
  <2>2. row = [status |-> row.status, until |-> row.until, fails |-> row.fails]
    BY RowNow, RowFields
  <2> QED
    BY <2>1, <2>2
<1>3. row.fails < Threshold + calls' /\ row.fails <= Threshold + calls'
  BY <1>0, <1>1, RowNow
<1>4. Fits(row', calls')
  BY <1>1, <1>2, <1>3, RowNow, RowMade
<1>5. Cap(calls) + Threshold <= Cap(calls') /\ Cap(calls) \in Nat /\ Cap(calls') \in Nat
  <2>1. calls <= calls' /\ calls # calls'
    BY <1>0, <1>1
  <2> QED
    BY <1>1, <2>1, RowNow, Room
<1>6. /\ streak' \in Nat /\ streak' <= Cap(calls') /\ streak' < Cap(calls')
      /\ streak' + Threshold <= Cap(calls') + row.fails
  BY <1>0, <1>1, <1>5, RowNow
<1>7. RowFits'
  BY <1>2, <1>3, <1>4, <1>6 DEF RowFits
<1>8. BanKnown'
  BY <1>1, <1>2, RowNow DEF RowOK, BanKnown, EndMayBeOld
<1>9. FailuresAreCounted'
  BY <1>1, <1>2, RowNow DEF RowOK, FailuresAreCounted
<1> QED
  BY <1>7, <1>8, <1>9 DEF RowOK
-----------------------------------------------------------------------------
(* Who writes which variable.                                              *)

LEMMA RowWriters ==
  ASSUME [Next]_vars
  PROVE  \/ \E n \in Nodes : RecordFailure(n) \/ ClearFailures(n) \/ MaybeRestore(n) \/ SaveForm(n)
                            \/ \E want \in Statuses : TagStatus(n, want)
         \/ \E p \in Callers : StatusSave(p)
         \/ UNCHANGED <<row, banEnd>> /\ streak' \in {0, streak}
BY DEF Next, Calling, CacheWrite, Success, Select, AskStatus, SyncRead, SyncSwap, Probe,
       ProbeAnswered, StatusInCache, StatusRead, ReloadRead, ReloadSwap, LoadForm, CloseForm, Tick,
       books, vars

LEMMA HeldWriters ==
  ASSUME [Next]_vars
  PROVE  \/ \E n \in Nodes : RecordFailure(n) \/ ClearFailures(n) \/ MaybeRestore(n) \/ CacheWrite(n)
         \/ UNCHANGED held
BY DEF Next, Calling, Success, Select, AskStatus, TagStatus, SaveForm, SyncRead, SyncSwap, Probe,
       ProbeAnswered, StatusInCache, StatusRead, StatusSave, ReloadRead, ReloadSwap, LoadForm,
       CloseForm, Tick, vars

LEMMA CacheWriters ==
  ASSUME [Next]_vars
  PROVE  \/ \E n \in Nodes : CacheWrite(n) \/ SyncSwap(n)
         \/ \E p \in Callers : StatusInCache(p) \/ ReloadSwap(p)
         \/ UNCHANGED cache
BY DEF Next, Calling, RecordFailure, ClearFailures, MaybeRestore, Success, Select, AskStatus, TagStatus,
       SaveForm, SyncRead, Probe, ProbeAnswered, StatusRead, StatusSave, ReloadRead, LoadForm,
       CloseForm, Tick, vars

LEMMA SnapWriters ==
  ASSUME [Next]_vars
  PROVE  (\E n \in Nodes : SyncRead(n) \/ SyncSwap(n)) \/ UNCHANGED snap
BY DEF Next, Calling, RecordFailure, ClearFailures, MaybeRestore, CacheWrite, Success, Select,
       AskStatus, TagStatus, SaveForm, Probe, ProbeAnswered, StatusInCache, StatusRead, StatusSave, ReloadRead,
       ReloadSwap, LoadForm, CloseForm, Tick, vars

LEMMA FormWriters ==
  ASSUME [Next]_vars
  PROVE  LoadForm \/ form' = NoRow \/ UNCHANGED form
BY DEF Next, Calling, RecordFailure, ClearFailures, MaybeRestore, CacheWrite, Success, Select,
       AskStatus, TagStatus, SaveForm, Probe, ProbeAnswered, StatusInCache, StatusRead, StatusSave, ReloadRead,
       ReloadSwap, SyncRead, SyncSwap, CloseForm, Tick, vars

LEMMA CallerWriters ==
  ASSUME [Next]_vars
  PROVE  \/ \E n \in Nodes : SaveForm(n) \/ \E want \in Statuses : AskStatus(n, want) \/ TagStatus(n, want)
         \/ \E p \in Callers : Calling(p)
         \/ UNCHANGED caller
BY DEF Next, RecordFailure, ClearFailures, MaybeRestore, CacheWrite, Success, Select,
       SyncRead, SyncSwap, LoadForm, CloseForm, Tick, vars

\* The other variables.
LEMMA RestStep ==
  ASSUME Inv, [Next]_vars
  PROVE  use' = use /\ calls <= calls' /\ Rest'
<1>0. Rest
  BY RowNow
<1>1. use' = use
  BY DEF Next, Calling, RecordFailure, ClearFailures, MaybeRestore, CacheWrite, Success, Select,
         AskStatus, TagStatus, SaveForm, SyncRead, SyncSwap, Probe, ProbeAnswered, StatusInCache, StatusRead,
         StatusSave, ReloadRead, ReloadSwap, LoadForm, CloseForm, Tick, vars
<1>2. calls' = calls \/ (calls' = calls + 1 /\ calls < MaxCalls)
  BY DEF Next, Calling, RecordFailure, ClearFailures, MaybeRestore, CacheWrite, Success, Select,
         AskStatus, TagStatus, SaveForm, SyncRead, SyncSwap, Probe, ProbeAnswered, StatusInCache, StatusRead,
         StatusSave, ReloadRead, ReloadSwap, LoadForm, CloseForm, Tick, vars
<1>3. calls <= calls' /\ calls' \in 0..MaxCalls
  BY <1>0, <1>2, BanAssumption DEF Rest
<1>4. now' = now \/ (now' = now + 1 /\ now < MaxTime)
  BY DEF Next, Calling, RecordFailure, ClearFailures, MaybeRestore, CacheWrite, Success, Select,
         AskStatus, TagStatus, SaveForm, SyncRead, SyncSwap, Probe, ProbeAnswered, StatusInCache, StatusRead,
         StatusSave, ReloadRead, ReloadSwap, LoadForm, CloseForm, Tick, vars
<1>5. now' \in 0..MaxTime
  BY <1>0, <1>4, BanAssumption DEF Rest
<1>6. banEnd' = banEnd \/ (banEnd' = now + Window /\ now + Window <= MaxTime)
  <2>1. ASSUME NEW n \in Nodes, RecordFailure(n)
        PROVE  banEnd' = banEnd \/ (banEnd' = now + Window /\ now + Window <= MaxTime)
    BY <2>1 DEF RecordFailure
  <2> QED
    BY <2>1, RowWriters DEF ClearFailures, MaybeRestore, SaveForm, TagStatus, StatusSave, books
<1>7. banEnd' \in 0..MaxTime
  BY <1>0, <1>6, BanAssumption DEF Rest
<1>8. disabled' \in BOOLEAN
  <2>1. ASSUME NEW p \in Callers, Answered(p) PROVE disabled' \in BOOLEAN
    BY <1>0, <2>1 DEF Answered, Rest
  <2>2. CASE \E p \in Callers : Answered(p)
    BY <2>1, <2>2
  <2>3. CASE disabled' \in {FALSE, disabled}
    BY <1>0, <2>3 DEF Rest
  <2> QED
    BY <2>2, <2>3
       DEF Next, Calling, RecordFailure, ClearFailures, MaybeRestore, CacheWrite, Success, Select,
           AskStatus, TagStatus, SaveForm, SyncRead, SyncSwap, Probe, ProbeAnswered, StatusInCache, StatusRead,
           StatusSave, ReloadRead, ReloadSwap, LoadForm, CloseForm, Tick, books, vars
<1>9. waiting' \in [Nodes -> SUBSET {"clear", "restore"}]
  <2>1. CASE UNCHANGED waiting
    BY <1>0, <2>1 DEF Rest
  <2>2. ASSUME NEW n \in Nodes, Success(n) \/ Select(n) \/ ClearFailures(n) \/ MaybeRestore(n)
        PROVE  waiting' \in [Nodes -> SUBSET {"clear", "restore"}]
    <3>1. PICK W \in SUBSET {"clear", "restore"} : waiting' = [waiting EXCEPT ![n] = W]
                                                   \/ UNCHANGED waiting
      <4>1. waiting[n] \in SUBSET {"clear", "restore"}
        BY <1>0 DEF Rest
      <4> DEFINE A == waiting[n] \cup {"clear"}
                 B == waiting[n] \cup {"restore"}
                 C == waiting[n] \ {"clear"}
                 D == waiting[n] \ {"restore"}
      <4>2. {A, B, C, D} \subseteq SUBSET {"clear", "restore"}
        BY <4>1
      <4>3. \E W \in {A, B, C, D} : waiting' = [waiting EXCEPT ![n] = W] \/ UNCHANGED waiting
        BY <2>2 DEF Success, Select, ClearFailures, MaybeRestore
      <4> QED
        BY <4>2, <4>3
    <3> QED
      BY <1>0, <3>1 DEF Rest
  <2> QED
    BY <2>1, <2>2
       DEF Next, Calling, RecordFailure, CacheWrite, AskStatus, TagStatus, SaveForm, SyncRead, SyncSwap,
           Probe, ProbeAnswered, StatusInCache, StatusRead, StatusSave, ReloadRead, ReloadSwap,
           LoadForm, CloseForm, Tick, vars
<1>10. form' # NoRow => use'.form
  BY <1>0, <1>1, FormWriters DEF Rest, LoadForm
<1> QED
  BY <1>0, <1>1, <1>3, <1>5, <1>7, <1>8, <1>9, <1>10 DEF Rest

\* The row after a step.
LEMMA RowStep ==
  ASSUME Inv, [Next]_vars
  PROVE  RowOK'
<1>1. use' = use /\ calls <= calls' /\ calls' \in 0..MaxCalls
  BY RestStep DEF Rest
<1>2. CASE UNCHANGED <<row, banEnd>> /\ streak' \in {0, streak}
  BY <1>1, <1>2, RowKept
<1> QED
  BY <1>2, RowWriters, FailureRow, ResetRow, SavedRow, FormRow, TagRow
-----------------------------------------------------------------------------
(* The copies of the row.                                                  *)

\* What was a row or a copy before a step still is one after it.
LEMMA CopiesLast ==
  ASSUME Inv, [Next]_vars
  PROVE  /\ Fits(row, calls') /\ Fits(row', calls') /\ Copy(form, calls')
         /\ \A n \in Nodes : Fits(cache[n], calls') /\ Copy(held[n], calls') /\ Copy(snap[n], calls')
         /\ \A p \in Callers : Copy(caller[p].copy, calls')
<1>1. calls \in 0..MaxCalls /\ calls' \in 0..MaxCalls /\ calls <= calls'
  BY RowNow, RestStep DEF Rest
<1>2. \A r : (Fits(r, calls) => Fits(r, calls')) /\ (Copy(r, calls) => Copy(r, calls'))
  BY <1>1, Room
<1>3. Fits(row, calls) /\ Fits(row', calls') /\ CopiesFit
  BY RowStep, RowNow DEF RowOK, RowFits, Inv
<1> QED
  BY <1>2, <1>3 DEF CopiesFit

\* The status of a cached copy changes first.
LEMMA CachedStatus ==
  ASSUME NEW r, NEW c \in 0..MaxCalls, Fits(r, c), NEW want \in Statuses
  PROVE  /\ Fits([r EXCEPT !.status = want], c)
         /\ Fits([Cleared(r) EXCEPT !.status = want], c)
<1>1. ASSUME NEW x, Fits(x, c) PROVE Fits([x EXCEPT !.status = want], c)
  BY <1>1 DEF Fits, Rows
<1>2. Fits(Cleared(r), c)
  <2>1. Cleared(r).status = r.status /\ Cleared(r).until = 0 /\ Cleared(r).fails = 0
    BY DEF Fits, Rows, Cleared
  <2>2. 0 \in 0..MaxTime /\ 0 \in 0..(Threshold + MaxCalls) /\ 0 <= Threshold + c
    BY BanAssumption
  <2>3. Cleared(r) \in Rows
    BY <2>2 DEF Fits, Rows, Cleared
  <2> QED
    BY <2>1, <2>2, <2>3 DEF Fits
<1> QED
  BY <1>1, <1>2

LEMMA CacheStep ==
  ASSUME Inv, [Next]_vars
  PROVE  cache' = [n \in Nodes |-> cache'[n]] /\ \A n \in Nodes : Fits(cache'[n], calls')
<1>0. cache = [n \in Nodes |-> cache[n]]
  BY DEF Inv, Domains
<1>1. CASE UNCHANGED cache
  BY <1>0, <1>1, CopiesLast
<1>2. ASSUME NEW m, NEW r, cache' = [cache EXCEPT ![m] = r], m \in Nodes => Fits(r, calls')
      PROVE  cache' = [n \in Nodes |-> cache'[n]] /\ \A n \in Nodes : Fits(cache'[n], calls')
  <2>1. \A n \in Nodes : cache'[n] = IF n = m THEN r ELSE cache[n]
    BY <1>0, <1>2
  <2> QED
    BY <1>0, <1>2, <2>1, CopiesLast
<1>3. ASSUME NEW n \in Nodes, CacheWrite(n)
      PROVE  Fits(held[n], calls') /\ cache' = [cache EXCEPT ![n] = held[n]]
  BY <1>3, CopiesLast DEF CacheWrite, Copy
<1>4. ASSUME NEW n \in Nodes, SyncSwap(n)
      PROVE  Fits(snap[n], calls') /\ cache' = [cache EXCEPT ![n] = snap[n]]
  BY <1>4, CopiesLast DEF SyncSwap, Copy
<1>5. ASSUME NEW p \in Callers, ReloadSwap(p)
      PROVE  Fits(caller[p].copy, calls')
             /\ cache' = [cache EXCEPT ![caller[p].node] = caller[p].copy]
  BY <1>5, CopiesLast DEF ReloadSwap, Copy, Inv, CallerOK
<1>6. ASSUME NEW p \in Callers, StatusInCache(p)
      PROVE  \E r : /\ caller[p].node \in Nodes => Fits(r, calls')
                    /\ cache' = [cache EXCEPT ![caller[p].node] = r]
  <2> DEFINE m == caller[p].node
             want == caller[p].want
             r == [IF want = "auto" THEN cache[m] ELSE Cleared(cache[m]) EXCEPT !.status = want]
  <2>1. cache' = [cache EXCEPT ![m] = r]
    BY <1>6 DEF StatusInCache
  <2>2. want \in Statuses /\ calls' \in 0..MaxCalls
    BY RestStep DEF Inv, CallerOK, Callings, Rest
  <2>3. ASSUME m \in Nodes PROVE Fits(r, calls')
    <3>1. Fits(cache[m], calls')
      BY <2>3, CopiesLast
    <3>2. CASE want = "auto"
      <4>1. r = [cache[m] EXCEPT !.status = want]
        BY <3>2
      <4> QED
        BY <2>2, <3>1, <4>1, CachedStatus
    <3>3. CASE want # "auto"
      <4>1. r = [Cleared(cache[m]) EXCEPT !.status = want]
        BY <3>3
      <4> QED
        BY <2>2, <3>1, <4>1, CachedStatus
    <3> QED
      BY <3>2, <3>3
  <2> QED
    BY <2>1, <2>3
<1> QED
  BY <1>1, <1>2, <1>3, <1>4, <1>5, <1>6, CacheWriters

LEMMA HeldStep ==
  ASSUME Inv, [Next]_vars
  PROVE  /\ held' = [n \in Nodes |-> held'[n]] /\ \A n \in Nodes : Copy(held'[n], calls')
         /\ snap' = [n \in Nodes |-> snap'[n]] /\ \A n \in Nodes : Copy(snap'[n], calls')
         /\ Copy(form', calls')
<1>0. held = [n \in Nodes |-> held[n]] /\ snap = [n \in Nodes |-> snap[n]]
  BY DEF Inv, Domains
<1>1. Copy(row, calls') /\ Copy(row', calls') /\ Copy(NoRow, calls')
  BY CopiesLast DEF Copy
<1>2. ASSUME NEW n \in Nodes, NEW r \in {row', NoRow}, held' = [held EXCEPT ![n] = r]
      PROVE  held' = [m \in Nodes |-> held'[m]] /\ \A m \in Nodes : Copy(held'[m], calls')
  <2>1. \A m \in Nodes : held'[m] = IF m = n THEN r ELSE held[m]
    BY <1>0, <1>2
  <2> QED
    BY <1>0, <1>1, <1>2, <2>1, CopiesLast
<1>3. held' = [n \in Nodes |-> held'[n]] /\ \A n \in Nodes : Copy(held'[n], calls')
  <2>1. CASE UNCHANGED held
    BY <1>0, <2>1, CopiesLast
  <2>2. ASSUME NEW n \in Nodes,
               RecordFailure(n) \/ ClearFailures(n) \/ MaybeRestore(n) \/ CacheWrite(n)
        PROVE  held' = [held EXCEPT ![n] = row'] \/ held' = [held EXCEPT ![n] = NoRow]
               \/ UNCHANGED held
    BY <2>2 DEF RecordFailure, ClearFailures, MaybeRestore, CacheWrite
  <2> QED
    BY <1>2, <2>1, <2>2, HeldWriters
<1>4. ASSUME NEW n \in Nodes, NEW r \in {row, NoRow}, snap' = [snap EXCEPT ![n] = r]
      PROVE  snap' = [m \in Nodes |-> snap'[m]] /\ \A m \in Nodes : Copy(snap'[m], calls')
  <2>1. \A m \in Nodes : snap'[m] = IF m = n THEN r ELSE snap[m]
    BY <1>0, <1>4
  <2> QED
    BY <1>0, <1>1, <1>4, <2>1, CopiesLast
<1>5. snap' = [n \in Nodes |-> snap'[n]] /\ \A n \in Nodes : Copy(snap'[n], calls')
  <2>1. CASE UNCHANGED snap
    BY <1>0, <2>1, CopiesLast
  <2>2. ASSUME NEW n \in Nodes, SyncRead(n) \/ SyncSwap(n)
        PROVE  snap' = [snap EXCEPT ![n] = row] \/ snap' = [snap EXCEPT ![n] = NoRow]
    BY <2>2 DEF SyncRead, SyncSwap
  <2> QED
    BY <1>4, <2>1, <2>2, SnapWriters
<1>6. Copy(form', calls')
  BY <1>1, CopiesLast, FormWriters DEF LoadForm
<1> QED
  BY <1>3, <1>5, <1>6
-----------------------------------------------------------------------------
(* The callers of UpdateChannelStatus.                                     *)

\* A step of caller p that makes it j.
LEMMA CallerWritten ==
  ASSUME Inv, [Next]_vars, NEW p \in Callers, NEW j \in Callings,
         \A q \in Callers : q # p => caller'[q] = caller[q],
         caller'[p] = j,
         Copy(j.copy, calls'),
         j.pc \in {"save", "swap"} => j.copy # NoRow,
         ~EndMayBeOld /\ j.pc = "save" /\ j.want = "auto" => j.copy.until = 0,
         j.want = "auto" \/ (p = "balance" /\ j.pc = "testing") => "balance" \in use.callers
  PROVE  \A q \in Callers : CallerOK(q)' /\ Copy(caller'[q].copy, calls')
<1>0. use' = use /\ (EndMayBeOld' <=> EndMayBeOld)
  BY RestStep DEF EndMayBeOld
<1>5. CallerOK(p)' /\ Copy(caller'[p].copy, calls')
  BY <1>0 DEF CallerOK
<1>6. ASSUME NEW q \in Callers, q # p PROVE CallerOK(q)' /\ Copy(caller'[q].copy, calls')
  BY <1>0, <1>6, CopiesLast DEF CallerOK, Inv
<1> QED
  BY <1>5, <1>6

\* The callers stay where they are written.
LEMMA CallerDomain ==
  ASSUME Inv, [Next]_vars
  PROVE  caller' = [q \in Callers |-> caller'[q]]
<1>1. caller = [q \in Callers |-> caller[q]]
  BY DEF Inv, Domains
<1> QED
  BY <1>1, CallerWriters
     DEF Calling, AskStatus, TagStatus, SaveForm, Probe, ProbeAnswered, StatusInCache, StatusRead,
         StatusSave, ReloadRead, ReloadSwap

LEMMA CallerStep ==
  ASSUME Inv, [Next]_vars
  PROVE  \A q \in Callers : CallerOK(q)' /\ Copy(caller'[q].copy, calls')
<1> DEFINE Goal == \A q \in Callers : CallerOK(q)' /\ Copy(caller'[q].copy, calls')
<1>0. /\ caller = [q \in Callers |-> caller[q]] /\ use' = use
      /\ EndMayBeOld' <=> EndMayBeOld
      /\ \A q \in Callers : CallerOK(q) /\ caller[q] \in Callings
  BY RestStep DEF Inv, Domains, CallerOK, EndMayBeOld
<1>1. Copy(NoRow, calls') /\ Copy(row, calls') /\ row \in Rows /\ row # NoRow
  BY CopiesLast, RowNow, RowFields DEF Copy
<1>2. CASE UNCHANGED caller
  BY <1>0, <1>2, CopiesLast DEF CallerOK
\* A caller that starts or ends, or goes on without a copy.
<1>3. ASSUME NEW p \in Callers, NEW j \in Callings, j.pc \in {"idle", "cache", "reload"},
             j.copy = NoRow, caller' = [caller EXCEPT ![p] = j],
             j.want = "auto" => "balance" \in use.callers
      PROVE  Goal
  <2>1. caller'[p] = j /\ \A q \in Callers : q # p => caller'[q] = caller[q]
    BY <1>0, <1>3
  <2> QED
    BY <1>1, <1>3, <2>1, CallerWritten
<1>4. ASSUME NEW p \in Callers, caller' = [caller EXCEPT ![p] = Idle] PROVE Goal
  <2>1. Idle \in Callings /\ Idle.pc = "idle" /\ Idle.copy = NoRow /\ Idle.want = "enabled"
    BY DEF Idle, Callings, Statuses
  <2> QED
    BY <1>3, <1>4, <2>1
\* A caller that takes a copy of the row.
<1>5. ASSUME NEW p \in Callers, NEW j \in Callings, j.copy = row,
             caller' = [caller EXCEPT ![p] = j], j.pc = "save" => row.status # j.want,
             j.want = "auto" \/ (p = "balance" /\ j.pc = "testing") => "balance" \in use.callers
      PROVE  Goal
  <2>1. ~EndMayBeOld /\ j.pc = "save" /\ j.want = "auto" => row.until = 0
    <3>1. ~EndMayBeOld /\ j.want = "auto" => use.tags = FALSE
      BY <1>5, BanAssumption, RowNow DEF EndMayBeOld, Rest
    <3> QED
      BY <1>5, <3>1, RowNow DEF RowOK, BanKnown
  <2>2. caller'[p] = j /\ \A q \in Callers : q # p => caller'[q] = caller[q]
    BY <1>0, <1>5
  <2> QED
    BY <1>1, <1>5, <2>1, <2>2, CallerWritten
<1>6. ASSUME NEW n \in Nodes, NEW want \in Statuses, AskStatus(n, want) PROVE Goal
  <2>1. PICK j : j = [pc |-> "cache", node |-> n, want |-> want, copy |-> NoRow]
    OBVIOUS
  <2>2. /\ j \in Callings /\ j.pc = "cache" /\ j.copy = NoRow /\ "admin" \in Callers
        /\ j.want # "auto"
    BY <1>6, <2>1 DEF AskStatus, Callings, Callers
  <2> QED
    BY <1>3, <1>6, <2>1, <2>2 DEF AskStatus
<1>7. ASSUME NEW n \in Nodes, SaveForm(n) PROVE Goal
  <2>1. PICK j : j = [pc |-> "reload", node |-> n,
                      want |-> IF disabled THEN "manual" ELSE "enabled", copy |-> NoRow]
    OBVIOUS
  <2>2. /\ j \in Callings /\ j.pc = "reload" /\ j.copy = NoRow /\ "admin" \in Callers
        /\ j.want # "auto"
    BY <2>1 DEF Callings, Callers, Statuses
  <2> QED
    BY <1>3, <1>7, <2>1, <2>2 DEF SaveForm
<1>15. ASSUME NEW n \in Nodes, NEW want \in Statuses, TagStatus(n, want) PROVE Goal
  <2>1. PICK j : j = [pc |-> "reload", node |-> n, want |-> want, copy |-> NoRow]
    OBVIOUS
  <2>2. /\ j \in Callings /\ j.pc = "reload" /\ j.copy = NoRow /\ "admin" \in Callers
        /\ j.want # "auto"
    BY <1>15, <2>1 DEF TagStatus, Callings, Callers
  <2> QED
    BY <1>3, <1>15, <2>1, <2>2 DEF TagStatus
<1>8. ASSUME NEW p \in Callers, NEW n \in Nodes, Probe(p, n) PROVE Goal
  <2>1. PICK j : j = [pc |-> "testing", node |-> n, want |-> "enabled", copy |-> row]
    OBVIOUS
  <2>2. /\ j \in Callings /\ j.pc = "testing" /\ j.copy = row /\ j.want = "enabled"
        /\ p \in use.callers
    BY <1>1, <1>8, <2>1 DEF Probe, Callings, Statuses
  <2> QED
    BY <1>5, <1>8, <2>1, <2>2 DEF Probe
<1>9. ASSUME NEW p \in Callers, ProbeAnswered(p) PROVE Goal
  <2>1. ASSUME NEW w \in Statuses, w = "auto" => "balance" \in use.callers,
               caller' = [caller EXCEPT ![p].pc = "cache", ![p].want = w, ![p].copy = NoRow]
        PROVE  Goal
    <3>1. PICK j : j = [caller[p] EXCEPT !.pc = "cache", !.want = w, !.copy = NoRow]
      OBVIOUS
    <3>2. j \in Callings /\ j.pc = "cache" /\ j.copy = NoRow /\ j.want = w
      BY <1>0, <3>1 DEF Callings
    <3>3. caller' = [caller EXCEPT ![p] = j]
      BY <1>0, <2>1, <3>1
    <3> QED
      BY <1>3, <2>1, <3>2, <3>3
  <2>2. /\ "enabled" \in Statuses /\ "auto" \in Statuses
        /\ p = "balance" => "balance" \in use.callers
    BY <1>0, <1>9 DEF Statuses, ProbeAnswered, CallerOK
  <2> QED
    BY <1>4, <1>9, <2>1, <2>2 DEF ProbeAnswered
<1>10. ASSUME NEW p \in Callers, StatusInCache(p) PROVE Goal
  <2>1. CASE caller' = [caller EXCEPT ![p] = Idle]
    BY <1>4, <2>1
  <2>2. CASE caller' = [caller EXCEPT ![p].pc = "read"]
    <3>1. PICK j : j = [caller[p] EXCEPT !.pc = "read"]
      OBVIOUS
    <3>2. /\ j \in Callings /\ j.pc = "read" /\ j.copy = caller[p].copy
          /\ j.want = "auto" => "balance" \in use.callers
      BY <1>0, <3>1 DEF Callings, CallerOK
    <3>3. caller'[p] = j /\ \A q \in Callers : q # p => caller'[q] = caller[q]
      BY <1>0, <2>2, <3>1
    <3> QED
      BY <3>2, <3>3, CallerWritten, CopiesLast
  <2> QED
    BY <1>10, <2>1, <2>2 DEF StatusInCache
<1>11. ASSUME NEW p \in Callers, StatusRead(p) PROVE Goal
  <2>1. CASE caller' = [caller EXCEPT ![p] = Idle]
    BY <1>4, <2>1
  <2>2. CASE row.status # caller[p].want
             /\ caller' = [caller EXCEPT ![p].pc = "save", ![p].copy = row]
    <3>1. PICK j : j = [caller[p] EXCEPT !.pc = "save", !.copy = row]
      OBVIOUS
    <3>2. /\ j \in Callings /\ j.copy = row /\ j.want = caller[p].want /\ j.pc = "save"
          /\ j.want = "auto" => "balance" \in use.callers
      BY <1>0, <1>1, <3>1 DEF Callings, CallerOK
    <3>3. caller' = [caller EXCEPT ![p] = j]
      BY <1>0, <2>2, <3>1
    <3> QED
      BY <1>5, <2>2, <3>2, <3>3
  <2> QED
    BY <1>11, <2>1, <2>2 DEF StatusRead
<1>12. ASSUME NEW p \in Callers, StatusSave(p) PROVE Goal
  <2>1. CASE p # "admin"
    BY <1>4, <1>12, <2>1 DEF StatusSave
  <2>2. CASE p = "admin"
    <3>1. PICK j : j = [caller[p] EXCEPT !.pc = "reload", !.copy = NoRow]
      OBVIOUS
    <3>2. /\ j \in Callings /\ j.pc = "reload" /\ j.copy = NoRow
          /\ j.want = "auto" => "balance" \in use.callers
      BY <1>0, <3>1 DEF Callings, CallerOK
    <3>3. caller' = [caller EXCEPT ![p] = j]
      BY <1>0, <1>12, <2>2, <3>1 DEF StatusSave
    <3> QED
      BY <1>3, <3>2, <3>3
  <2> QED
    BY <2>1, <2>2
<1>13. ASSUME NEW p \in Callers, ReloadRead(p) PROVE Goal
  <2>1. PICK j : j = [caller[p] EXCEPT !.pc = "swap", !.copy = row]
    OBVIOUS
  <2>2. /\ j \in Callings /\ j.copy = row /\ j.pc = "swap"
        /\ j.want = "auto" => "balance" \in use.callers
    BY <1>0, <1>1, <2>1 DEF Callings, CallerOK
  <2>3. caller' = [caller EXCEPT ![p] = j]
    BY <1>0, <1>13, <2>1 DEF ReloadRead
  <2> QED
    BY <1>5, <2>2, <2>3
<1>14. ASSUME NEW p \in Callers, ReloadSwap(p) PROVE Goal
  BY <1>4, <1>14 DEF ReloadSwap
<1> QED
  BY <1>2, <1>6, <1>7, <1>8, <1>9, <1>10, <1>11, <1>12, <1>13, <1>14, <1>15, CallerWriters
     DEF Calling

-----------------------------------------------------------------------------
LEMMA InvInit == Init => Inv
<1> SUFFICES ASSUME Init PROVE Inv
  OBVIOUS
<1>1. /\ 0 \in Nat /\ 0 \in 0..MaxTime /\ 0 \in 0..MaxCalls /\ Threshold \in Nat /\ Threshold >= 1
      /\ 0 < Threshold + 0 /\ 0 <= Threshold + 0
  BY BanAssumption
<1>2. Cap(0) = Threshold
  BY <1>1 DEF Cap
<1>3. Fits(FreshRow, 0) /\ FreshRow.fails = 0 /\ FreshRow.until = 0
  <2>1. "enabled" \in Statuses
    BY DEF Statuses
  <2> QED
    BY <1>1, <2>1, RowMade DEF FreshRow
<1>4. RowFits
  BY <1>1, <1>2, <1>3 DEF Init, RowFits
<1>5. BanKnown /\ FailuresAreCounted
  BY <1>3 DEF Init, BanKnown, FailuresAreCounted
<1>6. CopiesFit
  BY <1>3 DEF Init, CopiesFit, Copy, Idle
<1>7. \A p \in Callers : CallerOK(p)
  BY DEF Init, CallerOK, Callings, Idle, Statuses
<1>8. Rest
  BY <1>1 DEF Init, Rest
<1>9. Domains
  BY DEF Init, Domains
<1> QED
  BY <1>4, <1>5, <1>6, <1>7, <1>8, <1>9 DEF Inv

LEMMA InvNext == Inv /\ [Next]_vars => Inv'
BY RowStep, RestStep, CacheStep, HeldStep, CallerStep, CallerDomain DEF Inv, RowOK, CopiesFit, Domains

LEMMA Invariance == Spec => []Inv
BY InvInit, InvNext, PTL DEF Spec

\* The row, every node's copy and every copy in flight stay well typed: the
\* count of a row passes the threshold only by as much as saved forms bring
\* back and enablings by tag leave.
THEOREM TypeCorrect == Spec => []TypeOK
<1>1. Inv => TypeOK
  <2> SUFFICES ASSUME Inv PROVE TypeOK
    OBVIOUS
  <2>1. /\ row \in Rows /\ form \in Rows \cup {NoRow}
        /\ \A n \in Nodes : cache[n] \in Rows /\ held[n] \in Rows \cup {NoRow}
                            /\ snap[n] \in Rows \cup {NoRow}
        /\ \A p \in Callers : caller[p] \in Callings
    BY DEF Inv, RowFits, CopiesFit, Copy, Fits, CallerOK
  <2>2. /\ cache \in [Nodes -> Rows] /\ held \in [Nodes -> Rows \cup {NoRow}]
        /\ snap \in [Nodes -> Rows \cup {NoRow}] /\ caller \in [Callers -> Callings]
    BY <2>1 DEF Inv, Domains
  <2>3. streak \in 0..(Threshold * (MaxCalls + 1))
    <3>1. Cap(calls) <= Cap(MaxCalls) /\ Cap(MaxCalls) \in Nat
      BY RowNow, Room, BanAssumption
    <3>2. streak \in Nat /\ streak <= Cap(calls) /\ Cap(calls) \in Nat
      BY RowNow
    <3> QED
      BY <3>1, <3>2 DEF Cap
  <2> QED
    BY <2>1, <2>2, <2>3 DEF Inv, Rest, TypeOK
<1> QED
  BY <1>1, Invariance, PTL

\* Failures reported by any number of nodes, racing with successes, bans,
\* restores, checks and administrators, are all in the count of an enabled row
\* until one of them ends the streak.
THEOREM NoFailureLost == Spec => []FailuresAreCounted
<1>1. Inv => FailuresAreCounted
  BY DEF Inv
<1> QED
  BY <1>1, Invariance, PTL

\* However old the copy that made a node try, MaybeRestoreAutoBannedChannel
\* enables only a channel whose last ban is over, where neither a form nor tags
\* together with balance checks can leave an earlier ban's end in the row; all
\* else that enables one is an administrator or a passed test that wants it so.
THEOREM BanServed == Spec => BanIsServed
<1> DEFINE Served == row.status # "enabled" /\ row'.status = "enabled" =>
                       \/ row.status = "auto" /\ (now >= banEnd \/ EndMayBeOld)
                       \/ \E p \in Callers : caller[p].pc = "save" /\ caller[p].want = "enabled"
                       \/ \E n \in use.nodes : TagStatus(n, "enabled")
<1>1. Inv /\ [Next]_vars =>
         [row.status # "enabled" /\ row'.status = "enabled" =>
            \/ row.status = "auto" /\ (now >= banEnd \/ EndMayBeOld)
            \/ \E p \in Callers : caller[p].pc = "save" /\ caller[p].want = "enabled"
            \/ \E n \in use.nodes : TagStatus(n, "enabled")]_vars
  <2> SUFFICES ASSUME Inv, [Next]_vars PROVE Served
    OBVIOUS
  <2>1. ASSUME NEW n \in Nodes, RecordFailure(n) \/ ClearFailures(n) \/ SaveForm(n)
        PROVE  row.status = "enabled" \/ row'.status = row.status
    <3>1. row = [status |-> row.status, until |-> row.until, fails |-> row.fails]
      BY RowNow, RowFields
    <3> QED
      BY <2>1, <3>1 DEF RecordFailure, ClearFailures, SaveForm
  <2>2. ASSUME NEW n \in Nodes, MaybeRestore(n) PROVE Served
    <3>1. CASE Restorable
      BY <3>1, RowNow DEF Restorable, RowOK, BanKnown
    <3>2. CASE ~Restorable
      BY <2>2, <3>2 DEF MaybeRestore
    <3> QED
      BY <3>1, <3>2
  <2>3. ASSUME NEW p \in Callers, StatusSave(p) PROVE Served
    <3>1. caller[p].pc = "save" /\ caller[p].copy \in Rows
      BY <2>3 DEF StatusSave, Inv, CallerOK, CopiesFit, Copy, Fits
    <3>2. row'.status = caller[p].want
      BY <2>3, <3>1 DEF StatusSave, Saved, Cleared, Rows
    <3> QED
      BY <3>1, <3>2
  <2>4. ASSUME NEW n \in Nodes, NEW want \in Statuses, TagStatus(n, want) PROVE Served
    <3>1. n \in use.nodes /\ row' = [row EXCEPT !.status = want] /\ row \in Rows
      BY <2>4, RowNow DEF TagStatus
    <3>2. row'.status = want
      BY <3>1 DEF Rows
    <3>3. CASE want # "enabled"
      BY <3>2, <3>3
    <3>4. CASE want = "enabled"
      BY <2>4, <3>1, <3>4, Zenon
    <3> QED
      BY <3>3, <3>4
  <2> QED
    BY <2>1, <2>2, <2>3, <2>4, RowWriters
<1> QED
  BY <1>1, Invariance, PTL DEF Spec, BanIsServed
-----------------------------------------------------------------------------
(***************************************************************************)
(* Staged model updates of the channels, module UpstreamUpdates: whichever *)
(* handlers overlap and however old the dialog's lists are, a channel      *)
(* gains and loses only what its upstream has reported; and what an apply  *)
(* has reported holds where no handler wrote over another's write.         *)
(***************************************************************************)
Settings == [models : SUBSET Models, add : SUBSET Models,
             remove : SUBSET Models, ignored : SUBSET Models]

Lists == [add : SUBSET Models, remove : SUBSET Models]

Stages == {"idle", "sent", "read", "written", "failed"}

Handler == [stage : Stages, todo : SUBSET (Channels \cup {NoChannel}),
            snap : {<<>>} \cup [Channels -> Settings], ask : Lists, ignore : SUBSET Models]

Reports == [listed : SUBSET Models, absent : SUBSET Models]

\* The console's table, dialog and ticks.
ConsoleFits ==
  /\ rows \in [Channels -> Lists]
  /\ modal = Closed \/ modal \in [channel : Channels, add : SUBSET Models, remove : SUBSET Models]
  /\ selected \in Lists
  /\ asking \in BOOLEAN

\* Settings, those of channel c or a handler's copy of them, against what c's
\* upstream has reported and its redirects and patterns leave alone.
Sound(s, c, reports) ==
  /\ s \in Settings
  /\ s.models \ Base[c] \subseteq reports.listed \ (Targets[c] \cup Patterns[c])
  /\ Base[c] \ s.models \subseteq reports.absent \ Sources[c]
  /\ s.add \subseteq reports.listed \ (Targets[c] \cup Patterns[c])
  /\ s.remove \subseteq reports.absent \ Sources[c]

\* What an upstream offers now has been reported.
OffersKnown ==
  /\ offered \in [Channels -> SUBSET Models]
  /\ seen \in [Channels -> Reports]
  /\ \A c \in Channels : /\ offered[c] \subseteq seen[c].listed
                         /\ Models \ offered[c] \subseteq seen[c].absent

DbSound ==
  /\ db \in [Channels -> Settings]
  /\ \A c \in Channels : Sound(db[c], c, seen[c])

\* The copies that handlers will write back are as sound as the settings.
JobsSound ==
  /\ job \in [Jobs -> Handler]
  /\ \A j \in Jobs : job[j].stage = "read" =>
        /\ job[j].snap \in [Channels -> Settings]
        /\ \A c \in Channels : Sound(job[j].snap[c], c, seen[c])

Decisions == [add : SUBSET Models, remove : SUBSET Models, ignore : SUBSET Models]

\* What the decisions h of applies need of the settings s to be lasting.
Lasting(h, s) ==
  /\ s.add \cap (s.models \cup s.ignored) = {}
  /\ h.add \subseteq s.models
  /\ h.remove \cap s.models = {}
  /\ h.ignore \subseteq s.ignored \ s.models

DecisionsLast ==
  /\ told \in [Channels -> Decisions]
  /\ \A c \in Channels \ crossed : Lasting(told[c], db[c])

UInv == ConsoleFits /\ OffersKnown /\ DbSound /\ JobsSound /\ DecisionsLast

\* The lists of a row.
LEMMA StagedType ==
  ASSUME DbSound
  PROVE  [c \in Channels |-> Staged(c)] \in [Channels -> Lists]
<1>1. \A c \in Channels : Staged(c) \in Lists
  BY DEF DbSound, Settings, Staged, Lists
<1> QED
  BY <1>1

\* A handler's step on a channel leaves the console and the upstreams alone.
LEMMA HandlerFrame ==
  ASSUME NEW j, NEW c, Detect(j, c) \/ Apply(j, c) \/ FetchFails(j, c) \/ Skip(j, c)
  PROVE  UNCHANGED <<offered, seen, rows, modal, selected, asking>>
BY DEF Detect, Apply, FetchFails, Skip, console, history

LEMMA ConsoleStep ==
  ASSUME UInv, [UpdatesNext]_updatesVars
  PROVE  ConsoleFits'
<1>0. ConsoleFits /\ [c \in Channels |-> Staged(c)] \in [Channels -> Lists]
  BY StagedType DEF UInv
<1>1. ASSUME NEW c \in Channels, OpenModal(c) PROVE ConsoleFits'
  <2>1. rows[c].add \in SUBSET Models /\ rows[c].remove \in SUBSET Models
    BY <1>0 DEF ConsoleFits, Lists
  <2> QED
    BY <1>0, <1>1, <2>1 DEF OpenModal, ConsoleFits
<1>2. ASSUME NEW m \in Models, Toggle("add", m) \/ Toggle("remove", m) PROVE ConsoleFits'
  <2>1. selected' \in Lists
    BY <1>0, <1>2 DEF Toggle, Flip, ConsoleFits, Lists
  <2> QED
    BY <1>0, <1>2, <2>1 DEF Toggle, ConsoleFits
<1>3. ASSUME NEW j \in Jobs, JobAnswered(j) PROVE ConsoleFits'
  <2>1. modal' \in {Closed, modal} /\ rows' \in {rows, [c \in Channels |-> Staged(c)]}
    BY <1>3 DEF JobAnswered
  <2> QED
    BY <1>0, <1>3, <2>1 DEF JobAnswered, ConsoleFits
<1>4. ASSUME CloseModal \/ AskPartial \/ CancelPartial \/ ConfirmPartial \/ Confirm
             \/ Refetch
      PROVE  ConsoleFits'
  BY <1>0, <1>4 DEF CloseModal, AskPartial, CancelPartial, ConfirmPartial, Confirm,
                    Refetch, SendApply, ConsoleFits
<1>5. CASE UNCHANGED <<rows, modal, selected, asking>>
  BY <1>0, <1>5 DEF ConsoleFits
<1> QED
  BY <1>1, <1>2, <1>3, <1>4, <1>5, HandlerFrame
     DEF UpdatesNext, OfferChanges, StartAll, StartDetect, StartTask, Start, Serve, Lost,
         Read, console, updatesVars

\* What an upstream has reported is never taken back.
LEMMA OffersStep ==
  ASSUME UInv, [UpdatesNext]_updatesVars
  PROVE  /\ OffersKnown'
         /\ \A c \in Channels : /\ seen[c].listed \subseteq seen'[c].listed
                                /\ seen[c].absent \subseteq seen'[c].absent
<1>0. OffersKnown
  BY DEF UInv
<1>1. CASE UNCHANGED <<offered, seen>>
  BY <1>0, <1>1 DEF OffersKnown
<1>2. ASSUME NEW c \in Channels, OfferChanges(c)
      PROVE  /\ OffersKnown'
             /\ \A d \in Channels : /\ seen[d].listed \subseteq seen'[d].listed
                                    /\ seen[d].absent \subseteq seen'[d].absent
  <2>1. PICK S \in Offers :
           /\ offered' = [offered EXCEPT ![c] = S]
           /\ seen' = [seen EXCEPT ![c] = [listed |-> @.listed \cup S,
                                           absent |-> @.absent \cup (Models \ S)]]
    BY <1>2 DEF OfferChanges
  <2>0. S \subseteq Models
    BY <2>1, ChannelAssumption
  <2>2. PICK k : k = [listed |-> seen[c].listed \cup S, absent |-> seen[c].absent \cup (Models \ S)]
    OBVIOUS
  <2>3. seen[c].listed \subseteq Models /\ seen[c].absent \subseteq Models
    BY <1>0 DEF OffersKnown, Reports
  <2>4. k \in Reports /\ k.listed = seen[c].listed \cup S
        /\ k.absent = seen[c].absent \cup (Models \ S)
    BY <2>0, <2>2, <2>3 DEF Reports
  <2>5. \A d \in Channels : /\ seen'[d] = IF d = c THEN k ELSE seen[d]
                            /\ offered'[d] = IF d = c THEN S ELSE offered[d]
    BY <1>0, <2>1, <2>2 DEF OffersKnown
  <2>6. offered' \in [Channels -> SUBSET Models] /\ seen' \in [Channels -> Reports]
    BY <1>0, <2>0, <2>1, <2>2, <2>4 DEF OffersKnown
  <2> QED
    BY <1>0, <2>4, <2>5, <2>6 DEF OffersKnown
<1> QED
  BY <1>1, <1>2, HandlerFrame
     DEF UpdatesNext, OpenModal, CloseModal, Toggle, Confirm, AskPartial, ConfirmPartial,
         CancelPartial, SendApply, StartAll, StartDetect, StartTask, Start, Refetch,
         Serve, JobAnswered, Lost, Read, history, updatesVars

\* Settings stay sound as reports come in.
LEMMA SoundGrows ==
  ASSUME UInv, [UpdatesNext]_updatesVars, NEW c \in Channels, NEW s, Sound(s, c, seen[c])
  PROVE  Sound(s, c, seen'[c])
BY OffersStep DEF Sound

-----------------------------------------------------------------------------
\* A detection: the lists come from the copy and from what is offered now, the
\* models from the row or, when the schedule adds, from the copy.
LEMMA DetectSound ==
  ASSUME UInv, NEW c \in Channels, NEW s, Sound(s, c, seen[c]), NEW d \in Settings,
         d.ignored = s.ignored, d.remove = PendingRemove(s, c),
         \/ d.models = db[c].models /\ d.add = PendingAdd(s, c)
         \/ d.models = s.models \cup PendingAdd(s, c) /\ d.add = {}
  PROVE  Sound(d, c, seen[c])
<1>1. /\ Sound(db[c], c, seen[c]) /\ offered[c] \subseteq Models
      /\ offered[c] \subseteq seen[c].listed /\ Models \ offered[c] \subseteq seen[c].absent
  BY DEF UInv, DbSound, OffersKnown
<1>2. s.models \subseteq Models
  BY DEF Sound, Settings
<1>3. PICK more : more = PendingAdd(s, c)
  OBVIOUS
<1>4. PICK less : less = PendingRemove(s, c)
  OBVIOUS
<1>5. more \subseteq seen[c].listed \ (Targets[c] \cup Patterns[c])
  BY <1>1, <1>3 DEF PendingAdd
<1>6. less \subseteq seen[c].absent \ Sources[c]
  BY <1>1, <1>2, <1>4 DEF PendingRemove
<1>7. /\ d.models \ Base[c] \subseteq seen[c].listed \ (Targets[c] \cup Patterns[c])
      /\ Base[c] \ d.models \subseteq seen[c].absent \ Sources[c]
  BY <1>1, <1>3, <1>5 DEF Sound
<1> QED
  BY <1>3, <1>4, <1>5, <1>6, <1>7 DEF Sound

\* An apply: what is asked is cut down to what the copy has staged.
LEMMA ApplySound ==
  ASSUME UInv, NEW c \in Channels, NEW s, Sound(s, c, seen[c]),
         NEW plus, plus \subseteq s.add, NEW minus, minus \subseteq s.remove,
         NEW ignore, ignore \subseteq s.add, NEW models, NEW d,
         models = (s.models \cup plus) \ minus \/ models = db[c].models,
         d = [models  |-> models, add |-> s.add \ (plus \cup ignore),
              remove  |-> s.remove \ minus, ignored |-> (s.ignored \cup ignore) \ plus]
  PROVE  Sound(d, c, seen[c])
<1>1. Sound(db[c], c, seen[c])
  BY DEF UInv, DbSound
<1>2. /\ s.models \subseteq Models /\ s.add \subseteq Models /\ s.remove \subseteq Models
      /\ s.ignored \subseteq Models /\ db[c].models \subseteq Models
  BY <1>1 DEF Sound, Settings
<1>3. /\ d.models = models /\ d.add = s.add \ (plus \cup ignore) /\ d.remove = s.remove \ minus
      /\ d.ignored = (s.ignored \cup ignore) \ plus
  OBVIOUS
<1>4. /\ models \subseteq Models /\ s.add \ (plus \cup ignore) \subseteq Models
      /\ s.remove \ minus \subseteq Models /\ (s.ignored \cup ignore) \ plus \subseteq Models
  BY <1>2
<1>5. d \in Settings
  BY <1>4 DEF Settings
<1>6. /\ models \ Base[c] \subseteq seen[c].listed \ (Targets[c] \cup Patterns[c])
      /\ Base[c] \ models \subseteq seen[c].absent \ Sources[c]
  BY <1>1 DEF Sound
<1>7. /\ d.add \subseteq seen[c].listed \ (Targets[c] \cup Patterns[c])
      /\ d.remove \subseteq seen[c].absent \ Sources[c]
  BY <1>3 DEF Sound
<1> QED
  BY <1>3, <1>5, <1>6, <1>7 DEF Sound

\* The settings after a step of a handler on channel c.
LEMMA ServedSound ==
  ASSUME UInv, NEW j \in Jobs, NEW c \in Channels, Detect(j, c) \/ Apply(j, c) \/ FetchFails(j, c)
  PROVE  \E d : db' = [db EXCEPT ![c] = d] /\ Sound(d, c, seen[c])
<1>0. db \in [Channels -> Settings] /\ Sound(db[c], c, seen[c])
  BY DEF UInv, DbSound
<1>1. job[j].stage = "read" /\ job[j] \in Handler
  BY DEF Detect, Apply, FetchFails, UInv, JobsSound
<1>2. PICK s : s = job[j].snap[c]
  OBVIOUS
<1>3. Sound(s, c, seen[c])
  BY <1>1, <1>2 DEF UInv, JobsSound
<1>4. CASE Detect(j, c)
  <2>1. PICK d : /\ \/ d = [s EXCEPT !.models = db[c].models, !.add = PendingAdd(s, c),
                                     !.remove = PendingRemove(s, c)]
                    \/ d = [s EXCEPT !.models = @ \cup PendingAdd(s, c), !.add = {},
                                     !.remove = PendingRemove(s, c)]
                 /\ db' = [db EXCEPT ![c] = d]
    BY <1>2, <1>4, Zenon DEF Detect, Write
  <2>2. /\ s.models \subseteq Models /\ s.ignored \subseteq Models /\ db[c].models \subseteq Models
        /\ PendingAdd(s, c) \subseteq Models /\ PendingRemove(s, c) \subseteq Models
    BY <1>0, <1>3 DEF Sound, Settings, PendingAdd, PendingRemove, UInv, OffersKnown
  <2>3. /\ d \in Settings /\ d.ignored = s.ignored /\ d.remove = PendingRemove(s, c)
        /\ \/ d.models = db[c].models /\ d.add = PendingAdd(s, c)
           \/ d.models = s.models \cup PendingAdd(s, c) /\ d.add = {}
    BY <1>3, <2>1, <2>2 DEF Sound, Settings
  <2>4. Sound(d, c, seen[c])
    BY <1>3, <2>3, DetectSound
  <2> QED
    BY <2>1, <2>4
<1>5. CASE FetchFails(j, c)
  <2>1. PICK d : d = [s EXCEPT !.models = db[c].models]
    OBVIOUS
  <2>2. db' = [db EXCEPT ![c] = d]
    BY <1>2, <1>5, <2>1 DEF FetchFails, Write
  <2>3. /\ d \in Settings /\ d.models = db[c].models /\ d.add = s.add /\ d.remove = s.remove
        /\ d.ignored = s.ignored
    BY <1>0, <1>3, <2>1 DEF Sound, Settings
  <2>4. Sound(d, c, seen[c])
    BY <1>0, <1>3, <2>3 DEF Sound
  <2> QED
    BY <2>2, <2>4
<1>6. CASE Apply(j, c)
  <2>1. PICK plus, minus : /\ plus = Asked(j, c).add /\ minus = Asked(j, c).remove
    OBVIOUS
  <2>2. plus \subseteq s.add /\ minus \subseteq s.remove
    BY <1>2, <2>1 DEF Asked
  <2>3. PICK ignore : ignore = job[j].ignore \cap s.add
    OBVIOUS
  <2>4. PICK models : models = IF (s.models \cup plus) \ minus # s.models
                               THEN (s.models \cup plus) \ minus ELSE db[c].models
    OBVIOUS
  <2>5. PICK d : d = [models  |-> models, add |-> s.add \ (plus \cup ignore),
                      remove  |-> s.remove \ minus, ignored |-> (s.ignored \cup ignore) \ plus]
    OBVIOUS
  <2>6. db' = [db EXCEPT ![c] = d]
    BY <1>0, <1>2, <1>6, <2>1, <2>3, <2>4, <2>5 DEF Apply, Write
  <2>7. /\ ignore \subseteq s.add
        /\ models = (s.models \cup plus) \ minus \/ models = db[c].models
    BY <2>3, <2>4
  <2>8. Sound(d, c, seen[c])
    BY <1>3, <2>2, <2>5, <2>7, ApplySound, Zenon
  <2> QED
    BY <2>6, <2>8
<1> QED
  BY <1>4, <1>5, <1>6

LEMMA DbStep ==
  ASSUME UInv, [UpdatesNext]_updatesVars
  PROVE  DbSound'
<1>0. db \in [Channels -> Settings] /\ \A c \in Channels : Sound(db[c], c, seen'[c])
  BY SoundGrows DEF UInv, DbSound
<1>1. CASE UNCHANGED db
  BY <1>0, <1>1 DEF DbSound
<1>2. ASSUME NEW j \in Jobs, NEW c \in Channels,
             Detect(j, c) \/ Apply(j, c) \/ FetchFails(j, c)
      PROVE  DbSound'
  <2>1. PICK d : db' = [db EXCEPT ![c] = d] /\ Sound(d, c, seen[c])
    BY <1>2, ServedSound
  <2>2. Sound(d, c, seen'[c]) /\ d \in Settings
    BY <2>1, SoundGrows DEF Sound
  <2> QED
    BY <1>0, <2>1, <2>2 DEF DbSound
<1> QED
  BY <1>1, <1>2
     DEF UpdatesNext, OpenModal, CloseModal, Toggle, Confirm, AskPartial, ConfirmPartial,
         CancelPartial, SendApply, StartAll, StartDetect, StartTask, Start, Refetch,
         Serve, JobAnswered, Lost, Read, Skip, OfferChanges, updatesVars
-----------------------------------------------------------------------------
\* A step that makes handler j the record h.
LEMMA JobWritten ==
  ASSUME UInv, [UpdatesNext]_updatesVars, NEW j \in Jobs, NEW h \in Handler,
         job' = [job EXCEPT ![j] = h],
         h.stage = "read" => \/ job[j].stage = "read" /\ h.snap = job[j].snap
                             \/ h.snap = db
  PROVE  JobsSound'
<1>0. job \in [Jobs -> Handler] /\ JobsSound /\ DbSound
  BY DEF UInv, JobsSound
<1>1. job' \in [Jobs -> Handler] /\ \A i \in Jobs : job'[i] = IF i = j THEN h ELSE job[i]
  BY <1>0
<1>2. ASSUME NEW i \in Jobs, job[i].stage = "read"
      PROVE  /\ job[i].snap \in [Channels -> Settings]
             /\ \A c \in Channels : Sound(job[i].snap[c], c, seen'[c])
  BY <1>0, <1>2, SoundGrows DEF JobsSound
<1>3. /\ db \in [Channels -> Settings]
      /\ \A c \in Channels : Sound(db[c], c, seen'[c])
  BY <1>0, SoundGrows DEF DbSound
<1>4. ASSUME NEW i \in Jobs, job'[i].stage = "read"
      PROVE  /\ job'[i].snap \in [Channels -> Settings]
             /\ \A c \in Channels : Sound(job'[i].snap[c], c, seen'[c])
  <2>1. CASE i # j
    BY <1>1, <1>2, <1>4, <2>1
  <2>2. CASE i = j /\ job[j].stage = "read" /\ h.snap = job[j].snap
    BY <1>1, <1>2, <2>2
  <2>3. CASE i = j /\ h.snap = db
    BY <1>1, <1>3, <2>3
  <2> QED
    BY <1>1, <1>4, <2>1, <2>2, <2>3
<1> QED
  BY <1>1, <1>4 DEF JobsSound

LEMMA NoJobType == NoJob \in Handler /\ NoJob.stage = "idle"
BY DEF NoJob, Nothing, Handler, Stages, Lists

LEMMA JobStep ==
  ASSUME UInv, [UpdatesNext]_updatesVars
  PROVE  JobsSound'
<1>0. job \in [Jobs -> Handler] /\ ConsoleFits
  BY DEF UInv, JobsSound
<1>1. CASE UNCHANGED job
  <2>1. \A j \in Jobs : job'[j].stage = "read" =>
           /\ job'[j].snap \in [Channels -> Settings]
           /\ \A c \in Channels : Sound(job'[j].snap[c], c, seen'[c])
    BY <1>1, SoundGrows DEF UInv, JobsSound
  <2> QED
    BY <1>0, <1>1, <2>1 DEF JobsSound
\* A handler that starts, ends or fails.
<1>2. ASSUME NEW j \in Jobs, NEW h \in Handler, job' = [job EXCEPT ![j] = h], h.stage # "read"
      PROVE  JobsSound'
  BY <1>2, JobWritten
<1>3. ASSUME SendApply PROVE JobsSound'
  <2>1. /\ {modal.channel} \in SUBSET (Channels \cup {NoChannel}) /\ selected \in Lists
        /\ modal.add \ selected.add \in SUBSET Models
    BY <1>0 DEF ConsoleFits, Closed
  <2>2. PICK h : h = [NoJob EXCEPT !.stage = "sent", !.todo = {modal.channel},
                                     !.ask = selected, !.ignore = modal.add \ selected.add]
    OBVIOUS
  <2>3. h \in Handler /\ h.stage = "sent"
    BY <2>1, <2>2, NoJobType DEF Handler, Stages
  <2>4. "apply" \in Jobs /\ job' = [job EXCEPT !["apply"] = h]
    BY <1>3, <2>2, Zenon DEF SendApply
  <2> QED
    BY <1>2, <2>3, <2>4
<1>4. ASSUME NEW j, NEW todo \in SUBSET Channels, Start(j, todo) PROVE JobsSound'
  <2>1. PICK h : h = [NoJob EXCEPT !.stage = "sent", !.todo = todo]
    OBVIOUS
  <2>3. todo \in SUBSET (Channels \cup {NoChannel})
    OBVIOUS
  <2>4. h \in Handler /\ h.stage = "sent"
    BY <2>1, <2>3, NoJobType DEF Handler, Stages
  <2>5. j \in Jobs /\ job' = [job EXCEPT ![j] = h]
    BY <1>4, <2>1, Zenon DEF Start
  <2> QED
    BY <1>2, <2>4, <2>5
<1>5. ASSUME NEW j \in Jobs, JobAnswered(j) PROVE JobsSound'
  BY <1>2, <1>5, NoJobType DEF JobAnswered
<1>6. ASSUME NEW j \in Jobs, Lost(j) PROVE JobsSound'
  <2>1. PICK h : h = [job[j] EXCEPT !.stage = "failed"]
    OBVIOUS
  <2>2. h \in Handler /\ h.stage = "failed"
    BY <1>0, <2>1 DEF Handler, Stages
  <2>3. job' = [job EXCEPT ![j] = h]
    BY <1>0, <1>6, <2>1 DEF Lost
  <2> QED
    BY <1>2, <2>2, <2>3
<1>7. ASSUME NEW j \in Jobs, Read(j) PROVE JobsSound'
  <2>1. PICK h : h = [job[j] EXCEPT !.stage = "read", !.snap = db]
    OBVIOUS
  <2>2. h \in Handler /\ h.snap = db
    BY <1>0, <2>1 DEF Handler, Stages, UInv, DbSound
  <2>3. job' = [job EXCEPT ![j] = h]
    BY <1>0, <1>7, <2>1 DEF Read
  <2> QED
    BY <2>2, <2>3, JobWritten
\* A handler is done with a channel: its copies stay.
<1>8. ASSUME NEW j \in Jobs, job[j].stage = "read", NEW todo \in SUBSET job[j].todo,
             NEW stage \in {"read", "written", "failed"},
             job' = [job EXCEPT ![j].todo = todo, ![j].stage = stage]
      PROVE  JobsSound'
  <2>1. PICK h : h = [job[j] EXCEPT !.todo = todo, !.stage = stage]
    OBVIOUS
  <2>2. h \in Handler /\ h.snap = job[j].snap
    BY <1>0, <1>8, <2>1 DEF Handler, Stages
  <2>3. job' = [job EXCEPT ![j] = h]
    BY <1>0, <1>8, <2>1
  <2> QED
    BY <1>8, <2>2, <2>3, JobWritten
<1>9. ASSUME NEW j \in Jobs, NEW c \in Channels,
             Detect(j, c) \/ Apply(j, c) \/ FetchFails(j, c) \/ Skip(j, c)
      PROVE  JobsSound'
  <2>1. PICK todo : todo = job[j].todo \ {c}
    OBVIOUS
  <2>2. PICK stage : stage = IF job[j].todo = {c} THEN "written" ELSE "read"
    OBVIOUS
  <2>3. job[j].stage = "read"
    BY <1>9 DEF Detect, Apply, FetchFails, Skip
  <2>4. \/ job' = [job EXCEPT ![j].todo = todo, ![j].stage = stage]
        \/ job' = [job EXCEPT ![j].todo = todo, ![j].stage = "failed"]
    <3>1. CASE Done(j, c)
      BY <1>0, <2>1, <2>2, <2>3, <3>1 DEF Done
    <3>2. CASE job' = [job EXCEPT ![j].todo = @ \ {c}, ![j].stage = "failed"]
      BY <1>0, <2>1, <3>2
    <3> QED
      BY <1>9, <3>1, <3>2 DEF Detect, Apply, FetchFails, Skip
  <2> QED
    BY <1>8, <2>1, <2>2, <2>3, <2>4
<1>10. ASSUME Confirm \/ ConfirmPartial \/ StartAll \/ StartDetect \/ StartTask
       PROVE  JobsSound'
  BY <1>3, <1>4, <1>10 DEF Confirm, ConfirmPartial, StartAll, StartDetect, StartTask
<1> QED
  BY <1>1, <1>5, <1>6, <1>7, <1>9, <1>10
     DEF UpdatesNext, OpenModal, CloseModal, Toggle, AskPartial, CancelPartial, Refetch,
         Serve, OfferChanges, updatesVars

LEMMA UInvInit == UpdatesInit => UInv
<1> SUFFICES ASSUME UpdatesInit PROVE UInv
  OBVIOUS
<1>1. /\ Base \in [Channels -> SUBSET Models] /\ offered \in [Channels -> SUBSET Models]
      /\ \A c \in Channels : NewChannel(c) \in Settings
  BY ChannelAssumption DEF UpdatesInit, NewChannel, Settings
<1>2. seen = [c \in Channels |-> [listed |-> offered[c], absent |-> Models \ offered[c]]]
  BY DEF UpdatesInit
<1>3. OffersKnown
  <2>1. \A c \in Channels : /\ seen[c].listed = offered[c] /\ seen[c].absent = Models \ offered[c]
                            /\ seen[c] \in Reports
    BY <1>1, <1>2 DEF Reports
  <2> QED
    BY <1>1, <1>2, <2>1 DEF OffersKnown
<1>4. ASSUME NEW c \in Channels
      PROVE  /\ db[c] \in Settings /\ db[c].models = Base[c] /\ db[c].ignored = {}
             /\ db[c].add \in {{}, PendingAdd(NewChannel(c), c)}
             /\ db[c].remove \in {{}, PendingRemove(NewChannel(c), c)}
  <2>1. /\ NewChannel(c).models = Base[c] /\ NewChannel(c).ignored = {}
        /\ NewChannel(c).add = {} /\ NewChannel(c).remove = {}
    BY DEF NewChannel
  <2>2. PendingAdd(NewChannel(c), c) \subseteq Models /\ PendingRemove(NewChannel(c), c) \subseteq Models
    BY <1>1, <2>1 DEF PendingAdd, PendingRemove
  <2>3. PICK n : n = NewChannel(c) /\ n \in Settings
    BY <1>1
  <2>4. \/ db[c] = n
        \/ db[c] = [n EXCEPT !.add = PendingAdd(NewChannel(c), c),
                             !.remove = PendingRemove(NewChannel(c), c)]
    BY <2>3 DEF UpdatesInit
  <2> QED
    BY <2>1, <2>2, <2>3, <2>4 DEF Settings
<1>5. ASSUME NEW c \in Channels PROVE Sound(db[c], c, seen[c]) /\ Lasting(NoDecision, db[c])
  <2>1. /\ Base[c] \subseteq Models /\ offered[c] \subseteq Models
        /\ NewChannel(c).models = Base[c] /\ NewChannel(c).ignored = {}
    BY <1>1 DEF NewChannel
  <2>4. seen[c].listed = offered[c] /\ seen[c].absent = Models \ offered[c]
    BY <1>2
  <2>5. /\ db[c].add \subseteq (offered[c] \ (Targets[c] \cup Patterns[c])) \ Base[c]
        /\ db[c].remove \subseteq (Models \ offered[c]) \ Sources[c]
    BY <1>4, <2>1 DEF PendingAdd, PendingRemove
  <2> QED
    BY <1>4, <2>1, <2>4, <2>5 DEF Sound, Lasting, NoDecision
<1>6. DbSound
  <2>1. db = [c \in Channels |-> db[c]]
    BY DEF UpdatesInit
  <2> QED
    BY <1>5, <2>1 DEF DbSound, Sound
<1>7. ConsoleFits
  <2>1. Nothing \in Lists
    BY DEF Nothing, Lists
  <2> QED
    BY <1>6, <2>1, StagedType DEF UpdatesInit, ConsoleFits
<1>8. JobsSound
  BY NoJobType DEF UpdatesInit, JobsSound
<1>9. DecisionsLast
  <2>1. NoDecision \in Decisions
    BY DEF NoDecision, Decisions
  <2>2. told = [c \in Channels |-> NoDecision]
    BY DEF UpdatesInit
  <2> QED
    BY <1>5, <2>1, <2>2 DEF DecisionsLast
<1> QED
  BY <1>3, <1>6, <1>7, <1>8, <1>9 DEF UInv

-----------------------------------------------------------------------------
\* A write by a handler whose copy is the row, or one that marks the channel.
LEMMA LastingWrite ==
  ASSUME UInv, NEW c \in Channels, NEW d, NEW h \in Decisions,
         db' = [db EXCEPT ![c] = d], told' = [told EXCEPT ![c] = h],
         crossed \subseteq crossed', c \notin crossed' => Lasting(h, d)
  PROVE  DecisionsLast'
<1>1. /\ told' \in [Channels -> Decisions]
      /\ \A e \in Channels : /\ told'[e] = IF e = c THEN h ELSE told[e]
                            /\ db'[e] = IF e = c THEN d ELSE db[e]
  BY DEF UInv, DecisionsLast, DbSound
<1> QED
  BY <1>1 DEF UInv, DecisionsLast

LEMMA DecisionStep ==
  ASSUME UInv, [UpdatesNext]_updatesVars
  PROVE  DecisionsLast'
<1>0. db \in [Channels -> Settings] /\ DecisionsLast /\ told \in [Channels -> Decisions]
  BY DEF UInv, DbSound, DecisionsLast
<1>1. CASE UNCHANGED <<db, told, crossed>>
  BY <1>0, <1>1 DEF DecisionsLast
<1>2. ASSUME NEW j \in Jobs, NEW c \in Channels, FetchFails(j, c) PROVE DecisionsLast'
  <2>1. PICK s : s = job[j].snap[c]
    OBVIOUS
  <2>2. PICK d : d = [s EXCEPT !.models = db[c].models]
    OBVIOUS
  <2>3. /\ db' = [db EXCEPT ![c] = d] /\ told' = [told EXCEPT ![c] = told[c]]
        /\ crossed \subseteq crossed' /\ (c \notin crossed' => s = db[c] /\ c \notin crossed)
    BY <1>0, <1>2, <2>1, <2>2 DEF FetchFails, Write
  <2>4. c \notin crossed' => d = db[c]
    BY <1>0, <2>2, <2>3 DEF Settings
  <2>5. told[c] \in Decisions /\ (c \notin crossed' => Lasting(told[c], d))
    BY <1>0, <2>3, <2>4 DEF DecisionsLast
  <2> QED
    BY <2>3, <2>5, LastingWrite
<1>3. ASSUME NEW j \in Jobs, NEW c \in Channels, Detect(j, c) PROVE DecisionsLast'
  <2>0. told[c] \in Decisions /\ (c \notin crossed => Lasting(told[c], db[c]))
    BY <1>0 DEF DecisionsLast
  <2>1. PICK s : s = job[j].snap[c] /\ s \in Settings
    BY <1>3 DEF Detect, UInv, JobsSound
  <2>2. PICK more : more = PendingAdd(s, c)
    OBVIOUS
  <2>3. more \cap (s.models \cup s.ignored) = {}
    BY <2>2 DEF PendingAdd
  <2>4. CASE /\ Write(j, c, [s EXCEPT !.models = db[c].models, !.add = more,
                                      !.remove = PendingRemove(s, c)])
             /\ UNCHANGED told
    <3>1. PICK d : d = [s EXCEPT !.models = db[c].models, !.add = more,
                                 !.remove = PendingRemove(s, c)]
      OBVIOUS
    <3>2. d.models = db[c].models /\ d.add = more /\ d.ignored = s.ignored
      BY <2>1, <3>1 DEF Settings
    <3>3. /\ db' = [db EXCEPT ![c] = d] /\ told' = [told EXCEPT ![c] = told[c]]
          /\ crossed \subseteq crossed' /\ (c \notin crossed' => s = db[c] /\ c \notin crossed)
      BY <1>0, <2>1, <2>4, <3>1 DEF Write
    <3>4. c \notin crossed' => Lasting(told[c], d)
      BY <2>0, <2>3, <3>2, <3>3 DEF Lasting
    <3> QED
      BY <2>0, <3>3, <3>4, LastingWrite
  <2>5. CASE /\ Write(j, c, [s EXCEPT !.models = @ \cup more, !.add = {},
                                      !.remove = PendingRemove(s, c)])
             /\ told' = [told EXCEPT ![c].remove = @ \ more]
    <3>1. PICK d : d = [s EXCEPT !.models = @ \cup more, !.add = {},
                                 !.remove = PendingRemove(s, c)]
      OBVIOUS
    <3>2. d.models = s.models \cup more /\ d.add = {} /\ d.ignored = s.ignored
      BY <2>1, <3>1 DEF Settings
    <3>3. PICK h : h = [told[c] EXCEPT !.remove = @ \ more]
      OBVIOUS
    <3>4. /\ h \in Decisions /\ h.add = told[c].add /\ h.ignore = told[c].ignore
          /\ h.remove = told[c].remove \ more
      BY <2>0, <3>3 DEF Decisions
    <3>5. /\ db' = [db EXCEPT ![c] = d] /\ told' = [told EXCEPT ![c] = h]
          /\ crossed \subseteq crossed' /\ (c \notin crossed' => s = db[c] /\ c \notin crossed)
      BY <1>0, <2>1, <2>5, <3>1, <3>3 DEF Write
    <3>6. c \notin crossed' => Lasting(h, d)
      BY <2>0, <2>3, <3>2, <3>4, <3>5 DEF Lasting
    <3> QED
      BY <3>4, <3>5, <3>6, LastingWrite
  <2> QED
    BY <1>3, <2>1, <2>2, <2>4, <2>5 DEF Detect
<1>4. ASSUME NEW j \in Jobs, NEW c \in Channels, Apply(j, c) PROVE DecisionsLast'
  <2>0. told[c] \in Decisions /\ (c \notin crossed => Lasting(told[c], db[c]))
    BY <1>0 DEF DecisionsLast
  <2>1. PICK s : s = job[j].snap[c] /\ s \in Settings
    BY <1>4 DEF Apply, UInv, JobsSound
  <2>2. PICK plus, minus : plus = Asked(j, c).add /\ minus = Asked(j, c).remove
    OBVIOUS
  <2>3. /\ plus \subseteq s.add /\ minus \subseteq s.remove /\ minus \cap plus = {}
        /\ plus \subseteq Models /\ minus \subseteq Models
    BY <2>1, <2>2 DEF Asked, Settings
  <2>4. PICK ignore : ignore = job[j].ignore \cap s.add
    OBVIOUS
  <2>5. ignore \subseteq s.add /\ ignore \subseteq Models
    BY <2>1, <2>4 DEF Settings
  <2>6. PICK models : models = IF (s.models \cup plus) \ minus # s.models
                               THEN (s.models \cup plus) \ minus ELSE db[c].models
    OBVIOUS
  <2>7. PICK d : d = [models  |-> models, add |-> s.add \ (plus \cup ignore),
                      remove  |-> s.remove \ minus, ignored |-> (s.ignored \cup ignore) \ plus]
    OBVIOUS
  <2>8. PICK h : h = [add    |-> (told[c].add \ minus) \cup plus,
                      remove |-> (told[c].remove \ plus) \cup minus,
                      ignore |-> (told[c].ignore \cup ignore) \ plus]
    OBVIOUS
  <2>9. h \in Decisions
    BY <2>0, <2>3, <2>5, <2>8 DEF Decisions
  <2>10. /\ db' = [db EXCEPT ![c] = d] /\ told' = [told EXCEPT ![c] = h]
         /\ crossed \subseteq crossed' /\ (c \notin crossed' => s = db[c] /\ c \notin crossed)
    BY <1>0, <1>4, <2>1, <2>2, <2>4, <2>6, <2>7, <2>8 DEF Apply, Write
  <2>11. ASSUME c \notin crossed' PROVE Lasting(h, d)
    <3>1. s = db[c] /\ Lasting(told[c], s)
      BY <2>0, <2>10, <2>11
    <3>2. models = (s.models \cup plus) \ minus
      BY <2>6, <3>1
    <3>3. /\ d.models = (s.models \cup plus) \ minus /\ d.add = s.add \ (plus \cup ignore)
          /\ d.ignored = (s.ignored \cup ignore) \ plus
      BY <2>7, <3>2
    <3>4. /\ h.add = (told[c].add \ minus) \cup plus /\ h.remove = (told[c].remove \ plus) \cup minus
          /\ h.ignore = (told[c].ignore \cup ignore) \ plus
      BY <2>8
    <3>5. plus \subseteq s.add /\ minus \cap plus = {} /\ ignore \subseteq s.add
      BY <2>3, <2>5
    <3> QED
      BY <3>1, <3>3, <3>4, <3>5 DEF Lasting
  <2> QED
    BY <2>9, <2>10, <2>11, LastingWrite
<1> QED
  BY <1>1, <1>2, <1>3, <1>4
     DEF UpdatesNext, OpenModal, CloseModal, Toggle, Confirm, AskPartial, ConfirmPartial,
         CancelPartial, SendApply, StartAll, StartDetect, StartTask, Start, Refetch,
         Serve, JobAnswered, Lost, Read, Skip, OfferChanges, history, updatesVars

LEMMA UInvNext == UInv /\ [UpdatesNext]_updatesVars => UInv'
BY ConsoleStep, OffersStep, DbStep, JobStep, DecisionStep DEF UInv

\* However detections, applies and the dialog of the console overlap, the models
\* of a channel differ from those it began with only by what its upstream has
\* listed or left out, with redirects and patterns respected; and what an apply
\* has reported as added, removed or ignored stays so until a handler is to change
\* it, on every channel where no handler has written over another's write.
THEOREM ReportedOnly == UpdatesSpec => []UpdatesAreSound
<1>1. UpdatesInit => UInv
  BY UInvInit
<1>2. UInv => UpdatesAreSound
  <2>1. UInv => OnlyReportedChanges
    BY DEF UInv, DbSound, Sound, OnlyReportedChanges
  <2>2. UInv => ReportedDecisionsHold
    BY DEF UInv, DecisionsLast, Lasting, ReportedDecisionsHold
  <2> QED
    BY <2>1, <2>2 DEF UpdatesAreSound
<1> QED
  BY <1>1, <1>2, UInvNext, PTL DEF UpdatesSpec
=============================================================================
