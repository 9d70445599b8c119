----------------------------- MODULE ChannelBan -----------------------------
(***************************************************************************)
(* The availability of one single-key channel on a deployment of several   *)
(* nodes.  Failing requests are counted in the channel's row until they    *)
(* ban it for a window, a selection after the window restores it           *)
(* (model/channel.go), administrators, the health check and the balance    *)
(* check change the status through UpdateChannelStatus, administrators     *)
(* also by tag without it, and every node works from a cached copy of the  *)
(* row (model/channel_cache.go).  The                                      *)
(* count and the end of the window live in other_info, which the console's *)
(* channel form (channel-mutate-drawer.tsx, channel-form.ts) loads with    *)
(* the channel and sends back with every save.                             *)
(***************************************************************************)
EXTENDS Naturals

CONSTANTS Nodes,
          Uses,       \* who is at work: the nodes that serve requests, the
                      \* callers of UpdateChannelStatus, the console's channel
                      \* form, the buttons for all channels of a tag, and the
                      \* periodic reload of the nodes' caches
          Threshold,  \* failures in a row that ban the channel
          Window,     \* length of a ban
          MaxTime,    \* bound on the clock
          MaxCalls    \* bound on the calls and saves

Callers == {"admin", "tester", "balance"}

ASSUME BanAssumption ==
  /\ Uses \subseteq [nodes : SUBSET Nodes, callers : SUBSET Callers,
                     form : BOOLEAN, tags : BOOLEAN, sync : BOOLEAN]
  /\ Threshold \in Nat \ {0} /\ Window \in Nat \ {0}
  /\ MaxTime \in Nat /\ MaxCalls \in Nat

VARIABLES use,      \* the member of Uses this deployment follows
          row,      \* the channel in the database
          cache,    \* each node's copy
          held,     \* a committed row its node has yet to cache, locks held
          waiting,  \* calls waiting for the locks of a node
          caller,   \* the callers of UpdateChannelStatus
          snap,     \* a periodic reload between its read and its swap
          form,     \* what the open form loaded, if one is open
          now, calls,
          streak,   \* failures since the last success or since it was enabled
          banEnd,   \* when the last ban's window ends
          disabled  \* the administrator's last word, answered, is "disabled"

books == <<streak, banEnd, disabled>>
vars == <<use, row, cache, held, waiting, caller, snap, form, now, calls, books>>

Statuses == {"enabled", "manual", "auto"}

\* The status and the two entries of other_info; 0 is an absent entry.  The count
\* passes the threshold only when a form brings an old count back or a banned
\* channel is enabled by its tag.
Rows == [status : Statuses, until : 0..MaxTime, fails : 0..(Threshold + MaxCalls)]
FreshRow == [status |-> "enabled", until |-> 0, fails |-> 0]
NoRow == [status |-> "none"]
NoNode == "none"

Callings == [pc : {"idle", "testing", "cache", "read", "save", "reload", "swap"},
             node : Nodes \cup {NoNode}, want : Statuses, copy : Rows \cup {NoRow}]
Idle == [pc |-> "idle", node |-> NoNode, want |-> "enabled", copy |-> NoRow]

Init ==
  /\ use \in Uses
  /\ row = FreshRow
  /\ cache = [n \in Nodes |-> FreshRow]
  /\ held = [n \in Nodes |-> NoRow]
  /\ waiting = [n \in Nodes |-> {}]
  /\ caller = [p \in Callers |-> Idle]
  /\ snap = [n \in Nodes |-> NoRow]
  /\ form = NoRow
  /\ now = 0 /\ calls = 0
  /\ streak = 0 /\ banEnd = 0 /\ disabled = FALSE

\* channelStatusLock and the polling lock of the channel, taken together.
LockFree(n) ==
  /\ held[n] = NoRow
  /\ \A p \in Callers : ~(caller[p].node = n /\ caller[p].pc \in {"read", "save"})

Cleared(r) == [r EXCEPT !.until = 0, !.fails = 0]

-----------------------------------------------------------------------------
(* Requests.                                                               *)

\* The count a failure adds to: the one of the locked row.
\* Variant: the count of the node's copy.
CachedFailures(n) == cache[n].fails
CountedFailures(n) == row.fails

\* Variant: the end of the window is not stored.
BannedWithoutEnd(failures) == [status |-> "auto", until |-> 0, fails |-> failures]
Banned(failures) == [status |-> "auto", until |-> now + Window, fails |-> failures]

\* RecordChannelAutoBanFailure: one transaction on the locked row.
RecordFailure(n) ==
  LET failures == CountedFailures(n) + 1
      banned == failures >= Threshold
  IN /\ n \in use.nodes /\ LockFree(n)
     /\ row.status = "enabled"
     /\ banned => now + Window <= MaxTime
     /\ row' = IF banned THEN Banned(failures) ELSE [row EXCEPT !.fails = failures]
     /\ held' = [held EXCEPT ![n] = row']
     /\ streak' = streak + 1
     /\ banEnd' = IF banned THEN now + Window ELSE banEnd
     /\ UNCHANGED <<use, cache, waiting, caller, snap, form, now, calls, disabled>>

\* CacheUpdateChannel of what the transaction wrote; the locks are released.
CacheWrite(n) ==
  /\ held[n] # NoRow
  /\ cache' = [cache EXCEPT ![n] = held[n]]
  /\ held' = [held EXCEPT ![n] = NoRow]
  /\ UNCHANGED <<use, row, waiting, caller, snap, form, now, calls, books>>

\* RecordAutoBanSuccess: the node's copy tells whether there is a streak to end.
\* A failure that is still being recorded counts as the later one.
Success(n) ==
  \/ /\ n \in use.nodes /\ cache[n].fails > 0
     /\ waiting' = [waiting EXCEPT ![n] = @ \cup {"clear"}]
     /\ UNCHANGED <<use, row, cache, held, caller, snap, form, now, calls, books>>
  \/ /\ n \in use.nodes /\ cache[n].fails = 0
     /\ streak' = IF held = [m \in Nodes |-> NoRow] THEN 0 ELSE streak
     /\ UNCHANGED <<use, row, cache, held, waiting, caller, snap, form, now, calls, banEnd, disabled>>

\* ClearChannelAutoBanFailures: a ban is left alone.
ClearFailures(n) ==
  /\ "clear" \in waiting[n] /\ LockFree(n)
  /\ waiting' = [waiting EXCEPT ![n] = @ \ {"clear"}]
  /\ IF row.status = "enabled" /\ row.fails > 0
       THEN /\ row' = [row EXCEPT !.fails = 0]
            /\ held' = [held EXCEPT ![n] = row']
       ELSE UNCHANGED <<row, held>>
  /\ streak' = 0
  /\ UNCHANGED <<use, cache, caller, snap, form, now, calls, banEnd, disabled>>

\* GetRandomSatisfiedChannelWithOptions meets a copy whose ban is over.
Select(n) ==
  /\ n \in use.nodes
  /\ cache[n].status = "auto" /\ cache[n].until > 0 /\ now >= cache[n].until
  /\ waiting' = [waiting EXCEPT ![n] = @ \cup {"restore"}]
  /\ UNCHANGED <<use, row, cache, held, caller, snap, form, now, calls, books>>

\* What MaybeRestoreAutoBannedChannel asks of the row once it is locked.
\* Variant: the copy has been asked already.
RestorableAsCopied == row.status = "auto" /\ row.until > 0
Restorable == row.status = "auto" /\ row.until > 0 /\ now >= row.until

MaybeRestore(n) ==
  /\ "restore" \in waiting[n] /\ LockFree(n)
  /\ waiting' = [waiting EXCEPT ![n] = @ \ {"restore"}]
  /\ IF Restorable
       THEN /\ row' = FreshRow
            /\ held' = [held EXCEPT ![n] = row']
            /\ streak' = 0
       ELSE UNCHANGED <<row, held, streak>>
  /\ UNCHANGED <<use, cache, caller, snap, form, now, calls, banEnd, disabled>>

-----------------------------------------------------------------------------
(* UpdateChannelStatus and its callers.                                    *)

\* The switch of the console's table, or a batch of it.
AskStatus(n, want) ==
  /\ n \in use.nodes /\ "admin" \in use.callers /\ caller["admin"].pc = "idle" /\ calls < MaxCalls
  /\ want \in {"enabled", "manual"}
  /\ caller' = [caller EXCEPT !["admin"] = [pc |-> "cache", node |-> n, want |-> want,
                                            copy |-> NoRow]]
  /\ calls' = calls + 1
  /\ disabled' = FALSE
  /\ UNCHANGED <<use, row, cache, held, waiting, snap, form, now, streak, banEnd>>

\* EnableTagChannels, DisableTagChannels: one UPDATE of the status of all channels
\* with the tag, outside of the locks, then InitChannelCache.  The count and the
\* end of a ban stay in the row.
TagStatus(n, want) ==
  /\ n \in use.nodes /\ use.tags /\ caller["admin"].pc = "idle" /\ calls < MaxCalls
  /\ want \in {"enabled", "manual"}
  /\ row' = [row EXCEPT !.status = want]
  /\ streak' = IF row.status # want /\ want = "enabled" THEN 0 ELSE streak
  /\ caller' = [caller EXCEPT !["admin"] = [pc |-> "reload", node |-> n, want |-> want,
                                            copy |-> NoRow]]
  /\ calls' = calls + 1
  /\ disabled' = FALSE
  /\ UNCHANGED <<use, cache, held, waiting, snap, form, now, banEnd>>

\* testChannelForHealthCheck and updateAllChannelsBalance read the channel and
\* call its upstream.  The health check passes over manually disabled channels,
\* the balance check over all that are not enabled.
Probe(p, n) ==
  /\ n \in use.nodes /\ p \in use.callers
  /\ caller[p].pc = "idle" /\ calls < MaxCalls
  /\ \/ p = "tester" /\ row.status # "manual"
     \/ p = "balance" /\ row.status = "enabled"
  /\ caller' = [caller EXCEPT ![p] = [pc |-> "testing", node |-> n, want |-> "enabled",
                                      copy |-> row]]
  /\ calls' = calls + 1
  /\ UNCHANGED <<use, row, cache, held, waiting, snap, form, now, books>>

\* A test that passes enables a channel that was automatically disabled, an
\* exhausted balance disables the channel; any other answer changes nothing.  A
\* failing test of an enabled channel is a RecordFailure.
ProbeAnswered(p) ==
  /\ caller[p].pc = "testing"
  /\ \/ /\ p = "tester" /\ caller[p].copy.status = "auto"
        /\ caller' = [caller EXCEPT ![p].pc = "cache", ![p].want = "enabled",
                                    ![p].copy = NoRow]
     \/ /\ p = "balance"
        /\ caller' = [caller EXCEPT ![p].pc = "cache", ![p].want = "auto",
                                    ![p].copy = NoRow]
     \/ caller' = [caller EXCEPT ![p] = Idle]
  /\ UNCHANGED <<use, row, cache, held, waiting, snap, form, now, calls, books>>

\* The administrator is answered: success, whether anything changed or not.
Answered(p) == disabled' = IF p = "admin" THEN caller[p].want = "manual" ELSE disabled

\* The node's copy goes first, and ends the call if it has the status already.
StatusInCache(p) ==
  LET n == caller[p].node
      want == caller[p].want
      copy == IF want = "auto" THEN cache[n] ELSE Cleared(cache[n])
  IN /\ caller[p].pc = "cache" /\ LockFree(n)
     /\ cache' = [cache EXCEPT ![n] = [copy EXCEPT !.status = want]]
     /\ IF copy.status = want
          THEN caller' = [caller EXCEPT ![p] = Idle] /\ Answered(p)
          ELSE caller' = [caller EXCEPT ![p].pc = "read"] /\ UNCHANGED disabled
     /\ UNCHANGED <<use, row, held, waiting, snap, form, now, calls, streak, banEnd>>

\* GetChannelById, outside of a transaction.
StatusRead(p) ==
  /\ caller[p].pc = "read"
  /\ IF row.status = caller[p].want
       THEN caller' = [caller EXCEPT ![p] = Idle] /\ Answered(p)
       ELSE /\ caller' = [caller EXCEPT ![p].pc = "save", ![p].copy = row]
            /\ UNCHANGED disabled
  /\ UNCHANGED <<use, row, cache, held, waiting, snap, form, now, calls, streak, banEnd>>

\* What saveStatusState writes: the status and other_info.
Saved(copy, want) ==
  [IF want = "auto" THEN copy ELSE Cleared(copy) EXCEPT !.status = want]

StatusSave(p) ==
  /\ caller[p].pc = "save"
  /\ row' = Saved(caller[p].copy, caller[p].want)
  /\ caller' = [caller EXCEPT ![p] = IF p = "admin"
                                       THEN [@ EXCEPT !.pc = "reload", !.copy = NoRow]
                                       ELSE Idle]
  /\ streak' = IF row'.status = "enabled" THEN 0 ELSE streak
  /\ UNCHANGED <<use, cache, held, waiting, snap, form, now, calls, banEnd, disabled>>

\* InitChannelCache, called by a handler: a read and, later, a swap.
ReloadRead(p) ==
  /\ caller[p].pc = "reload"
  /\ caller' = [caller EXCEPT ![p].pc = "swap", ![p].copy = row]
  /\ UNCHANGED <<use, row, cache, held, waiting, snap, form, now, calls, books>>

ReloadSwap(p) ==
  /\ caller[p].pc = "swap"
  /\ cache' = [cache EXCEPT ![caller[p].node] = caller[p].copy]
  /\ caller' = [caller EXCEPT ![p] = Idle]
  /\ Answered(p)
  /\ UNCHANGED <<use, row, held, waiting, snap, form, now, calls, streak, banEnd>>

-----------------------------------------------------------------------------
(* The console's channel form.                                             *)

\* The drawer's detail query answers, on opening or later: the form is reset.
LoadForm ==
  /\ use.form
  /\ form' = row
  /\ UNCHANGED <<use, row, cache, held, waiting, caller, snap, now, calls, books>>

CloseForm ==
  /\ form # NoRow
  /\ form' = NoRow
  /\ UNCHANGED <<use, row, cache, held, waiting, caller, snap, now, calls, books>>

\* A save: the payload has no status, but other_info as the form loaded it, and
\* UpdateChannel writes every field it is given and reloads the node's cache.
SaveForm(n) ==
  /\ n \in use.nodes /\ form # NoRow /\ caller["admin"].pc = "idle" /\ calls < MaxCalls
  /\ row' = [row EXCEPT !.until = form.until, !.fails = form.fails]
  /\ form' = NoRow
  /\ caller' = [caller EXCEPT !["admin"] = [pc |-> "reload", node |-> n,
                                            want |-> IF disabled THEN "manual" ELSE "enabled",
                                            copy |-> NoRow]]
  /\ calls' = calls + 1
  /\ UNCHANGED <<use, cache, held, waiting, snap, now, books>>

-----------------------------------------------------------------------------
(* Time.                                                                   *)

\* SyncChannelCache: InitChannelCache every few seconds.
SyncRead(n) ==
  /\ n \in use.nodes /\ use.sync /\ snap[n] = NoRow
  /\ snap' = [snap EXCEPT ![n] = row]
  /\ UNCHANGED <<use, row, cache, held, waiting, caller, form, now, calls, books>>

SyncSwap(n) ==
  /\ snap[n] # NoRow
  /\ cache' = [cache EXCEPT ![n] = snap[n]]
  /\ snap' = [snap EXCEPT ![n] = NoRow]
  /\ UNCHANGED <<use, row, held, waiting, caller, form, now, calls, books>>

Tick ==
  /\ now < MaxTime
  /\ now' = now + 1
  /\ UNCHANGED <<use, row, cache, held, waiting, caller, snap, form, calls, books>>

-----------------------------------------------------------------------------
Calling(p) ==
  \/ \E n \in Nodes : Probe(p, n)
  \/ ProbeAnswered(p)
  \/ StatusInCache(p) \/ StatusRead(p) \/ StatusSave(p)
  \/ ReloadRead(p) \/ ReloadSwap(p)

Next ==
  \/ \E n \in Nodes :
       \/ RecordFailure(n) \/ CacheWrite(n) \/ Success(n) \/ ClearFailures(n)
       \/ Select(n) \/ MaybeRestore(n)
       \/ \E want \in Statuses : AskStatus(n, want) \/ TagStatus(n, want)
       \/ SaveForm(n)
       \/ SyncRead(n) \/ SyncSwap(n)
  \/ \E p \in Callers : Calling(p)
  \/ LoadForm \/ CloseForm
  \/ Tick

Spec == Init /\ [][Next]_vars

\* Handlers and reloads go on, reloads and selections keep coming, time passes.
Fairness ==
  /\ \A n \in Nodes : WF_vars(CacheWrite(n)) /\ WF_vars(ClearFailures(n))
                      /\ WF_vars(MaybeRestore(n)) /\ WF_vars(Select(n))
                      /\ WF_vars(SyncRead(n)) /\ WF_vars(SyncSwap(n))
  /\ \A p \in Callers : WF_vars(ProbeAnswered(p) \/ StatusInCache(p) \/ StatusRead(p)
                                \/ StatusSave(p) \/ ReloadRead(p) \/ ReloadSwap(p))
  /\ WF_vars(Tick)

FairSpec == Spec /\ Fairness

-----------------------------------------------------------------------------
(* Properties.                                                             *)

TypeOK ==
  /\ use \in Uses
  /\ row \in Rows
  /\ cache \in [Nodes -> Rows]
  /\ held \in [Nodes -> Rows \cup {NoRow}]
  /\ waiting \in [Nodes -> SUBSET {"clear", "restore"}]
  /\ caller \in [Callers -> Callings]
  /\ snap \in [Nodes -> Rows \cup {NoRow}]
  /\ form \in Rows \cup {NoRow}
  /\ now \in 0..MaxTime /\ calls \in 0..MaxCalls
  /\ streak \in 0..(Threshold * (MaxCalls + 1)) /\ banEnd \in 0..MaxTime /\ disabled \in BOOLEAN

\* No failure is lost: however the failures, successes, bans, restores and
\* checks of several nodes interleave, the count of an enabled channel is at
\* least the number of failures since the last success
\* (RecordChannelAutoBanFailure adds to the row it has locked).  A form that is
\* saved may bring an older count back.
FailuresAreCounted == ~use.form /\ row.status = "enabled" => row.fails >= streak

\* The row can have the end of an earlier ban: a saved form brings one back; and
\* one that an enabling by tag left in the row comes back when a balance check
\* that read it then writes its copy over a new ban.
EndMayBeOld == use.form \/ (use.tags /\ "balance" \in use.callers)

\* A channel that is not enabled is enabled again only by a selection, after the
\* window of its last ban (MaybeRestoreAutoBannedChannel asks the locked row, not
\* the copy that made it try), unless an administrator or a passed test wants it
\* enabled, through UpdateChannelStatus or by tag.  Nothing is said of when a
\* selection does it where the row can have the end of an earlier ban.
BanIsServed ==
  [][row.status # "enabled" /\ row'.status = "enabled" =>
       \/ row.status = "auto" /\ (now >= banEnd \/ EndMayBeOld)
       \/ \E p \in Callers : caller[p].pc = "save" /\ caller[p].want = "enabled"
       \/ \E n \in use.nodes : TagStatus(n, "enabled")]_vars

\* A ban comes to its end: the selections that go on restore the channel, unless
\* somebody disables it by hand.  A form that was loaded before the ban can
\* erase its end, and a balance check sets none.
BanEnds ==
  (~use.form /\ ~use.tags /\ use.callers = {} /\ row.status = "auto") ~> (row.status # "auto")
=============================================================================
