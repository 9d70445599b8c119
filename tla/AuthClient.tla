----------------------------- MODULE AuthClient -----------------------------
(***************************************************************************)
(* The login session of a browser: the tabs of the web console, each with *)
(* its own copy of the session in memory, the refresh cookie they share,  *)
(* and the server that rotates it.                                        *)
(*                                                                         *)
(* Sources: web/src/lib/auth-session.ts (single-flight refresh under a Web *)
(* Lock, epochs, the outcome of every answer), auth-session-sync.ts (events *)
(* between tabs), http-client.ts (one retry after a 401), stores/auth-     *)
(* store.ts, routes/__root.tsx (bootstrap, event handler), features/auth/  *)
(* api.ts and sign-out-dialog.tsx (logout); on the server                  *)
(* service/auth_session.go and controller/auth_session.go.                 *)
(*                                                                         *)
(* Refresh secrets form a chain (each is derived from the one before), so  *)
(* what matters of a secret is its age: 0 the current one, 1 the previous  *)
(* one, 2 older.  A rotation makes every copy of a secret one older.       *)
(* authEpoch is kept as the flag `current' of the refresh in flight: TRUE  *)
(* as long as the epoch is the one the refresh started with.               *)
(***************************************************************************)
EXTENDS Naturals, Sequences, FiniteSets

CONSTANTS Tabs,        \* tabs of one browser profile
          Uses,        \* what the user and the page do in each tab, and whether
                       \* navigator.locks is available
          Sids,        \* login sessions that can be created
          None,        \* no session
          RaceTries,   \* length of refreshRaceDelays
          MaxClientFaults \* bound: failed or lost answers and page reloads

ASSUME AuthClientAssumption ==
    /\ Uses \subseteq
         [ops : [Tabs -> SUBSET {"login", "logout", "api", "navigate", "headers"}],
          locks : BOOLEAN]
    /\ Sids # {}
    /\ None \notin Sids \cup Tabs
    /\ RaceTries \in Nat
    /\ MaxClientFaults \in Nat

VARIABLES use,       \* the member of Uses this browser follows
          sess,      \* server: the row of each session
          cookie,    \* the refresh cookie all tabs share
          orphans,   \* refresh requests whose page is gone
          tab,       \* per tab: store and page
          ref,       \* per tab: the refresh in flight (refreshPromise)
          webLock,   \* holder of the Web Lock
          api,       \* per tab: an API request that met a 401
          out,       \* per tab: a logout in progress
          inbox,     \* per tab: BroadcastChannel messages not yet handled
          signedOut, \* history: revoked sessions a tab has signed out of
          lost,      \* history: an answer with a new cookie was lost
          clientFaults  \* number of faults so far

clientVars == <<use, sess, cookie, orphans, tab, ref, webLock, api, out, inbox, signedOut, lost,
          clientFaults>>

Token == [sid : Sids \cup {None}, age : 0..2]
NoToken == [sid |-> None, age |-> 0]
Event == [kind : {"authenticated", "signed_out"}, sid : Sids]
Answer == [kind : {"none", "ok", "race", "mismatch", "unauth", "transient",
                   "bad"},
           sid : Sids \cup {None},
           set : {"keep", "clear", "write"},
           age : 0..2]
NoAnswer == [kind |-> "none", sid |-> None, set |-> "keep", age |-> 0]

\* AuthState of a tab.  user, accessToken and session are set and cleared
\* together: sid stands for the three; fresh: the access token has not expired.
TabState == [sid : Sids \cup {None}, boot : {"idle", "checking", "complete"},
             fresh : BOOLEAN, page : {"loading", "ready"}]
RefState == [pc : {"none", "lock", "wait", "sent", "answered"},
             current : BOOLEAN, attempt : 0..RaceTries, again : BOOLEAN,
             ck : Token, exp : Sids \cup {None}, ans : Answer]
NoRef == [pc |-> "none", current |-> FALSE, attempt |-> 0, again |-> FALSE,
          ck |-> NoToken, exp |-> None, ans |-> NoAnswer]
OutState == [pc : {"none", "sent", "refresh", "revoked", "mismatch"},
             again : BOOLEAN, ck : Token, exp : Sids \cup {None},
             fresh : BOOLEAN, clears : BOOLEAN]
NoOut == [pc |-> "none", again |-> FALSE, ck |-> NoToken, exp |-> None,
          fresh |-> FALSE, clears |-> FALSE]
ApiState == [pc : {"none", "wait", "resent", "redirect"},
             sid : Sids \cup {None}]
NoApi == [pc |-> "none", sid |-> None]

ClientTypeOK ==
    /\ use \in Uses
    /\ sess \in [Sids -> [st : {"none", "active", "revoked"},
                          grace : BOOLEAN, reused : BOOLEAN]]
    /\ cookie \in Token
    /\ orphans \subseteq Token
    /\ tab \in [Tabs -> TabState]
    /\ ref \in [Tabs -> RefState]
    /\ webLock \in Tabs \cup {None}
    /\ api \in [Tabs -> ApiState]
    /\ out \in [Tabs -> OutState]
    /\ inbox \in [Tabs -> Seq(Event)]
    /\ signedOut \in [Tabs -> SUBSET Sids]
    /\ lost \in BOOLEAN
    /\ clientFaults \in 0..MaxClientFaults

-----------------------------------------------------------------------------
(* The server.                                                             *)

Older(c, s) ==
    IF s # None /\ c.sid = s /\ c.age < 2 THEN [c EXCEPT !.age = @ + 1] ELSE c

\* A rotation of s (None: no rotation) ages the copies of its secrets.
AgedRefs(s) ==
    [u \in Tabs |-> [ref[u] EXCEPT !.ck = Older(@, s), !.ans = Older(@, s)]]
AgeCopies(s, os) ==
    /\ cookie' = Older(cookie, s)
    /\ orphans' = {Older(c, s) : c \in os}
    /\ out' = [u \in Tabs |-> [out[u] EXCEPT !.ck = Older(@, s)]]

\* RotateUserSessionRefresh is reached only for an active session named by
\* the cookie and, if sent, by the header X-Auth-Session.
Reaches(c, e) ==
    c.sid # None /\ (e = None \/ e = c.sid) /\ sess[c.sid].st = "active"
Rotates(c, e) == Reaches(c, e) /\ c.age = 0
Reuses(c, e) == Reaches(c, e) /\ c.age = 1 /\ ~sess[c.sid].grace

SessAfterRefresh(c, e) ==
    IF Rotates(c, e) THEN [sess EXCEPT ![c.sid].grace = TRUE]
    ELSE IF Reuses(c, e)
    THEN [sess EXCEPT ![c.sid].st = "revoked", ![c.sid].reused = TRUE]
    ELSE sess

\* RefreshAuth: what may be answered to the secret c and the header e.  The
\* previous secret within its grace is answered with the current one, or, by
\* a node that derives another successor from it, as a lost race.
RefreshAnswers(c, e) ==
    LET reply(kind, set) ==
            [kind |-> kind, sid |-> c.sid, set |-> set, age |-> 0]
    IN  CASE c.sid = None -> {reply("unauth", "clear")}
          [] c.sid # None /\ e \notin {None, c.sid} ->
                {reply("mismatch", "keep")}
          [] Rotates(c, e) -> {reply("ok", "write")}
          [] Reaches(c, e) /\ c.age = 1 /\ sess[c.sid].grace ->
                {reply("ok", "write"), reply("race", "keep")}
          [] OTHER -> {reply("unauth", "clear")}

\* The server handles the refresh request of a tab.
ServeRefresh(t) ==
    /\ ref[t].pc = "sent"
    /\ LET c == ref[t].ck
           e == ref[t].exp
           s == IF Rotates(c, e) THEN c.sid ELSE None
       IN  /\ sess' = SessAfterRefresh(c, e)
           /\ AgeCopies(s, orphans)
           /\ \E a \in RefreshAnswers(c, e) :
                ref' = [AgedRefs(s) EXCEPT ![t].pc = "answered", ![t].ans = a,
                                           ![t].ck = NoToken, ![t].exp = None]
    /\ UNCHANGED <<use, tab, webLock, api, inbox, signedOut, lost, clientFaults>>

\* The server handles a request whose page is gone: nobody reads the answer.
ServeOrphan ==
    \E c \in orphans :
        LET s == IF Rotates(c, None) THEN c.sid ELSE None
        IN  /\ sess' = SessAfterRefresh(c, None)
            /\ AgeCopies(s, orphans \ {c})
            /\ ref' = AgedRefs(s)
            /\ UNCHANGED <<use, tab, webLock, api, inbox, signedOut, lost, clientFaults>>

\* PreviousValidUntil passes.
GraceEnds(s) ==
    /\ sess[s].grace
    /\ sess' = [sess EXCEPT ![s].grace = FALSE]
    /\ UNCHANGED <<use, cookie, orphans, tab, ref, webLock, api, out, inbox, signedOut,
                   lost, clientFaults>>

\* DeleteLoginSession or RevokeOtherLoginSessions from another device.
RevokedElsewhere(s) ==
    /\ clientFaults < MaxClientFaults
    /\ sess[s].st = "active"
    /\ sess' = [sess EXCEPT ![s].st = "revoked"]
    /\ clientFaults' = clientFaults + 1
    /\ UNCHANGED <<use, cookie, orphans, tab, ref, webLock, api, out, inbox, signedOut, lost>>

-----------------------------------------------------------------------------
(* The store of a tab and the events between tabs.                         *)

SetBundle(st, s) == [st EXCEPT !.sid = s, !.boot = "complete", !.fresh = TRUE]

ResetStore(st, b) == [st EXCEPT !.sid = None, !.boot = b, !.fresh = FALSE]

\* publishAuthSessionEvent: every other tab whose root component is mounted
\* receives the event; the source tab ignores its own.
Publish(t, kind, s) ==
    inbox' = [u \in Tabs |->
                IF u # t /\ s # None /\ tab[u].page = "ready"
                THEN Append(inbox[u], [kind |-> kind, sid |-> s])
                ELSE inbox[u]]

\* run sends the request with the cookie of the browser and the session of
\* the store.
Send(r, st, ck) == [r EXCEPT !.pc = "sent", !.ck = ck, !.exp = st.sid,
                             !.ans = NoAnswer]

\* Variant: the Web Lock is not used.
JoinWithoutLock(r, st, ck) ==
    IF r.pc # "none" THEN r
    ELSE Send([NoRef EXCEPT !.current = TRUE, !.again = TRUE], st, ck)

\* refreshAuthentication: joins the refresh in flight or starts one, which
\* without Web Locks sends its request at once.
JoinRefresh(r, st, ck) ==
    LET new == [NoRef EXCEPT !.pc = "lock", !.current = TRUE, !.again = TRUE]
    IN  CASE r.pc # "none"              -> r
          [] r.pc = "none" /\ use.locks  -> new
          [] r.pc = "none" /\ ~use.locks -> Send(new, st, ck)

\* navigator.locks releases the lock when the callback or the page is gone.
LockReleased(t) == IF webLock = t THEN None ELSE webLock

\* The promise of refreshAuthentication settles with outcome o: the Web Lock
\* is released and the code awaiting it goes on, in the store st it left.
\*  - root.beforeLoad: the page is rendered and subscribes to the events;
\*  - the response interceptor: repeats the request or goes to /sign-in;
\*  - executeLogout: repeats the request, or is done, or fails.
Settle(t, o, st) ==
    /\ tab' = [tab EXCEPT ![t] = [st EXCEPT !.page = "ready"]]
    /\ ref' = [ref EXCEPT ![t] = NoRef]
    /\ webLock' = LockReleased(t)
    /\ api' = [api EXCEPT ![t] =
                IF @.pc # "wait" THEN @
                ELSE IF o = "authenticated" THEN [pc |-> "resent", sid |-> st.sid]
                ELSE IF o \in {"anonymous", "out_of_sync"}
                THEN [pc |-> "redirect", sid |-> None]
                ELSE NoApi]
    /\ out' = [out EXCEPT ![t] =
                IF @.pc # "refresh" THEN @
                ELSE IF o = "authenticated"
                THEN [NoOut EXCEPT !.pc = "sent", !.ck = cookie', !.exp = st.sid,
                                   !.fresh = st.fresh]
                ELSE IF o = "anonymous" THEN [NoOut EXCEPT !.pc = "revoked"]
                ELSE NoOut]

-----------------------------------------------------------------------------
(* createRefreshRunner, step by step.                                      *)

\* run, entered with the lock granted or after the delay of a lost race: a
\* superseded refresh ends, otherwise the request leaves.
Run(t) ==
    /\ \/ ref[t].pc = "wait"
       \/ ref[t].pc = "lock" /\ webLock = None
    /\ \/ /\ ~ref[t].current
          /\ UNCHANGED cookie
          /\ Settle(t, "superseded", tab[t])
       \/ /\ ref[t].current
          /\ ref' = [ref EXCEPT ![t] = Send(@, tab[t], cookie)]
          /\ webLock' = IF use.locks THEN t ELSE webLock
          /\ UNCHANGED <<cookie, tab, api, out>>
    /\ UNCHANGED <<use, sess, orphans, inbox, signedOut, lost, clientFaults>>

\* The request fails on the way or at a server that cannot handle it.  A server
\* that cannot read the session answers 401 and clears the cookie; one that fails
\* later answers 500 and leaves it.
RefreshFails(t) ==
    /\ clientFaults < MaxClientFaults
    /\ ref[t].pc = "sent"
    /\ \E k \in {"transient", "bad", "unauth"} :
        ref' = [ref EXCEPT ![t].pc = "answered", ![t].ck = NoToken, ![t].exp = None,
                           ![t].ans = [NoAnswer EXCEPT
                              !.kind = k, !.set = IF k = "unauth" THEN "clear" ELSE "keep"]]
    /\ clientFaults' = clientFaults + 1
    /\ UNCHANGED <<use, sess, cookie, orphans, tab, webLock, api, out, inbox, signedOut, lost>>

\* The server has handled the request and the answer is lost.
AnswerLost(t) ==
    /\ clientFaults < MaxClientFaults
    /\ ref[t].pc = "answered"
    /\ ref[t].ans.set # "keep"
    /\ ref' = [ref EXCEPT ![t].ans = [NoAnswer EXCEPT !.kind = "transient"]]
    /\ lost' = TRUE
    /\ clientFaults' = clientFaults + 1
    /\ UNCHANGED <<use, sess, cookie, orphans, tab, webLock, api, out, inbox, signedOut>>

CookieAfter(a) ==
    CASE a.set = "keep"  -> cookie
      [] a.set = "clear" -> NoToken
      [] a.set = "write" -> [sid |-> a.sid, age |-> a.age]

\* clearAuthentication of the refresh runner, and its outcome.
ClearAndSettle(t, sync, o) ==
    /\ Settle(t, o, ResetStore(tab[t], "complete"))
    /\ IF sync THEN Publish(t, "signed_out", tab[t].sid) ELSE UNCHANGED inbox

\* AUTH_REFRESH_RACE: again after a delay, as long as there is one left.
OnRace(t) ==
    \/ /\ ref[t].attempt < RaceTries
       /\ ref' = [ref EXCEPT ![t].pc = "wait", ![t].ans = NoAnswer,
                             ![t].attempt = @ + 1]
       /\ UNCHANGED <<tab, webLock, api, out, inbox>>
    \/ /\ ref[t].attempt = RaceTries
       /\ ClearAndSettle(t, FALSE, "out_of_sync")

\* Variant: a mismatch is taken for a temporary failure.
MismatchIsTransient(t) ==
    /\ Settle(t, "transient", [tab[t] EXCEPT !.boot = "idle"])
    /\ UNCHANGED inbox

\* AUTH_SESSION_MISMATCH: the store is emptied, the epoch stays, and one
\* request without the stale session follows at once.
OnMismatch(t) ==
    \/ /\ ref[t].again
       /\ tab' = [tab EXCEPT ![t] = ResetStore(@, "idle")]
       /\ ref' = [ref EXCEPT ![t] =
            Send([@ EXCEPT !.attempt = 0, !.again = FALSE], tab'[t], cookie')]
       /\ UNCHANGED <<webLock, api, out, inbox>>
    \/ /\ ~ref[t].again
       /\ ClearAndSettle(t, FALSE, "out_of_sync")

\* The answer arrives: the browser takes the cookie, then the runner goes on.
HandleAnswer(t) ==
    /\ ref[t].pc = "answered"
    /\ LET a == ref[t].ans
       IN
       /\ cookie' = CookieAfter(a)
       /\ \/ /\ ~ref[t].current
             /\ Settle(t, "superseded", tab[t])
             /\ UNCHANGED inbox
          \/ /\ ref[t].current
             /\ \/ /\ a.kind = "ok"
                   /\ Settle(t, "authenticated", SetBundle(tab[t], a.sid))
                   /\ UNCHANGED inbox
                \/ a.kind = "race" /\ OnRace(t)
                \/ a.kind = "mismatch" /\ OnMismatch(t)
                \/ a.kind = "unauth" /\ ClearAndSettle(t, TRUE, "anonymous")
                \/ /\ a.kind = "transient"
                   /\ Settle(t, "transient", [tab[t] EXCEPT !.boot = "idle"])
                   /\ UNCHANGED inbox
                \/ a.kind = "bad" /\ ClearAndSettle(t, FALSE, "out_of_sync")
    /\ UNCHANGED <<use, sess, orphans, signedOut, lost, clientFaults>>

-----------------------------------------------------------------------------
(* What starts a refresh.                                                  *)

StartRefresh(t) == ref' = [ref EXCEPT ![t] = JoinRefresh(@, tab[t], cookie)]

\* The access token reaches access_expires_at.
Expire(t) ==
    /\ tab[t].fresh
    /\ tab' = [tab EXCEPT ![t].fresh = FALSE]
    /\ UNCHANGED <<use, sess, cookie, orphans, ref, webLock, api, out, inbox, signedOut,
                   lost, clientFaults>>

\* bootstrapAuthentication, called by every navigation.
Navigate(t) ==
    /\ "navigate" \in use.ops[t]
    /\ tab[t].page = "ready"
    /\ \/ /\ tab[t].sid # None /\ tab[t].fresh
          /\ tab' = [tab EXCEPT ![t].boot = "complete"]
          /\ UNCHANGED ref
       \/ /\ ~(tab[t].sid # None /\ tab[t].fresh)
          /\ ~(tab[t].sid = None /\ tab[t].boot = "complete")
          /\ tab' = [tab EXCEPT ![t].boot = "checking"]
          /\ StartRefresh(t)
    /\ UNCHANGED <<use, sess, cookie, orphans, webLock, api, out, inbox, signedOut, lost,
                   clientFaults>>

\* getFreshAuthHeaders, called by pages that need a session, with a token
\* that has expired or is about to.
GetFreshAuthHeaders(t) ==
    /\ "headers" \in use.ops[t]
    /\ tab[t].page = "ready"
    /\ tab[t].sid # None
    /\ ref[t].pc = "none"
    /\ StartRefresh(t)
    /\ UNCHANGED <<use, sess, cookie, orphans, tab, webLock, api, out, inbox, signedOut,
                   lost, clientFaults>>

\* An API request of the page is answered 401: the interceptor refreshes.
ApiUnauthorized(t) ==
    /\ "api" \in use.ops[t]
    /\ tab[t].page = "ready"
    /\ api[t].pc = "none"
    /\ tab[t].sid # None
    /\ ~tab[t].fresh \/ sess[tab[t].sid].st = "revoked"
    /\ api' = [api EXCEPT ![t] = [pc |-> "wait", sid |-> None]]
    /\ StartRefresh(t)
    /\ UNCHANGED <<use, sess, cookie, orphans, tab, webLock, out, inbox, signedOut, lost,
                   clientFaults>>

\* Variant: the epoch is not advanced.
ClearWithoutEpoch(t) ==
    /\ tab' = [tab EXCEPT ![t] = ResetStore(@, "complete")]
    /\ UNCHANGED ref

\* clearAuthentication(false) outside of a refresh: the epoch changes, so a
\* refresh in flight is superseded.
ClearLocally(t) ==
    /\ tab' = [tab EXCEPT ![t] = ResetStore(@, "complete")]
    /\ ref' = [ref EXCEPT ![t].current = FALSE]

\* The repeated request is answered, with a second 401 if the session has
\* been revoked since.
ApiResent(t) ==
    /\ api[t].pc = "resent"
    /\ \/ /\ sess[api[t].sid].st = "active"
          /\ api' = [api EXCEPT ![t] = NoApi]
          /\ UNCHANGED <<tab, ref>>
       \/ /\ sess[api[t].sid].st = "revoked"
          /\ api' = [api EXCEPT ![t] = [pc |-> "redirect", sid |-> None]]
          /\ ClearLocally(t)
    /\ UNCHANGED <<use, sess, cookie, orphans, webLock, out, inbox, signedOut, lost, clientFaults>>

-----------------------------------------------------------------------------
(* Page loads.                                                             *)

\* The document of t is replaced: memory, lock and messages are gone, a
\* request under way becomes an orphan, and an answer under way may or may
\* not still set the cookie.  The new document bootstraps at once.
LoadPage(t) ==
    /\ tab' = [tab EXCEPT ![t] = [sid |-> None, boot |-> "checking",
                                  fresh |-> FALSE, page |-> "loading"]]
    /\ webLock' = LockReleased(t)
    /\ api' = [api EXCEPT ![t] = NoApi]
    /\ out' = [out EXCEPT ![t] = NoOut]
    /\ inbox' = [inbox EXCEPT ![t] = <<>>]
    /\ orphans' = IF ref[t].pc = "sent" /\ ref[t].exp \in {None, ref[t].ck.sid}
                  THEN orphans \cup {ref[t].ck} ELSE orphans
    /\ lost' = (lost \/ ref[t].pc \in {"sent", "answered"})
    /\ cookie' \in {cookie} \cup
            (IF ref[t].pc = "answered" THEN {CookieAfter(ref[t].ans)} ELSE {})
    /\ ref' = [ref EXCEPT ![t] = JoinRefresh(NoRef, tab'[t], cookie')]

\* The user reloads the page.
Reload(t) ==
    /\ clientFaults < MaxClientFaults
    /\ LoadPage(t)
    /\ clientFaults' = clientFaults + 1
    /\ UNCHANGED <<use, sess, signedOut>>

\* redirectToSignIn: another document, unless the page is /sign-in already.
Redirect(t) ==
    /\ api[t].pc = "redirect"
    /\ \/ LoadPage(t)
       \/ /\ api' = [api EXCEPT ![t] = NoApi]
          /\ UNCHANGED <<tab, ref, webLock, out, inbox, orphans, lost, cookie>>
    /\ UNCHANGED <<use, sess, signedOut, clientFaults>>

-----------------------------------------------------------------------------
(* Login, logout and the events of other tabs.                             *)

\* The store may show another session than the one a logout was sent for, so
\* the history counts the sessions that are over on the server.
Ended(s) == {x \in {s} \cap Sids : sess[x].st = "revoked"}

\* A login succeeds: applyAuthBundle publishes the new session.
Login(t) ==
    /\ "login" \in use.ops[t]
    /\ tab[t].page = "ready"
    /\ tab[t].sid = None
    /\ \E s \in Sids :
        /\ sess[s].st = "none"
        /\ sess' = [sess EXCEPT ![s].st = "active"]
        /\ cookie' = [sid |-> s, age |-> 0]
        /\ tab' = [tab EXCEPT ![t] = SetBundle(@, s)]
        /\ ref' = [ref EXCEPT ![t].current = FALSE]
        /\ Publish(t, "authenticated", s)
    /\ UNCHANGED <<use, orphans, webLock, api, out, signedOut, lost, clientFaults>>

\* The user confirms the sign-out dialog: POST /api/user/auth/logout.
Logout(t) ==
    /\ "logout" \in use.ops[t]
    /\ tab[t].page = "ready"
    /\ tab[t].sid # None
    /\ out[t].pc = "none"
    /\ out' = [out EXCEPT ![t] = [NoOut EXCEPT !.pc = "sent", !.again = TRUE,
                                  !.ck = cookie, !.exp = tab[t].sid,
                                  !.fresh = tab[t].fresh]]
    /\ UNCHANGED <<use, sess, cookie, orphans, tab, ref, webLock, api, inbox, signedOut,
                   lost, clientFaults>>

\* AuthLogout: by the access token if it is still valid, else by the cookie.
ServeLogout(t) ==
    /\ out[t].pc = "sent"
    /\ LET c == out[t].ck
           e == out[t].exp
           holds == c.sid # None /\ sess[c.sid].st = "active"
                       /\ (c.age = 0 \/ (c.age = 1 /\ sess[c.sid].grace))
       IN  \/ /\ e # None /\ c.sid \notin {None, e}
              /\ out' = [out EXCEPT ![t] = [NoOut EXCEPT !.pc = "mismatch",
                                                          !.again = out[t].again]]
              /\ UNCHANGED sess
           \/ /\ ~(e # None /\ c.sid \notin {None, e})
              /\ e # None /\ out[t].fresh
              /\ sess' = [sess EXCEPT ![e].st = "revoked"]
              /\ out' = [out EXCEPT ![t] = [NoOut EXCEPT !.pc = "revoked",
                                                          !.clears = (c.sid = e)]]
           \/ /\ ~(e # None /\ c.sid \notin {None, e})
              /\ ~(e # None /\ out[t].fresh)
              /\ sess' = IF holds THEN [sess EXCEPT ![c.sid].st = "revoked"]
                         ELSE sess
              /\ out' = [out EXCEPT ![t] = [NoOut EXCEPT !.pc = "revoked",
                                                          !.clears = TRUE]]
    /\ UNCHANGED <<use, cookie, orphans, tab, ref, webLock, api, inbox, signedOut, lost,
                   clientFaults>>

\* The answer to the logout: handleSignOut clears what the store now holds
\* and tells the other tabs.
LogoutDone(t) ==
    /\ out[t].pc = "revoked"
    /\ cookie' = IF out[t].clears THEN NoToken ELSE cookie
    /\ out' = [out EXCEPT ![t] = NoOut]
    /\ ClearLocally(t)
    /\ Publish(t, "signed_out", tab[t].sid)
    /\ signedOut' = [signedOut EXCEPT ![t] = @ \cup Ended(tab[t].sid)]
    /\ UNCHANGED <<use, sess, orphans, webLock, api, lost, clientFaults>>

\* AUTH_SESSION_MISMATCH: one refresh, then executeLogout(runtime, false).
LogoutMismatch(t) ==
    /\ out[t].pc = "mismatch"
    /\ \/ /\ out[t].again
          /\ out' = [out EXCEPT ![t] = [NoOut EXCEPT !.pc = "refresh"]]
          /\ StartRefresh(t)
       \/ /\ ~out[t].again
          /\ out' = [out EXCEPT ![t] = NoOut]
          /\ UNCHANGED ref
    /\ UNCHANGED <<use, sess, cookie, orphans, tab, webLock, api, inbox, signedOut, lost,
                   clientFaults>>

\* The listener of the root component.
HandleEvent(t) ==
    /\ inbox[t] # <<>>
    /\ LET e == Head(inbox[t])
       IN  \/ /\ e.kind = "authenticated" /\ e.sid # tab[t].sid
              /\ LoadPage(t)
              /\ UNCHANGED signedOut
           \/ /\ e.kind = "signed_out" /\ e.sid = tab[t].sid
              /\ inbox' = [inbox EXCEPT ![t] = Tail(@)]
              /\ ClearLocally(t)
              /\ signedOut' = [signedOut EXCEPT ![t] = @ \cup Ended(e.sid)]
              /\ UNCHANGED <<cookie, orphans, webLock, api, out, lost>>
           \/ /\ (e.kind = "authenticated") = (e.sid = tab[t].sid)
              /\ inbox' = [inbox EXCEPT ![t] = Tail(@)]
              /\ UNCHANGED <<cookie, orphans, tab, ref, webLock, api, out, signedOut,
                             lost>>
    /\ UNCHANGED <<use, sess, clientFaults>>

\* An event that comes a minute late is dropped.
DropEvent(t) ==
    /\ inbox[t] # <<>> /\ clientFaults < MaxClientFaults
    /\ inbox' = [inbox EXCEPT ![t] = Tail(@)]
    /\ clientFaults' = clientFaults + 1
    /\ UNCHANGED <<use, sess, cookie, orphans, tab, ref, webLock, api, out, signedOut, lost>>

-----------------------------------------------------------------------------
\* Two tabs are opened with the cookie of a live session in the browser; which
\* of the interchangeable sessions makes no difference.
ClientInit ==
    /\ use \in Uses
    /\ LET s == CHOOSE x \in Sids : TRUE IN
        /\ sess = [x \in Sids |-> [st |-> IF x = s THEN "active" ELSE "none",
                                   grace |-> FALSE, reused |-> FALSE]]
        /\ cookie = [sid |-> s, age |-> 0]
    /\ orphans = {}
    /\ tab = [t \in Tabs |-> [sid |-> None, boot |-> "checking",
                              fresh |-> FALSE, page |-> "loading"]]
    /\ ref = [t \in Tabs |-> JoinRefresh(NoRef, tab[t], cookie)]
    /\ webLock = None
    /\ api = [t \in Tabs |-> NoApi]
    /\ out = [t \in Tabs |-> NoOut]
    /\ inbox = [t \in Tabs |-> <<>>]
    /\ signedOut = [t \in Tabs |-> {}]
    /\ lost = FALSE
    /\ clientFaults = 0

ClientNext ==
    \/ ServeOrphan
    \/ \E s \in Sids : GraceEnds(s) \/ RevokedElsewhere(s)
    \/ \E t \in Tabs :
        \/ Run(t) \/ ServeRefresh(t) \/ HandleAnswer(t)
        \/ RefreshFails(t) \/ AnswerLost(t)
        \/ Expire(t) \/ Navigate(t) \/ GetFreshAuthHeaders(t)
        \/ ApiUnauthorized(t) \/ ApiResent(t)
        \/ Reload(t) \/ Redirect(t)
        \/ Login(t) \/ Logout(t) \/ ServeLogout(t) \/ LogoutDone(t)
        \/ LogoutMismatch(t) \/ HandleEvent(t) \/ DropEvent(t)

ClientSpec == ClientInit /\ [][ClientNext]_clientVars

\* The promises and messages of a browser settle, requests are answered, a
\* page in use makes requests, and access tokens expire.
FairClientSpec ==
    /\ ClientSpec
    /\ \A t \in Tabs :
        /\ SF_clientVars(Run(t)) /\ WF_clientVars(ServeRefresh(t) \/ HandleAnswer(t))
        /\ WF_clientVars(HandleEvent(t))
        /\ WF_clientVars(ApiResent(t)) /\ WF_clientVars(Redirect(t))
        /\ WF_clientVars(Expire(t)) /\ SF_clientVars(ApiUnauthorized(t))

-----------------------------------------------------------------------------
(* Properties.                                                             *)

\* A tab that has signed out of a session, by its own logout or because
\* another tab told it, never shows that session again: no late refresh
\* answer, queued message or page load brings it back.
NotBackAfterSignOut == \A t \in Tabs : tab[t].sid \notin signedOut[t]

\* A session is revoked for the reuse of an old secret only if an answer that
\* carried a new secret was lost: tabs that take turns under the Web Lock never
\* lock their user out.  (Without navigator.locks two tabs can do so.)
ReuseNeedsLoss == use.locks /\ (\E s \in Sids : sess[s].reused) => lost

\* Two tabs whose pages make requests show different sessions.
TabsDiffer ==
    \E t, u \in Tabs :
        /\ "api" \in use.ops[t] \cap use.ops[u]
        /\ None \notin {tab[t].sid, tab[u].sid}
        /\ tab[t].sid # tab[u].sid

\* Tabs that show different sessions, after a login in one of them whose event
\* the other did not hear, come to show the same or none: a request of the
\* other tab meets the mismatch and drops the session it shows.
TabsConverge == TabsDiffer ~> ~TabsDiffer
=============================================================================
