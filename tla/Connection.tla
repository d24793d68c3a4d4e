---------------------------- MODULE Connection ----------------------------
(***************************************************************************)
(* The Microsoft connection of one Director in database mode: the sign-in   *)
(* and sign-out of routes/auth.routes.ts, the row of oauth_connections with *)
(* its token cache (auth/store.ts, auth/tokenCache.ts), the silent refresh  *)
(* of auth/msal.ts, and everyone who reads her mailbox with it.             *)
(*                                                                          *)
(* A grant is what a token cache holds: Good, or Dead once Microsoft has    *)
(* revoked it.  A sign-in, a sign-out and a reader interleave at the        *)
(* statement.  `calm' says that from now on nothing goes wrong: no          *)
(* revocation, no refusal of a good grant, no failure and no sign-out.      *)
(***************************************************************************)
CONSTANTS Browsers,    \* where she signs in and out
          Readers,     \* who reads the mailbox
          Background   \* readers of the scheduler, the realtime scans and the job

ASSUME ReadersAssumption == Background \subseteq Readers

Grants == {"none", "good", "dead"}

VARIABLES
  status,    \* of the row of oauth_connections; "absent" before the first sign-in
  home,      \* whether the row has a home_account_id
  cache,     \* the grant in token_cache_encrypted
  session,   \* browsers with a session
  flow,      \* the sign-in of each browser
  leaving,   \* where the sign-out of each browser is
  reader,    \* where each reader is, and the grant it has read
  calm,
  out        \* history: a sign-out was completed, no sign-in since

vars == <<status, home, cache, session, flow, leaving, reader, calm, out>>

NoFlow == [pc |-> "idle", grant |-> "none"]
Idle   == [pc |-> "idle", home |-> FALSE, grant |-> "none"]

Flow   == [pc : {"idle", "persist", "save", "issue"}, grant : Grants]
Reader == [pc : {"idle", "token", "refresh", "write", "graph", "clear", "mark"},
           home : BOOLEAN, grant : Grants]

Init == /\ status = "absent" /\ home = FALSE /\ cache = "none"
        /\ session = {}
        /\ flow = [b \in Browsers |-> NoFlow]
        /\ leaving = [b \in Browsers |-> "no"]
        /\ reader = [r \in Readers |-> Idle]
        /\ calm = FALSE /\ out = FALSE

row    == <<status, home, cache>>
client == <<session, flow, leaving>>

-----------------------------------------------------------------------------
(* Signing in.                                                             *)

\* What GET /api/auth/me makes the client show, on load and whenever the
\* window is focused: the sign-in page, or the Reconnect banner.
AskedToSignIn(b) == b \notin session \/ status # "connected"

\* acquireTokenByCode: what a code that Microsoft accepts is exchanged for.
ExchangeCode == "good"

\* /login and the callback: the code is exchanged into a scratch cache,
\* tenant and allowlist admit the account, and the user row is upserted.  An
\* error of Microsoft, a consent, a cookie that is missing or does not match
\* and an account of another tenant or off the allowlist change nothing.
Exchange(b) ==
    /\ AskedToSignIn(b)
    /\ flow[b].pc = "idle"
    /\ flow' = [flow EXCEPT ![b] = [pc |-> "persist", grant |-> ExchangeCode]]
    /\ UNCHANGED <<row, session, leaving, reader, calm, out>>

\* Mutation of Stored: the write of a cache also connects a row that exists.
StoredConnects(grant) == /\ cache' = grant
                         /\ status' = "connected"
                         /\ UNCHANGED home

\* The cache's write: it inserts a connected row without an account, but
\* leaves the status of a row that exists.
Stored(grant) == /\ cache' = grant
                 /\ status' = IF status = "absent" THEN "connected" ELSE status
                 /\ UNCHANGED home

Persist(b) ==
    /\ flow[b].pc = "persist"
    /\ Stored(flow[b].grant)
    /\ flow' = [flow EXCEPT ![b] = [pc |-> "save", grant |-> "none"]]
    /\ UNCHANGED <<session, leaving, reader, calm, out>>

Save(b) ==
    /\ flow[b].pc = "save"
    /\ status' = "connected" /\ home' = TRUE
    /\ out' = FALSE
    /\ flow' = [flow EXCEPT ![b].pc = "issue"]
    /\ UNCHANGED <<cache, session, leaving, reader, calm>>

\* The session cookie, and the redirect that loads the workspace.
Issue(b) ==
    /\ flow[b].pc = "issue"
    /\ session' = session \cup {b}
    /\ flow' = [flow EXCEPT ![b] = NoFlow]
    /\ UNCHANGED <<row, leaving, reader, calm, out>>

\* A statement, a Graph call or the process fails in the middle of a sign-in.
FlowFails(b) ==
    /\ ~calm
    /\ flow[b].pc \in {"persist", "save", "issue"}
    /\ flow' = [flow EXCEPT ![b] = NoFlow]
    /\ UNCHANGED <<row, session, leaving, reader, calm, out>>

-----------------------------------------------------------------------------
(* Signing out.  The client shows the sign-in page whatever the answer.    *)

Logout(b) ==
    /\ ~calm
    /\ b \in session /\ leaving[b] = "no"
    /\ session' = session \ {b}
    /\ leaving' = [leaving EXCEPT ![b] = "clear"]
    /\ UNCHANGED <<row, flow, reader, calm, out>>

\* Mutation of Cleared: the row is deleted.
ClearedDeletes == cache' = "none" /\ status' = "absent" /\ home' = FALSE

Cleared == /\ cache' = "none"
           /\ status' = IF status = "absent" THEN "absent" ELSE "needs_reauth"
           /\ UNCHANGED home

LogoutClears(b) ==
    /\ leaving[b] = "clear"
    /\ Cleared
    /\ leaving' = [leaving EXCEPT ![b] = "mark"]
    /\ UNCHANGED <<session, flow, reader, calm, out>>

Marked == /\ status' = IF status = "absent" THEN "absent" ELSE "needs_reauth"
          /\ UNCHANGED <<home, cache>>

LogoutMarks(b) ==
    /\ leaving[b] = "mark"
    /\ Marked
    /\ out' = TRUE
    /\ leaving' = [leaving EXCEPT ![b] = "no"]
    /\ UNCHANGED <<session, flow, reader, calm>>

LogoutFails(b) ==
    /\ ~calm
    /\ leaving[b] # "no"
    /\ leaving' = [leaving EXCEPT ![b] = "no"]
    /\ UNCHANGED <<row, session, flow, reader, calm, out>>

\* A session comes to its expires_at.
SessionEnds(b) ==
    /\ b \in session
    /\ session' = session \ {b}
    /\ UNCHANGED <<row, flow, leaving, reader, calm, out>>

-----------------------------------------------------------------------------
(* Reading the mailbox.                                                    *)

At(r, pc) == reader[r].pc = pc

\* Mutation of Told: the background does not mark either.
ToldNobody(r) == FALSE

\* Where a reader goes with a needs_reauth: the background marks the user,
\* a request answers 401 and leaves the row alone.
Told(r)    == r \in Background
GaveUp(r)  == [reader EXCEPT ![r] = IF Told(r) THEN [Idle EXCEPT !.pc = "mark"] ELSE Idle]

\* The row that getConnection and listConnectedUsers find.
Connected == status = "connected"

\* request.graph with a session, or listConnectedUsers and getConnection.
Start(r) ==
    /\ At(r, "idle")
    /\ r \in Background \/ session # {}
    /\ Connected
    /\ reader' = [reader EXCEPT ![r] = [pc |-> "token", home |-> home, grant |-> "none"]]
    /\ UNCHANGED <<row, client, calm, out>>

\* getAccessToken looks the account up in the cache.
FindsNoAccount(r) ==
    /\ At(r, "token")
    /\ ~reader[r].home \/ cache = "none"
    /\ reader' = GaveUp(r)
    /\ UNCHANGED <<row, client, calm, out>>

FindsAccount(r) ==
    /\ At(r, "token")
    /\ reader[r].home /\ cache # "none"
    /\ reader' = [reader EXCEPT ![r] = [Idle EXCEPT !.pc = "refresh", !.grant = cache]]
    /\ UNCHANGED <<row, client, calm, out>>

\* acquireTokenSilent: the access token of the cache is still valid, or
\* Microsoft issues another, which changes the cache.  Of a revoked grant
\* only an access token that has not expired is left.
FromCache(r) ==
    /\ At(r, "refresh")
    /\ calm => reader[r].grant = "good"
    /\ reader' = [reader EXCEPT ![r].pc = "graph"]
    /\ UNCHANGED <<row, client, calm, out>>

Refreshed(r) ==
    /\ At(r, "refresh")
    /\ reader[r].grant = "good"
    /\ reader' = [reader EXCEPT ![r].pc = "write"]
    /\ UNCHANGED <<row, client, calm, out>>

\* Whatever went wrong: the grant is revoked, or Microsoft was unreachable.
RefreshFails(r) ==
    /\ At(r, "refresh")
    /\ calm => reader[r].grant = "dead"
    /\ reader' = [reader EXCEPT ![r] = [Idle EXCEPT !.pc = "clear"]]
    /\ UNCHANGED <<row, client, calm, out>>

\* afterCacheAccess writes the blob this reader has made of what it read.
WriteBack(r) ==
    /\ At(r, "write")
    /\ Stored(reader[r].grant)
    /\ reader' = [reader EXCEPT ![r].pc = "graph"]
    /\ UNCHANGED <<client, calm, out>>

Clear(r) ==
    /\ At(r, "clear")
    /\ Cleared
    /\ reader' = GaveUp(r)
    /\ UNCHANGED <<client, calm, out>>

\* The Graph calls: done, or refused with a 401.
Reads(r) ==
    /\ At(r, "graph")
    /\ \/ reader' = [reader EXCEPT ![r] = Idle]
       \/ /\ calm => reader[r].grant = "dead"
          /\ reader' = GaveUp(r)
    /\ UNCHANGED <<row, client, calm, out>>

MarkNeedsReauth(r) ==
    /\ At(r, "mark")
    /\ Marked
    /\ reader' = [reader EXCEPT ![r] = Idle]
    /\ UNCHANGED <<client, calm, out>>

\* A statement or the process fails.
ReaderFails(r) ==
    /\ ~calm
    /\ ~At(r, "idle")
    /\ reader' = [reader EXCEPT ![r] = Idle]
    /\ UNCHANGED <<row, client, calm, out>>

-----------------------------------------------------------------------------
(* Microsoft.                                                              *)

Dead(grant) == IF grant = "good" THEN "dead" ELSE grant

\* Every grant issued so far is revoked, wherever a copy of it is.
Revoke ==
    /\ ~calm
    /\ cache' = Dead(cache)
    /\ flow' = [b \in Browsers |-> [flow[b] EXCEPT !.grant = Dead(@)]]
    /\ reader' = [r \in Readers |-> [reader[r] EXCEPT !.grant = Dead(@)]]
    /\ UNCHANGED <<status, home, session, leaving, calm, out>>

CalmsDown == ~calm /\ calm' = TRUE
             /\ UNCHANGED <<row, client, reader, out>>

-----------------------------------------------------------------------------
SignIn(b) == Exchange(b) \/ Persist(b) \/ Save(b) \/ Issue(b)
SignOut(b) == LogoutClears(b) \/ LogoutMarks(b)
Reading(r) == \/ Start(r) \/ FindsNoAccount(r) \/ FindsAccount(r)
              \/ FromCache(r) \/ Refreshed(r) \/ RefreshFails(r)
              \/ WriteBack(r) \/ Clear(r) \/ Reads(r) \/ MarkNeedsReauth(r)

Next ==
    \/ \E b \in Browsers : \/ SignIn(b) \/ SignOut(b)
                           \/ FlowFails(b) \/ Logout(b)
                           \/ LogoutFails(b) \/ SessionEnds(b)
    \/ \E r \in Readers : Reading(r) \/ ReaderFails(r)
    \/ Revoke \/ CalmsDown

Spec == Init /\ [][Next]_vars

\* She signs in when the client asks her to, a
\* request once begun goes on, and the scheduler ticks.  Nobody need open a
\* page that reads the mailbox.
Fairness ==
    /\ \A b \in Browsers : WF_vars(SignIn(b)) /\ WF_vars(SignOut(b))
    /\ \A r \in Background : WF_vars(Reading(r))

FairSpec == Spec /\ Fairness

-----------------------------------------------------------------------------
(* Properties                                                              *)

\* Every variable holds a value of its kind; a session, a sign-in about to
\* issue one and a sign-out of one have a row.
TypeOK ==
    /\ status \in {"absent", "connected", "needs_reauth"}
    /\ home \in BOOLEAN /\ cache \in Grants
    /\ session \subseteq Browsers
    /\ flow \in [Browsers -> Flow]
    /\ leaving \in [Browsers -> {"no", "clear", "mark"}]
    /\ reader \in [Readers -> Reader]
    /\ calm \in BOOLEAN /\ out \in BOOLEAN
    /\ (\/ session # {}
        \/ \E b \in Browsers : flow[b].pc = "issue" \/ leaving[b] # "no") => status # "absent"

\* Once a sign-out is through, no request and no scan finds a connected user
\* until she has signed in again, whatever readers and sign-ins that were
\* under way still write into the row (logout, tokenCache write).
SignedOutStaysOut == out => status = "needs_reauth"

\* She can be served: a connected row, with the account and a good grant.
Usable == Connected /\ home /\ cache = "good"

\* When nothing goes wrong any more, the connection works in the end and
\* stays that way, although a refresh that failed with a revoked grant may
\* clear the cache of a newer sign-in and a scan may mark a user who has just
\* signed in (getAccessToken, markNeedsReauth, saveConnection).
ConnectedInTheEnd == <>calm => <>[]Usable
=============================================================================
