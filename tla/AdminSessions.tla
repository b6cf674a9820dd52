--------------------------- MODULE AdminSessions ---------------------------
(***************************************************************************)
(* Sign-in to the web console: AdminAuth (webui/admin_auth.go), its        *)
(* session file (webui/admin_sessions.go), its access tokens               *)
(* (webui/admin_jwt.go) and its credential file                            *)
(* (webui/admin_credentials.go).                                           *)
(*                                                                         *)
(* A session has one refresh secret and one access id at a time, which are *)
(* always replaced together; gen stands for both.  A browser holds them in *)
(* two cookies, set together: tok.  Requests carry the cookies the browser *)
(* had when it sent them, and answers arrive in any order or not at all.   *)
(* A handler that holds a.mu from its first change to its last is one      *)
(* action; the two files that a change of credentials writes, and the      *)
(* steps of a sign-in, are actions of their own.                           *)
(*                                                                         *)
(* What a user types is a choice: the password is right or it is not.      *)
(***************************************************************************)
EXTENDS Integers, FiniteSets

CONSTANTS
    Browsers,       \* browsers, each at an address of its own
    Requests,       \* HTTP requests that may be under way together
    MaxSessions,    \* bound: sessions opened
    MaxSecrets,     \* bound: random tokens drawn
    SessionTTL, AccessTTL,            \* in ticks
    MaxFailures, LoginWindow, LoginBlock,
    MaxTime,        \* bound: ticks
    MaxFaults,      \* bound: writes of a file that fail
    MaxRestarts     \* bound: times the process is started again

ASSUME AdminConstants ==
    /\ {MaxSessions, MaxSecrets, MaxTime, MaxFaults, MaxRestarts} \subseteq Nat
    /\ {AccessTTL, MaxFailures, LoginWindow} \subseteq Nat \ {0}
    /\ SessionTTL \in Nat /\ AccessTTL <= SessionTTL
    /\ LoginBlock \in Nat /\ LoginWindow <= LoginBlock

VARIABLES
    auth,      \* AdminAuth: sessions, accountID, email, attempts
    disk,      \* admin-sessions.json and admin-credentials.json
    jar,       \* the cookies of each browser
    req,       \* the requests under way
    now,       \* a.now()
    opened,    \* session ids drawn so far
    secrets,   \* other random tokens drawn so far
    faults, restarts,
    ended,     \* sessions a user was told are over
    lost       \* browsers that missed an answer with cookies, or got a
               \* newer one before an older one

counters == <<opened, secrets>>
history == <<restarts, ended, lost>>
vars == <<auth, disk, jar, req, now, counters, faults, history>>

Sids == 1 .. MaxSessions
NoSession == [gen |-> 0, account |-> 0, exp |-> 0]
NoCookies == [sid |-> 0, gen |-> 0, email |-> 0, until |-> 0, exp |-> 0]
NoAttempts == [n |-> 0, from |-> 0, until |-> -1]
Idle == [pc |-> "idle", by |-> "nobody", tok |-> NoCookies, set |-> FALSE,
         login |-> FALSE, email |-> 0, account |-> 0]

Earlier(a, b) == IF a < b THEN a ELSE b
Configured == auth.email # 0
Live(sessions) == {s \in Sids : sessions[s].gen # 0}
Without(sessions, gone) ==
    [s \in Sids |-> IF s \in gone THEN NoSession ELSE sessions[s]]

\* loadAdminSessions and cleanupLocked: expired sessions are left out
Unexpired(sessions) == Without(sessions, {s \in Sids : sessions[s].exp <= now})

Cleaned(a) ==
    [a EXCEPT !.sessions = Unexpired(@),
              !.attempts = [b \in Browsers |->
                  IF now > @[b].until /\ now - @[b].from >= LoginWindow
                  THEN NoAttempts ELSE @[b]]]

\* refreshBrowserSession: the session is there and the secret is its newest
MayRefresh(a, tok) ==
    /\ tok.sid \in Live(a.sessions)
    /\ a.sessions[tok.sid] = [gen |-> tok.gen, account |-> a.account,
                              exp |-> a.sessions[tok.sid].exp]

\* authenticateAccessToken
MayAccess(a, tok) ==
    MayRefresh(a, tok) /\ now < tok.until /\ tok.email = a.email

\* newAccessToken and the refresh token that goes with it
Cookies(s, gen, email, exp) ==
    [sid |-> s, gen |-> gen, email |-> email, exp |-> exp,
     until |-> Earlier(now + AccessTTL, exp)]

\* rotateSessionTokensLocked
Rotated(session) == [session EXCEPT !.gen = secrets + 1]
Renewed(s, a) == Cookies(s, secrets + 1, a.email, a.sessions[s].exp)

Answer(r, tok) ==
    req' = [req EXCEPT ![r] = [Idle EXCEPT !.pc = "answer", !.by = req[r].by,
                                           !.tok = tok, !.set = TRUE]]
\* an answer without cookies of its own: those of the middleware stay in it
Reply(r) ==
    IF req[r].set THEN Answer(r, req[r].tok)
    ELSE req' = [req EXCEPT ![r] = [Idle EXCEPT !.pc = "answer",
                                                !.by = req[r].by]]

\* persistAdminSessions replaces the file or leaves it as it was.
SessionsSaved(sessions) ==
    disk' = [disk EXCEPT !.sessions = sessions] /\ UNCHANGED faults
WriteFails == faults < MaxFaults /\ faults' = faults + 1 /\ UNCHANGED disk

\* randomToken; that it may fail is what bounds the tokens drawn.
Draws(n) == secrets + n <= MaxSecrets /\ secrets' = secrets + n
NoneLeft(n) == secrets + n > MaxSecrets

\* Only a change of credentials keeps a.mu over more than one action.
Unlocked == \A r \in Requests : req[r].pc # "changing"
At(r, pc) == req[r].pc = pc /\ Unlocked

-----------------------------------------------------------------------------
(* Browsers and the network. *)

Init ==
    /\ auth = [sessions |-> [s \in Sids |-> NoSession], account |-> 0,
               email |-> 0, attempts |-> [b \in Browsers |-> NoAttempts]]
    /\ disk = [sessions |-> [s \in Sids |-> NoSession], account |-> 0,
               email |-> 0]
    /\ jar = [b \in Browsers |-> NoCookies]
    /\ req = [r \in Requests |-> Idle]
    /\ now = 0 /\ opened = 0 /\ secrets = 0
    /\ faults = 0 /\ restarts = 0
    /\ ended = {} /\ lost = {}

\* What is asked for shows when the request is handled: any handler may
\* take one that was sent.
Send(r, b) ==
    /\ req[r].pc = "idle"
    /\ req' = [req EXCEPT ![r] = [Idle EXCEPT !.pc = "sent", !.by = b,
                                              !.tok = jar[b]]]
    /\ UNCHANGED <<auth, disk, jar, now, counters, faults, history>>

\* Cookies that were issued before, for the same browser, are still under way.
Overtakes(r) ==
    \E q \in Requests \ {r} :
       /\ req[q].by = req[r].by /\ req[q].set /\ req[q].tok.sid # 0
       /\ req[r].tok.sid = 0 \/ req[q].tok.gen < req[r].tok.gen

Deliver(r) ==
    /\ req[r].pc = "answer"
    /\ LET b == req[r].by
       IN  /\ jar' = IF req[r].set THEN [jar EXCEPT ![b] = req[r].tok] ELSE jar
           /\ lost' = IF req[r].set /\ Overtakes(r) THEN lost \cup {b} ELSE lost
    /\ req' = [req EXCEPT ![r] = Idle]
    /\ UNCHANGED <<auth, disk, now, counters, faults, restarts, ended>>

\* A request or an answer that does not arrive.
Lose(r) ==
    /\ req[r].pc \in {"sent", "answer"}
    /\ req' = [req EXCEPT ![r] = Idle]
    /\ lost' = IF req[r].set THEN lost \cup {req[r].by} ELSE lost
    /\ UNCHANGED <<auth, disk, jar, now, counters, faults, restarts, ended>>

\* A handler takes less than a unit of time.
Tick ==
    /\ now < MaxTime
    /\ \A r \in Requests : req[r].pc \in {"idle", "sent", "answer"}
    /\ now' = now + 1
    /\ UNCHANGED <<auth, disk, jar, req, counters, faults, history>>

\* The process ends at any moment and is started again: NewAdminAuth with
\* what the two files hold.
Restart ==
    /\ restarts < MaxRestarts /\ restarts' = restarts + 1
    /\ auth' = [sessions |-> Unexpired(disk.sessions), account |-> disk.account,
                email |-> disk.email,
                attempts |-> [b \in Browsers |-> NoAttempts]]
    /\ lost' = lost \cup {req[r].by : r \in {q \in Requests :
                             req[q].pc \notin {"idle", "sent"}}}
    /\ req' = [r \in Requests |-> IF req[r].pc = "sent" THEN req[r] ELSE Idle]
    /\ UNCHANGED <<disk, jar, now, counters, faults, ended>>

-----------------------------------------------------------------------------
(* Sign-in. *)

\* (A sign-in has no use for the cookies of the request.)
Check(r) == req' = [req EXCEPT ![r].pc = "checked", ![r].login = TRUE,
                               ![r].tok = NoCookies]

\* login up to loginBlocked
LoginAdmitted(r) ==
    /\ At(r, "sent")
    /\ auth' = Cleaned(auth)
    /\ IF now < auth.attempts[req[r].by].until
       THEN Reply(r) ELSE Check(r)
    /\ UNCHANGED <<disk, jar, now, counters, faults, history>>

\* recordLoginFailure
Failed(a, b) ==
    LET old == a.attempts[b]
        base == IF old.n = 0 \/ now - old.from >= LoginWindow
                THEN [n |-> 0, from |-> now, until |-> -1] ELSE old
        next == [base EXCEPT !.n = @ + 1]
    IN  [a EXCEPT !.attempts[b] =
            IF next.n >= MaxFailures
            THEN [next EXCEPT !.until = now + LoginBlock] ELSE next]

\* validLoginPayload; without an account only the API token is accepted,
\* and any other payload is refused before it counts as a failure.
LoginVerified(r) ==
    /\ At(r, "checked")
    /\ \/ /\ req' = [req EXCEPT ![r].pc = "verified", ![r].email = auth.email]
          /\ UNCHANGED auth
       \/ /\ Configured
          /\ auth' = Failed(Cleaned(auth), req[r].by)
          /\ Reply(r)
       \/ ~Configured /\ Reply(r) /\ UNCHANGED auth
    /\ UNCHANGED <<disk, jar, now, counters, faults, history>>

\* setup up to startBrowserSession: refused when there is an account; an
\* account whose file cannot be written is taken back.
Setup(r) ==
    /\ At(r, "sent")
    /\ \/ Configured /\ Reply(r) /\ UNCHANGED <<auth, disk, faults>>
       \/ /\ ~Configured
          /\ auth' = [auth EXCEPT !.email = 1]
          /\ disk' = [disk EXCEPT !.email = 1, !.account = auth.account]
          /\ req' = [req EXCEPT ![r].pc = "verified", ![r].email = 1,
                                ![r].tok = NoCookies]
          /\ UNCHANGED faults
       \/ ~Configured /\ WriteFails /\ Reply(r) /\ UNCHANGED auth
    /\ UNCHANGED <<jar, now, counters, history>>

\* startBrowserSession reads the account under the lock ...
ReadAccount(r) ==
    /\ At(r, "verified")
    /\ req' = [req EXCEPT ![r].pc = "opening", ![r].account = auth.account]
    /\ UNCHANGED <<auth, disk, jar, now, counters, faults, history>>

\* ... and stores the session under it again.  A login then forgets the
\* failures of its client.
OpenSession(r) ==
    LET s == opened + 1
        a == Cleaned(auth)
        session == [gen |-> secrets + 1, account |-> req[r].account,
                    exp |-> now + SessionTTL]
        with == [a.sessions EXCEPT ![s] = session]
    IN
    /\ At(r, "opening")
    /\ \/ /\ opened < MaxSessions /\ Draws(1) /\ opened' = s
          /\ \/ /\ SessionsSaved(with)
                /\ auth' = [a EXCEPT !.sessions = with,
                              !.attempts[req[r].by] =
                                  IF req[r].login THEN NoAttempts ELSE @]
                /\ Answer(r, Cookies(s, session.gen, req[r].email,
                                     session.exp))
             \/ WriteFails /\ auth' = a /\ Reply(r)
       \/ /\ opened = MaxSessions \/ NoneLeft(1)
          /\ Reply(r) /\ UNCHANGED <<auth, disk, counters, faults>>
    /\ UNCHANGED <<jar, now, history>>

-----------------------------------------------------------------------------
(* Signed-in requests. *)

\* Variant with a defect: a secret that could not be stored stays in memory.
RefreshNotTakenBack(r, pc) ==
    LET tok == req[r].tok
        a == Cleaned(auth)
    IN  /\ now < tok.exp /\ MayRefresh(a, tok) /\ Draws(1)
        /\ auth' = [a EXCEPT !.sessions[tok.sid] = Rotated(@)]
        /\ WriteFails /\ Reply(r)
        /\ UNCHANGED opened

\* refreshBrowserSession: a secret that is not the session's newest is
\* refused; one that cannot be stored is taken back.
RefreshSession(r, pc) ==
    LET tok == req[r].tok
        sent == now < tok.exp      \* else the browser has dropped the cookie
        a == IF sent THEN Cleaned(auth) ELSE auth
        with == [a.sessions EXCEPT ![tok.sid] = Rotated(@)]
    IN
    /\ \/ /\ sent /\ MayRefresh(a, tok) /\ Draws(1)
          /\ \/ /\ SessionsSaved(with)
                /\ auth' = [a EXCEPT !.sessions = with]
                /\ req' = [req EXCEPT ![r].pc = pc, ![r].set = TRUE,
                                      ![r].tok = Renewed(tok.sid, a)]
             \/ WriteFails /\ auth' = a /\ Reply(r)
       \/ /\ ~sent \/ ~MayRefresh(a, tok) \/ NoneLeft(1)
          /\ auth' = a /\ Reply(r)
          /\ UNCHANGED <<disk, secrets, faults>>
    /\ UNCHANGED opened

Refresh(r) ==
    /\ At(r, "sent")
    /\ RefreshSession(r, "answer")
    /\ UNCHANGED <<jar, now, history>>

\* The handler runs next, for this session, or has nothing to do with the
\* sign-in.
Admit(r, sid) ==
    \/ Reply(r)
    \/ req' = [req EXCEPT ![r].pc = "authed",
                          ![r].tok = [NoCookies EXCEPT !.sid = sid]]

\* Middleware and authenticateRequest: the access token, which now and then
\* touches the session and stores all of them; for the paths the refresh
\* cookie is sent to, that one next; or the API token, which has no session.
Authenticate(r) ==
    LET tok == req[r].tok
        a == IF now < tok.until THEN Cleaned(auth) ELSE auth
    IN
    /\ At(r, "sent")
    /\ \/ /\ MayAccess(a, tok)
          /\ auth' = a /\ Admit(r, tok.sid)
          /\ \/ UNCHANGED <<disk, faults>>
             \/ SessionsSaved(a.sessions)
             \/ WriteFails
          /\ UNCHANGED counters
       \/ ~MayAccess(a, tok) /\ RefreshSession(r, "authed")
       \/ /\ ~MayAccess(a, tok)
          /\ auth' = a /\ Reply(r)
          /\ UNCHANGED <<disk, counters, faults>>
       \/ /\ Admit(r, 0)
          /\ UNCHANGED <<auth, disk, counters, faults>>
    /\ UNCHANGED <<jar, now, history>>

Own(r) == req[r].tok.sid

\* Variant with a defect: the file keeps the session.
RevokeUnsaved(r) ==
    /\ At(r, "authed") /\ Reply(r)
    /\ \E s \in Live(auth.sessions) :
          /\ auth' = [auth EXCEPT !.sessions = Without(@, {s})]
          /\ ended' = ended \cup {s}
    /\ UNCHANGED <<disk, jar, now, counters, faults, restarts, lost>>

\* revokeSession
Revoke(r) ==
    /\ At(r, "authed")
    /\ \E s \in Sids :
          LET with == Without(auth.sessions, {s}) IN
          \/ /\ s \in Live(auth.sessions)
             /\ SessionsSaved(with)
             /\ auth' = [auth EXCEPT !.sessions = with]
             /\ ended' = ended \cup {s}
             /\ IF s = Own(r) THEN Answer(r, NoCookies) ELSE Reply(r)
          \/ /\ \/ s \notin Live(auth.sessions) /\ UNCHANGED <<disk, faults>>
                \/ s \in Live(auth.sessions) /\ WriteFails
             /\ Reply(r) /\ UNCHANGED <<auth, ended>>
    /\ UNCHANGED <<jar, now, counters, restarts, lost>>

\* revokeOtherSessions
RevokeOthers(r) ==
    LET others == Live(auth.sessions) \ {Own(r)}
        with == Without(auth.sessions, others)
    IN
    /\ At(r, "authed")
    /\ Reply(r)
    /\ \/ /\ SessionsSaved(with)
          /\ auth' = [auth EXCEPT !.sessions = with]
          /\ ended' = ended \cup others
       \/ WriteFails /\ UNCHANGED <<auth, ended>>
    /\ UNCHANGED <<jar, now, counters, restarts, lost>>

\* updateCredentials (updateAccount, changePassword) up to the first file:
\* the account gets a new id, and only the session of the request follows,
\* with new secrets.  Memory changes under a.mu, so it shows at its end.
ChangeSessions(r) ==
    LET own == Live(auth.sessions) \cap {Own(r)}
        next == [s \in Sids |->
                  IF s \in own
                  THEN [auth.sessions[s] EXCEPT !.account = secrets + 1,
                                                !.gen = secrets + 2]
                  ELSE NoSession]
    IN
    /\ At(r, "authed")
    /\ \/ /\ Configured /\ Draws(2)
          /\ \/ /\ SessionsSaved(next)
                /\ \E e \in {1, 2} :
                      req' = [req EXCEPT ![r].pc = "changing", ![r].email = e,
                                         ![r].account = secrets + 1]
             \/ WriteFails /\ Reply(r)
       \* the current password is wrong, or the request is
       \/ Reply(r) /\ UNCHANGED <<disk, secrets, faults>>
    /\ UNCHANGED <<auth, jar, now, opened, history>>

\* Variant with a defect: the sessions are not put back on the disk.
ChangeWithoutRollback(r) ==
    /\ req[r].pc = "changing"
    /\ WriteFails /\ Reply(r) /\ UNCHANGED <<auth, ended>>
    /\ UNCHANGED <<jar, now, counters, restarts, lost>>

\* The second file; when it cannot be written the first one is put back.
ChangeCredential(r) ==
    LET own == Live(disk.sessions) IN
    /\ req[r].pc = "changing"
    /\ \/ /\ disk' = [disk EXCEPT !.account = req[r].account,
                                  !.email = req[r].email]
          /\ auth' = [auth EXCEPT !.sessions = disk.sessions,
                                  !.account = req[r].account,
                                  !.email = req[r].email]
          /\ ended' = ended \cup (Live(auth.sessions) \ own)
          /\ IF own = {} THEN Reply(r)
             ELSE LET s == disk.sessions[Own(r)]
                  IN  Answer(r, Cookies(Own(r), s.gen, req[r].email, s.exp))
          /\ UNCHANGED faults
       \/ /\ Reply(r) /\ UNCHANGED <<auth, ended>>
          /\ \/ /\ faults < MaxFaults /\ faults' = faults + 1
                /\ disk' = [disk EXCEPT !.sessions = auth.sessions]
             \/ /\ faults + 1 < MaxFaults /\ faults' = faults + 2
                /\ UNCHANGED disk
    /\ UNCHANGED <<jar, now, counters, restarts, lost>>

\* logout: the session named by the refresh cookie goes, whatever its
\* secret; the cookies go even when the file cannot be written.
Logout(r) ==
    LET tok == req[r].tok
        gone == IF now < tok.exp THEN {tok.sid} \ {0} ELSE {}
        with == Without(auth.sessions, gone)
    IN
    /\ At(r, "sent")
    /\ Answer(r, NoCookies)
    /\ auth' = [auth EXCEPT !.sessions = with]
    /\ \/ gone = {} /\ UNCHANGED <<disk, faults, ended>>
       \/ gone # {} /\ SessionsSaved(with) /\ ended' = ended \cup gone
       \/ gone # {} /\ WriteFails /\ UNCHANGED ended
    /\ UNCHANGED <<jar, now, counters, restarts, lost>>

Handler(r) ==
    \/ LoginAdmitted(r) \/ LoginVerified(r) \/ Setup(r)
    \/ ReadAccount(r) \/ OpenSession(r)
    \/ Refresh(r) \/ Logout(r) \/ Authenticate(r)
    \/ Revoke(r) \/ RevokeOthers(r)
    \/ ChangeSessions(r) \/ ChangeCredential(r)

Next ==
    \/ \E r \in Requests, b \in Browsers : Send(r, b)
    \/ \E r \in Requests : Deliver(r) \/ Lose(r) \/ Handler(r)
    \/ Tick \/ Restart

Spec == Init /\ [][Next]_vars

-----------------------------------------------------------------------------
(* Properties. *)

Sessions == [gen : 0 .. MaxSecrets, account : 0 .. MaxSecrets,
             exp : 0 .. MaxTime + SessionTTL]
Tokens == [sid : {0} \cup Sids, gen : 0 .. MaxSecrets, email : 0 .. 2,
           until : 0 .. MaxTime + SessionTTL, exp : 0 .. MaxTime + SessionTTL]

Attempts == [n : Nat, from : 0 .. MaxTime, until : Int]
Handled == {"answer", "authed", "changing"}
Stages == Handled \cup {"idle", "sent", "checked", "verified", "opening"}

\* Type invariant: the authentication state in memory and in the files, and
\* what browsers and requests carry.
TypeOK ==
    /\ auth \in [sessions : [Sids -> Sessions], account : 0 .. MaxSecrets,
                 email : 0 .. 2, attempts : [Browsers -> Attempts]]
    /\ disk \in [sessions : [Sids -> Sessions], account : 0 .. MaxSecrets,
                 email : 0 .. 2]
    /\ jar \in [Browsers -> Tokens]
    /\ req \in [Requests -> [pc : Stages, by : Browsers \cup {"nobody"}, tok : Tokens,
                             set : BOOLEAN, login : BOOLEAN, email : 0 .. 2,
                             account : 0 .. MaxSecrets]]
    /\ \A r \in Requests : req[r].pc # "idle" => req[r].by \in Browsers
    /\ \A r \in Requests : req[r].set => req[r].pc \in Handled
    /\ now \in 0 .. MaxTime /\ opened \in 0 .. MaxSessions
    /\ secrets \in 0 .. MaxSecrets /\ faults \in 0 .. MaxFaults
    /\ restarts \in 0 .. MaxRestarts
    /\ ended \subseteq Sids /\ lost \subseteq Browsers

\* A session that a user was told is over (signed out, revoked, or ended by
\* a change of credentials) is neither in memory nor in the file, so no
\* later request, failed write or restart brings it back.
EndedStaysEnded ==
    ended \cap (Live(auth.sessions) \cup Live(disk.sessions)) = {}

\* A browser that received every answer, the newest last, holds the newest secrets of its
\* session, as long as that session is good: rotations that fail half way
\* are taken back in memory, in the file, and so after a restart.
BrowsersKeepUp ==
    \A b \in Browsers \ lost :
        (\A r \in Requests : req[r].by = b => req[r].pc \in {"idle", "sent"})
        /\ jar[b].sid \in Live(auth.sessions)
        /\ auth.sessions[jar[b].sid].account = auth.account
        => auth.sessions[jar[b].sid].gen = jar[b].gen

\* The file has every good session as memory has it, whichever single write
\* failed: a restart signs nobody out.  Only when the second file and then
\* the repair of the first cannot be written does the file fall behind.
RestartSignsNobodyOut ==
    faults < 2 /\ (\A r \in Requests : req[r].pc # "changing") =>
        /\ disk.account = auth.account /\ disk.email = auth.email
        /\ \A s \in Live(auth.sessions) :
              now < auth.sessions[s].exp
              => disk.sessions[s] = auth.sessions[s]

\* No interleaving of sign-in, rotation, revocation and restart revives a
\* session that has been ended.
SessionsSafe == TypeOK /\ EndedStaysEnded
=============================================================================
