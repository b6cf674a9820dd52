---------------------------- MODULE AdminProofs ----------------------------
(***************************************************************************)
(* Proofs about the console.  Updater: an update goes through or is        *)
(* undone, for any number of commits and kills; the inductive invariant is *)
(* UpdaterInv.  AdminSessions: no ended session comes back, browsers that  *)
(* get their answers stay signed in, and so do all over a restart, for any *)
(* number of browsers, requests, sessions and faults; the inductive        *)
(* invariant is SessionsInv.                                               *)
(***************************************************************************)
EXTENDS AdminSessions, Updater, TLAPS

-----------------------------------------------------------------------------
(* The updater. *)

\* The version the update leaves in place if it does not go through
Before == IF op \in {"placeExe", "keepFront", "placeFront", "undoFront", "undoExe"}
          THEN exe.backup ELSE exe.installed

\* An update has a commit to go to; what it has put in place is of that commit.
TargetInPlace ==
    /\ remote # 0 /\ (op \notin {"idle", "fetch"} => target # 0)
    /\ op \in {"keepFront", "placeFront", "record"} => exe.installed = target
    /\ op = "record" => front.installed = target

\* Until it is recorded, an update can go back: the version before it is there,
\* or in the backups, and a process that runs another says so.
WayBack ==
    /\ op # "record" =>
          Before # 0 /\ (running \notin {0, Before} => restartRequired)
    /\ op \in {"idle", "fetch", "merge", "build", "keepExe"} =>
          front.installed = exe.installed
    /\ op \in {"placeExe", "keepFront", "undoExe"} => front.installed = exe.backup
    /\ op \in {"placeFront", "undoFront"} => front.backup = exe.backup

UpdaterInv == UpdaterTypeOK /\ TargetInPlace /\ (~hurt => WayBack)

-----------------------------------------------------------------------------
(* Sign-in. *)

\* No session id and no secret is there before it is drawn.
Drawn ==
    /\ auth.account <= secrets
    /\ Live(auth.sessions) \cup Live(disk.sessions) \cup ended \subseteq 1 .. opened
    /\ \A b \in Browsers : jar[b].sid <= opened /\ jar[b].gen <= secrets
    /\ \A r \in Requests : req[r].tok.sid <= opened /\ req[r].tok.gen <= secrets
    /\ \A s \in Sids : auth.sessions[s].gen <= secrets /\ disk.sessions[s].gen <= secrets

\* Browser b has cookies of session s, or made a request for it.
Has(b, s) ==
    jar[b].sid = s \/ \E r \in Requests : req[r].by = b /\ req[r].tok.sid = s

\* Cookies and requests for one session are one browser's.
OneOwner == \A s \in Sids, b, c \in Browsers : Has(b, s) /\ Has(c, s) => b = c

\* A response that carries cookies of a session
Carries(r) == req[r].set /\ req[r].tok.sid # 0

\* What is under way to a browser is newer than what it has, and no two
\* responses carry the same secrets.
Newer ==
    /\ \A r \in Requests :
          Carries(r) /\ req[r].by \notin lost => jar[req[r].by].gen < req[r].tok.gen
    /\ \A q, r \in Requests :
          Carries(q) /\ Carries(r) /\ req[q].tok.gen = req[r].tok.gen => q = r

\* Browser b has, or is about to get, the secrets g of session s.
Holds(b, s, g) ==
    \/ jar[b].sid = s /\ jar[b].gen = g
    \/ \E r \in Requests :
          Carries(r) /\ req[r].by = b /\ req[r].tok.sid = s /\ req[r].tok.gen = g

\* Of a session that is good according to a map of sessions, a browser holds the
\* newest secrets if it holds any.
NewestHeld(sessions, account) ==
    \A b \in Browsers \ lost, s \in Live(sessions), g \in 0 .. MaxSecrets :
       sessions[s].account = account /\ Holds(b, s, g) =>
          g <= sessions[s].gen /\ Holds(b, s, sessions[s].gen)

\* While credentials change, the file has the session of the request alone, with
\* the account that is to come and secrets that nobody has yet.
OnlyOwnChanges ==
    \A r \in Requests : req[r].pc = "changing" =>
       /\ \A q \in Requests : req[q].pc = "changing" => q = r
       /\ auth.account < req[r].account /\ req[r].account < secrets
       /\ \A b \in Browsers : jar[b].gen < secrets
       /\ \A q \in Requests : req[q].tok.gen < secrets
       /\ \A s \in Live(disk.sessions) :
             s = Own(r) /\ disk.sessions[s].gen = secrets
                        /\ disk.sessions[s].account = req[r].account

\* An account that was drawn is the newest there is, in memory and in the file.
SameCredential == disk.account = auth.account /\ disk.email = auth.email

\* The file has what memory has, unless it is being written or was left behind.
SessionsInFile ==
    faults < 2 /\ (\A r \in Requests : req[r].pc # "changing") =>
       \A s \in Live(auth.sessions) :
          now < auth.sessions[s].exp => disk.sessions[s] = auth.sessions[s]

SessionsInv ==
    /\ TypeOK /\ Drawn /\ EndedStaysEnded /\ SameCredential /\ SessionsInFile
    /\ OneOwner /\ Newer /\ OnlyOwnChanges
    /\ NewestHeld(auth.sessions, auth.account)
    /\ NewestHeld(disk.sessions, disk.account)

-----------------------------------------------------------------------------
(* The updater: proofs. *)

LEMMA UpdaterTypeStep ==
    ASSUME UpdaterTypeOK, [UpdaterNext]_updaterVars
    PROVE  UpdaterTypeOK'
<1> USE UpdaterConstants
    DEF UpdaterTypeOK, Commits, Copies, Swapping, repository, files, process
<1>1. CASE Push \/ Operator \/ CheckOrigin
  BY <1>1 DEF Push, Operator, CheckOrigin
<1>2. CASE RestartProcess  BY <1>2 DEF RestartProcess
<1>3. CASE Kill
  <2>1. hurt' \in BOOLEAN  BY <1>3 DEF Kill
  <2>2. running' \in Commits  BY <1>3 DEF Kill
  <2>3. restartRequired' \in {restartRequired, FALSE}  BY <1>3 DEF Kill
  <2>4. restartRequired' \in BOOLEAN  BY <2>3, Zenon
  <2>5. op' = "idle" /\ kills' \in 0 .. MaxKills  BY <1>3 DEF Kill
  <2>6. UNCHANGED <<remote, tracked, head, tree, target, exe, front>>
    BY <1>3 DEF Kill
  <2> QED  BY <2>1, <2>2, <2>4, <2>5, <2>6
<1>4. CASE BeginUpdate \/ Fetch \/ Merge
  BY <1>4 DEF BeginUpdate, Fetch, Merge, OpGoes, Refused
<1>5. CASE Build  BY <1>5 DEF Build, UpdateGoes, OpGoes, ApplyFails, RecordUpdate
<1>6. CASE KeepExe
  BY <1>6 DEF KeepExe, Kept, KeepFails, UpdateGoes, OpGoes, ApplyFails, RecordUpdate
<1>7. CASE PlaceExe
  <2>1. exe' \in Copies  BY <1>7 DEF PlaceExe, Restored, Lost
  <2>2. op' \in {"idle", "keepFront"}
    BY <1>7 DEF PlaceExe, UpdateGoes, OpGoes, ApplyFails
  <2>3. hurt' \in BOOLEAN  BY <1>7 DEF PlaceExe
  <2>4. restartRequired' \in BOOLEAN
    BY <1>7 DEF PlaceExe, UpdateGoes, ApplyFails, RecordUpdate
  <2>5. UNCHANGED <<remote, tracked, head, tree, target, front, running, kills>>
    BY <1>7 DEF PlaceExe
  <2> QED  BY <2>1, <2>2, <2>3, <2>4, <2>5
<1>8. CASE KeepFront
  BY <1>8 DEF KeepFront, Kept, KeepFails, UpdateGoes, OpGoes
<1>9. CASE PlaceFront  BY <1>9 DEF PlaceFront, UpdateGoes, OpGoes
<1>10. CASE UndoFront \/ UndoExe
  <2>1. exe' \in Copies /\ front' \in Copies
    BY <1>10 DEF UndoFront, UndoExe, Restored, Lost
  <2>2. op' \in {"idle", "undoExe"}
    BY <1>10 DEF UndoFront, UndoExe, UpdateGoes, OpGoes, ApplyFails
  <2>3. hurt' \in BOOLEAN  BY <1>10 DEF UndoFront, UndoExe
  <2>4. restartRequired' \in BOOLEAN
    BY <1>10 DEF UndoFront, UndoExe, UpdateGoes, ApplyFails, RecordUpdate
  <2>5. UNCHANGED <<remote, tracked, head, tree, target, running, kills>>
    BY <1>10 DEF UndoFront, UndoExe
  <2> QED  BY <2>1, <2>2, <2>3, <2>4, <2>5
<1>11. CASE Record  BY <1>11 DEF Record, RecordUpdate
<1>12. CASE UNCHANGED updaterVars  BY <1>12 DEF updaterVars
<1> QED
  BY <1>1, <1>2, <1>3, <1>4, <1>5, <1>6, <1>7, <1>8, <1>9, <1>10, <1>11, <1>12
  DEF UpdaterNext

LEMMA TargetStep ==
    ASSUME UpdaterTypeOK, TargetInPlace, [UpdaterNext]_updaterVars
    PROVE  TargetInPlace'
<1> USE UpdaterConstants
    DEF UpdaterTypeOK, Commits, Copies, Swapping, repository, files, process,
        TargetInPlace, OpGoes, UpdateGoes
<1>1. CASE Push \/ Operator \/ CheckOrigin \/ RestartProcess
  BY <1>1 DEF Push, Operator, CheckOrigin, RestartProcess
<1>2. CASE Kill \/ Record  BY <1>2 DEF Kill, Record
<1>3. CASE BeginUpdate \/ Fetch \/ Merge  BY <1>3 DEF BeginUpdate, Fetch, Merge, Refused
<1>4. CASE Build \/ KeepExe  BY <1>4 DEF Build, KeepExe, ApplyFails
<1>5. CASE PlaceExe  BY <1>5 DEF PlaceExe, ApplyFails
<1>6. CASE KeepFront \/ PlaceFront  BY <1>6 DEF KeepFront, PlaceFront
<1>7. CASE UndoFront \/ UndoExe  BY <1>7 DEF UndoFront, UndoExe, ApplyFails
<1>8. CASE UNCHANGED updaterVars  BY <1>8 DEF updaterVars
<1> QED  BY <1>1, <1>2, <1>3, <1>4, <1>5, <1>6, <1>7, <1>8 DEF UpdaterNext

\* Unless something is past repair, there is a way back from every step.
LEMMA WayBackStep ==
    ASSUME UpdaterInv, [UpdaterNext]_updaterVars
    PROVE  ~hurt' => WayBack'
<1> SUFFICES ASSUME ~hurt' PROVE WayBack'  OBVIOUS
<1> USE DEF UpdaterInv, UpdaterTypeOK, Commits, Copies, repository, files, process,
            WayBack, Before, OpGoes, UpdateGoes
<1>1. CASE Push \/ Operator \/ CheckOrigin
  BY <1>1 DEF Push, Operator, CheckOrigin
<1>2. CASE RestartProcess  BY <1>2 DEF RestartProcess
<1>3. CASE Kill
  <2>1. ~hurt /\ op \notin Swapping  BY <1>3 DEF Kill
  <2>2. /\ op \in {"idle", "fetch", "merge", "build"} /\ op' = "idle"
        /\ UNCHANGED <<exe, front>>
    BY <1>3, <2>1 DEF Kill, Swapping
  <2>3. running' = 0 \/ UNCHANGED <<running, restartRequired>>  BY <1>3 DEF Kill
  <2> QED  BY <2>1, <2>2, <2>3
<1>4. CASE BeginUpdate \/ Fetch \/ Merge  BY <1>4 DEF BeginUpdate, Fetch, Merge, Refused
<1>5. CASE Build  BY <1>5 DEF Build, ApplyFails, RecordUpdate
<1>6. CASE KeepExe  BY <1>6 DEF KeepExe, Kept, KeepFails, ApplyFails, RecordUpdate
<1>7. CASE PlaceExe  BY <1>7 DEF PlaceExe, Restored, ApplyFails, RecordUpdate
<1>8. CASE KeepFront  BY <1>8 DEF KeepFront, Kept, KeepFails
<1>9. CASE PlaceFront  BY <1>9 DEF PlaceFront
<1>10. CASE UndoFront  BY <1>10 DEF UndoFront, Restored
<1>11. CASE UndoExe  BY <1>11 DEF UndoExe, Restored, ApplyFails, RecordUpdate
<1>12. CASE Record  BY <1>12 DEF Record, RecordUpdate, TargetInPlace
<1>13. CASE UNCHANGED updaterVars  BY <1>13 DEF updaterVars
<1> QED
  BY <1>1, <1>2, <1>3, <1>4, <1>5, <1>6, <1>7, <1>8, <1>9, <1>10, <1>11, <1>12, <1>13
  DEF UpdaterNext

\* The invariant holds at the start and every step of the script keeps it:
\* there is a way back until both files are in place (apply-update.sh).
THEOREM UpdaterIsSound == UpdaterSpec => []UpdaterInv
<1>1. UpdaterInit => UpdaterInv
  <2> SUFFICES ASSUME UpdaterInit PROVE UpdaterInv  OBVIOUS
  <2>0. restartRequired \in BOOLEAN /\ hurt \in BOOLEAN  BY DEF UpdaterInit
  <2>1. UpdaterTypeOK
    <3>1. 0 \in Commits /\ 1 \in Commits /\ 0 \in 0 .. MaxKills
      BY UpdaterConstants DEF Commits
    <3>2. exe \in Copies /\ front \in Copies  BY <3>1 DEF UpdaterInit, Copies
    <3>3. /\ remote \in Commits /\ tracked \in Commits /\ head \in Commits
          /\ tree = "clean" /\ op = "idle" /\ target \in Commits
          /\ running \in Commits /\ kills \in 0 .. MaxKills
      BY <3>1 DEF UpdaterInit
    <3> QED  BY <2>0, <3>2, <3>3 DEF UpdaterTypeOK
  <2>2. TargetInPlace /\ WayBack
    BY DEF UpdaterInit, TargetInPlace, WayBack, Before
  <2> QED  BY <2>1, <2>2 DEF UpdaterInv
<1>2. UpdaterInv /\ [UpdaterNext]_updaterVars => UpdaterInv'
  BY UpdaterTypeStep, TargetStep, WayBackStep DEF UpdaterInv
<1> QED  BY <1>1, <1>2, PTL DEF UpdaterSpec

\* Whichever step of an update fails, the executable and the front end are of
\* one version, and a process that runs another one says that it must be
\* restarted (git_updater.go, apply-update.sh).
THEOREM UpdateIsSafe == UpdaterSpec => []UpdateSafe
<1>1. UpdaterInv => UpdateSafe
  BY DEF UpdaterInv, UpdateSafe, WayBack, Before, AllOrNothing, RestartTold
<1> QED  BY <1>1, UpdaterIsSound, PTL

-----------------------------------------------------------------------------
(* Sign-in: what the parts of a handler do. *)

Accounts == 0 .. MaxSecrets
Held == [pc : Stages, by : Browsers \cup {"nobody"}, tok : Tokens, set : BOOLEAN,
         login : BOOLEAN, email : 0 .. 2, account : Accounts]
Memory == [sessions : [Sids -> Sessions], account : Accounts, email : 0 .. 2,
           attempts : [Browsers -> Attempts]]

\* The constants as numbers.
LEMMA AdminNumbers ==
    /\ MaxSessions \in Nat /\ MaxSecrets \in Nat /\ MaxTime \in Nat
    /\ MaxFaults \in Nat /\ MaxRestarts \in Nat
    /\ AccessTTL \in Nat /\ AccessTTL > 0 /\ SessionTTL \in Nat
    /\ AccessTTL <= SessionTTL /\ LoginBlock \in Nat /\ MaxFailures \in Nat
    /\ LoginWindow \in Nat /\ LoginWindow <= LoginBlock
  BY AdminConstants

LEMMA NoneTyped ==
    /\ NoSession \in Sessions /\ NoCookies \in Tokens /\ NoAttempts \in Attempts
    /\ 0 \in Accounts /\ 0 \in 0 .. 2
  BY AdminNumbers
  DEF NoSession, Sessions, NoCookies, Tokens, NoAttempts, Attempts, Accounts

LEMMA IdleTyped == Idle \in Held
  BY NoneTyped DEF Idle, Held, Stages, Handled

\* The request is handled on, and every other stays as it was.
OnlyRequest(r) ==
    /\ \A q \in Requests \ {r} : req'[q] = req[q]
    /\ req'[r].by = req[r].by

LEMMA AnswerGives ==
    ASSUME TypeOK, NEW r \in Requests, NEW tok \in Tokens, Answer(r, tok)
    PROVE  /\ OnlyRequest(r) /\ req' \in [Requests -> Held]
           /\ req'[r].pc = "answer" /\ req'[r].tok = tok /\ req'[r].set = TRUE
<1> DEFINE new == [Idle EXCEPT !.pc = "answer", !.by = req[r].by, !.tok = tok,
                               !.set = TRUE]
<1>1. req' = [req EXCEPT ![r] = new] /\ req \in [Requests -> Held]
  BY DEF Answer, TypeOK, Held, Accounts
<1>2. new \in Held /\ new.pc = "answer" /\ new.tok = tok /\ new.set = TRUE
      /\ new.by = req[r].by
  BY IdleTyped, <1>1 DEF Held, Stages, Handled, Idle
<1> QED  BY <1>1, <1>2 DEF OnlyRequest

LEMMA ReplyGives ==
    ASSUME TypeOK, NEW r \in Requests, Reply(r)
    PROVE  /\ OnlyRequest(r) /\ req' \in [Requests -> Held]
           /\ req'[r].pc = "answer" /\ req'[r].set = req[r].set
           /\ req'[r].tok = IF req[r].set THEN req[r].tok ELSE NoCookies
<1>1. req \in [Requests -> Held]  BY DEF TypeOK, Held, Accounts
<1>2. CASE req[r].set
  <2>1. req[r].tok \in Tokens /\ req[r].set = TRUE  BY <1>1, <1>2 DEF Held
  <2> QED  BY <1>2, <2>1, AnswerGives DEF Reply
<1>3. CASE ~req[r].set
  <2> DEFINE new == [Idle EXCEPT !.pc = "answer", !.by = req[r].by]
  <2>1. req' = [req EXCEPT ![r] = new]  BY <1>3 DEF Reply
  <2>2. new \in Held /\ new.pc = "answer" /\ new.tok = NoCookies
        /\ new.set = FALSE /\ new.by = req[r].by
    BY IdleTyped, <1>1 DEF Held, Stages, Handled, Idle
  <2>3. req[r].set = FALSE  BY <1>1, <1>3 DEF Held
  <2> HIDE DEF new
  <2>4. OnlyRequest(r) /\ req' \in [Requests -> Held] /\ req'[r] = new
    BY <1>1, <2>1, <2>2 DEF OnlyRequest
  <2> QED  BY <1>3, <2>2, <2>3, <2>4
<1> QED  BY <1>2, <1>3

\* Some sessions may have gone; none has changed.
Thinner(new, old) == \A s \in Sids : new[s] = old[s] \/ new[s] = NoSession

LEMMA WithoutGives ==
    ASSUME NEW old \in [Sids -> Sessions], NEW gone
    PROVE  /\ Without(old, gone) \in [Sids -> Sessions]
           /\ Thinner(Without(old, gone), old)
           /\ Live(Without(old, gone)) = Live(old) \ gone
  BY NoneTyped DEF Without, Thinner, Live, NoSession

LEMMA CleanedGives ==
    ASSUME NEW a \in Memory, TypeOK
    PROVE  /\ Cleaned(a) \in Memory /\ Thinner(Cleaned(a).sessions, a.sessions)
           /\ Cleaned(a).account = a.account /\ Cleaned(a).email = a.email
<1> DEFINE kept == [b \in Browsers |->
                       IF now > a.attempts[b].until
                          /\ now - a.attempts[b].from >= LoginWindow
                       THEN NoAttempts ELSE a.attempts[b]]
<1>1. /\ Unexpired(a.sessions) \in [Sids -> Sessions]
      /\ Thinner(Unexpired(a.sessions), a.sessions)
  BY WithoutGives DEF Unexpired, Memory
<1>2. kept \in [Browsers -> Attempts]  BY NoneTyped DEF Memory
<1>3. Cleaned(a) = [a EXCEPT !.sessions = Unexpired(a.sessions), !.attempts = kept]
  BY DEF Cleaned, Memory
<1> QED  BY <1>1, <1>2, <1>3 DEF Memory

\* A handler leaves the browsers and the time alone.
LEMMA HandlerFrame ==
    ASSUME NEW r \in Requests, Handler(r)
    PROVE  jar' = jar /\ now' = now /\ lost' = lost /\ restarts' = restarts
BY DEF Handler, LoginAdmitted, LoginVerified, Setup, ReadAccount, OpenSession, Refresh,
       Logout, Authenticate, Revoke, RevokeOthers, ChangeSessions, ChangeCredential,
       history

\* Fresh tokens of a session, and the session with them.
LEMMA CookiesTyped ==
    ASSUME TypeOK, NEW s \in Sids, NEW g \in Accounts, NEW e \in 0 .. 2,
           NEW x \in 0 .. MaxTime + SessionTTL
    PROVE  /\ Cookies(s, g, e, x) \in Tokens
           /\ Cookies(s, g, e, x).sid = s /\ Cookies(s, g, e, x).gen = g
<1>1. Earlier(now + AccessTTL, x) \in 0 .. MaxTime + SessionTTL
  BY AdminNumbers DEF Earlier, TypeOK
<1> QED  BY <1>1 DEF Cookies, Tokens, Accounts

\* The variables a handler may change, after it
Typed ==
    /\ auth' \in Memory
    /\ disk' \in [sessions : [Sids -> Sessions], account : Accounts, email : 0 .. 2]
    /\ req' \in [Requests -> Held] /\ ended' \subseteq Sids
    /\ opened' \in opened .. MaxSessions /\ secrets' \in secrets .. MaxSecrets
    /\ faults' \in faults .. MaxFaults

\* What a handler of request r that gives out no secrets does to its cookies:
\* they stay, or the session they are for is gone.
Dull(r) ==
    /\ OnlyRequest(r) /\ req'[r].pc \notin {"idle", "sent", "changing"}
    /\ req'[r].set => req'[r].pc \in Handled
    /\ req'[r].tok.sid \in {0, req[r].tok.sid} /\ req'[r].tok.gen <= req[r].tok.gen
    /\ req'[r].set /\ req'[r].tok.sid # 0 => req[r].set /\ req'[r].tok = req[r].tok
    /\ req[r].set /\ req[r].tok.sid # 0 =>
          \/ req'[r].set /\ req'[r].tok = req[r].tok
          \/ req[r].tok.sid \notin Live(auth'.sessions) \cup Live(disk'.sessions)

LEMMA ReplyIsDull ==
    ASSUME TypeOK, NEW r \in Requests, Reply(r)
    PROVE  Dull(r) /\ req' \in [Requests -> Held]
<1>1. req[r] \in Held  BY DEF TypeOK, Held, Accounts
<1>2. req[r].tok.sid \in Int /\ req[r].tok.gen \in Int /\ 0 <= req[r].tok.gen
  BY <1>1, AdminNumbers DEF Held, Tokens, Sids
<1>3. NoCookies.sid = 0 /\ NoCookies.gen = 0  BY DEF NoCookies
<1> QED  BY <1>2, <1>3, ReplyGives DEF Dull, Handled


\* The account stays, and what is left of the sessions is as it was.
Calm(r) ==
    /\ Dull(r)
    /\ Thinner(auth'.sessions, auth.sessions)
    /\ \/ disk'.sessions = auth'.sessions
       \/ disk'.sessions = disk.sessions /\ (Unlocked \/ faults' > 1)
    /\ auth'.account = auth.account /\ SameCredential'
    /\ ended \subseteq ended' /\ ended' \ ended \subseteq 1 .. opened
    /\ ended' \cap (Live(auth'.sessions) \cup Live(disk'.sessions)) = {}

\* Session s gets new secrets, or is a new one.
Issues(r, s) ==
    /\ Unlocked /\ OnlyRequest(r) /\ ~req[r].set
    /\ req'[r].pc \in {"answer", "authed"} /\ req'[r].set
    /\ req'[r].tok.sid = s /\ req'[r].tok.gen = secrets' /\ secrets' = secrets + 1
    /\ \/ s = req[r].tok.sid /\ s \in Live(auth.sessions) /\ opened' = opened
       \/ s = opened + 1 /\ opened' = s
    /\ auth'.sessions[s].gen = secrets'
    /\ \A t \in Sids \ {s} : auth'.sessions[t] \in {auth.sessions[t], NoSession}
    /\ disk'.sessions = auth'.sessions
    /\ auth'.account = auth.account /\ SameCredential' /\ ended' = ended

\* The first file of a change of credentials is written.
Begins(r) ==
    /\ Unlocked /\ OnlyRequest(r) /\ auth' = auth /\ ended' = ended /\ opened' = opened
    /\ disk'.account = disk.account /\ disk'.email = disk.email
    /\ secrets' = secrets + 2
    /\ \A t \in Live(disk'.sessions) :
          /\ t = Own(r) /\ t \in Live(auth.sessions)
          /\ disk'.sessions[t].gen = secrets + 2
          /\ disk'.sessions[t].account = secrets + 1
    /\ req'[r].pc = "changing" /\ req'[r].tok = req[r].tok /\ req'[r].set = req[r].set
    /\ req'[r].account = secrets + 1

\* The second file is written, and memory has what the files have.
Ends(r) ==
    /\ req[r].pc = "changing" /\ OnlyRequest(r) /\ req'[r].pc = "answer"
    /\ auth'.sessions = disk.sessions /\ disk'.sessions = disk.sessions
    /\ auth'.account = req[r].account /\ SameCredential'
    /\ ended' = ended \cup (Live(auth.sessions) \ Live(disk.sessions))
    /\ secrets' = secrets /\ opened' = opened
    /\ \/ Live(disk.sessions) = {} /\ Dull(r)
       \/ /\ Own(r) \in Live(disk.sessions)
          /\ req'[r].set /\ req'[r].tok.sid = Own(r)
          /\ req'[r].tok.gen = disk.sessions[Own(r)].gen

\* When the file is written with what memory has, or nothing else is changed,
\* it is enough to look at memory, at the cookies and at what has ended.
LEMMA CalmIf ==
    ASSUME SessionsInv, NEW r \in Requests, Dull(r), req' \in [Requests -> Held],
           auth' \in Memory, Thinner(auth'.sessions, auth.sessions),
           auth'.account = auth.account, auth'.email = auth.email,
           \/ disk' = [disk EXCEPT !.sessions = auth'.sessions]
           \/ disk' = disk /\ Unlocked /\ ended' = ended,
           opened' \in opened .. MaxSessions, secrets' \in secrets .. MaxSecrets,
           faults' \in faults .. MaxFaults,
           ended \subseteq ended', ended' \ ended \subseteq 1 .. opened,
           (ended' \ ended) \cap Live(auth'.sessions) = {}
    PROVE  Typed /\ Calm(r)
<1> USE DEF SessionsInv
<1>1. opened \in Nat /\ opened <= MaxSessions /\ MaxSessions \in Nat
  BY AdminNumbers DEF TypeOK
<1>2. ended' \subseteq Sids  BY <1>1 DEF TypeOK, Sids
<1>3. disk' \in [sessions : [Sids -> Sessions], account : Accounts, email : 0 .. 2]
      /\ disk'.account = disk.account /\ disk'.email = disk.email
  BY DEF TypeOK, Memory, Accounts
<1>4. \/ disk'.sessions = auth'.sessions
      \/ disk'.sessions = disk.sessions /\ Unlocked /\ ended' = ended
  BY DEF TypeOK
<1>5. Live(auth'.sessions) \subseteq Live(auth.sessions)
  BY DEF Thinner, Live, NoSession
<1>6. ended' \cap (Live(auth'.sessions) \cup Live(disk'.sessions)) = {}
  BY <1>4, <1>5 DEF EndedStaysEnded
<1>7. SameCredential'  BY <1>3 DEF SameCredential
<1> QED  BY <1>2, <1>3, <1>4, <1>6, <1>7 DEF Typed, Calm

LEMMA NobodyYet ==
    ASSUME TypeOK, NEW r \in Requests, req[r].pc \notin Handled
    PROVE  req[r].set = FALSE /\ req[r] \in Held /\ req \in [Requests -> Held]
BY DEF TypeOK, Held, Accounts

\* A step of a sign-in, or an admission: the request only moves on.
LEMMA MovesOn ==
    ASSUME TypeOK, NEW r \in Requests, req[r].pc \notin Handled,
           NEW new \in Held, req' = [req EXCEPT ![r] = new],
           new.by = req[r].by, new.set = req[r].set,
           new.pc \notin {"idle", "sent", "changing"},
           new.tok.sid \in {0, req[r].tok.sid}, new.tok.gen \in {0, req[r].tok.gen}
    PROVE  Dull(r) /\ req' \in [Requests -> Held]
<1>1. req[r].set = FALSE /\ req \in [Requests -> Held]  BY NobodyYet
<1>2. req'[r] = new /\ OnlyRequest(r) /\ req' \in [Requests -> Held]
  BY <1>1 DEF OnlyRequest
<1>3. 0 <= req[r].tok.gen /\ req[r].tok.gen \in Int
  BY <1>1, AdminNumbers DEF Held, Tokens
<1>4. req'[r].tok.gen <= req[r].tok.gen  BY <1>2, <1>3
<1>5. req'[r].set = FALSE  BY <1>1, <1>2
<1> QED  BY <1>1, <1>2, <1>4, <1>5 DEF Dull

-----------------------------------------------------------------------------
(* Sign-in: the handlers. *)

\* What the handlers may take for granted
LEMMA Ready ==
    ASSUME SessionsInv
    PROVE  /\ TypeOK /\ auth \in Memory /\ req \in [Requests -> Held]
           /\ opened \in opened .. MaxSessions /\ secrets \in secrets .. MaxSecrets
           /\ faults \in faults .. MaxFaults
           /\ Thinner(auth.sessions, auth.sessions)
BY AdminNumbers DEF SessionsInv, TypeOK, Memory, Held, Accounts, Thinner

\* A failed write
LEMMA FaultCounted ==
    ASSUME TypeOK, WriteFails
    PROVE  faults' \in faults .. MaxFaults /\ disk' = disk /\ faults' = faults + 1
BY AdminNumbers DEF WriteFails, TypeOK

LEMMA LoginIsCalm ==
    ASSUME SessionsInv, NEW r \in Requests,
           LoginAdmitted(r) \/ LoginVerified(r) \/ Setup(r) \/ ReadAccount(r)
    PROVE  Typed /\ Calm(r)
<1> USE Ready
<1>1. Unlocked /\ req[r].pc \notin Handled /\ req[r] \in Held
  BY DEF LoginAdmitted, LoginVerified, Setup, ReadAccount, At, Handled
<1>2. opened' = opened /\ secrets' = secrets /\ ended' = ended
  BY DEF LoginAdmitted, LoginVerified, Setup, ReadAccount, counters, history
<1>3. CASE LoginAdmitted(r)
  <2>1. Dull(r) /\ req' \in [Requests -> Held]
    <3>1. CASE Reply(r)  BY <3>1, ReplyIsDull
    <3>2. CASE Check(r)
      <4> DEFINE new == [req[r] EXCEPT !.pc = "checked", !.login = TRUE,
                                       !.tok = NoCookies]
      <4>1. new \in Held /\ new.pc = "checked" /\ new.tok = NoCookies
            /\ new.by = req[r].by /\ new.set = req[r].set
        BY <1>1, NoneTyped DEF Held, Stages
      <4>2. req' = [req EXCEPT ![r] = new]  BY <3>2 DEF Check
      <4>3. NoCookies.sid = 0 /\ NoCookies.gen = 0  BY DEF NoCookies
      <4> HIDE DEF new
      <4> QED  BY <1>1, <4>1, <4>2, <4>3, MovesOn
    <3> QED  BY <1>3, <3>1, <3>2 DEF LoginAdmitted
  <2>2. auth' = Cleaned(auth) /\ disk' = disk /\ faults' = faults
    BY <1>3 DEF LoginAdmitted
  <2> QED  BY <1>1, <1>2, <2>1, <2>2, CleanedGives, CalmIf
<1>4. CASE LoginVerified(r)
  <2>1. Dull(r) /\ req' \in [Requests -> Held]
    <3>1. CASE Reply(r)  BY <3>1, ReplyIsDull
    <3>2. CASE req' = [req EXCEPT ![r].pc = "verified", ![r].email = auth.email]
      <4> DEFINE new == [req[r] EXCEPT !.pc = "verified", !.email = auth.email]
      <4>1. new \in Held /\ new.pc = "verified" /\ new.tok = req[r].tok
            /\ new.by = req[r].by /\ new.set = req[r].set
        BY <1>1 DEF Held, Stages, Memory
      <4>2. req' = [req EXCEPT ![r] = new]  BY <3>2
      <4> HIDE DEF new
      <4> QED  BY <1>1, <4>1, <4>2, MovesOn
    <3> QED  BY <1>4, <3>1, <3>2 DEF LoginVerified
  <2>2. disk' = disk /\ faults' = faults  BY <1>4 DEF LoginVerified
  <2>3. /\ auth' \in Memory /\ Thinner(auth'.sessions, auth.sessions)
        /\ auth'.account = auth.account /\ auth'.email = auth.email
    <3>1. CASE auth' = auth  BY <3>1
    <3>2. CASE auth' = Failed(Cleaned(auth), req[r].by)
      <4> DEFINE a == Cleaned(auth)
                 b == req[r].by
                 old == a.attempts[b]
                 base == IF old.n = 0 \/ now - old.from >= LoginWindow
                         THEN [n |-> 0, from |-> now, until |-> -1] ELSE old
                 next == [base EXCEPT !.n = base.n + 1]
                 last == IF next.n >= MaxFailures
                         THEN [next EXCEPT !.until = now + LoginBlock] ELSE next
      <4>1. a \in Memory /\ Thinner(a.sessions, auth.sessions)
            /\ a.account = auth.account /\ a.email = auth.email
        BY CleanedGives
      <4>2. b \in Browsers  BY <1>4 DEF TypeOK, LoginVerified, At
      <4>3. old \in Attempts  BY <4>1, <4>2 DEF Memory
      <4>4. base \in Attempts /\ now \in 0 .. MaxTime  BY <4>3 DEF Attempts, TypeOK
      <4>5. next \in Attempts
        <5> HIDE DEF base
        <5>1. base.n + 1 \in Nat  BY <4>4 DEF Attempts
        <5> QED  BY <4>4, <5>1 DEF Attempts
      <4>6. last \in Attempts
        <5> HIDE DEF next
        <5>1. now + LoginBlock \in Int  BY <4>4, AdminNumbers
        <5> QED  BY <4>5, <5>1 DEF Attempts
      <4>7. auth' = [a EXCEPT !.attempts = [a.attempts EXCEPT ![b] = last]]
        BY <3>2 DEF Failed
      <4> HIDE DEF a, last
      <4> QED  BY <4>1, <4>6, <4>7 DEF Memory
    <3> QED  BY <1>4, <3>1, <3>2 DEF LoginVerified
  <2> QED  BY <1>1, <1>2, <2>1, <2>2, <2>3, CalmIf
<1>5. CASE ReadAccount(r)
  <2> DEFINE new == [req[r] EXCEPT !.pc = "opening", !.account = auth.account]
  <2>1. new \in Held /\ new.pc = "opening" /\ new.tok = req[r].tok
        /\ new.by = req[r].by /\ new.set = req[r].set
    BY <1>1 DEF Held, Stages, Memory
  <2>2. req' = [req EXCEPT ![r] = new] /\ disk' = disk /\ faults' = faults
        /\ auth' = auth
    BY <1>5 DEF ReadAccount
  <2> HIDE DEF new
  <2>3. Dull(r) /\ req' \in [Requests -> Held]  BY <1>1, <2>1, <2>2, MovesOn
  <2> QED  BY <1>1, <1>2, <2>2, <2>3, CalmIf
<1>6. CASE Setup(r)
  <2>1. CASE Reply(r) /\ UNCHANGED auth /\ UNCHANGED disk
    <3>1. faults' \in faults .. MaxFaults
      BY <1>6, FaultCounted DEF Setup
    <3> QED  BY <1>1, <1>2, <2>1, <3>1, ReplyIsDull, CalmIf
  <2>2. CASE /\ ~Configured
             /\ auth' = [auth EXCEPT !.email = 1]
             /\ disk' = [disk EXCEPT !.email = 1, !.account = auth.account]
             /\ req' = [req EXCEPT ![r].pc = "verified", ![r].email = 1,
                                   ![r].tok = NoCookies]
             /\ UNCHANGED faults
    <3> DEFINE new == [req[r] EXCEPT !.pc = "verified", !.email = 1,
                                     !.tok = NoCookies]
    <3>0. 1 \in 0 .. 2 /\ "verified" \in Stages  BY DEF Stages
    <3>1. new \in Held /\ new.pc = "verified" /\ new.tok = NoCookies
          /\ new.by = req[r].by /\ new.set = req[r].set
      BY <1>1, <3>0, NoneTyped DEF Held
    <3>2. req' = [req EXCEPT ![r] = new]  BY <2>2
    <3>3. NoCookies.sid = 0 /\ NoCookies.gen = 0  BY DEF NoCookies
    <3> HIDE DEF new
    <3>4. Dull(r) /\ req' \in [Requests -> Held]  BY <1>1, <3>1, <3>2, <3>3, MovesOn
    <3>5. /\ auth' \in Memory /\ auth'.sessions = auth.sessions
          /\ auth'.account = auth.account /\ auth'.email = 1
      BY <2>2 DEF Memory
    <3>6. /\ disk' \in [sessions : [Sids -> Sessions], account : Accounts,
                        email : 0 .. 2]
          /\ disk'.sessions = disk.sessions /\ disk'.account = auth'.account
          /\ disk'.email = 1
      BY <2>2, <3>5 DEF Memory, TypeOK
    <3>7. SameCredential'  BY <3>5, <3>6 DEF SameCredential
    <3>8. ended \cap (Live(auth'.sessions) \cup Live(disk'.sessions)) = {}
      BY <3>5, <3>6 DEF SessionsInv, EndedStaysEnded
    <3>9. ended \subseteq Sids  BY DEF TypeOK
    <3> QED
      BY <1>1, <1>2, <2>2, <3>4, <3>5, <3>6, <3>7, <3>8, <3>9 DEF Typed, Calm
  <2> QED  BY <1>6, <2>1, <2>2 DEF Setup, WriteFails
<1> QED  BY <1>3, <1>4, <1>5, <1>6

LEMMA OpenSessionEffect ==
    ASSUME SessionsInv, NEW r \in Requests, OpenSession(r)
    PROVE  Typed /\ (Calm(r) \/ \E s \in Sids : Issues(r, s))
<1> USE Ready
<1>1. Unlocked /\ req[r].pc \notin Handled /\ req[r] \in Held /\ ended' = ended
  BY DEF OpenSession, At, Handled, history
<1> DEFINE s == opened + 1
           a == Cleaned(auth)
           session == [gen |-> secrets + 1, account |-> req[r].account,
                       exp |-> now + SessionTTL]
           with == [a.sessions EXCEPT ![s] = session]
           tok == Cookies(s, session.gen, req[r].email, session.exp)
<1>2. a \in Memory /\ Thinner(a.sessions, auth.sessions)
      /\ a.account = auth.account /\ a.email = auth.email
  BY CleanedGives
<1>3. CASE /\ opened = MaxSessions \/ NoneLeft(1)
           /\ Reply(r) /\ UNCHANGED <<auth, disk, counters, faults>>
  BY <1>1, <1>3, ReplyIsDull, CalmIf DEF counters
<1>4. CASE opened < MaxSessions /\ Draws(1) /\ opened' = s
  <2>1. /\ s \in Sids /\ opened' \in opened .. MaxSessions
        /\ secrets + 1 \in Accounts /\ secrets' = secrets + 1
        /\ secrets' \in secrets .. MaxSecrets
    BY <1>4, AdminNumbers DEF Draws, Sids, TypeOK, Accounts
  <2>2. CASE WriteFails /\ auth' = a /\ Reply(r)
    <3> HIDE DEF a
    <3> QED  BY <1>1, <1>2, <2>1, <2>2, FaultCounted, ReplyIsDull, CalmIf
  <2>3. CASE /\ SessionsSaved(with)
             /\ auth' = [a EXCEPT !.sessions = with,
                           !.attempts[req[r].by] =
                               IF req[r].login THEN NoAttempts ELSE @]
             /\ Answer(r, tok)
    <3>1. session \in Sessions /\ now + SessionTTL \in 0 .. MaxTime + SessionTTL
      BY <1>1, <2>1, AdminNumbers DEF Sessions, Held, TypeOK, Accounts
    <3>2. tok \in Tokens /\ tok.sid = s /\ tok.gen = secrets + 1
      BY <1>1, <2>1, <3>1, CookiesTyped DEF Held
    <3> HIDE DEF a, s, session, tok
    <3>3. /\ with \in [Sids -> Sessions] /\ with[s] = session
          /\ \A t \in Sids \ {s} : with[t] \in {auth.sessions[t], NoSession}
      BY <1>2, <2>1, <3>1 DEF Memory, Thinner
    <3> HIDE DEF with
    <3>4. /\ auth' \in Memory /\ auth'.sessions = with
          /\ auth'.account = auth.account /\ auth'.email = auth.email
      <4> DEFINE fewer == [a.attempts EXCEPT ![req[r].by] =
                              IF req[r].login THEN NoAttempts ELSE @]
      <4>1. fewer \in [Browsers -> Attempts]  BY <1>2, NoneTyped DEF Memory
      <4>2. auth' = [a EXCEPT !.sessions = with, !.attempts = fewer]  BY <2>3
      <4> HIDE DEF fewer
      <4> QED  BY <1>2, <3>3, <4>1, <4>2 DEF Memory
    <3>5. /\ disk' = [disk EXCEPT !.sessions = with] /\ faults' = faults
          /\ disk' \in [sessions : [Sids -> Sessions], account : Accounts,
                        email : 0 .. 2]
          /\ disk'.sessions = with /\ disk'.account = disk.account
          /\ disk'.email = disk.email
      BY <2>3, <3>3 DEF SessionsSaved, TypeOK, Accounts
    <3>6. SameCredential'
      BY <3>4, <3>5 DEF SameCredential, SessionsInv
    <3>7. session.gen = secrets'  BY <2>1 DEF session
    <3>8. /\ OnlyRequest(r) /\ req' \in [Requests -> Held]
          /\ req'[r].pc = "answer" /\ req'[r].tok = tok /\ req'[r].set
      BY <2>3, <3>2, AnswerGives
    <3>9. Issues(r, s)
      BY <1>1, <1>4, <2>1, <3>2, <3>3, <3>4, <3>5, <3>6, <3>7, <3>8, NobodyYet
      DEF Issues, s
    <3>10. Typed
      BY <1>1, <2>1, <3>4, <3>5, <3>8 DEF Typed, TypeOK
    <3> QED  BY <2>1, <3>9, <3>10
  <2> QED  BY <1>3, <1>4, <2>2, <2>3 DEF OpenSession
<1> QED  BY <1>3, <1>4 DEF OpenSession

\* A secret that is not the newest, or cannot be stored, changes nothing.
LEMMA RefreshEffect ==
    ASSUME SessionsInv, NEW r \in Requests, NEW pc \in {"answer", "authed"},
           At(r, "sent"), RefreshSession(r, pc), ended' = ended
    PROVE  Typed /\ (Calm(r) \/ \E s \in Sids : Issues(r, s))
<1> USE Ready
<1>1. Unlocked /\ req[r].pc \notin Handled /\ req[r] \in Held /\ opened' = opened
  BY DEF RefreshSession, At, Handled
<1> DEFINE old == req[r].tok
           s == old.sid
           a == IF now < old.exp THEN Cleaned(auth) ELSE auth
           with == [a.sessions EXCEPT ![s] = Rotated(@)]
           tok == Renewed(s, a)
<1>2. a \in Memory /\ Thinner(a.sessions, auth.sessions)
      /\ a.account = auth.account /\ a.email = auth.email
  BY CleanedGives
<1>3. CASE /\ ~(now < old.exp) \/ ~MayRefresh(a, old) \/ NoneLeft(1)
           /\ auth' = a /\ Reply(r)
           /\ UNCHANGED <<disk, secrets, faults>>
  <2> HIDE DEF a
  <2> QED  BY <1>1, <1>2, <1>3, ReplyIsDull, CalmIf
<1>4. CASE MayRefresh(a, old) /\ Draws(1)
  <2>1. /\ s \in Sids /\ s \in Live(a.sessions)
        /\ secrets + 1 \in Accounts /\ secrets' = secrets + 1
        /\ secrets' \in secrets .. MaxSecrets
    BY <1>4, AdminNumbers DEF MayRefresh, Live, Draws, TypeOK, Accounts
  <2>2. CASE WriteFails /\ auth' = a /\ Reply(r)
    <3> HIDE DEF a
    <3> QED  BY <1>1, <1>2, <2>1, <2>2, FaultCounted, ReplyIsDull, CalmIf
  <2>3. CASE /\ SessionsSaved(with)
             /\ auth' = [a EXCEPT !.sessions = with]
             /\ req' = [req EXCEPT ![r].pc = pc, ![r].set = TRUE, ![r].tok = tok]
    <3> HIDE DEF a, s
    <3>1. a.sessions[s] \in Sessions /\ s \in Live(auth.sessions)
      BY <1>2, <2>1 DEF Memory, Thinner, Live, NoSession
    <3>2. Rotated(a.sessions[s]) \in Sessions
          /\ Rotated(a.sessions[s]).gen = secrets + 1
      BY <2>1, <3>1 DEF Rotated, Sessions, Accounts
    <3>3. /\ with \in [Sids -> Sessions] /\ with[s].gen = secrets'
          /\ \A t \in Sids \ {s} : with[t] \in {auth.sessions[t], NoSession}
      BY <1>2, <2>1, <3>2 DEF Memory, Thinner
    <3>4. tok \in Tokens /\ tok.sid = s /\ tok.gen = secrets + 1
      <4>1. a.sessions[s].exp \in 0 .. MaxTime + SessionTTL /\ a.email \in 0 .. 2
        BY <1>2, <3>1 DEF Sessions, Memory
      <4> QED  BY <2>1, <4>1, CookiesTyped DEF Renewed
    <3> HIDE DEF with, tok
    <3>5. /\ auth' \in Memory /\ auth'.sessions = with
          /\ auth'.account = auth.account /\ auth'.email = auth.email
      BY <1>2, <2>3, <3>3 DEF Memory
    <3>6. /\ disk' = [disk EXCEPT !.sessions = with] /\ faults' = faults
          /\ disk' \in [sessions : [Sids -> Sessions], account : Accounts,
                        email : 0 .. 2]
          /\ disk'.sessions = with /\ disk'.account = disk.account
          /\ disk'.email = disk.email
      BY <2>3, <3>3 DEF SessionsSaved, TypeOK, Accounts
    <3>7. SameCredential'
      BY <3>5, <3>6 DEF SameCredential, SessionsInv
    <3>8. /\ OnlyRequest(r) /\ req' \in [Requests -> Held]
          /\ req'[r].pc = pc /\ req'[r].tok = tok /\ req'[r].set
      <4> DEFINE new == [req[r] EXCEPT !.pc = pc, !.set = TRUE, !.tok = tok]
      <4>1. new \in Held /\ new.pc = pc /\ new.tok = tok /\ new.set = TRUE
            /\ new.by = req[r].by
        BY <1>1, <3>4 DEF Held, Stages, Handled
      <4>2. req' = [req EXCEPT ![r] = new]  BY <2>3
      <4> HIDE DEF new
      <4> QED  BY <4>1, <4>2 DEF OnlyRequest
    <3>9. Issues(r, s)
      BY <1>1, <2>1, <3>1, <3>3, <3>4, <3>5, <3>6, <3>7, <3>8, NobodyYet
      DEF Issues, s
    <3>10. Typed
      BY <1>1, <2>1, <3>5, <3>6, <3>8 DEF Typed, TypeOK
    <3> QED  BY <2>1, <3>9, <3>10
  <2> QED  BY <1>3, <1>4, <2>2, <2>3 DEF RefreshSession
<1> QED  BY <1>3, <1>4 DEF RefreshSession

LEMMA AdmitIsDull ==
    ASSUME TypeOK, NEW r \in Requests, req[r].pc = "sent",
           NEW sid \in {0, req[r].tok.sid}, Admit(r, sid)
    PROVE  Dull(r) /\ req' \in [Requests -> Held]
<1>1. CASE Reply(r)  BY <1>1, ReplyIsDull
<1>2. CASE req' = [req EXCEPT ![r].pc = "authed", ![r].tok = [NoCookies EXCEPT !.sid = sid]]
  <2> DEFINE tok == [NoCookies EXCEPT !.sid = sid]
             new == [req[r] EXCEPT !.pc = "authed", !.tok = tok]
  <2>1. req[r].pc \notin Handled /\ req[r] \in Held /\ req \in [Requests -> Held]
    BY NobodyYet DEF Handled
  <2>2. tok \in Tokens /\ tok.sid = sid /\ tok.gen = 0
    BY <2>1, NoneTyped DEF Tokens, Held, NoCookies
  <2>3. new \in Held /\ new.pc = "authed" /\ new.tok = tok
        /\ new.by = req[r].by /\ new.set = req[r].set
    BY <2>1, <2>2 DEF Held, Stages, Handled
  <2>4. req' = [req EXCEPT ![r] = new]  BY <1>2
  <2> HIDE DEF new, tok
  <2> QED  BY <2>1, <2>2, <2>3, <2>4, MovesOn
<1> QED  BY <1>1, <1>2 DEF Admit

LEMMA AuthenticateEffect ==
    ASSUME SessionsInv, NEW r \in Requests, Refresh(r) \/ Authenticate(r)
    PROVE  Typed /\ (Calm(r) \/ \E s \in Sids : Issues(r, s))
<1> USE Ready
<1>1. At(r, "sent") /\ Unlocked /\ req[r].pc = "sent" /\ ended' = ended
  BY DEF Refresh, Authenticate, At, history
<1> DEFINE tok == req[r].tok
           a == IF now < tok.until THEN Cleaned(auth) ELSE auth
<1>2. a \in Memory /\ Thinner(a.sessions, auth.sessions)
      /\ a.account = auth.account /\ a.email = auth.email
  BY CleanedGives
<1> HIDE DEF a
<1>3. CASE RefreshSession(r, "answer") \/ RefreshSession(r, "authed")
  BY <1>1, <1>3, RefreshEffect
<1>4. CASE /\ auth' = a /\ Admit(r, tok.sid) /\ UNCHANGED counters
           /\ \/ UNCHANGED <<disk, faults>>
              \/ SessionsSaved(a.sessions)
              \/ WriteFails
  <2>1. faults' \in faults .. MaxFaults
    BY <1>4, FaultCounted DEF SessionsSaved
  <2>2. disk' = disk \/ disk' = [disk EXCEPT !.sessions = auth'.sessions]
    BY <1>4, FaultCounted DEF SessionsSaved
  <2>3. Dull(r) /\ req' \in [Requests -> Held]  BY <1>1, <1>4, AdmitIsDull
  <2>4. opened' = opened /\ secrets' = secrets  BY <1>4 DEF counters
  <2> QED  BY <1>1, <1>2, <1>4, <2>1, <2>2, <2>3, <2>4, CalmIf
<1>5. CASE auth' = a /\ Reply(r) /\ UNCHANGED <<disk, counters, faults>>
  BY <1>1, <1>2, <1>5, ReplyIsDull, CalmIf DEF counters
<1>6. CASE Admit(r, 0) /\ UNCHANGED <<auth, disk, counters, faults>>
  BY <1>1, <1>6, AdmitIsDull, CalmIf DEF counters
<1> QED  BY <1>3, <1>4, <1>5, <1>6 DEF Refresh, Authenticate, a

LEMMA RevokeIsCalm ==
    ASSUME SessionsInv, NEW r \in Requests, Revoke(r) \/ RevokeOthers(r)
    PROVE  Typed /\ Calm(r)
<1> USE Ready
<1>1. Unlocked /\ opened' = opened /\ secrets' = secrets
  BY DEF Revoke, RevokeOthers, At, counters
<1>2. CASE Reply(r) /\ UNCHANGED <<auth, ended>> /\ disk' = disk
           /\ faults' \in faults .. MaxFaults
  BY <1>1, <1>2, ReplyIsDull, CalmIf
<1>3. ASSUME NEW gone \in SUBSET Live(auth.sessions), Dull(r),
             req' \in [Requests -> Held],
             SessionsSaved(Without(auth.sessions, gone)),
             auth' = [auth EXCEPT !.sessions = Without(auth.sessions, gone)],
             ended' = ended \cup gone
      PROVE  Typed /\ Calm(r)
  <2> DEFINE with == Without(auth.sessions, gone)
  <2>1. with \in [Sids -> Sessions] /\ Thinner(with, auth.sessions)
        /\ Live(with) = Live(auth.sessions) \ gone
    BY WithoutGives DEF Memory
  <2>2. disk' = [disk EXCEPT !.sessions = with] /\ faults' = faults
    BY <1>3 DEF SessionsSaved
  <2> HIDE DEF with
  <2>3. auth' = [auth EXCEPT !.sessions = with]  BY <1>3 DEF with
  <2>4. auth' \in Memory /\ auth'.sessions = with /\ auth'.account = auth.account
        /\ auth'.email = auth.email
    BY <2>1, <2>3 DEF Memory
  <2>5. gone \subseteq 1 .. opened  BY DEF SessionsInv, Drawn
  <2> QED  BY <1>1, <1>3, <2>1, <2>2, <2>4, <2>5, CalmIf
<1>4. CASE RevokeOthers(r)
  <2>1. Reply(r) /\ Dull(r) /\ req' \in [Requests -> Held]
    BY <1>4, ReplyIsDull DEF RevokeOthers
  <2> DEFINE others == Live(auth.sessions) \ {Own(r)}
  <2>2. CASE /\ SessionsSaved(Without(auth.sessions, others))
             /\ auth' = [auth EXCEPT !.sessions = Without(auth.sessions, others)]
             /\ ended' = ended \cup others
    BY <1>3, <2>1, <2>2
  <2>3. CASE WriteFails /\ UNCHANGED <<auth, ended>>
    BY <1>2, <2>1, <2>3, FaultCounted
  <2> QED  BY <1>4, <2>2, <2>3 DEF RevokeOthers
<1>5. CASE Revoke(r)
  <2>1. PICK s \in Sids :
          \/ /\ s \in Live(auth.sessions)
             /\ SessionsSaved(Without(auth.sessions, {s}))
             /\ auth' = [auth EXCEPT !.sessions = Without(auth.sessions, {s})]
             /\ ended' = ended \cup {s}
             /\ IF s = Own(r) THEN Answer(r, NoCookies) ELSE Reply(r)
          \/ /\ \/ UNCHANGED <<disk, faults>>
                \/ WriteFails
             /\ Reply(r) /\ UNCHANGED <<auth, ended>>
    BY <1>5 DEF Revoke
  <2>2. CASE /\ s \in Live(auth.sessions)
             /\ SessionsSaved(Without(auth.sessions, {s}))
             /\ auth' = [auth EXCEPT !.sessions = Without(auth.sessions, {s})]
             /\ ended' = ended \cup {s}
             /\ IF s = Own(r) THEN Answer(r, NoCookies) ELSE Reply(r)
    <3>1. Dull(r) /\ req' \in [Requests -> Held]
      <4>1. CASE Reply(r)  BY <4>1, ReplyIsDull
      <4>2. CASE s = Own(r) /\ Answer(r, NoCookies)
        <5> DEFINE with == Without(auth.sessions, {s})
        <5>1. with \in [Sids -> Sessions] /\ Live(with) = Live(auth.sessions) \ {s}
          BY WithoutGives DEF Memory
        <5>2. auth'.sessions = with /\ disk'.sessions = with
          <6> HIDE DEF with
          <6>1. auth' = [auth EXCEPT !.sessions = with]
                /\ disk' = [disk EXCEPT !.sessions = with]
            BY <2>2 DEF SessionsSaved, with
          <6> QED  BY <6>1 DEF Memory, TypeOK
        <5>3. req[r].tok.sid = s /\ s \notin Live(auth'.sessions)
              /\ s \notin Live(disk'.sessions)
          BY <4>2, <5>1, <5>2 DEF Own
        <5>4. NoCookies \in Tokens /\ NoCookies.sid = 0 /\ NoCookies.gen = 0
          BY NoneTyped DEF NoCookies
        <5>5. 0 <= req[r].tok.gen  BY AdminNumbers DEF Held, Tokens
        <5> QED  BY <4>2, <5>3, <5>4, <5>5, AnswerGives DEF Dull, Handled
      <4> QED  BY <2>2, <4>1, <4>2
    <3> QED  BY <1>3, <2>2, <3>1
  <2>3. CASE /\ \/ UNCHANGED <<disk, faults>>
                \/ WriteFails
             /\ Reply(r) /\ UNCHANGED <<auth, ended>>
    BY <1>2, <2>3, FaultCounted
  <2> QED  BY <2>1, <2>2, <2>3
<1> QED  BY <1>4, <1>5

LEMMA LogoutIsCalm ==
    ASSUME SessionsInv, NEW r \in Requests, Logout(r)
    PROVE  Typed /\ Calm(r)
<1> USE Ready
<1> DEFINE tok == req[r].tok
           gone == IF now < tok.exp THEN {tok.sid} \ {0} ELSE {}
           with == Without(auth.sessions, gone)
<1>1. /\ Unlocked /\ req[r].pc = "sent" /\ opened' = opened /\ secrets' = secrets
      /\ Answer(r, NoCookies) /\ auth' = [auth EXCEPT !.sessions = with]
      /\ \/ gone = {} /\ UNCHANGED <<disk, faults, ended>>
         \/ gone # {} /\ SessionsSaved(with) /\ ended' = ended \cup gone
         \/ gone # {} /\ WriteFails /\ UNCHANGED ended
  BY DEF Logout, At, counters
<1>2. req[r].set = FALSE /\ req[r] \in Held  BY <1>1, NobodyYet DEF Handled
<1>3. NoCookies \in Tokens /\ NoCookies.sid = 0 /\ NoCookies.gen = 0
      /\ 0 <= req[r].tok.gen
  BY <1>2, NoneTyped, AdminNumbers DEF NoCookies, Held, Tokens
<1>4. Dull(r) /\ req' \in [Requests -> Held]
  BY <1>1, <1>2, <1>3, AnswerGives DEF Dull, Handled
<1>5. gone \subseteq 1 .. opened
  BY <1>2, AdminNumbers DEF SessionsInv, Drawn, Held, Tokens, Sids, TypeOK
<1>6. with \in [Sids -> Sessions] /\ Thinner(with, auth.sessions)
      /\ Live(with) = Live(auth.sessions) \ gone
  BY WithoutGives DEF Memory
<1> HIDE DEF with, gone
<1>7. auth' \in Memory /\ auth'.sessions = with /\ auth'.account = auth.account
      /\ auth'.email = auth.email
  BY <1>1, <1>6 DEF Memory
<1>8. CASE SessionsSaved(with) /\ ended' = ended \cup gone
  <2>1. disk' = [disk EXCEPT !.sessions = auth'.sessions] /\ faults' = faults
    BY <1>7, <1>8 DEF SessionsSaved
  <2> QED  BY <1>1, <1>4, <1>5, <1>6, <1>7, <1>8, <2>1, CalmIf
<1>9. CASE (UNCHANGED <<disk, faults>> \/ WriteFails) /\ ended' = ended
  BY <1>1, <1>4, <1>6, <1>7, <1>9, FaultCounted, CalmIf
<1> QED  BY <1>1, <1>8, <1>9

LEMMA ChangeSessionsEffect ==
    ASSUME SessionsInv, NEW r \in Requests, ChangeSessions(r)
    PROVE  Typed /\ (Calm(r) \/ Begins(r))
<1> USE Ready
<1>1. Unlocked /\ auth' = auth /\ opened' = opened /\ ended' = ended
  BY DEF ChangeSessions, At, history
<1>2. CASE Reply(r) /\ disk' = disk /\ faults' \in faults .. MaxFaults
           /\ secrets' \in secrets .. MaxSecrets
  BY <1>1, <1>2, ReplyIsDull, CalmIf
<1> DEFINE own == Live(auth.sessions) \cap {Own(r)}
           next == [s \in Sids |->
                      IF s \in own
                      THEN [auth.sessions[s] EXCEPT !.account = secrets + 1,
                                                    !.gen = secrets + 2]
                      ELSE NoSession]
<1>3. ASSUME Draws(2), NEW e \in {1, 2}, SessionsSaved(next),
             req' = [req EXCEPT ![r].pc = "changing", ![r].email = e,
                                ![r].account = secrets + 1]
      PROVE  Typed /\ Begins(r)
  <2>1. /\ secrets + 1 \in Accounts /\ secrets + 2 \in 0 .. MaxSecrets
        /\ secrets' = secrets + 2 /\ secrets' \in secrets .. MaxSecrets
        /\ secrets + 2 # 0
    <3>1. secrets \in Nat /\ MaxSecrets \in Nat  BY AdminNumbers DEF TypeOK
    <3>2. secrets + 2 <= MaxSecrets /\ secrets' = secrets + 2  BY <1>3 DEF Draws
    <3> QED  BY <3>1, <3>2 DEF Accounts
  <2>2. next \in [Sids -> Sessions]
    <3> SUFFICES ASSUME NEW s \in Sids PROVE next[s] \in Sessions  OBVIOUS
    <3>1. auth.sessions[s] \in Sessions  BY DEF Memory
    <3> QED  BY <2>1, <3>1, NoneTyped DEF Sessions, Accounts
  <2>3. ASSUME NEW t \in Live(next)
        PROVE  /\ t = Own(r) /\ t \in Live(auth.sessions)
               /\ next[t].gen = secrets + 2 /\ next[t].account = secrets + 1
    <3>1. t \in Sids /\ auth.sessions[t] \in Sessions  BY <2>3 DEF Live, Memory
    <3>2. t \in own  BY <2>3, <3>1 DEF Live, NoSession
    <3> QED  BY <3>1, <3>2 DEF Sessions
  <2> HIDE DEF next
  <2>4. /\ disk' = [disk EXCEPT !.sessions = next] /\ faults' = faults
        /\ disk' \in [sessions : [Sids -> Sessions], account : Accounts, email : 0 .. 2]
        /\ disk'.sessions = next /\ disk'.account = disk.account
        /\ disk'.email = disk.email
    BY <1>3, <2>2 DEF SessionsSaved, TypeOK, Accounts
  <2> DEFINE new == [req[r] EXCEPT !.pc = "changing", !.email = e,
                                   !.account = secrets + 1]
  <2>9. e \in 0 .. 2 /\ "changing" \in Stages /\ req[r] \in Held
    BY DEF Stages, Handled
  <2>5. new \in Held /\ new.pc = "changing" /\ new.tok = req[r].tok
        /\ new.by = req[r].by /\ new.set = req[r].set /\ new.account = secrets + 1
    BY <2>1, <2>9 DEF Held
  <2>6. req' = [req EXCEPT ![r] = new]  BY <1>3
  <2> HIDE DEF new
  <2>7. OnlyRequest(r) /\ req'[r] = new /\ req' \in [Requests -> Held]
    BY <2>5, <2>6 DEF OnlyRequest
  <2>8. Begins(r)  BY <1>1, <2>1, <2>3, <2>4, <2>5, <2>7 DEF Begins
  <2> QED  BY <1>1, <2>1, <2>4, <2>7, <2>8 DEF Typed, TypeOK
<1>4. CASE Reply(r) /\ UNCHANGED <<disk, secrets, faults>>
  BY <1>2, <1>4
<1>5. CASE Draws(2) /\ WriteFails /\ Reply(r)
  BY <1>2, <1>5, FaultCounted, AdminNumbers DEF Draws, TypeOK
<1> QED  BY <1>3, <1>4, <1>5 DEF ChangeSessions

LEMMA ChangeCredentialEffect ==
    ASSUME SessionsInv, NEW r \in Requests, ChangeCredential(r)
    PROVE  Typed /\ (Calm(r) \/ Ends(r))
<1> USE Ready
<1>1. /\ req[r].pc = "changing" /\ opened' = opened /\ secrets' = secrets
      /\ \A s \in Live(disk.sessions) : s = Own(r) /\ s \in Sids
      /\ req[r] \in Held
  BY DEF ChangeCredential, counters, SessionsInv, OnlyOwnChanges, Live
<1> DEFINE own == Live(disk.sessions)
           s == disk.sessions[Own(r)]
           tok == Cookies(Own(r), s.gen, req[r].email, s.exp)
<1>2. CASE /\ disk' = [disk EXCEPT !.account = req[r].account, !.email = req[r].email]
           /\ auth' = [auth EXCEPT !.sessions = disk.sessions,
                                   !.account = req[r].account, !.email = req[r].email]
           /\ ended' = ended \cup (Live(auth.sessions) \ own)
           /\ IF own = {} THEN Reply(r) ELSE Answer(r, tok)
           /\ UNCHANGED faults
  <2>1. req[r].account \in Accounts /\ req[r].email \in 0 .. 2  BY <1>1 DEF Held
  <2>2. /\ auth' \in Memory /\ auth'.sessions = disk.sessions
        /\ auth'.account = req[r].account /\ auth'.email = req[r].email
    BY <1>2, <2>1 DEF Memory, TypeOK
  <2>3. /\ disk' \in [sessions : [Sids -> Sessions], account : Accounts, email : 0 .. 2]
        /\ disk'.sessions = disk.sessions /\ disk'.account = req[r].account
        /\ disk'.email = req[r].email
    BY <1>2, <2>1 DEF TypeOK, Accounts
  <2>4. SameCredential'  BY <2>2, <2>3 DEF SameCredential
  <2>5. ended' \subseteq Sids  BY <1>2 DEF TypeOK, Live
  <2>6. CASE own = {}
    <3>1. Dull(r) /\ OnlyRequest(r) /\ req'[r].pc = "answer"
          /\ req' \in [Requests -> Held]
      BY <1>2, <2>6, ReplyIsDull, ReplyGives
    <3>2. Ends(r)  BY <1>1, <1>2, <2>2, <2>3, <2>4, <2>6, <3>1 DEF Ends
    <3> QED  BY <1>1, <1>2, <2>2, <2>3, <2>5, <3>1, <3>2 DEF Typed
  <2>7. CASE own # {}
    <3>1. Own(r) \in Live(disk.sessions) /\ Own(r) \in Sids  BY <1>1, <2>7
    <3>2. s \in Sessions  BY <3>1 DEF TypeOK
    <3>3. tok \in Tokens /\ tok.sid = Own(r) /\ tok.gen = s.gen
      BY <2>1, <3>1, <3>2, CookiesTyped DEF Sessions, Accounts
    <3> HIDE DEF tok
    <3>4. /\ OnlyRequest(r) /\ req' \in [Requests -> Held]
          /\ req'[r].pc = "answer" /\ req'[r].tok = tok /\ req'[r].set
      BY <1>2, <2>7, <3>3, AnswerGives
    <3>5. Ends(r)  BY <1>1, <1>2, <2>2, <2>3, <2>4, <3>1, <3>3, <3>4 DEF Ends
    <3> QED  BY <1>1, <1>2, <2>2, <2>3, <2>5, <3>4, <3>5 DEF Typed
  <2> QED  BY <2>6, <2>7
<1>3. CASE Reply(r) /\ UNCHANGED <<auth, ended>> /\ faults < MaxFaults
           /\ faults' = faults + 1 /\ disk' = [disk EXCEPT !.sessions = auth.sessions]
  <2>1. faults' \in faults .. MaxFaults  BY <1>3, AdminNumbers DEF TypeOK
  <2>2. disk' = [disk EXCEPT !.sessions = auth'.sessions]  BY <1>3
  <2> QED  BY <1>1, <1>3, <2>1, <2>2, ReplyIsDull, CalmIf
<1>4. CASE Reply(r) /\ UNCHANGED <<auth, ended>> /\ faults + 1 < MaxFaults
           /\ faults' = faults + 2 /\ UNCHANGED disk
  <2>1. faults' \in faults .. MaxFaults /\ faults' > 1
    BY <1>4, AdminNumbers DEF TypeOK
  <2>2. Calm(r)
    BY <1>4, <2>1, ReplyIsDull
    DEF Calm, SessionsInv, EndedStaysEnded, SameCredential
  <2>3. Dull(r) /\ req' \in [Requests -> Held]  BY <1>4, ReplyIsDull
  <2> QED  BY <1>1, <1>4, <2>1, <2>2, <2>3 DEF Typed, TypeOK, Accounts
<1> QED  BY <1>2, <1>3, <1>4 DEF ChangeCredential

\* What any handler does
Effect(r) ==
    Calm(r) \/ (\E s \in Sids : Issues(r, s)) \/ Begins(r) \/ Ends(r)

LEMMA HandlerEffect ==
    ASSUME SessionsInv, NEW r \in Requests, Handler(r)
    PROVE  Typed /\ Effect(r)
BY LoginIsCalm, OpenSessionEffect, AuthenticateEffect, RevokeIsCalm, LogoutIsCalm,
   ChangeSessionsEffect, ChangeCredentialEffect
DEF Handler, Effect

-----------------------------------------------------------------------------
(* Sign-in: the invariant, part by part. *)

LEMMA HandlerBusy ==
    ASSUME NEW r \in Requests, Handler(r)
    PROVE  /\ req[r].pc \notin {"idle", "answer"}
           /\ Unlocked \/ req[r].pc = "changing"
BY DEF Handler, LoginAdmitted, LoginVerified, Setup, ReadAccount, OpenSession, Refresh,
       Logout, Authenticate, Revoke, RevokeOthers, ChangeSessions, ChangeCredential, At

\* What the parts of the state are, as numbers
LEMMA Counts ==
    ASSUME TypeOK
    PROVE  /\ opened \in Nat /\ secrets \in Nat /\ faults \in Nat /\ now \in Nat
           /\ auth.account \in Nat /\ opened <= MaxSessions /\ secrets <= MaxSecrets
           /\ \A b \in Browsers : jar[b].sid \in Nat /\ jar[b].gen \in Nat
           /\ \A r \in Requests : /\ req[r].tok.sid \in Nat /\ req[r].tok.gen \in Nat
                                  /\ req[r].account \in Nat
           /\ \A s \in Sids : /\ s \in Nat /\ s # 0
                              /\ auth.sessions[s].gen \in Nat
                              /\ disk.sessions[s].gen \in Nat
<1>1. /\ opened \in Nat /\ secrets \in Nat /\ faults \in Nat /\ now \in Nat
      /\ opened <= MaxSessions /\ secrets <= MaxSecrets /\ auth.account \in Nat
  BY AdminNumbers DEF TypeOK
<1>2. \A tok \in Tokens : tok.sid \in Nat /\ tok.gen \in Nat
  BY AdminNumbers DEF Tokens, Sids
<1>3. \A session \in Sessions : session.gen \in Nat
  BY AdminNumbers DEF Sessions
<1>4. \A b \in Browsers : jar[b] \in Tokens  BY DEF TypeOK
<1>5. \A r \in Requests : req[r].tok \in Tokens /\ req[r].account \in Nat
  BY AdminNumbers DEF TypeOK
<1>6. \A s \in Sids : /\ s \in Nat /\ s # 0
                      /\ auth.sessions[s] \in Sessions /\ disk.sessions[s] \in Sessions
  BY AdminNumbers DEF TypeOK, Sids
<1> QED  BY <1>1, <1>2, <1>3, <1>4, <1>5, <1>6

\* The steps that are not a handler's, as far as requests go
LEMMA NetworkGives ==
    ASSUME TypeOK, NEW r \in Requests
    PROVE  /\ \A b \in Browsers : Send(r, b) =>
                 /\ req[r].pc = "idle" /\ req' \in [Requests -> Held]
                 /\ \A q \in Requests \ {r} : req'[q] = req[q]
                 /\ req'[r].pc = "sent" /\ req'[r].by = b /\ req'[r].tok = jar[b]
                 /\ req'[r].set = FALSE
                 /\ UNCHANGED <<auth, disk, jar, now, counters, faults, history>>
           /\ Deliver(r) \/ Lose(r) =>
                 /\ req[r].pc \in {"sent", "answer"} /\ req' \in [Requests -> Held]
                 /\ \A q \in Requests \ {r} : req'[q] = req[q]
                 /\ req'[r].pc = "idle" /\ req'[r].tok = NoCookies /\ req'[r].set = FALSE
                 /\ UNCHANGED <<auth, disk, now, counters, faults, restarts, ended>>
<1>1. req \in [Requests -> Held]  BY DEF TypeOK, Held, Accounts
<1>2. ASSUME NEW b \in Browsers, Send(r, b)
      PROVE  /\ req[r].pc = "idle" /\ req' \in [Requests -> Held]
             /\ \A q \in Requests \ {r} : req'[q] = req[q]
             /\ req'[r].pc = "sent" /\ req'[r].by = b /\ req'[r].tok = jar[b]
             /\ req'[r].set = FALSE
             /\ UNCHANGED <<auth, disk, jar, now, counters, faults, history>>
  <2> DEFINE new == [Idle EXCEPT !.pc = "sent", !.by = b, !.tok = jar[b]]
  <2>1. jar[b] \in Tokens  BY DEF TypeOK
  <2>2. new \in Held /\ new.pc = "sent" /\ new.by = b /\ new.tok = jar[b]
        /\ new.set = FALSE
    BY <2>1, IdleTyped DEF Held, Stages, Idle
  <2>3. req' = [req EXCEPT ![r] = new]  BY <1>2 DEF Send
  <2>4. /\ req[r].pc = "idle"
        /\ UNCHANGED <<auth, disk, jar, now, counters, faults, history>>
    BY <1>2 DEF Send
  <2> HIDE DEF new
  <2> QED  BY <1>1, <2>2, <2>3, <2>4
<1>3. ASSUME Deliver(r) \/ Lose(r)
      PROVE  /\ req[r].pc \in {"sent", "answer"} /\ req' \in [Requests -> Held]
             /\ \A q \in Requests \ {r} : req'[q] = req[q]
             /\ req'[r].pc = "idle" /\ req'[r].tok = NoCookies /\ req'[r].set = FALSE
             /\ UNCHANGED <<auth, disk, now, counters, faults, restarts, ended>>
  <2>1. Idle.pc = "idle" /\ Idle.tok = NoCookies /\ Idle.set = FALSE  BY DEF Idle
  <2>2. req' = [req EXCEPT ![r] = Idle] /\ req[r].pc \in {"sent", "answer"}
        /\ UNCHANGED <<auth, disk, now, counters, faults, restarts, ended>>
    BY <1>3 DEF Deliver, Lose
  <2> QED  BY <1>1, <2>1, <2>2, IdleTyped
<1> QED  BY <1>2, <1>3

\* After a restart only requests that were on their way are left.
LEMMA RestartGives ==
    ASSUME TypeOK, Restart
    PROVE  /\ req' \in [Requests -> Held] /\ jar' = jar /\ disk' = disk
           /\ \A r \in Requests :
                 \/ req[r].pc = "sent" /\ req'[r] = req[r]
                 \/ req[r].pc # "sent" /\ req'[r] = Idle
           /\ auth' \in Memory /\ auth'.sessions = Unexpired(disk.sessions)
           /\ auth'.account = disk.account /\ auth'.email = disk.email
           /\ Thinner(auth'.sessions, disk.sessions)
           /\ UNCHANGED <<now, counters, faults, ended>> /\ lost \subseteq lost'
           /\ \A r \in Requests : req[r].pc \notin {"idle", "sent"} => req[r].by \in lost'
<1>1. req \in [Requests -> Held]  BY DEF TypeOK, Held, Accounts
<1>2. req' \in [Requests -> Held]  BY <1>1, IdleTyped DEF Restart
<1>3. disk.sessions \in [Sids -> Sessions] /\ disk.account \in Accounts
      /\ disk.email \in 0 .. 2
  BY DEF TypeOK, Accounts
<1>4. /\ Unexpired(disk.sessions) \in [Sids -> Sessions]
      /\ Thinner(Unexpired(disk.sessions), disk.sessions)
  BY <1>3, WithoutGives DEF Unexpired
<1>5. [b \in Browsers |-> NoAttempts] \in [Browsers -> Attempts]  BY NoneTyped
<1>6. /\ auth' \in Memory /\ auth'.sessions = Unexpired(disk.sessions)
      /\ auth'.account = disk.account /\ auth'.email = disk.email
  BY <1>3, <1>4, <1>5 DEF Restart, Memory
<1> QED  BY <1>1, <1>2, <1>4, <1>6 DEF Restart

LEMMA TypeStep ==
    ASSUME SessionsInv, [Next]_vars
    PROVE  TypeOK'
<1> USE Ready
<1>1. ASSUME NEW r \in Requests, Handler(r)  PROVE TypeOK'
  <2>1. Typed /\ Effect(r) /\ OnlyRequest(r)
    BY <1>1, HandlerEffect DEF Effect, Calm, Dull, Issues, Begins, Ends
  <2>2. req'[r].set => req'[r].pc \in Handled
    BY <2>1 DEF Effect, Calm, Dull, Issues, Begins, Ends, Handled
  <2>3. req[r].pc # "idle"  BY <1>1, HandlerBusy
  <2>4. UNCHANGED <<jar, now, lost, restarts>>  BY <1>1, HandlerFrame
  <2>5. \A q \in Requests : req'[q].pc # "idle" => req'[q].by \in Browsers
    BY <2>1, <2>3 DEF TypeOK, OnlyRequest
  <2>6. \A q \in Requests : req'[q].set => req'[q].pc \in Handled
    BY <2>1, <2>2 DEF TypeOK, OnlyRequest
  <2>7. /\ opened' \in 0 .. MaxSessions /\ secrets' \in 0 .. MaxSecrets
        /\ faults' \in 0 .. MaxFaults
    BY <2>1, Counts DEF Typed
  <2> QED
    BY <2>1, <2>4, <2>5, <2>6, <2>7 DEF Typed, TypeOK, Memory, Held, Accounts
<1>2. ASSUME NEW r \in Requests, NEW b \in Browsers, Send(r, b)  PROVE TypeOK'
  <2>1. /\ req' \in [Requests -> Held] /\ req'[r].by = b /\ req'[r].set = FALSE
        /\ \A q \in Requests \ {r} : req'[q] = req[q]
        /\ UNCHANGED <<auth, disk, jar, now, counters, faults, history>>
    BY <1>2, NetworkGives
  <2> QED  BY <2>1 DEF TypeOK, Held, Accounts, counters, history
<1>3. ASSUME NEW r \in Requests, Deliver(r) \/ Lose(r)  PROVE TypeOK'
  <2>1. /\ req' \in [Requests -> Held] /\ req'[r].pc = "idle" /\ req'[r].set = FALSE
        /\ \A q \in Requests \ {r} : req'[q] = req[q]
        /\ req[r].pc \in {"sent", "answer"}
        /\ UNCHANGED <<auth, disk, now, counters, faults, restarts, ended>>
    BY <1>3, NetworkGives
  <2>2. req[r].by \in Browsers /\ req[r].tok \in Tokens  BY <2>1 DEF TypeOK
  <2>3. jar' \in [Browsers -> Tokens] /\ lost' \subseteq Browsers
    BY <1>3, <2>2 DEF Deliver, Lose, TypeOK
  <2> QED  BY <2>1, <2>3 DEF TypeOK, Held, Accounts, counters
<1>4. CASE Tick
  <2>1. now' \in 0 .. MaxTime  BY <1>4, AdminNumbers DEF Tick, TypeOK
  <2> QED  BY <1>4, <2>1 DEF Tick, TypeOK, counters, history
<1>5. CASE Restart
  <2>1. /\ \A r \in Requests : req'[r].pc # "idle" => req'[r].by \in Browsers
        /\ \A r \in Requests : req'[r].set => req'[r].pc \in Handled
    BY <1>5, RestartGives DEF TypeOK, Idle
  <2>2. lost' \subseteq Browsers  BY <1>5 DEF Restart, TypeOK
  <2>3. restarts' \in 0 .. MaxRestarts  BY <1>5, AdminNumbers DEF Restart, TypeOK
  <2> QED
    BY <1>5, <2>1, <2>2, <2>3, RestartGives
    DEF TypeOK, Held, Memory, Accounts, counters
<1>6. CASE UNCHANGED vars  BY <1>6 DEF vars, counters, history, TypeOK
<1> QED  BY <1>1, <1>2, <1>3, <1>4, <1>5, <1>6 DEF Next

\* A step is a handler's, or leaves the state of AdminAuth alone, or is a restart.
Around ==
    /\ UNCHANGED <<auth, disk, opened, secrets, faults, ended>>
    /\ now' \in {now, now + 1}
    /\ \A r \in Requests : req'[r].pc = "changing" <=> req[r].pc = "changing"
    /\ \A r \in Requests : req'[r].pc = "changing" => req'[r] = req[r]
    /\ lost \subseteq lost'
    /\ \A r \in Requests : req'[r] = req[r] \/
          (~req'[r].set /\ \E b \in Browsers :
              req'[r].by = b /\ req'[r].tok = jar[b]) \/ req'[r] = Idle
    /\ \A b \in Browsers : jar'[b] = jar[b] \/ \E r \in Requests :
          req[r].by = b /\ req[r].pc = "answer" /\ jar'[b] = req[r].tok

LEMMA AroundGives ==
    ASSUME TypeOK, [Next]_vars
    PROVE  Around \/ Restart \/ \E r \in Requests : Handler(r)
<1>1. ASSUME NEW r \in Requests, NEW b \in Browsers, Send(r, b)  PROVE Around
  <2>1. /\ req[r].pc = "idle" /\ req'[r].pc = "sent" /\ req'[r].set = FALSE
        /\ req'[r].by = b /\ req'[r].tok = jar[b]
        /\ \A q \in Requests \ {r} : req'[q] = req[q]
        /\ UNCHANGED <<auth, disk, jar, now, counters, faults, history>>
    BY <1>1, NetworkGives
  <2>2. ~req'[r].set  BY <2>1
  <2>3. \A q \in Requests : req'[q] = req[q] \/
          (~req'[q].set /\ \E c \in Browsers : req'[q].by = c /\ req'[q].tok = jar[c])
    BY <2>1, <2>2
  <2> QED  BY <2>1, <2>3 DEF Around, counters, history
<1>2. ASSUME NEW r \in Requests, Deliver(r) \/ Lose(r)  PROVE Around
  <2>1. /\ req'[r].pc = "idle" /\ req' = [req EXCEPT ![r] = Idle]
        /\ \A q \in Requests \ {r} : req'[q] = req[q]
        /\ req[r].pc \in {"sent", "answer"}
        /\ UNCHANGED <<auth, disk, now, counters, faults, restarts, ended>>
    BY <1>2, NetworkGives DEF Deliver, Lose
  <2>2. req'[r] = Idle  BY <2>1 DEF TypeOK
  <2>3. /\ lost \subseteq lost'
        /\ \A b \in Browsers : jar'[b] = jar[b] \/
              (req[r].by = b /\ req[r].pc = "answer" /\ jar'[b] = req[r].tok)
    BY <1>2 DEF Deliver, Lose, TypeOK
  <2> QED  BY <2>1, <2>2, <2>3 DEF Around, counters
<1>3. CASE Tick \/ UNCHANGED vars
  BY <1>3 DEF Tick, vars, Around, counters, history
<1> QED  BY <1>1, <1>2, <1>3 DEF Next

LEMMA DrawnStep ==
    ASSUME SessionsInv, [Next]_vars
    PROVE  Drawn'
<1> USE Ready, Counts DEF SessionsInv
<1>1. CASE Around
  <2>1. Idle.tok.sid = 0 /\ Idle.tok.gen = 0  BY DEF Idle, NoCookies
  <2>2. \A r \in Requests : req'[r].tok.sid <= opened /\ req'[r].tok.gen <= secrets
    BY <1>1, <2>1 DEF Around, Drawn
  <2>3. \A b \in Browsers : jar'[b].sid <= opened /\ jar'[b].gen <= secrets
    BY <1>1 DEF Around, Drawn
  <2> QED  BY <1>1, <2>2, <2>3 DEF Around, Drawn
<1>2. CASE Restart
  <2>1. Idle.tok.sid = 0 /\ Idle.tok.gen = 0  BY DEF Idle, NoCookies
  <2>2. \A r \in Requests : req'[r].tok.sid <= opened /\ req'[r].tok.gen <= secrets
    BY <1>2, <2>1, RestartGives DEF Drawn
  <2>3. /\ Live(auth'.sessions) \subseteq Live(disk.sessions)
        /\ \A s \in Sids : auth'.sessions[s].gen <= secrets
    BY <1>2, RestartGives DEF Drawn, Thinner, Live, NoSession
  <2>4. auth'.account <= secrets  BY <1>2, RestartGives DEF Drawn, SameCredential
  <2>5. UNCHANGED <<disk, jar, opened, secrets, ended>>
    BY <1>2, RestartGives DEF counters
  <2> QED  BY <2>2, <2>3, <2>4, <2>5 DEF Drawn
<1>3. ASSUME NEW r \in Requests, Handler(r)  PROVE Drawn'
  <2>1. jar' = jar /\ Typed /\ Effect(r)  BY <1>3, HandlerFrame, HandlerEffect
  <2>2. opened <= opened' /\ secrets <= secrets' /\ opened' \in Nat /\ secrets' \in Nat
    BY <2>1, AdminNumbers DEF Typed
  <2>3. \A b \in Browsers : jar'[b].sid <= opened' /\ jar'[b].gen <= secrets'
    BY <2>1, <2>2 DEF Drawn
  <2>4. ASSUME /\ auth'.account <= secrets' /\ req'[r].tok.sid <= opened'
               /\ req'[r].tok.gen <= secrets' /\ OnlyRequest(r)
               /\ ended' \subseteq 1 .. opened'
               /\ \A s \in Sids :
                     /\ auth'.sessions[s].gen <= secrets' /\ disk'.sessions[s].gen <= secrets'
                     /\ auth'.sessions[s].gen # 0 => s <= opened'
                     /\ disk'.sessions[s].gen # 0 => s <= opened'
        PROVE  Drawn'
    <3>1. \A q \in Requests : req'[q].tok.sid <= opened' /\ req'[q].tok.gen <= secrets'
      BY <2>2, <2>4 DEF Drawn, OnlyRequest
    <3>2. Live(auth'.sessions) \cup Live(disk'.sessions) \subseteq 1 .. opened'
      BY <2>2, <2>4 DEF Live, Sids
    <3> QED  BY <2>3, <2>4, <3>1, <3>2 DEF Drawn
  <2>5. \A s \in Sids : /\ auth.sessions[s].gen # 0 => s <= opened
                        /\ disk.sessions[s].gen # 0 => s <= opened
    BY DEF Drawn, Live
  <2>6. NoSession.gen = 0 /\ ended \subseteq 1 .. opened  BY DEF NoSession, Drawn
  <2>7. CASE Calm(r)
    <3>1. \A s \in Sids : /\ auth'.sessions[s] = auth.sessions[s] \/ auth'.sessions[s].gen = 0
                          /\ \/ disk'.sessions[s] = auth'.sessions[s]
                             \/ disk'.sessions[s] = disk.sessions[s]
      BY <2>6, <2>7 DEF Calm, Thinner
    <3>2. /\ auth'.account = auth.account /\ OnlyRequest(r)
          /\ req'[r].tok.sid \in {0, req[r].tok.sid} /\ req'[r].tok.gen <= req[r].tok.gen
          /\ ended' \subseteq ended \cup (1 .. opened) /\ req'[r].tok.gen \in Int
      BY <2>1, <2>7, AdminNumbers DEF Calm, Dull, Typed, Held, Tokens
    <3> QED  BY <2>2, <2>4, <2>5, <2>6, <3>1, <3>2 DEF Drawn
  <2>8. ASSUME NEW s \in Sids, Issues(r, s)  PROVE Drawn'
    <3>1. \A t \in Sids \ {s} :
             auth'.sessions[t] = auth.sessions[t] \/ auth'.sessions[t].gen = 0
      BY <2>6, <2>8 DEF Issues
    <3>2. /\ s <= opened' /\ auth'.sessions[s].gen = secrets'
          /\ disk'.sessions = auth'.sessions /\ auth'.account = auth.account
          /\ OnlyRequest(r) /\ ended' = ended
          /\ req'[r].tok.sid = s /\ req'[r].tok.gen = secrets'
      BY <2>5, <2>8 DEF Issues, Live
    <3> QED  BY <2>2, <2>4, <2>5, <2>6, <3>1, <3>2 DEF Drawn
  <2>9. CASE Begins(r)
    <3>1. \A s \in Sids : disk'.sessions[s].gen # 0 =>
             auth.sessions[s].gen # 0 /\ disk'.sessions[s].gen = secrets'
      BY <2>9 DEF Begins, Live
    <3>2. /\ auth' = auth /\ ended' = ended /\ OnlyRequest(r)
          /\ req'[r].tok = req[r].tok
      BY <2>9 DEF Begins
    <3> QED  BY <2>2, <2>4, <2>5, <2>6, <3>1, <3>2 DEF Drawn
  <2>10. CASE Ends(r)
    <3>1. /\ auth'.sessions = disk.sessions /\ disk'.sessions = disk.sessions
          /\ auth'.account = req[r].account /\ req[r].account < secrets
          /\ OnlyRequest(r) /\ ended' \subseteq ended \cup Live(auth.sessions)
          /\ opened' = opened /\ secrets' = secrets
      BY <2>10 DEF Ends, OnlyOwnChanges
    <3>2. req'[r].tok.sid <= opened /\ req'[r].tok.gen <= secrets
      <4>1. CASE Dull(r)
        <5>1. req'[r].tok.gen \in Int  BY <2>1, AdminNumbers DEF Typed, Held, Tokens
        <5> QED  BY <4>1, <5>1 DEF Dull, Drawn
      <4>2. CASE /\ Own(r) \in Live(disk.sessions)
                 /\ req'[r].tok.sid = Own(r)
                 /\ req'[r].tok.gen = disk.sessions[Own(r)].gen
        BY <2>5, <4>2 DEF Drawn, Live
      <4> QED  BY <2>10, <4>1, <4>2 DEF Ends
    <3>3. ended' \subseteq 1 .. opened'  BY <3>1 DEF Drawn
    <3> QED  BY <2>4, <2>5, <3>1, <3>2, <3>3 DEF Drawn
  <2> QED  BY <2>1, <2>7, <2>8, <2>9, <2>10 DEF Effect
<1> QED  BY <1>1, <1>2, <1>3, AroundGives

\* A session that a user was told is over stays away.
LEMMA EndedStep ==
    ASSUME SessionsInv, [Next]_vars
    PROVE  EndedStaysEnded'
<1> USE Ready, Counts DEF SessionsInv
<1>1. CASE Around  BY <1>1 DEF Around, EndedStaysEnded
<1>2. CASE Restart
  <2>1. Live(auth'.sessions) \subseteq Live(disk.sessions)
    BY <1>2, RestartGives DEF Thinner, Live, NoSession
  <2>2. disk' = disk /\ ended' = ended  BY <1>2, RestartGives
  <2> QED  BY <2>1, <2>2 DEF EndedStaysEnded
<1>3. ASSUME NEW r \in Requests, Handler(r)  PROVE EndedStaysEnded'
  <2>1. CASE Calm(r)  BY <2>1 DEF Calm, EndedStaysEnded
  <2>2. ASSUME NEW s \in Sids, Issues(r, s)  PROVE EndedStaysEnded'
    <3>1. s \notin ended
      BY <2>2 DEF Issues, EndedStaysEnded, Drawn
    <3>2. Live(auth'.sessions) \subseteq Live(auth.sessions) \cup {s}
      BY <2>2 DEF Issues, Live, NoSession
    <3>3. Live(disk'.sessions) = Live(auth'.sessions) /\ ended' = ended
      BY <2>2 DEF Issues
    <3> QED  BY <3>1, <3>2, <3>3 DEF EndedStaysEnded
  <2>3. CASE Begins(r)
    <3>1. Live(disk'.sessions) \subseteq Live(auth.sessions)  BY <2>3 DEF Begins
    <3> QED  BY <2>3, <3>1 DEF Begins, EndedStaysEnded
  <2>4. CASE Ends(r)  BY <2>4 DEF Ends, EndedStaysEnded
  <2> QED  BY <1>3, <2>1, <2>2, <2>3, <2>4, HandlerEffect DEF Effect
<1> QED  BY <1>1, <1>2, <1>3, AroundGives

\* Memory and the file have one account, and one set of sessions.
LEMMA FileStep ==
    ASSUME SessionsInv, [Next]_vars
    PROVE  SameCredential' /\ SessionsInFile'
<1> USE Ready, Counts DEF SessionsInv
<1>1. CASE Around
  <2>1. SameCredential'  BY <1>1 DEF Around, SameCredential
  <2>2. ASSUME faults' < 2, \A r \in Requests : req'[r].pc # "changing",
               NEW s \in Live(auth'.sessions), now' < auth'.sessions[s].exp
        PROVE  disk'.sessions[s] = auth'.sessions[s]
    <3>1. /\ faults < 2 /\ \A r \in Requests : req[r].pc # "changing"
          /\ s \in Live(auth.sessions) /\ s \in Sids /\ auth' = auth /\ disk' = disk
      BY <1>1, <2>2 DEF Around, Live
    <3>2. auth.sessions[s].exp \in Int
      BY <3>1, AdminNumbers DEF Memory, Sessions
    <3>3. now < auth.sessions[s].exp  BY <1>1, <2>2, <3>1, <3>2 DEF Around
    <3> QED  BY <3>1, <3>3 DEF SessionsInFile
  <2> QED  BY <2>1, <2>2 DEF SessionsInFile
<1>2. CASE Restart
  <2>1. SameCredential'  BY <1>2, RestartGives DEF SameCredential
  <2>2. ASSUME NEW s \in Live(auth'.sessions)
        PROVE  disk'.sessions[s] = auth'.sessions[s]
    BY <1>2, RestartGives DEF Thinner, Live, NoSession
  <2> QED  BY <2>1, <2>2 DEF SessionsInFile
<1>3. ASSUME NEW r \in Requests, Handler(r)  PROVE SameCredential' /\ SessionsInFile'
  <2>1. now' = now /\ Typed  BY <1>3, HandlerFrame, HandlerEffect
  <2>2. CASE Calm(r)
    <3>1. SameCredential'  BY <2>2 DEF Calm
    <3>2. ASSUME faults' < 2, NEW s \in Live(auth'.sessions),
                 now' < auth'.sessions[s].exp
          PROVE  disk'.sessions[s] = auth'.sessions[s]
      <4>1. CASE disk'.sessions = auth'.sessions  BY <4>1
      <4>2. CASE disk'.sessions = disk.sessions /\ Unlocked
        <5>1. s \in Live(auth.sessions) /\ auth'.sessions[s] = auth.sessions[s]
          BY <2>2 DEF Calm, Thinner, Live, NoSession
        <5>2. faults < 2  BY <2>1, <3>2, AdminNumbers DEF Typed
        <5> QED  BY <2>1, <3>2, <4>2, <5>1, <5>2 DEF SessionsInFile, Unlocked
      <4>3. ~(faults' > 1)  BY <2>1, <3>2, AdminNumbers DEF Typed
      <4> QED  BY <2>2, <4>1, <4>2, <4>3 DEF Calm
    <3> QED  BY <3>1, <3>2 DEF SessionsInFile
  <2>3. CASE \E s \in Sids : Issues(r, s)
    BY <2>3 DEF Issues, SessionsInFile
  <2>4. CASE Begins(r)
    BY <2>4 DEF Begins, SessionsInFile, SameCredential
  <2>5. CASE Ends(r)
    BY <2>5 DEF Ends, SessionsInFile
  <2> QED  BY <1>3, <2>2, <2>3, <2>4, <2>5, HandlerEffect DEF Effect
<1> QED  BY <1>1, <1>2, <1>3, AroundGives

\* One change of credentials at a time, and its secrets are nobody's yet.
LEMMA ChangesStep ==
    ASSUME SessionsInv, [Next]_vars
    PROVE  OnlyOwnChanges'
<1> USE Ready, Counts DEF SessionsInv
<1>1. CASE Around
  <2>1. Idle.tok.gen = 0  BY DEF Idle, NoCookies
  <2> SUFFICES ASSUME NEW r \in Requests, req'[r].pc = "changing"
               PROVE  /\ \A q \in Requests : req'[q].pc = "changing" => q = r
                      /\ auth'.account < req'[r].account /\ req'[r].account < secrets'
                      /\ \A b \in Browsers : jar'[b].gen < secrets'
                      /\ \A q \in Requests : req'[q].tok.gen < secrets'
                      /\ \A s \in Live(disk'.sessions) :
                            /\ s = req'[r].tok.sid
                            /\ disk'.sessions[s].gen = secrets'
                            /\ disk'.sessions[s].account = req'[r].account
    BY DEF OnlyOwnChanges, Own
  <2>2. /\ req[r].pc = "changing" /\ req'[r] = req[r]
        /\ UNCHANGED <<auth, disk, secrets>>
        /\ \A q \in Requests : req'[q].pc = "changing" => req[q].pc = "changing"
    BY <1>1 DEF Around
  <2>3. /\ \A q \in Requests : req[q].pc = "changing" => q = r
        /\ auth.account < req[r].account /\ req[r].account < secrets
        /\ \A b \in Browsers : jar[b].gen < secrets
        /\ \A q \in Requests : req[q].tok.gen < secrets
        /\ \A s \in Live(disk.sessions) :
              s = req[r].tok.sid /\ disk.sessions[s].gen = secrets
                                 /\ disk.sessions[s].account = req[r].account
    BY <2>2 DEF OnlyOwnChanges, Own
  <2>4. 0 < secrets  BY <2>3
  <2>5. \A q \in Requests : req'[q].tok.gen < secrets
    BY <1>1, <2>1, <2>3, <2>4 DEF Around
  <2>6. \A b \in Browsers : jar'[b].gen < secrets
    BY <1>1, <2>3 DEF Around
  <2> QED  BY <2>2, <2>3, <2>5, <2>6
<1>2. CASE Restart
  BY <1>2, RestartGives DEF OnlyOwnChanges, Idle
<1>3. ASSUME NEW r \in Requests, Handler(r)  PROVE OnlyOwnChanges'
  <2>1. \A q \in Requests \ {r} : req[q].pc # "changing"
    BY <1>3, HandlerBusy DEF Unlocked, OnlyOwnChanges
  <2>2. CASE Begins(r)
    <3>1. \A q \in Requests \ {r} : req'[q].pc # "changing" /\ req'[q] = req[q]
      BY <2>1, <2>2 DEF Begins, OnlyRequest
    <3>2. /\ auth' = auth /\ secrets' = secrets + 2 /\ req'[r].account = secrets + 1
          /\ req'[r].tok = req[r].tok /\ jar' = jar
      BY <1>3, <2>2, HandlerFrame DEF Begins
    <3>3. \A q \in Requests : req'[q].tok.gen < secrets'
      BY <3>1, <3>2 DEF Drawn
    <3>4. \A b \in Browsers : jar'[b].gen < secrets'  BY <3>2 DEF Drawn
    <3>5. auth'.account < req'[r].account /\ req'[r].account < secrets'
      BY <3>2 DEF Drawn
    <3>6. \A s \in Live(disk'.sessions) :
             /\ s = req'[r].tok.sid /\ disk'.sessions[s].gen = secrets'
             /\ disk'.sessions[s].account = req'[r].account
      BY <2>2, <3>2 DEF Begins, Own
    <3> QED  BY <3>1, <3>3, <3>4, <3>5, <3>6 DEF OnlyOwnChanges, Own
  <2>3. CASE ~Begins(r)
    <3>1. OnlyRequest(r) /\ req'[r].pc # "changing"
      BY <1>3, <2>3, HandlerEffect DEF Effect, Calm, Dull, Issues, Ends
    <3> QED  BY <2>1, <3>1 DEF OnlyRequest, OnlyOwnChanges
  <2> QED  BY <2>2, <2>3
<1> QED  BY <1>1, <1>2, <1>3, AroundGives

\* Who has cookies of a session after a step.
LEMMA HasBefore ==
    ASSUME SessionsInv, [Next]_vars, NEW s \in Sids, NEW b \in Browsers, Has(b, s)'
    PROVE  \/ Has(b, s)
           \/ s = opened + 1 /\ \E r \in Requests : Issues(r, s) /\ req[r].by = b
<1> USE Ready, Counts
<1>0. jar'[b].sid = s \/ \E q \in Requests : req'[q].by = b /\ req'[q].tok.sid = s
  BY DEF Has
<1>1. s # 0 /\ Idle.tok.sid = 0  BY DEF Idle, NoCookies
<1>2. CASE Around  BY <1>0, <1>1, <1>2 DEF Around, Has
<1>3. CASE Restart  BY <1>0, <1>1, <1>3, RestartGives DEF Has
<1>4. ASSUME NEW r \in Requests, Handler(r)
      PROVE  Has(b, s) \/ (s = opened + 1 /\ Issues(r, s) /\ req[r].by = b)
  <2>1. jar' = jar /\ Effect(r)  BY <1>4, HandlerFrame, HandlerEffect
  <2>2. OnlyRequest(r)  BY <2>1 DEF Effect, Calm, Dull, Issues, Begins, Ends
  <2>3. CASE jar[b].sid = s \/ \E q \in Requests \ {r} :
                 req'[q].by = b /\ req'[q].tok.sid = s
    BY <2>2, <2>3 DEF Has, OnlyRequest
  <2>4. CASE req'[r].by = b /\ req'[r].tok.sid = s
    <3>1. req[r].by = b  BY <2>2, <2>4 DEF OnlyRequest
    <3>2. \/ req'[r].tok.sid \in {0, req[r].tok.sid}
          \/ \E t \in Sids : Issues(r, t) /\ req'[r].tok.sid = t
      BY <2>1 DEF Effect, Calm, Dull, Issues, Begins, Ends, Own
    <3>3. CASE req'[r].tok.sid \in {0, req[r].tok.sid}
      BY <1>1, <2>4, <3>1, <3>3 DEF Has
    <3>4. CASE Issues(r, s)
      <4>1. s = req[r].tok.sid \/ s = opened + 1  BY <3>4 DEF Issues
      <4> QED  BY <3>1, <3>4, <4>1 DEF Has
    <3> QED  BY <2>4, <3>2, <3>3, <3>4
  <2> QED  BY <1>0, <2>1, <2>3, <2>4
<1> QED  BY <1>2, <1>3, <1>4, AroundGives

LEMMA OwnerStep ==
    ASSUME SessionsInv, [Next]_vars
    PROVE  OneOwner'
<1> USE Ready, Counts DEF SessionsInv
<1> SUFFICES ASSUME NEW s \in Sids, NEW b \in Browsers, NEW c \in Browsers,
                    Has(b, s)', Has(c, s)'
             PROVE  b = c
  BY DEF OneOwner, Has
<1>1. \A d \in Browsers : s = opened + 1 => ~Has(d, s)  BY DEF Drawn, Has
<1>2. \A q, r \in Requests : Issues(q, s) /\ Issues(r, s) => q = r
  <2> SUFFICES ASSUME NEW q \in Requests, NEW r \in Requests, q # r,
                      Issues(q, s), Issues(r, s)
               PROVE  FALSE
    OBVIOUS
  <2>1. req'[q] = req[q] /\ req'[q].set /\ ~req[q].set
    BY DEF Issues, OnlyRequest
  <2> QED  BY <2>1
<1>3. /\ Has(b, s) \/ (s = opened + 1 /\ \E r \in Requests : Issues(r, s) /\ req[r].by = b)
      /\ Has(c, s) \/ (s = opened + 1 /\ \E r \in Requests : Issues(r, s) /\ req[r].by = c)
  BY HasBefore
<1> QED  BY <1>1, <1>2, <1>3 DEF OneOwner

\* A response that carries cookies did so before, unless its secrets are new.
LEMMA CarriesBefore ==
    ASSUME SessionsInv, [Next]_vars, NEW q \in Requests, Carries(q)'
    PROVE  \/ Carries(q) /\ req'[q] = req[q]
           \/ Carries(q) /\ Handler(q) /\ req'[q].tok = req[q].tok /\ req'[q].by = req[q].by
           \/ Handler(q) /\ req'[q].tok.gen = secrets' /\ req'[q].by = req[q].by
              /\ \A r \in Requests : req[r].tok.gen < secrets'
              /\ \A b \in Browsers : jar[b].gen < secrets'
<1> USE Ready, Counts DEF SessionsInv
<1>0. req'[q].set /\ req'[q].tok.sid # 0 /\ Idle.set = FALSE  BY DEF Carries, Idle
<1>1. CASE Around  BY <1>0, <1>1 DEF Around, Carries
<1>2. CASE Restart  BY <1>0, <1>2, RestartGives DEF Carries
<1>3. ASSUME NEW r \in Requests, Handler(r), r # q  PROVE Carries(q) /\ req'[q] = req[q]
  <2>1. req'[q] = req[q]
    BY <1>3, HandlerEffect DEF Effect, Calm, Dull, Issues, Begins, Ends, OnlyRequest
  <2> QED  BY <1>0, <2>1 DEF Carries
<1>4. CASE Handler(q)
  <2>1. Effect(q)  BY <1>4, HandlerEffect
  <2>2. req'[q].by = req[q].by
    BY <2>1 DEF Effect, Calm, Dull, Issues, Begins, Ends, OnlyRequest
  <2>3. CASE Dull(q)  BY <1>0, <1>4, <2>2, <2>3 DEF Dull, Carries
  <2>4. ASSUME NEW s \in Sids, Issues(q, s)
        PROVE  req'[q].tok.gen = secrets' /\ secrets' = secrets + 1
    BY <2>4 DEF Issues
  <2>5. CASE \E s \in Sids : Issues(q, s)  BY <1>4, <2>2, <2>4, <2>5 DEF Drawn
  <2>6. CASE Begins(q)  BY <1>0, <1>4, <2>2, <2>6 DEF Begins, Carries
  <2>7. CASE Ends(q) /\ ~Dull(q)
    <3>1. /\ Own(q) \in Live(disk.sessions) /\ secrets' = secrets
          /\ req'[q].tok.gen = disk.sessions[Own(q)].gen /\ req[q].pc = "changing"
      BY <2>7 DEF Ends
    <3> QED  BY <1>4, <2>2, <3>1 DEF OnlyOwnChanges
  <2> QED  BY <2>1, <2>3, <2>5, <2>6, <2>7 DEF Effect, Calm
<1> QED  BY <1>1, <1>2, <1>3, <1>4, AroundGives

\* Cookies reach a browser in the order in which they were issued, or it is lost.
LEMMA NewerStep ==
    ASSUME SessionsInv, [Next]_vars
    PROVE  Newer'
<1> USE Ready, Counts DEF SessionsInv
<1>1. ASSUME NEW q \in Requests, NEW r \in Requests, Carries(q)', Carries(r)',
             req'[q].tok.gen = req'[r].tok.gen
      PROVE  q = r
  <2> SUFFICES ASSUME q # r PROVE FALSE  OBVIOUS
  <2>1. \/ Carries(q) /\ req'[q].tok = req[q].tok
        \/ /\ req'[q].tok.gen = secrets' /\ req'[r] = req[r]
           /\ \A p \in Requests : req[p].tok.gen < secrets'
    <3>1. Handler(q) => req'[r] = req[r]
      BY HandlerEffect DEF Effect, Calm, Dull, Issues, Begins, Ends, OnlyRequest
    <3> QED  BY <1>1, <3>1, CarriesBefore
  <2>2. \/ Carries(r) /\ req'[r].tok = req[r].tok
        \/ /\ req'[r].tok.gen = secrets' /\ req'[q] = req[q]
           /\ \A p \in Requests : req[p].tok.gen < secrets'
    <3>1. Handler(r) => req'[q] = req[q]
      BY HandlerEffect DEF Effect, Calm, Dull, Issues, Begins, Ends, OnlyRequest
    <3> QED  BY <1>1, <3>1, CarriesBefore
  <2>3. req[q].tok.gen \in Nat /\ req[r].tok.gen \in Nat  OBVIOUS
  <2> QED  BY <1>1, <2>1, <2>2, <2>3 DEF Newer
<1>2. ASSUME NEW q \in Requests, Carries(q)', req'[q].by \notin lost'
      PROVE  jar'[req'[q].by].gen < req'[q].tok.gen
  <2>1. req'[q].by \in Browsers
    <3>1. TypeOK'  BY TypeStep
    <3>2. req'[q].set  BY <1>2 DEF Carries
    <3> QED  BY <3>1, <3>2 DEF TypeOK, Handled
  <2>2. CASE jar' = jar /\ lost \subseteq lost'
    BY <1>2, <2>1, <2>2, CarriesBefore DEF Newer
  <2>3. ASSUME NEW r \in Requests, Deliver(r)
        PROVE  jar'[req'[q].by].gen < req'[q].tok.gen
    <3>1. /\ req'[r].set = FALSE /\ \A p \in Requests \ {r} : req'[p] = req[p]
          /\ req[r].pc = "answer"
      BY <2>3, NetworkGives DEF Deliver
    <3>2. q # r /\ req'[q] = req[q] /\ Carries(q)  BY <1>2, <3>1 DEF Carries
    <3> DEFINE b == req[q].by
    <3>3. b \notin lost /\ b \in Browsers /\ jar[b].gen < req[q].tok.gen
      <4>1. lost \subseteq lost'  BY <2>3 DEF Deliver
      <4> QED  BY <1>2, <2>1, <3>2, <4>1 DEF Newer
    <3>4. CASE req[r].set /\ req[r].by = b
      <4>1. ~Overtakes(r)
        BY <1>2, <2>3, <3>2, <3>4 DEF Deliver
      <4>2. req[r].tok.sid # 0 /\ ~(req[q].tok.gen < req[r].tok.gen)
        BY <3>2, <3>4, <4>1 DEF Overtakes, Carries
      <4>3. req[q].tok.gen # req[r].tok.gen
        BY <3>2, <3>4, <4>2 DEF Newer, Carries
      <4>4. jar'[b] = req[r].tok  BY <2>3, <3>3, <3>4 DEF Deliver, TypeOK
      <4> QED  BY <3>2, <4>2, <4>3, <4>4
    <3>5. CASE ~(req[r].set /\ req[r].by = b)
      <4>1. jar'[b] = jar[b]  BY <2>3, <3>3, <3>5 DEF Deliver, TypeOK
      <4> QED  BY <3>2, <3>3, <4>1
    <3> QED  BY <3>4, <3>5
  <2>4. (jar' = jar /\ lost \subseteq lost') \/ \E r \in Requests : Deliver(r)
    <3>1. \A r \in Requests : Handler(r) => jar' = jar /\ lost' = lost
      BY HandlerFrame
    <3>2. Restart => jar' = jar /\ lost \subseteq lost'  BY RestartGives
    <3>3. \A r \in Requests, b \in Browsers : Send(r, b) => jar' = jar /\ lost' = lost
      BY DEF Send, history
    <3>4. \A r \in Requests : Lose(r) => jar' = jar /\ lost \subseteq lost'
      BY DEF Lose
    <3>5. Tick \/ UNCHANGED vars => jar' = jar /\ lost' = lost
      BY DEF Tick, vars, history
    <3> QED  BY <3>1, <3>2, <3>3, <3>4, <3>5 DEF Next
  <2> QED  BY <2>2, <2>3, <2>4
<1> QED  BY <1>1, <1>2 DEF Newer

\* Holds and NewestHeld after a step
HoldsNext(b, s, g) ==
    \/ jar'[b].sid = s /\ jar'[b].gen = g
    \/ \E r \in Requests :
          /\ req'[r].set /\ req'[r].tok.sid # 0
          /\ req'[r].by = b /\ req'[r].tok.sid = s /\ req'[r].tok.gen = g
NewestNext(sessions, account) ==
    \A b \in Browsers \ lost', s \in Live(sessions), g \in Accounts :
       sessions[s].account = account /\ HoldsNext(b, s, g) =>
          g <= sessions[s].gen /\ HoldsNext(b, s, sessions[s].gen)

LEMMA NewestPrimed ==
    /\ NewestNext(auth'.sessions, auth'.account)
          => NewestHeld(auth.sessions, auth.account)'
    /\ NewestNext(disk'.sessions, disk'.account)
          => NewestHeld(disk.sessions, disk.account)'
BY DEF NewestNext, NewestHeld, HoldsNext, Holds, Carries, Accounts, Live

\* Browser b gets no other secrets of session s, and keeps the newest if it keeps any.
Passes(b, s) ==
    /\ \A g \in Accounts : HoldsNext(b, s, g) => Holds(b, s, g)
    /\ \A g, n \in Accounts :
          /\ HoldsNext(b, s, g) /\ Holds(b, s, n)
          /\ \A h \in Accounts : Holds(b, s, h) => h <= n
          => HoldsNext(b, s, n)

LEMMA HeldOn ==
    ASSUME NEW old \in [Sids -> Sessions], NEW account, NewestHeld(old, account),
           NEW new \in [Sids -> Sessions], Thinner(new, old), lost \subseteq lost',
           \A b \in Browsers \ lost', s \in Live(new) : Passes(b, s)
    PROVE  NewestNext(new, account)
<1> SUFFICES ASSUME NEW b \in Browsers \ lost', NEW s \in Live(new), NEW g \in Accounts,
                    new[s].account = account, HoldsNext(b, s, g)
             PROVE  g <= new[s].gen /\ HoldsNext(b, s, new[s].gen)
  BY DEF NewestNext
<1>1. s \in Live(old) /\ new[s] = old[s] /\ b \in Browsers \ lost
  BY DEF Thinner, Live, NoSession
<1>2. new[s].gen \in Accounts  BY DEF Live, Sessions, Accounts
<1>3. Passes(b, s)  OBVIOUS
<1>4. Holds(b, s, g)  BY <1>3 DEF Passes
<1>5. \A h \in Accounts : Holds(b, s, h) => h <= new[s].gen /\ Holds(b, s, new[s].gen)
  BY <1>1 DEF NewestHeld, Accounts
<1> QED  BY <1>2, <1>3, <1>4, <1>5 DEF Passes

\* The same jars and the same responses
LEMMA PassesIf ==
    ASSUME NEW b, NEW s, \A g \in Accounts : HoldsNext(b, s, g) <=> Holds(b, s, g)
    PROVE  Passes(b, s)
BY DEF Passes

LEMMA DeliverPasses ==
    ASSUME SessionsInv, NEW r \in Requests, Deliver(r),
           NEW b \in Browsers \ lost', NEW s \in Sids
    PROVE  Passes(b, s)
<1> USE Ready, Counts DEF SessionsInv
<1>1. /\ req'[r].set = FALSE /\ \A q \in Requests \ {r} : req'[q] = req[q]
      /\ req[r].pc = "answer" /\ s # 0 /\ b \notin lost /\ lost \subseteq lost'
  BY NetworkGives DEF Deliver
<1>2. CASE req[r].set /\ req[r].by = b
  <2>1. jar'[b] = req[r].tok  BY <1>2 DEF Deliver, TypeOK
  <2>2. \A g : HoldsNext(b, s, g) =>
           \/ req[r].tok.sid = s /\ req[r].tok.gen = g
           \/ \E q \in Requests \ {r} :
                 Carries(q) /\ req[q].by = b /\ req[q].tok.sid = s /\ req[q].tok.gen = g
    BY <1>1, <2>1 DEF HoldsNext, Carries
  <2>3. \A g : HoldsNext(b, s, g) => Holds(b, s, g)
    BY <1>1, <1>2, <2>2 DEF Holds, Carries
  <2>4. ASSUME NEW g \in Accounts, NEW n \in Accounts, HoldsNext(b, s, g),
               Holds(b, s, n), \A h \in Accounts : Holds(b, s, h) => h <= n
        PROVE  HoldsNext(b, s, n)
    <3>1. CASE \E q \in Requests :
                  Carries(q) /\ req[q].by = b /\ req[q].tok.sid = s /\ req[q].tok.gen = n
      <4>1. PICK q \in Requests :
                  Carries(q) /\ req[q].by = b /\ req[q].tok.sid = s /\ req[q].tok.gen = n
        BY <3>1
      <4>2. CASE q = r  BY <2>1, <4>1, <4>2 DEF HoldsNext
      <4>3. CASE q # r  BY <1>1, <4>1, <4>3 DEF HoldsNext, Carries
      <4> QED  BY <4>2, <4>3
    <3>2. CASE jar[b].sid = s /\ jar[b].gen = n
      <4>1. PICK q \in Requests :
                  Carries(q) /\ req[q].by = b /\ req[q].tok.gen = g
        BY <1>1, <1>2, <2>2, <2>4 DEF Carries
      <4>2. jar[b].gen < req[q].tok.gen  BY <1>1, <4>1 DEF Newer
      <4>3. g <= n  BY <2>3, <2>4
      <4>4. g \in Nat /\ n \in Nat  BY AdminNumbers DEF Accounts
      <4> QED  BY <3>2, <4>1, <4>2, <4>3, <4>4
    <3> QED  BY <2>4, <3>1, <3>2 DEF Holds
  <2> QED  BY <2>3, <2>4 DEF Passes
<1>3. CASE ~(req[r].set /\ req[r].by = b)
  <2>1. jar'[b] = jar[b]  BY <1>3 DEF Deliver, TypeOK
  <2>2. \A g \in Accounts : HoldsNext(b, s, g) <=> Holds(b, s, g)
    BY <1>1, <1>3, <2>1 DEF HoldsNext, Holds, Carries
  <2> QED  BY <2>2, PassesIf
<1> QED  BY <1>2, <1>3

LEMMA NetworkPasses ==
    ASSUME SessionsInv, [Next]_vars, ~(\E r \in Requests : Handler(r)),
           NEW b \in Browsers \ lost', NEW s \in Sids
    PROVE  Passes(b, s)
<1> USE Ready, Counts DEF SessionsInv
<1>1. ASSUME NEW r \in Requests, NEW c \in Browsers, Send(r, c)  PROVE Passes(b, s)
  <2>1. /\ req[r].pc = "idle" /\ req'[r].set = FALSE /\ jar' = jar
        /\ \A q \in Requests \ {r} : req'[q] = req[q]
    BY <1>1, NetworkGives
  <2>2. ~req[r].set  BY <2>1 DEF TypeOK, Handled
  <2>3. \A g \in Accounts : HoldsNext(b, s, g) <=> Holds(b, s, g)
    BY <2>1, <2>2 DEF HoldsNext, Holds, Carries
  <2> QED  BY <2>3, PassesIf
<1>2. ASSUME NEW r \in Requests, Lose(r)  PROVE Passes(b, s)
  <2>1. /\ req'[r].set = FALSE /\ jar' = jar
        /\ \A q \in Requests \ {r} : req'[q] = req[q]
    BY <1>2, NetworkGives DEF Lose
  <2>2. ~(req[r].set /\ req[r].by = b)  BY <1>2 DEF Lose
  <2>3. \A g \in Accounts : HoldsNext(b, s, g) <=> Holds(b, s, g)
    BY <2>1, <2>2 DEF HoldsNext, Holds, Carries
  <2> QED  BY <2>3, PassesIf
<1>3. CASE Tick \/ UNCHANGED vars
  <2>1. req' = req /\ jar' = jar  BY <1>3 DEF Tick, vars
  <2>2. \A g \in Accounts : HoldsNext(b, s, g) <=> Holds(b, s, g)
    BY <2>1 DEF HoldsNext, Holds, Carries
  <2> QED  BY <2>2, PassesIf
<1>4. CASE Restart
  <2>1. /\ jar' = jar
        /\ \A r \in Requests : req[r].by = b => req[r].pc \in {"idle", "sent"}
        /\ \A r \in Requests : req'[r] = req[r] \/ req'[r] = Idle
    BY <1>4, RestartGives
  <2>2. \A r \in Requests : req[r].by = b => ~req[r].set
    BY <2>1 DEF TypeOK, Handled
  <2>3. \A r \in Requests : req'[r].by = b => ~req'[r].set
    BY <2>1, <2>2 DEF Idle
  <2>4. \A g \in Accounts : HoldsNext(b, s, g) <=> Holds(b, s, g)
    BY <2>1, <2>2, <2>3 DEF HoldsNext, Holds, Carries
  <2> QED  BY <2>4, PassesIf
<1> QED  BY <1>1, <1>2, <1>3, <1>4, DeliverPasses DEF Next

\* A handler that gives out no secrets passes them all on.
LEMMA DullPasses ==
    ASSUME SessionsInv, NEW r \in Requests, Handler(r), Dull(r), NEW b \in Browsers,
           NEW s \in Live(auth'.sessions) \cup Live(disk'.sessions)
    PROVE  Passes(b, s)
<1>1. jar' = jar /\ \A q \in Requests \ {r} : req'[q] = req[q]
  BY HandlerFrame DEF Dull, OnlyRequest
<1>2. req'[r].by = req[r].by  BY DEF Dull, OnlyRequest
<1>3. s # 0  BY Counts DEF Live, Sids
<1>4. req'[r].set /\ req'[r].tok.sid = s => req[r].set /\ req'[r].tok = req[r].tok
  BY <1>3 DEF Dull
<1>5. req[r].set /\ req[r].tok.sid = s => req'[r].set /\ req'[r].tok = req[r].tok
  BY <1>3 DEF Dull
<1>6. \A g \in Accounts : HoldsNext(b, s, g) <=> Holds(b, s, g)
  BY <1>1, <1>2, <1>4, <1>5 DEF HoldsNext, Holds, Carries
<1> QED  BY <1>6, PassesIf

\* The secrets drawn last are the newest of their session, and its browser gets them.
LEMMA NewestIsIssued ==
    ASSUME SessionsInv, [Next]_vars, NEW s \in Sids,
           NEW r \in Requests, req'[r].by \in Browsers, req'[r].set,
           req'[r].tok.sid = s, req'[r].tok.gen = secrets',
           NEW b \in Browsers, NEW g \in Accounts, HoldsNext(b, s, g)
    PROVE  g <= secrets' /\ HoldsNext(b, s, secrets')
<1>1. g <= secrets'
  <2>1. Drawn'  BY DrawnStep
  <2> QED  BY <2>1 DEF Drawn, HoldsNext
<1>2. b = req'[r].by
  <2> DEFINE After(c) == jar'[c].sid = s
                         \/ \E q \in Requests : req'[q].by = c /\ req'[q].tok.sid = s
  <2>1. \A c, d \in Browsers : After(c) /\ After(d) => c = d
    BY OwnerStep DEF OneOwner, Has
  <2>2. After(b) /\ After(req'[r].by)  BY DEF HoldsNext
  <2> HIDE DEF After
  <2> QED  BY <2>1, <2>2
<1>3. s # 0  BY AdminNumbers DEF Sids
<1> QED  BY <1>1, <1>2, <1>3 DEF HoldsNext

LEMMA NewestStep ==
    ASSUME SessionsInv, [Next]_vars
    PROVE  /\ NewestHeld(auth.sessions, auth.account)'
           /\ NewestHeld(disk.sessions, disk.account)'
<1> SUFFICES /\ NewestNext(auth'.sessions, auth'.account)
             /\ NewestNext(disk'.sessions, disk'.account)
  BY NewestPrimed
<1> USE Ready, Counts DEF SessionsInv
<1>0. /\ auth.sessions \in [Sids -> Sessions] /\ disk.sessions \in [Sids -> Sessions]
      /\ auth'.sessions \in [Sids -> Sessions] /\ disk'.sessions \in [Sids -> Sessions]
      /\ Live(auth'.sessions) \subseteq Sids /\ Live(disk'.sessions) \subseteq Sids
  BY TypeStep DEF TypeOK, Live
<1>1. CASE ~(\E r \in Requests : Handler(r))
  <2>1. \A b \in Browsers \ lost', s \in Sids : Passes(b, s)  BY <1>1, NetworkPasses
  <2>2. CASE Around
    <3>1. auth' = auth /\ disk' = disk /\ lost \subseteq lost'  BY <2>2 DEF Around
    <3>2. Thinner(auth.sessions, auth.sessions) /\ Thinner(disk.sessions, disk.sessions)
      BY DEF Thinner
    <3> QED  BY <1>0, <2>1, <3>1, <3>2, HeldOn
  <2>3. CASE Restart
    <3>1. /\ disk' = disk /\ lost \subseteq lost' /\ auth'.account = disk.account
          /\ Thinner(auth'.sessions, disk.sessions)
      BY <2>3, RestartGives
    <3>2. Thinner(disk.sessions, disk.sessions)  BY DEF Thinner
    <3> QED  BY <1>0, <2>1, <3>1, <3>2, HeldOn
  <2> QED  BY <1>1, <2>2, <2>3, AroundGives
<1>2. ASSUME NEW r \in Requests, Handler(r)
      PROVE  /\ NewestNext(auth'.sessions, auth'.account)
             /\ NewestNext(disk'.sessions, disk'.account)
  <2>1. jar' = jar /\ lost \subseteq lost' /\ Effect(r)
    BY <1>2, HandlerFrame, HandlerEffect
  <2>2. req[r].by \in Browsers
    BY <1>2, HandlerBusy DEF TypeOK
  <2>3. CASE Calm(r)
    <3>1. \A b \in Browsers \ lost', s \in Live(auth'.sessions) \cup Live(disk'.sessions) :
             Passes(b, s)
      BY <1>2, <2>3, DullPasses DEF Calm
    <3>2. disk'.account = auth'.account /\ auth'.account = auth.account
          /\ disk.account = auth.account
      BY <2>3 DEF Calm, SameCredential
    <3>3. Thinner(auth'.sessions, auth.sessions)  BY <2>3 DEF Calm
    <3>4. NewestNext(auth'.sessions, auth'.account)
      BY <1>0, <2>1, <3>1, <3>2, <3>3, HeldOn
    <3>5. NewestNext(disk'.sessions, disk'.account)
      <4>1. CASE disk'.sessions = auth'.sessions  BY <3>2, <3>4, <4>1
      <4>2. CASE disk'.sessions = disk.sessions
        <5>1. Thinner(disk'.sessions, disk.sessions)  BY <4>2 DEF Thinner
        <5> QED  BY <1>0, <2>1, <3>1, <3>2, <5>1, HeldOn
      <4> QED  BY <2>3, <4>1, <4>2 DEF Calm
    <3> QED  BY <3>4, <3>5
  <2>4. ASSUME NEW s \in Sids, Issues(r, s)
        PROVE  /\ NewestNext(auth'.sessions, auth'.account)
               /\ NewestNext(disk'.sessions, disk'.account)
    <3>1. /\ disk'.sessions = auth'.sessions /\ disk'.account = auth'.account
          /\ auth'.account = auth.account /\ req'[r].by = req[r].by
          /\ \A q \in Requests \ {r} : req'[q] = req[q]
          /\ ~req[r].set /\ req'[r].set /\ req'[r].tok.sid = s
          /\ req'[r].tok.gen = secrets' /\ auth'.sessions[s].gen = secrets'
          /\ \A t \in Sids \ {s} : auth'.sessions[t] \in {auth.sessions[t], NoSession}
      BY <2>4 DEF Issues, OnlyRequest, SameCredential
    <3> SUFFICES NewestNext(auth'.sessions, auth'.account)  BY <3>1
    <3> SUFFICES ASSUME NEW b \in Browsers \ lost', NEW t \in Live(auth'.sessions),
                        NEW g \in Accounts, auth'.sessions[t].account = auth'.account,
                        HoldsNext(b, t, g)
                 PROVE  g <= auth'.sessions[t].gen /\ HoldsNext(b, t, auth'.sessions[t].gen)
      BY DEF NewestNext
    <3>2. CASE t = s  BY <2>2, <3>1, <3>2, NewestIsIssued
    <3>3. CASE t # s
      <4>1. t \in Live(auth.sessions) /\ auth'.sessions[t] = auth.sessions[t]
        BY <1>0, <3>1, <3>3 DEF Live, NoSession
      <4>2. \A h : HoldsNext(b, t, h) <=> Holds(b, t, h)
        <5>1. t # 0  BY <4>1 DEF Live
        <5> QED  BY <2>1, <3>1, <3>3, <5>1 DEF HoldsNext, Holds, Carries
      <4> QED  BY <2>1, <3>1, <4>1, <4>2 DEF NewestHeld, Accounts
    <3> QED  BY <3>2, <3>3
  <2>5. CASE Begins(r)
    <3>1. /\ auth' = auth /\ disk'.account = disk.account /\ req'[r].by = req[r].by
          /\ \A q \in Requests \ {r} : req'[q] = req[q]
          /\ req'[r].tok = req[r].tok /\ req'[r].set = req[r].set
          /\ \A t \in Live(disk'.sessions) : disk'.sessions[t].account = secrets + 1
      BY <2>5 DEF Begins, OnlyRequest
    <3>2. \A b \in Browsers \ lost', s \in Sids : Passes(b, s)
      <4>1. \A b \in Browsers, s \in Sids, g \in Accounts :
               HoldsNext(b, s, g) <=> Holds(b, s, g)
        BY <2>1, <3>1 DEF HoldsNext, Holds, Carries
      <4> QED  BY <4>1, PassesIf
    <3>3. NewestNext(auth'.sessions, auth'.account)
      BY <1>0, <2>1, <3>1, <3>2, HeldOn
    <3>4. \A t \in Live(disk'.sessions) : disk'.sessions[t].account # disk'.account
      BY <3>1 DEF SameCredential, Drawn
    <3> QED  BY <3>3, <3>4 DEF NewestNext
  <2>6. CASE Ends(r)
    <3>1. /\ auth'.sessions = disk.sessions /\ disk'.sessions = disk.sessions
          /\ disk'.account = auth'.account /\ req'[r].by = req[r].by
          /\ secrets' = secrets /\ req[r].pc = "changing"
      BY <2>6 DEF Ends, OnlyRequest, SameCredential
    <3> SUFFICES NewestNext(auth'.sessions, auth'.account)  BY <3>1
    <3> SUFFICES ASSUME NEW b \in Browsers \ lost', NEW t \in Live(auth'.sessions),
                        NEW g \in Accounts, HoldsNext(b, t, g)
                 PROVE  g <= auth'.sessions[t].gen /\ HoldsNext(b, t, auth'.sessions[t].gen)
      BY DEF NewestNext
    <3>2. t = Own(r) /\ disk.sessions[t].gen = secrets /\ t \in Sids
      BY <1>0, <3>1 DEF OnlyOwnChanges
    <3>3. req'[r].set /\ req'[r].tok.sid = t /\ req'[r].tok.gen = secrets'
      BY <2>6, <3>1, <3>2 DEF Ends
    <3> QED  BY <2>2, <3>1, <3>2, <3>3, NewestIsIssued
  <2> QED  BY <2>1, <2>3, <2>4, <2>5, <2>6 DEF Effect
<1> QED  BY <1>1, <1>2

-----------------------------------------------------------------------------
(* Sign-in: theorems. *)

LEMMA SessionsStart == Init => SessionsInv
<1> SUFFICES ASSUME Init PROVE SessionsInv  OBVIOUS
<1>1. /\ [s \in Sids |-> NoSession] \in [Sids -> Sessions]
      /\ [b \in Browsers |-> NoAttempts] \in [Browsers -> Attempts]
      /\ jar \in [Browsers -> Tokens] /\ req \in [Requests -> Held]
  BY NoneTyped, IdleTyped DEF Init
<1>2. /\ \A b \in Browsers : jar[b].sid = 0 /\ jar[b].gen = 0
      /\ \A r \in Requests : /\ req[r].pc = "idle" /\ req[r].set = FALSE
                             /\ req[r].tok.sid = 0 /\ req[r].tok.gen = 0
  BY DEF Init, NoCookies, Idle
<1>3. /\ \A s \in Sids : auth.sessions[s].gen = 0 /\ disk.sessions[s].gen = 0
      /\ Live(auth.sessions) = {} /\ Live(disk.sessions) = {}
      /\ auth.account = 0 /\ disk.account = 0 /\ auth.email = 0 /\ disk.email = 0
  BY DEF Init, NoSession, Live
<1>4. TypeOK
  <2>1. auth \in Memory /\ disk \in [sessions : [Sids -> Sessions], account : Accounts,
                                     email : 0 .. 2]
    BY <1>1, NoneTyped DEF Init, Memory
  <2>2. /\ now \in 0 .. MaxTime /\ opened \in 0 .. MaxSessions
        /\ secrets \in 0 .. MaxSecrets /\ faults \in 0 .. MaxFaults
        /\ restarts \in 0 .. MaxRestarts /\ ended \subseteq Sids /\ lost \subseteq Browsers
    BY AdminNumbers DEF Init
  <2> QED  BY <1>1, <1>2, <2>1, <2>2 DEF TypeOK, Memory, Held, Accounts
<1>5. opened = 0 /\ secrets = 0 /\ ended = {}  BY DEF Init
<1>6. Drawn /\ EndedStaysEnded /\ SameCredential /\ SessionsInFile
  BY <1>2, <1>3, <1>5
  DEF Drawn, EndedStaysEnded, SameCredential, SessionsInFile
<1>7. OneOwner /\ Newer /\ OnlyOwnChanges
  <2>1. \A s \in Sids : s # 0  BY AdminNumbers DEF Sids
  <2> QED  BY <1>2, <2>1 DEF OneOwner, Has, Newer, Carries, OnlyOwnChanges
<1>8. NewestHeld(auth.sessions, auth.account) /\ NewestHeld(disk.sessions, disk.account)
  BY <1>3 DEF NewestHeld
<1> QED  BY <1>4, <1>6, <1>7, <1>8 DEF SessionsInv

\* The invariant holds at the start and every step keeps it: handlers in any
\* interleaving, answers in any order or lost, files that cannot be written,
\* restarts (admin_auth.go, admin_sessions.go, admin_credentials.go).
THEOREM SessionsAreSound == Spec => []SessionsInv
<1>1. Init => SessionsInv  BY SessionsStart
<1>2. SessionsInv /\ [Next]_vars => SessionsInv'
  BY TypeStep, DrawnStep, EndedStep, FileStep, OwnerStep, NewerStep, ChangesStep,
     NewestStep
  DEF SessionsInv
<1> QED  BY <1>1, <1>2, PTL DEF Spec

\* A session that a user was told is over never comes back, in memory or in the
\* file (revokeSession, revokeOtherSessions, logout, updateCredentials).
THEOREM EndedSessionsStayEnded == Spec => []SessionsSafe
<1>1. SessionsInv => SessionsSafe  BY DEF SessionsInv, SessionsSafe
<1> QED  BY <1>1, SessionsAreSound, PTL

\* A browser that received its answers holds the newest secrets of its session:
\* a rotation that fails half way never signs it out (refreshBrowserSession).
THEOREM ThoseWhoListenKeepUp == Spec => []BrowsersKeepUp
<1>1. SessionsInv => BrowsersKeepUp
  <2> SUFFICES ASSUME SessionsInv, NEW b \in Browsers \ lost,
                      \A r \in Requests : req[r].by = b => req[r].pc \in {"idle", "sent"},
                      jar[b].sid \in Live(auth.sessions),
                      auth.sessions[jar[b].sid].account = auth.account
               PROVE  auth.sessions[jar[b].sid].gen = jar[b].gen
    BY DEF BrowsersKeepUp
  <2>1. TypeOK /\ NewestHeld(auth.sessions, auth.account)  BY DEF SessionsInv
  <2>2. \A r \in Requests : req[r].by = b => ~req[r].set  BY <2>1 DEF TypeOK, Handled
  <2>3. jar[b].gen \in 0 .. MaxSecrets  BY <2>1 DEF TypeOK, Tokens
  <2>4. Holds(b, jar[b].sid, jar[b].gen)  BY DEF Holds
  <2>5. Holds(b, jar[b].sid, auth.sessions[jar[b].sid].gen)
    BY <2>1, <2>3, <2>4 DEF NewestHeld
  <2> QED  BY <2>2, <2>5 DEF Holds, Carries
<1> QED  BY <1>1, SessionsAreSound, PTL

\* Unless a change of credentials failed twice, the file has every good session:
\* a restart signs nobody out (persistAdminSessions, loadAdminSessions).
THEOREM RestartsSignNobodyOut == Spec => []RestartSignsNobodyOut
<1>1. SessionsInv => RestartSignsNobodyOut
  BY DEF SessionsInv, SameCredential, SessionsInFile, RestartSignsNobodyOut
<1> QED  BY <1>1, SessionsAreSound, PTL
=============================================================================
