----------------------------- MODULE AuthSessions -----------------------------
(***************************************************************************)
(* Login, refresh, logout and revocation of the sessions of one user       *)
(* (auth-service.ts): rows of auth_user_sessions, the failure counters of  *)
(* auth_login_attempts, and the requests that read and write them with an  *)
(* await between any two statements.                                       *)
(*                                                                         *)
(* A session row holds the hashes of its current token pair alone, so a    *)
(* request with any other token finds no row and changes nothing: such     *)
(* requests are left out, and a token is its session.                      *)
(***************************************************************************)
EXTENDS Integers, FiniteSets

CONSTANTS
    Sids,        \* bound: sessions created in a behaviour
    Procs,       \* bound: requests in flight
    Addresses,   \* client addresses logins come from
    Limit,       \* API_AUTH_SESSION_LIMIT_PER_USER, where it is set
    Threshold,   \* API_AUTH_LOGIN_FAILURE_LOCKOUT_THRESHOLD
    Loads,       \* bound: the sets of requests and events that meet in one behaviour
    MaxSeconds,  \* bound: seconds that created_at tells apart
    MaxCuts,     \* bound: complete revocations of the user's sessions
    MaxCrashes,  \* bound: crashes of an API process
    None         \* no session, no address

RequestKinds == {"login", "guess", "refresh", "authenticate", "logout", "revokeAll",
                 "disable", "enable", "roles", "cleanup"}
Events == {"tick", "expiry", "crash"}

ASSUME CountAssumption ==
    /\ Limit \in Nat \ {0} /\ Threshold \in Nat \ {0}
    /\ MaxSeconds \in Nat /\ MaxCuts \in Nat /\ MaxCrashes \in Nat
ASSUME LoadAssumption == Loads \subseteq SUBSET (RequestKinds \cup Events)
ASSUME NoneAssumption == None \notin Sids \cup Addresses
ASSUME ProcAssumption == IsFiniteSet(Procs) /\ IsFiniteSet(Sids)
ASSUME AddressAssumption == Addresses # {} /\ "USERNAME" \notin Addresses

VARIABLES
    load,      \* the requests and events of this behaviour
    user,      \* the row of users, and whether the user still holds the sessions' role
    sessions,  \* auth_user_sessions
    attempts,  \* auth_login_attempts, by bucket
    procs,     \* the requests in flight
    second,    \* the clock of created_at
    ended,     \* sessions a logout, a revocation or the limit ended, since its statement
    cuts,      \* complete revocations of the user's sessions, since their last statements
    guesses,   \* failed password checks since the USERNAME bucket was last empty
    mixed,     \* whether logins overlapped since then
    strays,    \* logins that died between creating a session and the limit check
    crashes    \* crashes so far

vars == <<load, user, sessions, attempts, procs, second, ended, cuts, guesses, mixed,
          strays, crashes>>
throttle == <<attempts, guesses, mixed>>
rest == <<load, second, strays, crashes>>

-----------------------------------------------------------------------------
\* "EVICTED" is a row revoked with the reason SESSION_LIMIT_EXCEEDED.
Revoked == {"REVOKED", "EVICTED"}
Session == [state: {"ABSENT", "LIVE", "DELETED"} \cup Revoked,
            access: BOOLEAN, refresh: BOOLEAN,  \* not expired
            created: Nat, epoch: Nat]

NoSession == [state |-> "ABSENT", access |-> FALSE, refresh |-> FALSE,
              created |-> 0, epoch |-> 0]

\* The rows that pkg_auth_active_sessions_v gives as not revoked; expired ones are among
\* them.
Live == {s \in Sids : sessions[s].state = "LIVE"}
Exists(s) == sessions[s].state \in {"LIVE"} \cup Revoked

\* One counter per username, one per username and address.
Buckets == {"USERNAME"} \cup Addresses
BucketsOf(a) == {"USERNAME", a}
Attempt == [count: 0..Threshold, locked: BOOLEAN]
NoAttempt == [count |-> 0, locked |-> FALSE]
IsLocked(a) == \E b \in BucketsOf(a) : attempts[b].locked

LoginPhases == {"verify", "count", "writeUser", "writeAddress", "clear", "insert",
                "list", "evict"}
Phases == {"free", "user", "rotate", "granted", "revoke", "targets", "call", "answer"}
          \cup LoginPhases

Proc == [phase: Phases, kind: RequestKinds, sid: Sids \cup {None},
         address: Addresses \cup {None}, seen: [Buckets -> 0..Threshold],
         batch: SUBSET Sids, barred: SUBSET {"user", "session"}]

Free == [phase |-> "free", kind |-> "login", sid |-> None, address |-> None,
         seen |-> [b \in Buckets |-> 0], batch |-> {}, barred |-> {}]

Is(p, phase) == procs[p].phase = phase
Goto(p, phase) == procs' = [procs EXCEPT ![p].phase = phase]
Finish(p) == procs' = [procs EXCEPT ![p] = Free]

\* The request has written what it will, and reads and records more before it answers.
Answering == [Free EXCEPT !.phase = "answer"]
ToAnswer(p) == procs' = [procs EXCEPT ![p] = Answering]

Arrive(p, kind, request) ==
    /\ kind \in load /\ Is(p, "free")
    /\ procs' = [procs EXCEPT ![p] = request]

OtherLogins(p) == \E q \in Procs \ {p} : procs[q].phase \in LoginPhases

-----------------------------------------------------------------------------
(* Login.                                                                  *)

\* ensureNotLockedOut.
MayTry(a) == ~IsLocked(a)

StartLogin(p, a) ==
    /\ Arrive(p, "login", [Free EXCEPT !.phase = "verify", !.address = a])
    /\ MayTry(a)
    /\ mixed' = (mixed \/ OtherLogins(p))
    /\ UNCHANGED <<user, sessions, attempts, ended, cuts, guesses, rest>>

\* login reads the user and the password hash.  A disabled user fails like a wrong
\* password does.
PasswordGood(p) ==
    /\ Is(p, "verify") /\ user.status = "ACTIVE"
    /\ Goto(p, "clear")
    /\ UNCHANGED <<user, sessions, throttle, ended, cuts, rest>>

PasswordBad(p) ==
    /\ Is(p, "verify") /\ "guess" \in load
    /\ Goto(p, "count")
    /\ guesses' = IF guesses < Threshold THEN guesses + 1 ELSE guesses
    /\ UNCHANGED <<user, sessions, attempts, mixed, ended, cuts, rest>>

\* recordFailureAndBuildError reads both buckets, then writes one after the other.
ReadAttempts(p) ==
    /\ Is(p, "count")
    /\ procs' = [procs EXCEPT ![p] =
           [@ EXCEPT !.phase = "writeUser", !.seen = [b \in Buckets |->
               IF b \in BucketsOf(procs[p].address) THEN attempts[b].count ELSE 0]]]
    /\ UNCHANGED <<user, sessions, throttle, ended, cuts, rest>>

\* Variant: the lockout begins one failure late.
LateFailure(n) ==
    [count |-> IF n < Threshold THEN n + 1 ELSE n, locked |-> n >= Threshold]

\* computeNextFailureRecord after n failures within the window.
NextFailure(n) ==
    [count |-> IF n < Threshold THEN n + 1 ELSE n, locked |-> n + 1 >= Threshold]

WriteUserBucket(p) ==
    /\ Is(p, "writeUser")
    /\ attempts' = [attempts EXCEPT !["USERNAME"] = NextFailure(procs[p].seen["USERNAME"])]
    /\ Goto(p, "writeAddress")
    /\ UNCHANGED <<user, sessions, guesses, mixed, ended, cuts, rest>>

WriteAddressBucket(p) ==
    LET a == procs[p].address
    IN  /\ Is(p, "writeAddress")
        /\ attempts' = [attempts EXCEPT ![a] = NextFailure(procs[p].seen[a])]
        /\ Finish(p)
        /\ UNCHANGED <<user, sessions, guesses, mixed, ended, cuts, rest>>

ClearAttempts(p) ==
    /\ Is(p, "clear")
    /\ attempts' = [b \in Buckets |->
           IF b \in BucketsOf(procs[p].address) THEN NoAttempt ELSE attempts[b]]
    /\ guesses' = 0
    /\ mixed' = OtherLogins(p)
    /\ Goto(p, "insert")
    /\ UNCHANGED <<user, sessions, ended, cuts, rest>>

\* pickRole refuses a role the user does not hold.
RoleRefused(p) ==
    /\ Is(p, "insert") /\ Finish(p)
    /\ UNCHANGED <<user, sessions, throttle, ended, cuts, rest>>

CreateSession(p, s) ==
    /\ Is(p, "insert") /\ sessions[s].state = "ABSENT"
    /\ sessions' = [sessions EXCEPT ![s] =
           [state |-> "LIVE", access |-> TRUE, refresh |-> TRUE,
            created |-> second, epoch |-> cuts]]
    /\ procs' = [procs EXCEPT ![p] = [@ EXCEPT !.phase = "list", !.sid = s]]
    /\ UNCHANGED <<user, throttle, ended, cuts, rest>>

Excess == IF Cardinality(Live) > Limit THEN Cardinality(Live) - Limit ELSE 0

\* Variants: the sort runs the other way; one session more than the limit is kept.
EvictsNewest(out) ==
    /\ Cardinality(out) = Excess
    /\ \A s \in out, k \in Live \ out : sessions[s].created >= sessions[k].created

KeepsOneMore(out) ==
    /\ Cardinality(out) = (IF Excess > 0 THEN Excess - 1 ELSE 0)
    /\ \A s \in out, k \in Live \ out : sessions[s].created <= sessions[k].created

\* pickSessionsToEvict: the oldest ones beyond the limit.  Sessions created in the same
\* second come in any order.
Evictable(out) ==
    /\ Cardinality(out) = Excess
    /\ \A s \in out, k \in Live \ out : sessions[s].created <= sessions[k].created

\* enforceSessionHygieneOnLogin lists the sessions; if it picks none the login is done.
ListSessions(p) ==
    /\ Is(p, "list")
    /\ \E out \in SUBSET Live :
          /\ Evictable(out)
          /\ procs' = [procs EXCEPT ![p] =
                 IF out = {} THEN Free ELSE [@ EXCEPT !.phase = "evict", !.batch = out]]
    /\ UNCHANGED <<user, sessions, throttle, ended, cuts, rest>>

Ended(gone, state) ==
    [s \in Sids |-> IF s \in gone THEN [sessions[s] EXCEPT !.state = state] ELSE sessions[s]]

\* revokeSessionsById.
Evict(p) ==
    /\ Is(p, "evict")
    /\ sessions' = Ended(procs[p].batch \cap Live, "EVICTED")
    /\ ended' = ended \cup procs[p].batch
    /\ Finish(p)
    /\ UNCHANGED <<user, throttle, cuts, rest>>

-----------------------------------------------------------------------------
(* Using a session: refresh and authenticateAccessToken read the session row, *)
(* then the user.                                                          *)

Bars(s) ==
    {why \in {"user", "session"} :
        \/ why = "user" /\ user.status = "DISABLED"
        \/ why = "session" /\ s \in ended}

StartRefresh(p, s) ==
    /\ s \in Live /\ sessions[s].refresh
    /\ Arrive(p, "refresh", [Free EXCEPT !.phase = "user", !.kind = "refresh", !.sid = s])
    /\ UNCHANGED <<user, sessions, throttle, ended, cuts, rest>>

\* The row authenticateAccessToken accepts.
AccessValid(s) == s \in Live /\ sessions[s].access

StartAuthenticate(p, s) ==
    /\ AccessValid(s)
    /\ Arrive(p, "authenticate",
           [Free EXCEPT !.phase = "user", !.kind = "authenticate", !.sid = s,
                        !.barred = Bars(s)])
    /\ UNCHANGED <<user, sessions, throttle, ended, cuts, rest>>

\* Variant: the user's status is trusted to be ACTIVE while the session is not revoked.
RoleHeld == user.role

\* ensureActiveUser, and the session's role is still the user's.
UserAllowed == user.status = "ACTIVE" /\ user.role

ReadUser(p) ==
    /\ Is(p, "user")
    /\ IF UserAllowed
       THEN Goto(p, IF procs[p].kind = "refresh" THEN "rotate" ELSE "granted")
       ELSE Finish(p)
    /\ UNCHANGED <<user, sessions, throttle, ended, cuts, rest>>

\* Variant: rotating a session puts its row back as it was read.
RowRenewed(s) ==
    [sessions[s] EXCEPT !.state = "LIVE", !.access = TRUE, !.refresh = TRUE]

\* rotateSessionTokens: whatever became of the row since it was read, new token hashes and
\* expiries, and revoked_at stays.
Renewed(s) == [sessions[s] EXCEPT !.access = TRUE, !.refresh = TRUE]

Rotate(p) ==
    LET s == procs[p].sid
    IN  /\ Is(p, "rotate")
        /\ sessions' = IF Exists(s) THEN [sessions EXCEPT ![s] = Renewed(s)] ELSE sessions
        /\ Finish(p)
        /\ UNCHANGED <<user, throttle, ended, cuts, rest>>

\* The principal is handed to the route.
Serve(p) ==
    /\ Is(p, "granted") /\ Finish(p)
    /\ UNCHANGED <<user, sessions, throttle, ended, cuts, rest>>

-----------------------------------------------------------------------------
(* Ending sessions.                                                        *)

\* logout finds its row whatever its state.
StartLogout(p, s) ==
    /\ Exists(s)
    /\ Arrive(p, "logout", [Free EXCEPT !.phase = "revoke", !.kind = "logout", !.sid = s])
    /\ UNCHANGED <<user, sessions, throttle, ended, cuts, rest>>

\* revokeSession.
Revoke(p) ==
    LET s == procs[p].sid
    IN  /\ Is(p, "revoke")
        /\ sessions' = Ended({s} \cap {t \in Sids : Exists(t)}, "REVOKED")
        /\ ended' = ended \cup {s}
        /\ Finish(p)
        /\ UNCHANGED <<user, throttle, cuts, rest>>

Cutting(p) == procs[p].phase \in {"targets", "call"}
MayCut == cuts + Cardinality({p \in Procs : Cutting(p)}) < MaxCuts

\* revokeAllUserSessions, but for one session if the caller says so.
StartRevokeAll(p, keep) ==
    /\ MayCut
    /\ Arrive(p, "revokeAll",
           [Free EXCEPT !.phase = "targets", !.kind = "revokeAll", !.sid = keep])
    /\ UNCHANGED <<user, sessions, throttle, ended, cuts, rest>>

\* Variant: a status users does not know.
DisabledRowMisnamed == [user EXCEPT !.status = "INACTIVE"]

DisabledRow == [user EXCEPT !.status = "DISABLED"]

\* setUserStatus: the status first, then the sessions.
StartDisable(p) ==
    /\ MayCut
    /\ Arrive(p, "disable", [Free EXCEPT !.phase = "targets", !.kind = "disable"])
    /\ user' = DisabledRow
    /\ UNCHANGED <<sessions, throttle, ended, cuts, rest>>

Cut(p) == IF procs[p].sid = None THEN cuts + 1 ELSE cuts

\* The store lists the sessions and calls the procedure only if it finds any to revoke.
\* The listing is the last statement of the others, but not yet their answer.
ListTargets(p) ==
    LET targets == Live \ {procs[p].sid}
    IN  /\ Is(p, "targets")
        /\ IF targets = {}
           THEN ToAnswer(p) /\ cuts' = Cut(p)
           ELSE /\ procs' = [procs EXCEPT ![p] =
                       [@ EXCEPT !.phase = "call", !.batch = targets]]
                /\ UNCHANGED cuts
        /\ UNCHANGED <<user, sessions, throttle, ended, rest>>

\* Variant: the listed sessions are revoked instead of all the user has by then.
ListedTargets(p) == procs[p].batch \cap Live

\* pkg_auth_revoke_user_sessions.
Targets(p) == Live \ {procs[p].sid}

RevokeTargets(p) ==
    /\ Is(p, "call")
    /\ sessions' = Ended(Targets(p), "REVOKED")
    /\ ended' = ended \cup procs[p].batch
    /\ cuts' = Cut(p)
    /\ ToAnswer(p)
    /\ UNCHANGED <<user, throttle, rest>>

\* The caller hears of it after listings and audit rows, when a login may have come by.
Answer(p) ==
    /\ Is(p, "answer") /\ Finish(p)
    /\ UNCHANGED <<user, sessions, throttle, ended, cuts, rest>>

Enable ==
    /\ "enable" \in load /\ user.status = "DISABLED"
    /\ user' = [user EXCEPT !.status = "ACTIVE"]
    /\ procs' = [p \in Procs |-> [procs[p] EXCEPT !.barred = @ \ {"user"}]]
    /\ UNCHANGED <<sessions, throttle, ended, cuts, rest>>

\* An administrator takes or gives back the role the sessions were opened with.
ChangeRoles ==
    /\ "roles" \in load
    /\ user' = [user EXCEPT !.role = ~@]
    /\ UNCHANGED <<sessions, procs, throttle, ended, cuts, rest>>

\* pkg_auth_cleanup_sessions: some of the rows that are past their retention, which is any
\* row whose refresh token expired or that was revoked, some time ago.
Cleanup ==
    /\ "cleanup" \in load
    /\ \E gone \in SUBSET {s \in Sids : Exists(s) /\ (s \notin Live \/ ~sessions[s].refresh)} :
          /\ gone # {}
          /\ sessions' = Ended(gone, "DELETED")
    /\ UNCHANGED <<user, procs, throttle, ended, cuts, rest>>

-----------------------------------------------------------------------------
(* Time and failure.                                                       *)

Tick ==
    /\ "tick" \in load /\ second < MaxSeconds
    /\ second' = second + 1
    /\ UNCHANGED <<load, user, sessions, procs, throttle, ended, cuts, strays, crashes>>

AccessExpires(s) ==
    /\ "expiry" \in load /\ Exists(s) /\ sessions[s].access
    /\ sessions' = [sessions EXCEPT ![s].access = FALSE]
    /\ UNCHANGED <<user, procs, throttle, ended, cuts, rest>>

RefreshExpires(s) ==
    /\ "expiry" \in load /\ Exists(s) /\ sessions[s].refresh
    /\ sessions' = [sessions EXCEPT ![s].refresh = FALSE]
    /\ UNCHANGED <<user, procs, throttle, ended, cuts, rest>>

\* The ghosts start over with the USERNAME bucket.
CountAnew(b) ==
    IF b = "USERNAME"
    THEN guesses' = 0 /\ mixed' = (\E p \in Procs : procs[p].phase \in LoginPhases)
    ELSE UNCHANGED <<guesses, mixed>>

LockoutEnds(b) ==
    /\ attempts[b].locked
    /\ attempts' = [attempts EXCEPT ![b].locked = FALSE]
    /\ CountAnew(b)
    /\ UNCHANGED <<user, sessions, procs, ended, cuts, rest>>

\* The last failure of a bucket falls out of the window: the next one counts as the first.
WindowPasses(b) ==
    /\ attempts[b].count > 0 /\ ~attempts[b].locked
    /\ attempts' = [attempts EXCEPT ![b].count = 0]
    /\ CountAnew(b)
    /\ UNCHANGED <<user, sessions, procs, ended, cuts, rest>>

\* The API process of a request dies.
Crash(p) ==
    /\ "crash" \in load /\ crashes < MaxCrashes
    /\ ~Is(p, "free")
    /\ crashes' = crashes + 1
    /\ strays' = IF procs[p].phase \in {"list", "evict"} THEN strays + 1 ELSE strays
    /\ mixed' = (mixed \/ procs[p].phase \in LoginPhases)
    /\ Finish(p)
    /\ UNCHANGED <<load, user, sessions, attempts, second, ended, cuts, guesses>>

-----------------------------------------------------------------------------
Init ==
    /\ load \in Loads
    /\ user = [status |-> "ACTIVE", role |-> TRUE]
    /\ sessions = [s \in Sids |-> NoSession]
    /\ attempts = [b \in Buckets |-> NoAttempt]
    /\ procs = [p \in Procs |-> Free]
    /\ second = 0 /\ ended = {} /\ cuts = 0
    /\ guesses = 0 /\ mixed = FALSE
    /\ strays = 0 /\ crashes = 0

LoginStep(p) ==
    \/ PasswordGood(p) \/ PasswordBad(p) \/ ReadAttempts(p)
    \/ WriteUserBucket(p) \/ WriteAddressBucket(p) \/ ClearAttempts(p) \/ RoleRefused(p)
    \/ ListSessions(p) \/ Evict(p)

Next ==
    \/ \E p \in Procs :
          \/ LoginStep(p) \/ ReadUser(p) \/ Rotate(p) \/ Serve(p) \/ Revoke(p)
          \/ StartDisable(p) \/ ListTargets(p) \/ RevokeTargets(p) \/ Answer(p)
          \/ Crash(p)
    \/ \E p \in Procs, a \in Addresses : StartLogin(p, a)
    \/ \E p \in Procs, keep \in Sids \cup {None} : StartRevokeAll(p, keep)
    \/ \E p \in Procs, s \in Sids :
          \/ CreateSession(p, s) \/ StartRefresh(p, s) \/ StartAuthenticate(p, s)
          \/ StartLogout(p, s)
    \/ \E s \in Sids : AccessExpires(s) \/ RefreshExpires(s)
    \/ \E b \in Buckets : LockoutEnds(b) \/ WindowPasses(b)
    \/ Enable \/ ChangeRoles \/ Cleanup \/ Tick

Spec == Init /\ [][Next]_vars

-----------------------------------------------------------------------------
(* Properties.                                                             *)

\* Rows, counters and requests are well formed.
TypeOK ==
    /\ load \subseteq RequestKinds \cup Events
    /\ user \in [status: {"ACTIVE", "DISABLED"}, role: BOOLEAN]
    /\ sessions \in [Sids -> Session]
    /\ attempts \in [Buckets -> Attempt]
    /\ procs \in [Procs -> Proc]
    /\ ended \subseteq Sids
    /\ second \in Nat /\ cuts \in Nat /\ strays \in Nat /\ crashes \in Nat
    /\ guesses \in 0..Threshold /\ mixed \in BOOLEAN

\* A session that was ended, and so any whose end a caller was told of, never comes back,
\* whatever refresh was under way (rotateSessionTokens updates the row by its id and leaves
\* revoked_at alone).
EndedStaysEnded == \A s \in ended : sessions[s].state \in Revoked \cup {"DELETED"}

\* No session works that was created before the last statement of a complete revocation or
\* a disable: before the procedure, which ends all the user has by then, also what a login
\* created since they were listed, or before the listing that found none
\* (revokeAllUserSessions).  The answer comes later: what a login creates in between works.
RevokeAllReachesAll == \A s \in Live : sessions[s].epoch = cuts

\* Nobody is let in by a request that began when the user was disabled and not enabled
\* since, or with a session that had ended (authenticateAccessToken reads the user again
\* each time: a session can be LIVE after a disable that crashed or raced a login).
GrantsAreCurrent == \A p \in Procs : Is(p, "granted") => procs[p].barred = {}

\* However logins overlap, the user has no more unrevoked sessions than the limit, but for
\* the logins that have not come to the limit check, or died before it
\* (enforceSessionHygieneOnLogin lists and revokes in two statements).
SessionCap ==
    Cardinality(Live) <=
        Limit + Cardinality({p \in Procs : procs[p].phase \in {"list", "evict"}}) + strays

\* The session limit never ends a session that is newer than all the others
\* (pickSessionsToEvict sorts by created_at, whose unit is the second).
NewestNotEvicted ==
    \A s \in Sids : sessions[s].state = "EVICTED" =>
        \E k \in Sids \ {s} :
            sessions[k].state # "ABSENT" /\ sessions[k].created >= sessions[s].created

\* While logins do not overlap, no password is checked any more after Threshold failures,
\* from whatever addresses they came, until the lockout ends (ensureNotLockedOut and
\* recordFailureAndBuildError are two separate reads of the counters).
LockoutHolds ==
    \A p \in Procs : Is(p, "verify") /\ ~mixed => guesses < Threshold
=============================================================================
