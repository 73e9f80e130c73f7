---------------------------- MODULE AuthSessions ----------------------------
(***************************************************************************)
(* Accounts: refresh sessions on the server (src/src/auth) and a browser   *)
(* that refreshes when a request is answered with 401                      *)
(* (src/frontend/src/lib/api.ts).  One user; the requests of one tab share *)
(* its cookies and its refresh.                                            *)
(*                                                                         *)
(* A token is a signature over the user and the second it was issued in,   *)
(* so two tokens issued in one second are the same: a token is that time.  *)
(* An access token lives AccessLife, a refresh session SessionLife.        *)
(***************************************************************************)
EXTENDS Naturals, FiniteSets

CONSTANTS
    Fetch,         \* requests of the tab; each may begin a refresh
    AccessLife, SessionLife,
    MaxTime, MaxSessions   \* bounds on the clock and on the rows

ASSUME AuthAssumption ==
    /\ AccessLife \in Nat /\ SessionLife \in Nat
    /\ MaxTime \in Nat /\ MaxSessions \in Nat

VARIABLES
    now,
    status,     \* of the user
    verified,   \* the verification token was used
    sessions,   \* refresh_sessions, numbered in the order they were created
    cookie,     \* the tokens the browser keeps
    fetch,    \* fetch[q]: what q waits for
    call,       \* call[q]: the refresh that q began, at the server
    promise,    \* refreshPromise: the request whose refresh all wait for
    reset,      \* the password reset token and the call that uses it
    logins,     \* how often the user logged in: the name of the next login
    overlapped  \* history: the logins whose token two refreshes found

vars == <<now, status, verified, sessions, cookie, fetch, call, promise, reset, logins, overlapped>>
serverVars == <<now, status, verified, sessions, reset, logins, overlapped>>

NoToken == MaxTime + 1
Time == 0 .. MaxTime
Token == Time \cup {NoToken}

Session == [login : 1 .. MaxSessions, token : Time, live : BOOLEAN]
NoTokens == [access |-> NoToken, refresh |-> NoToken]
(* A refresh; "since" is history: the logins when it was asked.             *)
NoRefresh == [phase |-> "none", token |-> NoToken, row |-> 0, answer |-> NoToken, since |-> 0]
Asked == [NoRefresh EXCEPT !.phase = "asked", !.token = cookie.refresh, !.since = logins]
Unsent == [phase |-> "idle", access |-> NoToken, retry |-> FALSE]

Init ==
    /\ now = 0
    /\ status = "PENDING_VERIFICATION"
    /\ verified = FALSE
    /\ sessions = <<>>
    /\ cookie = NoTokens
    /\ fetch = [q \in Fetch |-> Unsent]
    /\ call = [q \in Fetch |-> NoRefresh]
    /\ promise = {}
    /\ reset = [token |-> "none", call |-> "none"]
    /\ logins = 0
    /\ overlapped = {}

-----------------------------------------------------------------------------
(* The server.                                                             *)
Row(i) == sessions[i]
Rows == DOMAIN sessions
Live(i) == sessions[i].live /\ now < sessions[i].token + SessionLife

(* generateTokenPair signs two tokens and stores the session of the second.*)
TokenPairFor(login) ==
    sessions' = [i \in 1 .. Cardinality(Rows) + 1 |->
                    IF i \in Rows THEN sessions[i]
                    ELSE [login |-> login, token |-> now, live |-> TRUE]]

RoomForSession == Cardinality(Rows) < MaxSessions

(* login and register answer with the first tokens of a login; a blocked   *)
(* account may not log in.                                                 *)
Login ==
    /\ RoomForSession /\ status \notin {"BLOCKED", "DELETED"}
    /\ logins' = logins + 1
    /\ TokenPairFor(logins + 1)
    /\ cookie' = [access |-> now, refresh |-> now]
    /\ UNCHANGED <<now, status, verified, fetch, call, promise, reset, overlapped>>

(* refresh finds a live session of the token (any of them, when the token  *)
(* was issued twice) ...                                                   *)
FoundBy(c, i) == call[c].phase = "found" /\ call[c].row = i

RefreshFind(q) ==
    LET found == {i \in Rows : Live(i) /\ sessions[i].token = call[q].token}
    IN  /\ call[q].phase = "asked"
        /\ IF found = {}
           THEN /\ call' = [call EXCEPT ![q].phase = "refused"]
                /\ UNCHANGED overlapped
           ELSE \E i \in found :
                  /\ call' = [call EXCEPT ![q].phase = "found", ![q].row = i]
                  /\ overlapped' = overlapped \cup
                        {sessions[i].login : c \in {d \in Fetch : FoundBy(d, i)}}
        /\ UNCHANGED <<now, status, verified, sessions, cookie, fetch, promise, reset, logins>>

(* A slip: the session found is left as it is.                             *)
NotRevoked(i) == sessions

Revoked(i) == [sessions EXCEPT ![i].live = FALSE]

(* ... revokes it by its id ...                                            *)
RefreshRevoke(q) ==
    /\ call[q].phase = "found"
    /\ sessions' = Revoked(call[q].row)
    /\ call' = [call EXCEPT ![q].phase = "revoked"]
    /\ UNCHANGED <<now, status, verified, cookie, fetch, promise, reset, logins, overlapped>>

(* ... and issues the next pair.                                           *)
RefreshIssue(q) ==
    /\ call[q].phase = "revoked" /\ RoomForSession
    /\ TokenPairFor(sessions[call[q].row].login)
    /\ call' = [call EXCEPT ![q].phase = "granted", ![q].answer = now]
    /\ UNCHANGED <<now, status, verified, cookie, fetch, promise, reset, logins, overlapped>>

(* forgotPassword, and resetPassword, which finds the token before it      *)
(* hashes and uses it in the transaction that revokes every session.       *)
ForgotPassword ==
    /\ reset.token = "none"
    /\ reset' = [reset EXCEPT !.token = "issued"]
    /\ UNCHANGED <<now, status, verified, sessions, cookie, fetch, call, promise, logins, overlapped>>

ResetFind ==
    /\ reset.token = "issued" /\ reset.call = "none"
    /\ reset' = [reset EXCEPT !.call = "found"]
    /\ UNCHANGED <<now, status, verified, sessions, cookie, fetch, call, promise, logins, overlapped>>

ResetCommit ==
    /\ reset.call = "found"
    /\ reset' = [token |-> "used", call |-> "done"]
    /\ sessions' = [i \in Rows |-> [sessions[i] EXCEPT !.live = FALSE]]
    /\ UNCHANGED <<now, status, verified, cookie, fetch, call, promise, logins, overlapped>>

(* The verification token, which register sends, works in every status.    *)
VerifyEmail ==
    /\ logins > 0 /\ ~ verified
    /\ status' = "ACTIVE" /\ verified' = TRUE
    /\ UNCHANGED <<now, sessions, cookie, fetch, call, promise, reset, logins, overlapped>>

(* An administrator's updateUser.                                          *)
SetStatus(s) ==
    /\ logins > 0 /\ s # status
    /\ status' = s
    /\ UNCHANGED <<now, verified, sessions, cookie, fetch, call, promise, reset, logins, overlapped>>

(* The strategy: the signature is still valid and the account not closed.  *)
Authorized(token) ==
    token # NoToken /\ now < token + AccessLife /\ status \notin {"BLOCKED", "DELETED"}

-----------------------------------------------------------------------------
(* The tab.                                                                *)
Send(q) ==
    /\ fetch[q].phase \in {"idle", "done", "failed"}
    /\ fetch' = [fetch EXCEPT ![q] = [phase |-> "sent", access |-> cookie.access,
                                          retry |-> FALSE]]
    /\ UNCHANGED <<serverVars, cookie, call, promise>>

Accepted(q) ==
    /\ fetch[q].phase = "sent" /\ Authorized(fetch[q].access)
    /\ fetch' = [fetch EXCEPT ![q].phase = "done"]
    /\ UNCHANGED <<serverVars, cookie, call, promise>>

(* A second 401 is final, and so is one without a refresh token.           *)
RejectedFinally(q) ==
    /\ fetch[q].phase = "sent" /\ ~ Authorized(fetch[q].access)
    /\ fetch[q].retry \/ cookie.refresh = NoToken
    /\ fetch' = [fetch EXCEPT ![q].phase = "failed"]
    /\ cookie' = IF fetch[q].retry THEN cookie ELSE NoTokens
    /\ UNCHANGED <<serverVars, call, promise>>

RequestLost(q) ==
    /\ fetch[q].phase = "sent"
    /\ fetch' = [fetch EXCEPT ![q].phase = "failed"]
    /\ UNCHANGED <<serverVars, cookie, call, promise>>

(* When a request that failed was the profile's, the user stays as the     *)
(* access token tells, or leaves when it expired.                          *)
ProfileFailed(q) ==
    /\ fetch[q].phase = "failed"
    /\ fetch' = [fetch EXCEPT ![q] = Unsent]
    /\ cookie' = IF cookie.access # NoToken /\ now < cookie.access + AccessLife
                 THEN cookie ELSE NoTokens
    /\ UNCHANGED <<serverVars, call, promise>>

(* A slip: a request does not look whether a refresh is under way.         *)
RefreshOwn(q) ==
    /\ call' = [call EXCEPT ![q] = Asked]
    /\ promise' = promise \cup {q}

(* Requests that are refused together share one refresh.                   *)
ShareRefresh(q) ==
    IF promise # {} THEN UNCHANGED <<call, promise>>
    ELSE /\ call' = [call EXCEPT ![q] = Asked]
         /\ promise' = {q}

Rejected(q) ==
    /\ fetch[q].phase = "sent" /\ ~ Authorized(fetch[q].access)
    /\ ~ fetch[q].retry /\ cookie.refresh # NoToken
    /\ fetch' = [fetch EXCEPT ![q].phase = "waiting"]
    /\ ShareRefresh(q)
    /\ UNCHANGED <<serverVars, cookie>>

(* The answer to a refresh gets lost, wherever the server is with it.      *)
ReplyLost(q) ==
    /\ call[q].phase \in {"asked", "found", "revoked", "granted"}
    /\ q \in promise
    /\ call' = [call EXCEPT ![q].phase = "lost"]
    /\ UNCHANGED <<serverVars, cookie, fetch, promise>>

(* The refresh succeeds: the tokens are stored, and every request that     *)
(* waited is sent again with the new one.                                  *)
RefreshSucceeds(q) ==
    /\ q \in promise /\ call[q].phase = "granted"
    /\ cookie' = [access |-> call[q].answer, refresh |-> call[q].answer]
    /\ promise' = promise \ {q}
    /\ call' = [call EXCEPT ![q] = NoRefresh]
    /\ fetch' = [r \in Fetch |-> IF fetch[r].phase = "waiting"
                     THEN [phase |-> "sent", access |-> call[q].answer, retry |-> TRUE]
                     ELSE fetch[r]]
    /\ UNCHANGED serverVars

(* It fails: the tokens are dropped and every request that waited fails.   *)
RefreshFails(q) ==
    /\ q \in promise /\ call[q].phase \in {"refused", "lost"}
    /\ cookie' = NoTokens
    /\ promise' = promise \ {q}
    /\ call' = [call EXCEPT ![q] = NoRefresh]
    /\ fetch' = [r \in Fetch |-> IF fetch[r].phase = "waiting"
                                     THEN [fetch[r] EXCEPT !.phase = "failed"]
                                     ELSE fetch[r]]
    /\ UNCHANGED serverVars

Logout ==
    /\ cookie # NoTokens
    /\ cookie' = NoTokens
    /\ UNCHANGED <<serverVars, fetch, call, promise>>

Clock ==
    /\ now < MaxTime
    /\ now' = now + 1
    /\ UNCHANGED <<status, verified, sessions, cookie, fetch, call, promise, reset, logins, overlapped>>

ServerStep ==
    \/ Login
    \/ \E q \in Fetch : RefreshFind(q) \/ RefreshRevoke(q) \/ RefreshIssue(q)
    \/ ForgotPassword \/ ResetFind \/ ResetCommit
    \/ VerifyEmail
    \/ \E s \in {"ACTIVE", "BLOCKED"} : SetStatus(s)

TabStep ==
    \/ \E q \in Fetch : \/ Send(q) \/ Accepted(q) \/ Rejected(q) \/ RejectedFinally(q)
                          \/ RequestLost(q) \/ ProfileFailed(q)
                          \/ ReplyLost(q) \/ RefreshSucceeds(q) \/ RefreshFails(q)
    \/ Logout

Next == ServerStep \/ TabStep \/ Clock

Spec == Init /\ [][Next]_vars

-----------------------------------------------------------------------------
(* As long as no two refreshes found one session, a login has at most one  *)
(* live session: each refresh ends the session it continues, also when its *)
(* answer is lost, the password is reset in between, or a token was issued *)
(* twice in one second.                                                    *)
OneLiveSessionPerLogin ==
    \A l \in 1 .. logins \ overlapped :
        Cardinality({i \in Rows : sessions[i].login = l /\ sessions[i].live}) <= 1

(* A refresh that ends takes a refresh token the server would still accept *)
(* from the tab only when its answer was lost, or the user logged in while *)
(* it was under way: requests that are refused at the same time never sign *)
(* the user out.                                                           *)
GivesUpOnlyDeadTokens ==
    [][ promise' # promise /\ cookie' = NoTokens =>
          \/ ~ \E i \in Rows : Live(i) /\ sessions[i].token = cookie.refresh
          \/ \E q \in promise : call[q].phase = "lost" \/ call[q].since # logins ]_vars

-----------------------------------------------------------------------------
(* What makes it inductive.                                                *)
Refresh == [phase : {"none", "asked", "found", "revoked", "granted", "refused", "lost"},
            token : Token, row : 0 .. MaxSessions, answer : Token, since : Nat]

TypeOK ==
    /\ now \in Time
    /\ status \in {"PENDING_VERIFICATION", "ACTIVE", "BLOCKED"} /\ verified \in BOOLEAN
    /\ \E n \in 0 .. MaxSessions : logins \in 0 .. n /\ sessions \in [1 .. n -> Session]
    /\ cookie \in [access : Token, refresh : Token]
    /\ fetch \in [Fetch -> [phase : {"idle", "sent", "waiting", "done", "failed"},
                            access : Token, retry : BOOLEAN]]
    /\ call \in [Fetch -> Refresh]
    /\ promise \subseteq Fetch
    /\ reset \in [token : {"none", "issued", "used"}, call : {"none", "found", "done"}]

(* A refresh that has found the session it continues, and not yet issued   *)
(* the next one.                                                           *)
Continuing(q) == call[q].phase \in {"found", "revoked"}

RowsKnown ==
    /\ \A i \in Rows : sessions[i].login <= logins
    /\ \A q \in Fetch : Continuing(q) => call[q].row \in Rows

(* A login that no two refreshes found together has one live session, and  *)
(* nobody who will issue another unless he ends that one before, or one    *)
(* refresh that is about to issue one, and no session.                     *)
LiveRow(i, l) == sessions[i].login = l /\ sessions[i].live
Continues(q, l) == Continuing(q) /\ sessions[call[q].row].login = l

OneSuccessor ==
    \A l \in 1 .. logins \ overlapped :
        /\ \A i, j \in Rows : LiveRow(i, l) /\ LiveRow(j, l) => i = j
        /\ \A q, r \in Fetch : Continues(q, l) /\ Continues(r, l) => q = r
        /\ \A q \in Fetch, i \in Rows :
              Continues(q, l) /\ LiveRow(i, l) => FoundBy(q, i)

SessionsInv == TypeOK /\ RowsKnown /\ OneSuccessor

(* What makes GivesUpOnlyDeadTokens inductive: one refresh is under way at *)
(* most; until the user logs in again the tab keeps the token it asked     *)
(* with, or none; and a token that was refused stays without a session.    *)
LivesOn(token) == \E i \in Rows : Live(i) /\ sessions[i].token = token

OneRefresh ==
    /\ \A q, r \in promise : q = r
    /\ \A q \in Fetch : call[q].phase # "none" => q \in promise

RefreshKnown(q) ==
    /\ call[q].since <= logins
    /\ call[q].phase = "granted" => call[q].answer # NoToken
    /\ call[q].since = logins =>
          /\ cookie.refresh \in {call[q].token, NoToken} \/ call[q].phase = "lost"
          /\ call[q].phase = "refused" => ~ LivesOn(call[q].token)

TabInv == OneRefresh /\ \A q \in promise : RefreshKnown(q)
=============================================================================
