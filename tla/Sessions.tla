------------------------------ MODULE Sessions ------------------------------
(***************************************************************************)
(* Signing in and staying signed in: the sessions of one user, the refresh *)
(* token that changes with every refresh, and the tabs that share it as    *)
(* the cookie of their browser.                                            *)
(*                                                                         *)
(* Access tokens last a quarter of an hour, so a tab may need a refresh at *)
(* any time; a page that loads needs one as well.  A tab here has one      *)
(* request under way; two tabs stand for two requests of one tab, too.     *)
(* Tokens are drawn at random and are numbers here; a session is named by  *)
(* its first token.                                                        *)
(***************************************************************************)
EXTENDS Naturals

CONSTANTS
    Browsers,
    Tabs,
    BrowserOf,  \* [Tabs -> Browsers]
    MaxTokens,  \* bound: how many refresh tokens are issued
    MaxMishaps  \* bound: how many requests or answers are lost

ASSUME SessionsAssumption ==
    /\ BrowserOf \in [Tabs -> Browsers]
    /\ MaxTokens \in Nat
    /\ MaxMishaps \in Nat

VARIABLES
    nextToken,     \* the next refresh token
    user_sessions, \* [Tokens -> row]
    cookies,       \* [Browsers -> the refresh token of the cookie jar]
    tabs,          \* [Tabs -> what the tab holds, and its request]
    overlapped,    \* the browsers with two requests to /auth under way at once
    ended,         \* whether anybody has signed out, or a session has expired
    mishaps        \* how many there have been

vars == <<nextToken, user_sessions, cookies, tabs, overlapped, ended, mishaps>>

Tokens == 1..MaxTokens

None == 0  \* no token, no session

\* Where a request to /auth is: login; the statements of refresh; logout; and
\* the answers of the first two, and of the last.
Stages == {"login", "find", "rotate", "check", "revoke_all", "logout", "welcome", "farewell"}

Row == [token : Tokens \cup {None}, revoked : BOOLEAN, expired : BOOLEAN]

Tab == [ stage   : Stages \cup {"idle"},
         access  : Tokens \cup {None},    \* the sid of its access token
         sent    : Tokens \cup {None},    \* the refresh token of its request
         session : Tokens \cup {None},    \* the session that the server found
         fresh   : Tokens \cup {None} ]   \* the refresh token of the answer

TypeOK ==
    /\ nextToken \in 1..(MaxTokens + 1)
    /\ user_sessions \in [Tokens -> Row]
    /\ cookies \in [Browsers -> Tokens \cup {None}]
    /\ tabs \in [Tabs -> Tab]
    /\ overlapped \subseteq Browsers
    /\ ended \in BOOLEAN
    /\ mishaps \in 0..MaxMishaps

Absent == [token |-> None, revoked |-> FALSE, expired |-> FALSE]

Idle(access) ==
    [stage |-> "idle", access |-> access, sent |-> None, session |-> None, fresh |-> None]

Init ==
    /\ nextToken = 1
    /\ user_sessions = [s \in Tokens |-> Absent]
    /\ cookies = [b \in Browsers |-> None]
    /\ tabs = [t \in Tabs |-> Idle(None)]
    /\ overlapped = {}
    /\ ended = FALSE
    /\ mishaps = 0

Valid(s) ==
    /\ user_sessions[s].token # None
    /\ ~user_sessions[s].revoked
    /\ ~user_sessions[s].expired

Jar(t) == cookies[BrowserOf[t]]

\* authenticate: what a tab asks for with its access token is served as long
\* as the session is valid.
Served(t) == Valid(tabs[t].access)

-----------------------------------------------------------------------------
(* Requests leave. *)

\* The request takes along what the cookie jar holds.
Sends(t, stage) ==
    /\ tabs[t].stage = "idle"
    /\ tabs' = [tabs EXCEPT ![t] = [@ EXCEPT !.stage = stage, !.sent = Jar(t)]]
    /\ overlapped' = IF \E u \in Tabs \ {t} :
                           BrowserOf[u] = BrowserOf[t] /\ tabs[u].stage # "idle"
                     THEN overlapped \cup {BrowserOf[t]} ELSE overlapped
    /\ UNCHANGED <<nextToken, user_sessions, cookies, mishaps>>

Login(t) == tabs[t].access = None /\ Sends(t, "login") /\ UNCHANGED ended

\* A page loads, or is told TOKEN_EXPIRED.  Without a cookie the answer is 401.
Refresh(t) == Jar(t) # None /\ Sends(t, "find") /\ UNCHANGED ended

Logout(t) == tabs[t].access # None /\ Sends(t, "logout") /\ ended' = TRUE

-----------------------------------------------------------------------------
(* The server, statement by statement. *)

\* The password is right, and a session is made.
CreateSession(t) ==
    /\ tabs[t].stage = "login"
    /\ nextToken \in Tokens
    /\ user_sessions' = [user_sessions EXCEPT ![nextToken] = [Absent EXCEPT !.token = nextToken]]
    /\ tabs' = [tabs EXCEPT ![t] =
          [@ EXCEPT !.stage = "welcome", !.sent = None, !.session = nextToken, !.fresh = nextToken]]
    /\ nextToken' = nextToken + 1
    /\ UNCHANGED <<cookies, overlapped, ended, mishaps>>

\* findValidSession.
FindValidSession(t) ==
    /\ tabs[t].stage = "find"
    /\ \/ \E s \in Tokens :
             /\ Valid(s) /\ user_sessions[s].token = tabs[t].sent
             /\ tabs' = [tabs EXCEPT ![t] = [@ EXCEPT !.stage = "rotate", !.session = s]]
       \/ /\ ~ \E s \in Tokens : Valid(s) /\ user_sessions[s].token = tabs[t].sent
          /\ tabs' = [tabs EXCEPT ![t].stage = "check"]
    /\ UNCHANGED <<nextToken, user_sessions, cookies, overlapped, ended, mishaps>>

\* Mutants: the hash stored is not that of the token sent; the whole row is
\* written back as it was read.
RotatedOther(row, token) == [row EXCEPT !.token = token + 1, !.expired = FALSE]

RotatedWhole(row, token) == [token |-> token, revoked |-> FALSE, expired |-> FALSE]

Rotated(row, token) == [row EXCEPT !.token = token, !.expired = FALSE]

\* rotateUserSession finds the row by its id and the old token, and does not
\* say whether it has; the new token is sent in any case.
RotateUserSession(t) ==
    LET s == tabs[t].session
    IN  /\ tabs[t].stage = "rotate"
        /\ nextToken \in Tokens
        /\ user_sessions' = [user_sessions EXCEPT ![s] =
              IF @.token = tabs[t].sent THEN Rotated(@, nextToken) ELSE @]
        /\ tabs' = [tabs EXCEPT ![t] = [@ EXCEPT !.stage = "welcome", !.sent = None, !.fresh = nextToken]]
        /\ nextToken' = nextToken + 1
        /\ UNCHANGED <<cookies, overlapped, ended, mishaps>>

\* No valid session has the token.  The answer is 401, after all sessions of the
\* user have been revoked if a revoked or expired one has it.  A token that a
\* refresh has replaced is in no row any more, and goes unnoticed.
CheckReuse(t) ==
    /\ tabs[t].stage = "check"
    /\ tabs' = [tabs EXCEPT ![t] =
          IF \E s \in Tokens : user_sessions[s].token = tabs[t].sent
          THEN [@ EXCEPT !.stage = "revoke_all", !.sent = None] ELSE Idle(@.access)]
    /\ UNCHANGED <<nextToken, user_sessions, cookies, overlapped, ended, mishaps>>

RevokeAllUserSessions(t) ==
    /\ tabs[t].stage = "revoke_all"
    /\ user_sessions' = [s \in Tokens |->
          IF user_sessions[s].token = None THEN Absent
          ELSE [user_sessions[s] EXCEPT !.revoked = TRUE]]
    /\ tabs' = [tabs EXCEPT ![t] = Idle(@.access)]
    /\ UNCHANGED <<nextToken, cookies, overlapped, ended, mishaps>>

\* revokeSessionByHash, if there was a cookie.
RevokeSessionByHash(t) ==
    /\ tabs[t].stage = "logout"
    /\ user_sessions' = [s \in Tokens |->
          [user_sessions[s] EXCEPT
              !.revoked = @ \/ (tabs[t].sent # None /\ user_sessions[s].token = tabs[t].sent)]]
    /\ tabs' = [tabs EXCEPT ![t] = [@ EXCEPT !.stage = "farewell", !.sent = None]]
    /\ UNCHANGED <<nextToken, cookies, overlapped, ended, mishaps>>

-----------------------------------------------------------------------------
(* Answers arrive. *)

\* Mutant: only a login sends the cookie.
WelcomeKeepingCookie(t) ==
    /\ tabs[t].stage = "welcome"
    /\ cookies' = [cookies EXCEPT ![BrowserOf[t]] = IF @ = None THEN tabs[t].fresh ELSE @]
    /\ tabs' = [tabs EXCEPT ![t] = Idle(@.session)]
    /\ UNCHANGED <<nextToken, user_sessions, overlapped, ended, mishaps>>

\* Set-Cookie, and an access token for the session.
Welcome(t) ==
    /\ tabs[t].stage = "welcome"
    /\ cookies' = [cookies EXCEPT ![BrowserOf[t]] = tabs[t].fresh]
    /\ tabs' = [tabs EXCEPT ![t] = Idle(@.session)]
    /\ UNCHANGED <<nextToken, user_sessions, overlapped, ended, mishaps>>

Farewell(t) ==
    /\ tabs[t].stage = "farewell"
    /\ cookies' = [cookies EXCEPT ![BrowserOf[t]] = None]
    /\ tabs' = [tabs EXCEPT ![t] = Idle(None)]
    /\ UNCHANGED <<nextToken, user_sessions, overlapped, ended, mishaps>>

\* The request, its answer or the server gets lost, or a statement fails.  A
\* tab that signs out forgets its access token all the same.
Lost(t) ==
    /\ tabs[t].stage # "idle"
    /\ mishaps < MaxMishaps
    /\ mishaps' = mishaps + 1
    /\ tabs' = [tabs EXCEPT ![t] =
          Idle(IF @.stage \in {"logout", "farewell"} THEN None ELSE @.access)]
    /\ UNCHANGED <<nextToken, user_sessions, cookies, overlapped, ended>>

\* A page is loaded anew, and its access token was in memory only.
Reload(t) ==
    /\ tabs[t].stage = "idle"
    /\ tabs[t].access # None
    /\ tabs' = [tabs EXCEPT ![t] = Idle(None)]
    /\ UNCHANGED <<nextToken, user_sessions, cookies, overlapped, ended, mishaps>>

-----------------------------------------------------------------------------
(* Seven days pass without a refresh, for the session and for the cookie. *)

SessionExpires(s) ==
    /\ Valid(s)
    /\ user_sessions' = [user_sessions EXCEPT ![s].expired = TRUE]
    /\ ended' = TRUE
    /\ UNCHANGED <<nextToken, cookies, tabs, overlapped, mishaps>>

CookieExpires(b) ==
    /\ \E s \in Tokens : user_sessions[s].token = cookies[b] /\ user_sessions[s].expired
    /\ cookies' = [cookies EXCEPT ![b] = None]
    /\ UNCHANGED <<nextToken, user_sessions, tabs, overlapped, ended, mishaps>>

-----------------------------------------------------------------------------

Serve(t) ==
    \/ CreateSession(t) \/ FindValidSession(t) \/ RotateUserSession(t)
    \/ CheckReuse(t) \/ RevokeAllUserSessions(t) \/ RevokeSessionByHash(t)

Next ==
    \/ \E t \in Tabs :
          \/ Login(t) \/ Refresh(t) \/ Logout(t) \/ Reload(t)
          \/ Serve(t)
          \/ Welcome(t) \/ Farewell(t) \/ Lost(t)
    \/ \E s \in Tokens : SessionExpires(s)
    \/ \E b \in Browsers : CookieExpires(b)

Spec == Init /\ [][Next]_vars

-----------------------------------------------------------------------------
(* Properties. *)

\* If a browser has sent one request to /auth at a time, and no answer was lost,
\* its cookie is the token of a session, so that it can be refreshed until that
\* session ends.
CookieIsCurrent ==
    mishaps = 0 =>
        \A b \in Browsers \ overlapped :
            /\ cookies[b] # None
            /\ \A t \in Tabs : BrowserOf[t] = b => tabs[t].stage = "idle"
            => \E s \in Tokens : user_sessions[s].token = cookies[b]

\* If such a browser signs out, the session of its cookie is found, and nobody is
\* served with it any more when the answer is on its way.  A refresh that overlaps
\* may replace the token first, so that revokeSessionByHash finds no row.
SignOutRevokes ==
    mishaps = 0 =>
        \A t \in Tabs :
            /\ tabs[t].stage = "farewell"
            /\ BrowserOf[t] \notin overlapped
            /\ Jar(t) # None
            => \E s \in Tokens :
                  /\ user_sessions[s].token = Jar(t)
                  /\ \A u \in Tabs : tabs[u].access = s => ~Served(u)

\* A session that was revoked stays revoked, although a refresh that has found
\* it valid before writes its row afterwards.
RevocationIsFinal ==
    [][\A s \in Tokens : user_sessions[s].revoked => user_sessions'[s].revoked]_vars

\* A session is named by its first token, which is used once a refresh has
\* replaced it.
Used(k) == user_sessions[k].token \notin {None, k}

\* If somebody presents a token that a refresh has used, all sessions of the user
\* are revoked before he is answered (the replay attack check of refresh).
ReuseRevokesAll ==
    [][\A t \in Tabs : \A k \in Tokens :
          /\ tabs[t].stage = "check" /\ tabs[t].sent = k /\ Used(k)
          /\ tabs'[t].stage # "check" /\ mishaps' = mishaps
          => tabs'[t].stage = "revoke_all"]_vars

=============================================================================
