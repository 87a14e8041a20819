--------------------------- MODULE SessionsProofs ---------------------------
(***************************************************************************)
(* Proofs about Sessions, for any browsers and tabs, and any number of     *)
(* tokens and mishaps.                                                     *)
(***************************************************************************)
EXTENDS Sessions, TLAPS

\* A token that the browser has, or is about to get.
Holds(b, k) ==
    \/ cookies[b] = k
    \/ \E t \in Tabs : BrowserOf[t] = b /\ k \in {tabs[t].sent, tabs[t].fresh}

\* What is not issued yet is nowhere.
Issued ==
    /\ \A s \in Tokens : user_sessions[s].token < nextToken
    /\ \A s \in Tokens : s >= nextToken => user_sessions[s] = Absent
    /\ \A b \in Browsers : cookies[b] < nextToken
    /\ \A t \in Tabs : tabs[t].sent < nextToken /\ tabs[t].fresh < nextToken

\* Sessions that tabs know of have been made.
Known ==
    \A t \in Tabs :
        /\ tabs[t].access # None => user_sessions[tabs[t].access].token # None
        /\ tabs[t].stage \in {"rotate", "welcome"} =>
              tabs[t].session # None /\ user_sessions[tabs[t].session].token # None
        /\ tabs[t].stage \in {"find", "rotate", "check"} => tabs[t].sent # None
        /\ tabs[t].stage = "welcome" => tabs[t].fresh # None

\* Before anything has ended, no session is revoked or expired, and a token that
\* was not found is the token of no session.
Quiet ==
    ~ended =>
        /\ \A s \in Tokens : ~user_sessions[s].revoked /\ ~user_sessions[s].expired
        /\ \A t \in Tabs :
              /\ tabs[t].stage \notin {"revoke_all", "logout", "farewell"}
              /\ tabs[t].stage = "check" =>
                    \A s \in Tokens : user_sessions[s].token # tabs[t].sent

\* No two sessions have the same token, and no two browsers hold one.
Separate ==
    /\ \A r, s \in Tokens : user_sessions[r].token = user_sessions[s].token =>
          r = s \/ user_sessions[r].token = None
    /\ \A b, c \in Browsers : \A k \in Tokens : Holds(b, k) /\ Holds(c, k) => b = c

\* A browser that has not overlapped has one request at most.
Alone ==
    \A t, u \in Tabs :
        /\ BrowserOf[t] = BrowserOf[u] /\ BrowserOf[t] \notin overlapped
        /\ tabs[t].stage # "idle" /\ tabs[u].stage # "idle"
        => t = u

\* Then a rotation finds its row, and the answer carries the token of a session.
Unraced ==
    \A t \in Tabs : BrowserOf[t] \notin overlapped =>
        /\ tabs[t].stage = "rotate" => user_sessions[tabs[t].session].token = tabs[t].sent
        /\ tabs[t].stage = "welcome" => user_sessions[tabs[t].session].token = tabs[t].fresh

\* And the cookie is current unless a new one is on its way.
Current ==
    mishaps = 0 =>
        \A b \in Browsers \ overlapped :
            \/ cookies[b] = None
            \/ \E s \in Tokens : user_sessions[s].token = cookies[b]
            \/ \E t \in Tabs : BrowserOf[t] = b /\ tabs[t].stage = "welcome"

IInv == TypeOK /\ Issued /\ Known /\ Quiet /\ Separate /\ Alone /\ Unraced /\ Current

-----------------------------------------------------------------------------
(* What all steps have in common. *)

LEMMA InitIInv == Init => IInv
<1> SUFFICES ASSUME Init PROVE IInv
  OBVIOUS
<1> USE SessionsAssumption DEF Init, Idle, Absent, None, Tokens
<1>1. TypeOK
  <2>1. user_sessions \in [Tokens -> Row]
    BY DEF Row
  <2>2. cookies \in [Browsers -> Tokens \cup {None}]
    OBVIOUS
  <2>3. tabs \in [Tabs -> Tab]
    BY DEF Tab
  <2>4. nextToken \in 1..(MaxTokens + 1) /\ mishaps \in 0..MaxMishaps
    OBVIOUS
  <2>5. overlapped \subseteq Browsers /\ ended \in BOOLEAN
    OBVIOUS
  <2> HIDE DEF Init, Idle, Absent, None, Tokens
  <2> QED
    BY <2>1, <2>2, <2>3, <2>4, <2>5 DEF TypeOK
<1>2. Issued
  BY DEF Issued
<1>3. Known /\ Quiet /\ Alone /\ Unraced /\ Current
  BY DEF Known, Quiet, Alone, Unraced, Current
<1>4. Separate
  BY DEF Separate, Holds
<1> QED
  BY <1>1, <1>2, <1>3, <1>4 DEF IInv

LEMMA SendsKeepsTypes ==
    ASSUME TypeOK, NEW t \in Tabs, NEW stage \in Stages, Sends(t, stage), ended' \in BOOLEAN
    PROVE  TypeOK'
<1>1. BrowserOf[t] \in Browsers /\ Jar(t) \in Tokens \cup {None}
  BY SessionsAssumption DEF TypeOK, Jar
<1>2. tabs \in [Tabs -> Tab]
  BY DEF TypeOK
<1>3. [tabs[t] EXCEPT !.stage = stage, !.sent = Jar(t)] \in Tab
  BY <1>1, <1>2 DEF Tab
<1>4. tabs' \in [Tabs -> Tab]
  BY <1>2, <1>3 DEF Sends
<1>5. overlapped' \subseteq Browsers
  BY <1>1 DEF Sends, TypeOK
<1> QED
  BY <1>4, <1>5 DEF Sends, TypeOK

LEMMA LoginKeeps == ASSUME IInv, NEW t \in Tabs, Login(t) PROVE IInv'
<1> USE SessionsAssumption DEF IInv, Login, Sends, Jar, None, Tokens, Row, Tab
<1>1. TypeOK'
  <2> HIDE DEF IInv, Login, Sends
  <2>1. TypeOK /\ Sends(t, "login") /\ "login" \in Stages /\ ended' \in BOOLEAN
    BY DEF IInv, Login, Stages, TypeOK
  <2> QED
    BY <2>1, SendsKeepsTypes
<1>2. Issued'
  <2>1. cookies[BrowserOf[t]] < nextToken
    BY DEF Issued
  <2> QED
    BY <2>1, SMTT(60) DEF Issued, TypeOK
<1>3. Known'
  BY DEF Known, TypeOK, Issued
<1>4. Quiet'
  BY DEF Quiet, TypeOK, Issued
<1>5. Separate'
  BY DEF Separate, Holds, TypeOK, Issued
<1>6. Alone'
  BY DEF Alone, TypeOK
<1>7. Unraced'
  BY DEF Unraced, TypeOK, Issued, Known, Separate, Alone
<1>8. Current'
  <2>1. \A u \in Tabs : tabs[u].stage = "welcome" => tabs'[u].stage = "welcome"
    BY DEF TypeOK
  <2>2. overlapped \subseteq overlapped'
    OBVIOUS
  <2> HIDE DEF IInv, Tab, Row
  <2> QED
    BY <2>1, <2>2 DEF Current, IInv
<1> QED
  BY <1>1, <1>2, <1>3, <1>4, <1>5, <1>6, <1>7, <1>8

LEMMA RefreshKeeps == ASSUME IInv, NEW t \in Tabs, Refresh(t) PROVE IInv'
<1> USE SessionsAssumption DEF IInv, Refresh, Sends, Jar, None, Tokens, Row, Tab
<1>1. TypeOK'
  <2> HIDE DEF IInv, Refresh, Sends
  <2>1. TypeOK /\ Sends(t, "find") /\ "find" \in Stages /\ ended' \in BOOLEAN
    BY DEF IInv, Refresh, Stages, TypeOK
  <2> QED
    BY <2>1, SendsKeepsTypes
<1>2. Issued'
  BY DEF Issued, TypeOK
<1>3. Known'
  BY DEF Known, TypeOK, Issued
<1>4. Quiet'
  BY DEF Quiet, TypeOK, Issued
<1>5. Separate'
  BY DEF Separate, Holds, TypeOK, Issued
<1>6. Alone'
  BY DEF Alone, TypeOK
<1>7. Unraced'
  BY DEF Unraced, TypeOK, Issued, Known, Separate, Alone
<1>8. Current'
  <2>1. \A u \in Tabs : tabs[u].stage = "welcome" => tabs'[u].stage = "welcome"
    BY DEF TypeOK
  <2>2. overlapped \subseteq overlapped'
    OBVIOUS
  <2> HIDE DEF IInv, Tab, Row
  <2> QED
    BY <2>1, <2>2 DEF Current, IInv
<1> QED
  BY <1>1, <1>2, <1>3, <1>4, <1>5, <1>6, <1>7, <1>8

LEMMA LogoutKeeps == ASSUME IInv, NEW t \in Tabs, Logout(t) PROVE IInv'
<1> USE SessionsAssumption DEF IInv, Logout, Sends, Jar, None, Tokens, Row, Tab
<1>1. TypeOK'
  <2> HIDE DEF IInv, Logout, Sends
  <2>1. TypeOK /\ Sends(t, "logout") /\ "logout" \in Stages /\ ended' \in BOOLEAN
    BY DEF IInv, Logout, Stages, TypeOK
  <2> QED
    BY <2>1, SendsKeepsTypes
<1>2. Issued'
  BY DEF Issued, TypeOK
<1>3. Known'
  BY DEF Known, TypeOK, Issued
<1>4. Quiet'
  BY DEF Quiet, TypeOK, Issued
<1>5. Separate'
  BY DEF Separate, Holds, TypeOK, Issued
<1>6. Alone'
  BY DEF Alone, TypeOK
<1>7. Unraced'
  BY DEF Unraced, TypeOK, Issued, Known, Separate, Alone
<1>8. Current'
  <2>1. \A u \in Tabs : tabs[u].stage = "welcome" => tabs'[u].stage = "welcome"
    BY DEF TypeOK
  <2>2. overlapped \subseteq overlapped'
    OBVIOUS
  <2> HIDE DEF IInv, Tab, Row
  <2> QED
    BY <2>1, <2>2 DEF Current, IInv
<1> QED
  BY <1>1, <1>2, <1>3, <1>4, <1>5, <1>6, <1>7, <1>8

LEMMA CreateSessionKeeps == ASSUME IInv, NEW t \in Tabs, CreateSession(t) PROVE IInv'
<1> USE SessionsAssumption DEF IInv, None, Tokens
<1> DEFINE new == tabs'[t]
<1>1. /\ UNCHANGED <<cookies, overlapped, ended, mishaps>>
      /\ tabs[t].stage = "login" /\ tabs' \in [Tabs -> Tab]
      /\ \A u \in Tabs \ {t} : tabs'[u] = tabs[u]
      /\ new.stage = "welcome" /\ new.access = tabs[t].access /\ new.sent = None
      /\ new.session = nextToken /\ new.fresh = nextToken
  <2>1. tabs \in [Tabs -> Tab]
    BY DEF TypeOK
  <2> QED
    BY <2>1 DEF CreateSession, Tab, Stages
<1>2. /\ nextToken \in Tokens /\ nextToken' = nextToken + 1
      /\ user_sessions' \in [Tokens -> Row]
      /\ \A s \in Tokens \ {nextToken} : user_sessions'[s] = user_sessions[s]
      /\ user_sessions'[nextToken].token = nextToken
      /\ ~user_sessions'[nextToken].revoked /\ ~user_sessions'[nextToken].expired
      /\ user_sessions[nextToken].token = None
  <2>1. /\ nextToken \in Tokens /\ nextToken' = nextToken + 1
        /\ user_sessions' = [user_sessions EXCEPT ![nextToken] = [Absent EXCEPT !.token = nextToken]]
    BY DEF CreateSession
  <2>2. [Absent EXCEPT !.token = nextToken] \in Row
    BY <2>1 DEF Absent, Row
  <2>3. user_sessions \in [Tokens -> Row]
    BY DEF TypeOK
  <2>4. user_sessions[nextToken] = Absent
    BY <2>1 DEF Issued
  <2> QED
    BY <2>1, <2>2, <2>3, <2>4 DEF Absent
<1> HIDE DEF new
<1>3. TypeOK'
  BY <1>1, <1>2 DEF TypeOK
<1>4. Issued'
  <2>1. \A s \in Tokens : user_sessions'[s].token < nextToken'
    BY <1>2 DEF Issued, TypeOK, Row
  <2>2. \A s \in Tokens : s >= nextToken' => user_sessions'[s] = Absent
    BY <1>2 DEF Issued
  <2>3. \A b \in Browsers : cookies'[b] < nextToken'
    BY <1>1, <1>2 DEF Issued, TypeOK
  <2>4. \A u \in Tabs : tabs'[u].sent < nextToken' /\ tabs'[u].fresh < nextToken'
    <3> SUFFICES ASSUME NEW u \in Tabs
                 PROVE  tabs'[u].sent < nextToken' /\ tabs'[u].fresh < nextToken'
      OBVIOUS
    <3>1. CASE u = t
      BY <1>1, <1>2, <3>1 DEF new
    <3>2. CASE u # t
      BY <1>1, <1>2, <3>2 DEF Issued, TypeOK, Tab
    <3> QED
      BY <3>1, <3>2
  <2> QED
    BY <2>1, <2>2, <2>3, <2>4 DEF Issued
<1>5. Known'
  <2>1. \A s \in Tokens : user_sessions[s].token # None => user_sessions'[s].token # None
    BY <1>2
  <2> SUFFICES ASSUME NEW u \in Tabs
               PROVE  /\ tabs'[u].access # None => user_sessions'[tabs'[u].access].token # None
                      /\ tabs'[u].stage \in {"rotate", "welcome"} =>
                            /\ tabs'[u].session # None
                            /\ user_sessions'[tabs'[u].session].token # None
                      /\ tabs'[u].stage \in {"find", "rotate", "check"} => tabs'[u].sent # None
                      /\ tabs'[u].stage = "welcome" => tabs'[u].fresh # None
    BY DEF Known
  <2>2. CASE u = t
    BY <1>1, <1>2, <2>1, <2>2 DEF Known, new, TypeOK, Tab
  <2>3. CASE u # t
    BY <1>1, <2>1, <2>3 DEF Known, TypeOK, Tab
  <2> QED
    BY <2>2, <2>3
<1>6. Quiet'
  <2> SUFFICES ASSUME ~ended
               PROVE  /\ \A s \in Tokens : ~user_sessions'[s].revoked /\ ~user_sessions'[s].expired
                      /\ \A u \in Tabs :
                            /\ tabs'[u].stage \notin {"revoke_all", "logout", "farewell"}
                            /\ tabs'[u].stage = "check" =>
                                  \A s \in Tokens : user_sessions'[s].token # tabs'[u].sent
    BY <1>1 DEF Quiet
  <2>1. \A s \in Tokens : ~user_sessions'[s].revoked /\ ~user_sessions'[s].expired
    BY <1>2 DEF Quiet
  <2>2. \A u \in Tabs : tabs'[u].stage \notin {"revoke_all", "logout", "farewell"}
    BY <1>1 DEF Quiet, new
  <2>3. ASSUME NEW u \in Tabs, tabs'[u].stage = "check", NEW s \in Tokens
        PROVE  user_sessions'[s].token # tabs'[u].sent
    <3>1. u # t /\ tabs[u].stage = "check"
      BY <1>1, <2>3 DEF new
    <3>2. tabs[u].sent < nextToken /\ user_sessions[s].token # tabs[u].sent
      BY <3>1 DEF Quiet, Issued
    <3>3. tabs'[u].sent = tabs[u].sent
      BY <1>1, <3>1
    <3>4. CASE s = nextToken
      BY <1>2, <3>2, <3>3, <3>4
    <3>5. CASE s # nextToken
      BY <1>2, <3>2, <3>3, <3>5
    <3> QED
      BY <3>4, <3>5
  <2> QED
    BY <2>1, <2>2, <2>3
<1>7. Separate'
  <2>1. \A r, s \in Tokens : user_sessions'[r].token = user_sessions'[s].token =>
           r = s \/ user_sessions'[r].token = None
    BY <1>2 DEF Separate, Issued, TypeOK, Row
  <2>2. ASSUME NEW b \in Browsers, NEW k \in Tokens, Holds(b, k)'
        PROVE  Holds(b, k) \/ (k = nextToken /\ b = BrowserOf[t])
    BY <1>1, <2>2 DEF Holds, new
  <2>3. \A b \in Browsers : ~Holds(b, nextToken)
    BY <1>2 DEF Holds, Issued, TypeOK, Tab
  <2> QED
    BY <2>1, <2>2, <2>3 DEF Separate
<1>8. Alone'
  BY <1>1 DEF Alone, new
<1>9. Unraced'
  <2> SUFFICES ASSUME NEW u \in Tabs, BrowserOf[u] \notin overlapped
               PROVE  /\ tabs'[u].stage = "rotate" =>
                            user_sessions'[tabs'[u].session].token = tabs'[u].sent
                      /\ tabs'[u].stage = "welcome" =>
                            user_sessions'[tabs'[u].session].token = tabs'[u].fresh
    BY <1>1 DEF Unraced
  <2>1. CASE u = t
    BY <1>1, <1>2, <2>1 DEF new
  <2>2. CASE u # t /\ tabs[u].stage \in {"rotate", "welcome"}
    <3>1. tabs[u].session \in Tokens /\ user_sessions[tabs[u].session].token # None
      BY <2>2 DEF Known, TypeOK, Tab
    <3>2. user_sessions'[tabs[u].session] = user_sessions[tabs[u].session]
      BY <1>2, <3>1
    <3> QED
      BY <1>1, <2>2, <3>2 DEF Unraced
  <2>3. CASE u # t /\ tabs[u].stage \notin {"rotate", "welcome"}
    BY <1>1, <2>3
  <2> QED
    BY <2>1, <2>2, <2>3
<1>10. Current'
  <2> SUFFICES ASSUME mishaps = 0, NEW b \in Browsers \ overlapped, cookies[b] # None,
                      \A u \in Tabs : BrowserOf[u] = b => tabs'[u].stage # "welcome"
               PROVE  \E s \in Tokens : user_sessions'[s].token = cookies[b]
    BY <1>1 DEF Current
  <2>1. \A u \in Tabs : BrowserOf[u] = b => tabs[u].stage # "welcome"
    BY <1>1
  <2>2. PICK s \in Tokens : user_sessions[s].token = cookies[b]
    BY <2>1 DEF Current
  <2> QED
    BY <1>2, <2>2
<1> QED
  BY <1>3, <1>4, <1>5, <1>6, <1>7, <1>8, <1>9, <1>10

LEMMA FindValidSessionKeeps == ASSUME IInv, NEW t \in Tabs, FindValidSession(t) PROVE IInv'
<1> USE SessionsAssumption DEF IInv, None, Tokens
<1> DEFINE new == tabs'[t]
<1>1. /\ UNCHANGED <<nextToken, user_sessions, cookies, overlapped, ended, mishaps>>
      /\ tabs[t].stage = "find" /\ tabs' \in [Tabs -> Tab]
      /\ \A u \in Tabs \ {t} : tabs'[u] = tabs[u]
      /\ new.access = tabs[t].access /\ new.sent = tabs[t].sent /\ new.fresh = tabs[t].fresh
      /\ \/ /\ new.stage = "rotate" /\ new.session \in Tokens
            /\ user_sessions[new.session].token = tabs[t].sent
         \/ /\ new.stage = "check" /\ new.session = tabs[t].session
            /\ \A s \in Tokens : user_sessions[s].token = tabs[t].sent => ~Valid(s)
  <2>1. tabs \in [Tabs -> Tab]
    BY DEF TypeOK
  <2>2. ASSUME NEW s \in Tokens, Valid(s), user_sessions[s].token = tabs[t].sent,
               tabs' = [tabs EXCEPT ![t] = [@ EXCEPT !.stage = "rotate", !.session = s]]
        PROVE  <1>1
    BY <2>1, <2>2 DEF FindValidSession, Tab, Stages
  <2>3. ASSUME ~ \E s \in Tokens : Valid(s) /\ user_sessions[s].token = tabs[t].sent,
               tabs' = [tabs EXCEPT ![t].stage = "check"]
        PROVE  <1>1
    BY <2>1, <2>3 DEF FindValidSession, Tab, Stages
  <2> QED
    BY <2>2, <2>3 DEF FindValidSession
<1> HIDE DEF new
<1>2. TypeOK'
  BY <1>1 DEF TypeOK
<1>3. Issued'
  BY <1>1 DEF Issued, TypeOK, Tab, new
<1>4. Known'
  BY <1>1 DEF Known, new, TypeOK, Tab
<1>5. Quiet'
  <2> SUFFICES ASSUME ~ended, NEW u \in Tabs
               PROVE  /\ tabs'[u].stage \notin {"revoke_all", "logout", "farewell"}
                      /\ tabs'[u].stage = "check" =>
                            \A s \in Tokens : user_sessions[s].token # tabs'[u].sent
    BY <1>1 DEF Quiet
  <2>1. CASE u # t
    BY <1>1, <2>1 DEF Quiet
  <2>2. CASE u = t
    BY <1>1, <2>2 DEF Quiet, Known, Valid, new
  <2> QED
    BY <2>1, <2>2
<1>6. Separate'
  <2>1. \A b \in Browsers : \A k \in Tokens : Holds(b, k)' <=> Holds(b, k)
    BY <1>1 DEF Holds, new
  <2> QED
    BY <1>1, <2>1 DEF Separate
<1>7. Alone'
  BY <1>1 DEF Alone, new
<1>8. Unraced'
  BY <1>1 DEF Unraced, new
<1>9. Current'
  BY <1>1 DEF Current, new
<1> QED
  BY <1>2, <1>3, <1>4, <1>5, <1>6, <1>7, <1>8, <1>9

LEMMA RotateUserSessionKeeps == ASSUME IInv, NEW t \in Tabs, RotateUserSession(t) PROVE IInv'
<1> USE SessionsAssumption DEF IInv, None, Tokens
<1> DEFINE new == tabs'[t]
<1> DEFINE s0 == tabs[t].session
<1>1. /\ UNCHANGED <<cookies, overlapped, ended, mishaps>>
      /\ tabs[t].stage = "rotate" /\ tabs' \in [Tabs -> Tab]
      /\ \A u \in Tabs \ {t} : tabs'[u] = tabs[u]
      /\ new.stage = "welcome" /\ new.access = tabs[t].access /\ new.sent = None
      /\ new.session = s0 /\ new.fresh = nextToken
  <2>1. tabs \in [Tabs -> Tab]
    BY DEF TypeOK
  <2> QED
    BY <2>1 DEF RotateUserSession, Tab, Stages
<1>2. /\ s0 \in Tokens /\ user_sessions[s0].token # None
      /\ tabs[t].sent \in Tokens
  BY <1>1 DEF Known, TypeOK, Tab
<1>3. /\ nextToken \in Tokens /\ nextToken' = nextToken + 1
      /\ user_sessions' \in [Tokens -> Row]
      /\ \A s \in Tokens \ {s0} : user_sessions'[s] = user_sessions[s]
      /\ user_sessions'[s0].token =
            IF user_sessions[s0].token = tabs[t].sent THEN nextToken ELSE user_sessions[s0].token
      /\ user_sessions'[s0].revoked = user_sessions[s0].revoked
      /\ user_sessions[s0].expired \/ ~user_sessions'[s0].expired
      /\ s0 < nextToken
  <2>1. /\ nextToken \in Tokens /\ nextToken' = nextToken + 1
        /\ user_sessions' = [user_sessions EXCEPT ![s0] =
              IF user_sessions[s0].token = tabs[t].sent
              THEN Rotated(user_sessions[s0], nextToken) ELSE user_sessions[s0]]
    BY DEF RotateUserSession
  <2>2. user_sessions \in [Tokens -> Row] /\ user_sessions[s0] \in Row
    BY <1>2 DEF TypeOK
  <2>3. /\ Rotated(user_sessions[s0], nextToken) \in Row
        /\ Rotated(user_sessions[s0], nextToken).token = nextToken
        /\ Rotated(user_sessions[s0], nextToken).revoked = user_sessions[s0].revoked
        /\ ~Rotated(user_sessions[s0], nextToken).expired
    BY <2>1, <2>2 DEF Rotated, Row
  <2>4. s0 < nextToken
    <3>1. ~(s0 >= nextToken)
      BY <1>2 DEF Issued, Absent
    <3> QED
      BY <1>2, <2>1, <3>1
  <2> HIDE DEF s0
  <2>5. user_sessions'[s0] = IF user_sessions[s0].token = tabs[t].sent
              THEN Rotated(user_sessions[s0], nextToken) ELSE user_sessions[s0]
    BY <1>2, <2>1, <2>2
  <2>6. user_sessions'[s0] \in Row /\ \A s \in Tokens \ {s0} : user_sessions'[s] = user_sessions[s]
    BY <2>1, <2>2, <2>3, <2>5
  <2>7. user_sessions' \in [Tokens -> Row]
    BY <2>1, <2>2, <2>3
  <2> QED
    BY <2>1, <2>3, <2>4, <2>5, <2>6, <2>7
<1> HIDE DEF new, s0
<1>4. TypeOK'
  BY <1>1, <1>3 DEF TypeOK
<1>5. Issued'
  <2>1. \A s \in Tokens : user_sessions'[s].token < nextToken'
    <3> SUFFICES ASSUME NEW s \in Tokens PROVE user_sessions'[s].token < nextToken + 1
      BY <1>3
    <3>1. user_sessions[s].token < nextToken /\ user_sessions[s].token \in Nat /\ nextToken \in Nat
      BY <1>3 DEF Issued, TypeOK, Row
    <3>2. user_sessions'[s].token \in {user_sessions[s].token, nextToken}
      BY <1>3
    <3> HIDE DEF IInv
    <3> QED
      BY <3>1, <3>2
  <2>2. \A s \in Tokens : s >= nextToken' => user_sessions'[s] = Absent
    BY <1>2, <1>3 DEF Issued
  <2>3. \A b \in Browsers : cookies'[b] < nextToken'
    BY <1>1, <1>3 DEF Issued, TypeOK
  <2>4. \A u \in Tabs : tabs'[u].sent < nextToken' /\ tabs'[u].fresh < nextToken'
    <3> SUFFICES ASSUME NEW u \in Tabs
                 PROVE  tabs'[u].sent < nextToken' /\ tabs'[u].fresh < nextToken'
      OBVIOUS
    <3>1. CASE u = t
      BY <1>1, <1>3, <3>1 DEF new
    <3>2. CASE u # t
      BY <1>1, <1>3, <3>2 DEF Issued, TypeOK, Tab
    <3> QED
      BY <3>1, <3>2
  <2> QED
    BY <2>1, <2>2, <2>3, <2>4 DEF Issued
<1>6. Known'
  <2>1. \A s \in Tokens : user_sessions[s].token # None => user_sessions'[s].token # None
    BY <1>2, <1>3
  <2> SUFFICES ASSUME NEW u \in Tabs
               PROVE  /\ tabs'[u].access # None => user_sessions'[tabs'[u].access].token # None
                      /\ tabs'[u].stage \in {"rotate", "welcome"} =>
                            /\ tabs'[u].session # None
                            /\ user_sessions'[tabs'[u].session].token # None
                      /\ tabs'[u].stage \in {"find", "rotate", "check"} => tabs'[u].sent # None
                      /\ tabs'[u].stage = "welcome" => tabs'[u].fresh # None
    BY DEF Known
  <2>2. CASE u = t
    <3>1. tabs'[u].access # None => user_sessions'[tabs'[u].access].token # None
      <4>1. tabs'[u].access = tabs[t].access /\ tabs[t].access \in Tokens \cup {None}
        BY <1>1, <2>2 DEF new, TypeOK, Tab
      <4>2. tabs[t].access # None => user_sessions[tabs[t].access].token # None
        BY DEF Known
      <4> QED
        BY <2>1, <4>1, <4>2
    <3> QED
      BY <1>1, <1>2, <1>3, <2>1, <2>2, <3>1 DEF new
  <2>3. CASE u # t
    BY <1>1, <2>1, <2>3 DEF Known, TypeOK, Tab
  <2> QED
    BY <2>2, <2>3
<1>7. Quiet'
  <2> SUFFICES ASSUME ~ended
               PROVE  /\ \A s \in Tokens : ~user_sessions'[s].revoked /\ ~user_sessions'[s].expired
                      /\ \A u \in Tabs :
                            /\ tabs'[u].stage \notin {"revoke_all", "logout", "farewell"}
                            /\ tabs'[u].stage = "check" =>
                                  \A s \in Tokens : user_sessions'[s].token # tabs'[u].sent
    BY <1>1 DEF Quiet
  <2>1. \A s \in Tokens : ~user_sessions'[s].revoked /\ ~user_sessions'[s].expired
    BY <1>2, <1>3 DEF Quiet
  <2>2. \A u \in Tabs : tabs'[u].stage \notin {"revoke_all", "logout", "farewell"}
    BY <1>1 DEF Quiet, new
  <2>3. ASSUME NEW u \in Tabs, tabs'[u].stage = "check", NEW s \in Tokens
        PROVE  user_sessions'[s].token # tabs'[u].sent
    <3>1. u # t /\ tabs[u].stage = "check"
      BY <1>1, <2>3 DEF new
    <3>2. tabs[u].sent < nextToken /\ user_sessions[s].token # tabs[u].sent
      BY <3>1 DEF Quiet, Issued
    <3>3. tabs'[u].sent = tabs[u].sent
      BY <1>1, <3>1
    <3>4. user_sessions'[s].token \in {user_sessions[s].token, nextToken}
      BY <1>3
    <3> QED
      BY <1>3, <3>2, <3>3, <3>4
  <2> QED
    BY <2>1, <2>2, <2>3
<1>8. Separate'
  <2>1. \A r, s \in Tokens : user_sessions'[r].token = user_sessions'[s].token =>
           r = s \/ user_sessions'[r].token = None
    BY <1>2, <1>3 DEF Separate, Issued, TypeOK, Row
  <2>2. ASSUME NEW b \in Browsers, NEW k \in Tokens, Holds(b, k)'
        PROVE  Holds(b, k) \/ (k = nextToken /\ b = BrowserOf[t])
    BY <1>1, <2>2 DEF Holds, new
  <2>3. \A b \in Browsers : ~Holds(b, nextToken)
    BY <1>3 DEF Holds, Issued, TypeOK, Tab
  <2> QED
    BY <2>1, <2>2, <2>3 DEF Separate
<1>9. Alone'
  BY <1>1 DEF Alone, new
<1>10. \A b \in Browsers : Holds(b, tabs[t].sent) => b = BrowserOf[t]
  <2>1. Holds(BrowserOf[t], tabs[t].sent) /\ BrowserOf[t] \in Browsers
    BY DEF Holds
  <2> QED
    BY <1>2, <2>1 DEF Separate
<1>11. Unraced'
  <2> SUFFICES ASSUME NEW u \in Tabs, BrowserOf[u] \notin overlapped
               PROVE  /\ tabs'[u].stage = "rotate" =>
                            user_sessions'[tabs'[u].session].token = tabs'[u].sent
                      /\ tabs'[u].stage = "welcome" =>
                            user_sessions'[tabs'[u].session].token = tabs'[u].fresh
    BY <1>1 DEF Unraced
  <2>1. CASE u = t
    BY <1>1, <1>3, <2>1 DEF Unraced, new, s0
  <2>2. CASE u # t /\ tabs[u].stage \in {"rotate", "welcome"}
    <3>1. BrowserOf[u] # BrowserOf[t]
      BY <1>1, <2>2 DEF Alone
    <3>2. tabs[u].session \in Tokens
      BY <2>2 DEF Known, TypeOK, Tab
    <3>3. tabs[u].sent # tabs[t].sent /\ tabs[u].fresh # tabs[t].sent
      BY <1>10, <3>1 DEF Holds
    <3>4. user_sessions[tabs[u].session].token \in {tabs[u].sent, tabs[u].fresh}
      BY <2>2 DEF Unraced
    <3>5. user_sessions'[tabs[u].session].token = user_sessions[tabs[u].session].token
      BY <1>3, <3>2, <3>3, <3>4
    <3> QED
      BY <1>1, <2>2, <3>5 DEF Unraced
  <2>3. CASE u # t /\ tabs[u].stage \notin {"rotate", "welcome"}
    BY <1>1, <2>3
  <2> QED
    BY <2>1, <2>2, <2>3
<1>12. Current'
  <2> SUFFICES ASSUME mishaps = 0, NEW b \in Browsers \ overlapped, cookies[b] # None,
                      \A u \in Tabs : BrowserOf[u] = b => tabs'[u].stage # "welcome"
               PROVE  \E s \in Tokens : user_sessions'[s].token = cookies[b]
    BY <1>1 DEF Current
  <2>1. b # BrowserOf[t]
    BY <1>1 DEF new
  <2>2. PICK s \in Tokens : user_sessions[s].token = cookies[b]
    BY <1>1, <2>1 DEF Current
  <2>3. cookies[b] # tabs[t].sent
    BY <1>10, <2>1 DEF Holds
  <2> QED
    BY <1>3, <2>2, <2>3
<1> QED
  BY <1>4, <1>5, <1>6, <1>7, <1>8, <1>9, <1>11, <1>12

LEMMA CheckReuseKeeps == ASSUME IInv, NEW t \in Tabs, CheckReuse(t) PROVE IInv'
<1> USE SessionsAssumption DEF IInv, CheckReuse, Idle, None, Tokens, Row, Tab
<1>1. TypeOK'
  <2>1. tabs[t] \in Tab /\ tabs \in [Tabs -> Tab]
    BY DEF TypeOK
  <2>2. Idle(tabs[t].access) \in Tab
    BY <2>1
  <2>3. [tabs[t] EXCEPT !.stage = "revoke_all", !.sent = None] \in Tab
    BY <2>1 DEF Stages
  <2>4. tabs' \in [Tabs -> Tab]
    BY <2>1, <2>2, <2>3
  <2> QED
    BY <2>4 DEF TypeOK
<1>2. Issued'
  BY DEF Issued, TypeOK
<1>3. Known'
  BY DEF Known, TypeOK, Issued
<1>4. Quiet'
  BY DEF Quiet, TypeOK, Issued
<1>5. Separate'
  BY DEF Separate, Holds, TypeOK, Issued
<1>6. Alone'
  BY DEF Alone, TypeOK
<1>7. Unraced'
  BY DEF Unraced, TypeOK, Issued, Known, Separate, Alone
<1>8. Current'
  BY DEF Current, TypeOK, Known, Alone, Separate, Unraced
<1> QED
  BY <1>1, <1>2, <1>3, <1>4, <1>5, <1>6, <1>7, <1>8

LEMMA RevokeAllUserSessionsKeeps == ASSUME IInv, NEW t \in Tabs, RevokeAllUserSessions(t) PROVE IInv'
<1> USE SessionsAssumption DEF IInv, RevokeAllUserSessions, Idle, Absent, None, Tokens, Row, Tab
<1>1. TypeOK'
  <2>1. tabs[t].access \in Tokens \cup {None} /\ tabs \in [Tabs -> Tab]
    BY DEF TypeOK
  <2>2. Idle(tabs[t].access) \in Tab
    BY <2>1
  <2>3. tabs' \in [Tabs -> Tab]
    BY <2>1, <2>2
  <2>4. user_sessions' \in [Tokens -> Row]
    <3>1. user_sessions \in [Tokens -> Row]
      BY DEF TypeOK
    <3>2. \A s \in Tokens :
             (IF user_sessions[s].token = None THEN Absent
              ELSE [user_sessions[s] EXCEPT !.revoked = TRUE]) \in Row
      BY <3>1
    <3> HIDE DEF IInv, Row, Tab, Tokens
    <3> QED
      BY <3>2
  <2> QED
    BY <2>3, <2>4 DEF TypeOK
<1>2. Issued'
  BY DEF Issued, TypeOK
<1>3. Known'
  BY DEF Known, TypeOK, Issued
<1>4. Quiet'
  BY DEF Quiet, TypeOK, Issued
<1>5. Separate'
  BY DEF Separate, Holds, TypeOK, Issued
<1>6. Alone'
  BY DEF Alone, TypeOK
<1>7. Unraced'
  BY DEF Unraced, TypeOK, Issued, Known, Separate, Alone
<1>8. Current'
  BY DEF Current, TypeOK, Known, Alone, Separate, Unraced
<1> QED
  BY <1>1, <1>2, <1>3, <1>4, <1>5, <1>6, <1>7, <1>8

LEMMA RevokeSessionByHashKeeps == ASSUME IInv, NEW t \in Tabs, RevokeSessionByHash(t) PROVE IInv'
<1> USE SessionsAssumption DEF IInv, RevokeSessionByHash, None, Tokens, Row, Tab
<1>1. TypeOK'
  <2>1. tabs[t] \in Tab /\ tabs \in [Tabs -> Tab]
    BY DEF TypeOK
  <2>2. [tabs[t] EXCEPT !.stage = "farewell", !.sent = None] \in Tab
    BY <2>1 DEF Stages
  <2>3. tabs' \in [Tabs -> Tab]
    BY <2>1, <2>2
  <2>4. user_sessions' \in [Tokens -> Row]
    <3>1. user_sessions \in [Tokens -> Row]
      BY DEF TypeOK
    <3>2. \A s \in Tokens :
             [user_sessions[s] EXCEPT
                    !.revoked = @ \/ (tabs[t].sent # None /\ user_sessions[s].token = tabs[t].sent)] \in Row
      BY <3>1
    <3> HIDE DEF IInv, Row, Tab, Tokens
    <3> QED
      BY <3>2
  <2> QED
    BY <2>3, <2>4 DEF TypeOK
<1>2. Issued'
  <2>1. \A s \in Tokens : user_sessions'[s] =
           [user_sessions[s] EXCEPT
               !.revoked = @ \/ (tabs[t].sent # None /\ user_sessions[s].token = tabs[t].sent)]
    OBVIOUS
  <2>2. \A s \in Tokens : s >= nextToken => user_sessions'[s] = Absent
    <3> SUFFICES ASSUME NEW s \in Tokens, s >= nextToken
                 PROVE  user_sessions'[s] = Absent
      OBVIOUS
    <3>1. user_sessions[s] = Absent
      BY DEF Issued
    <3>2. ~(tabs[t].sent # None /\ user_sessions[s].token = tabs[t].sent)
      BY <3>1 DEF Absent
    <3> DEFINE again == tabs[t].sent # None /\ user_sessions[s].token = tabs[t].sent
    <3>3. user_sessions'[s] = [Absent EXCEPT !.revoked = Absent.revoked \/ again]
      BY <2>1, <3>1
    <3> HIDE DEF again, IInv, RevokeSessionByHash
    <3>4. (Absent.revoked \/ again) = FALSE
      BY <3>2 DEF again, Absent
    <3> QED
      BY <3>3, <3>4 DEF Absent
  <2>3. \A s \in Tokens : user_sessions'[s].token = user_sessions[s].token
    BY DEF TypeOK
  <2>4. \A u \in Tabs : tabs'[u].sent \in {None, tabs[u].sent} /\ tabs'[u].fresh = tabs[u].fresh
    BY DEF TypeOK
  <2>5. 0 < nextToken
    BY DEF TypeOK
  <2> QED
    BY <2>2, <2>3, <2>4, <2>5 DEF Issued
<1>3. Known'
  BY DEF Known, TypeOK, Issued
<1>4. Quiet'
  BY DEF Quiet, TypeOK, Issued
<1>5. Separate'
  BY DEF Separate, Holds, TypeOK, Issued
<1>6. Alone'
  BY DEF Alone, TypeOK
<1>7. Unraced'
  BY DEF Unraced, TypeOK, Issued, Known, Separate, Alone
<1>8. Current'
  <2>1. \A s \in Tokens : user_sessions'[s].token = user_sessions[s].token
    BY DEF TypeOK
  <2>2. \A u \in Tabs : tabs[u].stage = "welcome" => tabs'[u].stage = "welcome"
    BY DEF TypeOK
  <2>3. UNCHANGED <<cookies, overlapped, mishaps>> /\ Current
    OBVIOUS
  <2> HIDE DEF IInv, RevokeSessionByHash, Row, Tab
  <2> QED
    BY <2>1, <2>2, <2>3 DEF Current
<1> QED
  BY <1>1, <1>2, <1>3, <1>4, <1>5, <1>6, <1>7, <1>8

LEMMA WelcomeKeeps == ASSUME IInv, NEW t \in Tabs, Welcome(t) PROVE IInv'
<1> USE SessionsAssumption DEF IInv, Welcome, Idle, None, Tokens, Row, Tab
<1>1. TypeOK'
  BY DEF TypeOK, Stages, Issued
<1>2. Issued'
  BY DEF Issued, TypeOK
<1>3. Known'
  BY DEF Known, TypeOK, Issued
<1>4. Quiet'
  BY DEF Quiet, TypeOK, Issued
<1>5. Separate'
  BY DEF Separate, Holds, TypeOK, Issued
<1>6. Alone'
  BY DEF Alone, TypeOK
<1>7. Unraced'
  BY DEF Unraced, TypeOK, Issued, Known, Separate, Alone
<1>8. Current'
  BY DEF Current, TypeOK, Known, Alone, Separate, Unraced
<1> QED
  BY <1>1, <1>2, <1>3, <1>4, <1>5, <1>6, <1>7, <1>8

LEMMA FarewellKeeps == ASSUME IInv, NEW t \in Tabs, Farewell(t) PROVE IInv'
<1> USE SessionsAssumption DEF IInv, Farewell, Idle, None, Tokens, Row, Tab
<1>1. TypeOK'
  BY DEF TypeOK, Stages, Issued
<1>2. Issued'
  BY DEF Issued, TypeOK
<1>3. Known'
  BY DEF Known, TypeOK, Issued
<1>4. Quiet'
  BY DEF Quiet, TypeOK, Issued
<1>5. Separate'
  BY DEF Separate, Holds, TypeOK, Issued
<1>6. Alone'
  BY DEF Alone, TypeOK
<1>7. Unraced'
  BY DEF Unraced, TypeOK, Issued, Known, Separate, Alone
<1>8. Current'
  BY DEF Current, TypeOK, Known, Alone, Separate, Unraced
<1> QED
  BY <1>1, <1>2, <1>3, <1>4, <1>5, <1>6, <1>7, <1>8

LEMMA LostKeeps == ASSUME IInv, NEW t \in Tabs, Lost(t) PROVE IInv'
<1> USE SessionsAssumption DEF IInv, Lost, Idle, None, Tokens, Row, Tab
<1>1. TypeOK'
  BY DEF TypeOK, Stages, Issued
<1>2. Issued'
  BY DEF Issued, TypeOK
<1>3. Known'
  BY DEF Known, TypeOK, Issued
<1>4. Quiet'
  BY DEF Quiet, TypeOK, Issued
<1>5. Separate'
  BY DEF Separate, Holds, TypeOK, Issued
<1>6. Alone'
  BY DEF Alone, TypeOK
<1>7. Unraced'
  BY DEF Unraced, TypeOK, Issued, Known, Separate, Alone
<1>8. Current'
  BY DEF Current, TypeOK, Known, Alone, Separate, Unraced
<1> QED
  BY <1>1, <1>2, <1>3, <1>4, <1>5, <1>6, <1>7, <1>8

LEMMA ReloadKeeps == ASSUME IInv, NEW t \in Tabs, Reload(t) PROVE IInv'
<1> USE SessionsAssumption DEF IInv, Reload, Idle, None, Tokens, Row, Tab
<1>1. TypeOK'
  BY DEF TypeOK, Stages, Issued
<1>2. Issued'
  BY DEF Issued, TypeOK
<1>3. Known'
  BY DEF Known, TypeOK, Issued
<1>4. Quiet'
  BY DEF Quiet, TypeOK, Issued
<1>5. Separate'
  BY DEF Separate, Holds, TypeOK, Issued
<1>6. Alone'
  BY DEF Alone, TypeOK
<1>7. Unraced'
  BY DEF Unraced, TypeOK, Issued, Known, Separate, Alone
<1>8. Current'
  BY DEF Current, TypeOK, Known, Alone, Separate, Unraced
<1> QED
  BY <1>1, <1>2, <1>3, <1>4, <1>5, <1>6, <1>7, <1>8

LEMMA SessionExpiresKeeps == ASSUME IInv, NEW e \in Tokens, SessionExpires(e) PROVE IInv'
<1> USE SessionsAssumption DEF IInv, SessionExpires, Valid, None, Tokens, Row
<1>1. \A s \in Tokens : user_sessions'[s].token = user_sessions[s].token
  BY DEF TypeOK
<1>2. TypeOK'
  BY DEF TypeOK
<1>3. Issued'
  <2>1. e < nextToken
    BY DEF Issued, TypeOK, Absent
  <2>2. \A s \in Tokens : s >= nextToken => user_sessions'[s] = user_sessions[s]
    BY <2>1 DEF TypeOK
  <2> QED
    BY <1>1, <2>2 DEF Issued
<1>4. Known' /\ Unraced'
  <2>1. \A t \in Tabs : tabs[t].access # None => tabs[t].access \in Tokens
    BY DEF TypeOK, Tab
  <2>2. \A t \in Tabs : tabs[t].session # None => tabs[t].session \in Tokens
    BY DEF TypeOK, Tab
  <2>3. Known'
    BY <1>1, <2>1, <2>2 DEF Known
  <2>4. Unraced'
    BY <1>1, <2>2 DEF Known, Unraced
  <2> QED
    BY <2>3, <2>4
<1>5. Separate'
  BY <1>1 DEF Separate, Holds
<1>6. Alone' /\ Quiet'
  BY DEF Alone, Quiet
<1>7. Current'
  BY <1>1 DEF Current
<1> QED
  BY <1>2, <1>3, <1>4, <1>5, <1>6, <1>7

LEMMA CookieExpiresKeeps == ASSUME IInv, NEW b \in Browsers, CookieExpires(b) PROVE IInv'
<1> USE SessionsAssumption DEF IInv, CookieExpires, None, Tokens
<1>1. TypeOK'
  BY DEF TypeOK
<1>2. Issued'
  BY DEF Issued, TypeOK
<1>3. Known' /\ Alone' /\ Unraced' /\ Quiet'
  BY DEF Known, Alone, Unraced, Quiet
<1>4. Separate'
  BY DEF Separate, Holds, TypeOK
<1>5. Current'
  BY DEF Current, TypeOK
<1> QED
  BY <1>1, <1>2, <1>3, <1>4, <1>5

LEMMA NextIInv == IInv /\ [Next]_vars => IInv'
<1> SUFFICES ASSUME IInv, [Next]_vars PROVE IInv'
  OBVIOUS
<1>1. ASSUME NEW t \in Tabs,
             \/ Login(t) \/ Refresh(t) \/ Logout(t) \/ Reload(t)
             \/ Serve(t)
             \/ Welcome(t) \/ Farewell(t) \/ Lost(t)
      PROVE  IInv'
  BY <1>1, LoginKeeps, RefreshKeeps, LogoutKeeps, ReloadKeeps, CreateSessionKeeps,
     FindValidSessionKeeps, RotateUserSessionKeeps,
     CheckReuseKeeps, RevokeAllUserSessionsKeeps, RevokeSessionByHashKeeps, WelcomeKeeps, FarewellKeeps, LostKeeps DEF Serve
<1>2. ASSUME NEW s \in Tokens, SessionExpires(s) PROVE IInv'
  BY <1>2, SessionExpiresKeeps
<1>3. ASSUME NEW b \in Browsers, CookieExpires(b) PROVE IInv'
  BY <1>3, CookieExpiresKeeps
<1>4. CASE UNCHANGED vars
  BY <1>4 DEF vars, IInv, TypeOK, Issued, Known, Quiet, Separate, Holds, Alone, Unraced, Current
<1> QED
  BY <1>1, <1>2, <1>3, <1>4 DEF Next

\* The invariant that the theorems rest on holds throughout.
THEOREM Invariance == Spec => []IInv
<1>1. Init => IInv
  BY InitIInv
<1>2. IInv /\ [Next]_vars => IInv'
  BY NextIInv
<1> QED
  BY <1>1, <1>2, PTL DEF Spec

-----------------------------------------------------------------------------
(* The properties. *)

\* The variables keep their types: sessions have rows, browsers one cookie, and
\* tabs one request each.
THEOREM TypeCorrect == Spec => []TypeOK
<1>1. IInv => TypeOK
  BY DEF IInv
<1> QED
  BY <1>1, Invariance, PTL

\* Whatever the number of browsers, tabs, refreshes and lost answers, and however
\* often a used token is presented, the replay attack check of refresh does not
\* revoke anything until somebody has signed out or a session has expired.
THEOREM AlarmNeedsAnEnd == Spec => [](~ended => \A t \in Tabs : tabs[t].stage # "revoke_all")
<1>1. IInv => (~ended => \A t \in Tabs : tabs[t].stage # "revoke_all")
  BY DEF IInv, Quiet
<1> QED
  BY <1>1, Invariance, PTL

\* A browser that has refreshed one request at a time, and lost no answer, holds
\* the token of a session: rotateUserSession has found its row each time.
THEOREM CookiesStayCurrent == Spec => []CookieIsCurrent
<1>1. IInv => CookieIsCurrent
  BY DEF IInv, Current, CookieIsCurrent
<1> QED
  BY <1>1, Invariance, PTL

\* What a browser without races and losses sends to sign out is its cookie, and
\* the session of the cookie is revoked when the answer is on its way.
Leaving ==
    mishaps = 0 =>
        \A t \in Tabs : BrowserOf[t] \notin overlapped /\ Jar(t) # None =>
            /\ tabs[t].stage = "logout" => tabs[t].sent = Jar(t)
            /\ tabs[t].stage = "farewell" =>
                  \E s \in Tokens : user_sessions[s].token = Jar(t) /\ user_sessions[s].revoked

\* A token that one tab has sent is the cookie of another one only if they share
\* their browser, and then they have overlapped.
LEMMA CookieNotRotated ==
    ASSUME IInv, NEW t \in Tabs, NEW u \in Tabs, tabs[t].stage # "idle", tabs[u].stage # "idle",
           BrowserOf[t] \notin overlapped, Jar(t) # None, tabs[u].sent = Jar(t)
    PROVE  t = u
<1> USE SessionsAssumption DEF IInv, TypeOK, Tab
<1>1. Jar(t) \in Tokens
  BY DEF Jar, None
<1>2. Holds(BrowserOf[t], Jar(t)) /\ Holds(BrowserOf[u], Jar(t))
  BY DEF Holds, Jar
<1>3. BrowserOf[t] = BrowserOf[u]
  BY <1>1, <1>2 DEF Separate
<1> QED
  BY <1>3 DEF Alone

LEMMA LeavingKept == IInv /\ Leaving /\ [Next]_vars => Leaving'
<1> SUFFICES ASSUME IInv, Leaving, [Next]_vars, mishaps' = 0, NEW t \in Tabs,
                    BrowserOf[t] \notin overlapped', Jar(t)' # None
             PROVE  /\ tabs'[t].stage = "logout" => tabs'[t].sent = Jar(t)'
                    /\ tabs'[t].stage = "farewell" =>
                          \E s \in Tokens : user_sessions'[s].token = Jar(t)' /\ user_sessions'[s].revoked
  BY DEF Leaving
<1> DEFINE Goal == /\ tabs'[t].stage = "logout" => tabs'[t].sent = Jar(t)'
                   /\ tabs'[t].stage = "farewell" =>
                         \E s \in Tokens : user_sessions'[s].token = Jar(t)' /\ user_sessions'[s].revoked
<1> USE SessionsAssumption DEF IInv, TypeOK, Tab, Idle
<1>1. ASSUME NEW u \in Tabs, Login(u) \/ Refresh(u) \/ Logout(u) PROVE Goal
  <2>1. PICK stage \in Stages : Sends(u, stage)
    BY <1>1 DEF Login, Refresh, Logout, Stages
  <2>2. Jar(t)' = Jar(t) /\ mishaps = 0 /\ user_sessions' = user_sessions
    BY <2>1 DEF Sends, Jar
  <2>3. overlapped \subseteq overlapped'
    BY <2>1 DEF Sends
  <2>4. u # t => tabs'[t] = tabs[t]
    BY <2>1 DEF Sends
  <2>5. u = t => tabs'[t].stage = stage /\ tabs'[t].sent = Jar(t)
    BY <2>1 DEF Sends
  <2>6. stage # "farewell"
    BY <1>1, <2>1 DEF Login, Refresh, Logout, Sends
  <2> QED
    BY <2>2, <2>3, <2>4, <2>5, <2>6 DEF Leaving
<1>2. ASSUME NEW u \in Tabs, FindValidSession(u) \/ CheckReuse(u) \/ Reload(u) PROVE Goal
  <2>1. UNCHANGED <<cookies, mishaps, overlapped, user_sessions>>
    BY <1>2 DEF FindValidSession, CheckReuse, Reload
  <2>2. u # t => tabs'[t] = tabs[t]
    BY <1>2 DEF FindValidSession, CheckReuse, Reload
  <2>3. u = t => tabs'[t].stage \in {"rotate", "check", "revoke_all", "idle"}
    <3>1. ASSUME FindValidSession(t) PROVE tabs'[t].stage \in {"rotate", "check"}
      BY <3>1 DEF FindValidSession
    <3>2. ASSUME CheckReuse(t) PROVE tabs'[t].stage \in {"revoke_all", "idle"}
      <4>1. CASE \E s \in Tokens : user_sessions[s].token = tabs[t].sent
        BY <3>2, <4>1 DEF CheckReuse
      <4>2. CASE ~ \E s \in Tokens : user_sessions[s].token = tabs[t].sent
        BY <3>2, <4>2 DEF CheckReuse
      <4> QED
        BY <4>1, <4>2
    <3>3. ASSUME Reload(t) PROVE tabs'[t].stage = "idle"
      BY <3>3 DEF Reload
    <3> QED
      BY <1>2, <3>1, <3>2, <3>3
  <2> QED
    BY <2>1, <2>2, <2>3 DEF Jar, Leaving
<1>3. ASSUME NEW u \in Tabs, CreateSession(u) PROVE Goal
  <2>1. user_sessions[nextToken].token = None
    BY <1>3 DEF CreateSession, Issued, Absent, Tokens
  <2>2. Jar(t)' = Jar(t) /\ mishaps = 0 /\ BrowserOf[t] \notin overlapped
    BY <1>3 DEF CreateSession, Jar
  <2>3. tabs'[t].stage \in {"logout", "farewell"} => tabs'[t] = tabs[t]
    BY <1>3 DEF CreateSession
  <2>4. \A s \in Tokens : user_sessions[s].token = Jar(t) => user_sessions'[s] = user_sessions[s]
    BY <1>3, <2>1, <2>2 DEF CreateSession
  <2> QED
    BY <2>2, <2>3, <2>4 DEF Leaving
<1>4. ASSUME NEW u \in Tabs, RotateUserSession(u) PROVE Goal
  <2>1. u = t => Goal
    BY <1>4 DEF RotateUserSession
  <2>2. ASSUME u # t, tabs[t].stage = "farewell" PROVE tabs[u].sent # Jar(t)
    BY <1>4, <2>2, CookieNotRotated DEF RotateUserSession, Jar
  <2> QED
    BY <1>4, <2>1, <2>2 DEF RotateUserSession, Rotated, Jar, Leaving, Row
<1>5. ASSUME NEW u \in Tabs, RevokeAllUserSessions(u) PROVE Goal
  BY <1>5 DEF RevokeAllUserSessions, Jar, Leaving, Row
<1>6. ASSUME NEW u \in Tabs, RevokeSessionByHash(u) PROVE Goal
  <2>1. CASE u = t
    <3>1. tabs[t].sent = Jar(t) /\ Jar(t)' = Jar(t) /\ Jar(t) # None
      BY <1>6, <2>1 DEF RevokeSessionByHash, Jar, Leaving
    <3>2. ~ \E v \in Tabs : BrowserOf[v] = BrowserOf[t] /\ tabs[v].stage = "welcome"
      BY <1>6, <2>1 DEF RevokeSessionByHash, Alone
    <3>3. PICK s \in Tokens : user_sessions[s].token = Jar(t)
      BY <1>6, <3>1, <3>2 DEF RevokeSessionByHash, Current, Jar
    <3>4. user_sessions'[s].token = Jar(t)' /\ user_sessions'[s].revoked
      BY <1>6, <2>1, <3>1, <3>3 DEF RevokeSessionByHash, Row
    <3> QED
      BY <1>6, <2>1, <3>4 DEF RevokeSessionByHash
  <2>2. CASE u # t
    BY <1>6, <2>2 DEF RevokeSessionByHash, Jar, Leaving, Row
  <2> QED
    BY <2>1, <2>2
<1>7. ASSUME NEW u \in Tabs, Welcome(u) \/ Farewell(u) PROVE Goal
  <2>1. u # t /\ tabs[t].stage # "idle" => BrowserOf[u] # BrowserOf[t]
    BY <1>7 DEF Welcome, Farewell, Alone
  <2> QED
    BY <1>7, <2>1 DEF Welcome, Farewell, Jar, Leaving
<1>8. ASSUME NEW u \in Tabs, Lost(u) PROVE Goal
  BY <1>8 DEF Lost
<1>9. ASSUME NEW e \in Tokens, SessionExpires(e) PROVE Goal
  BY <1>9 DEF SessionExpires, Jar, Leaving, Row
<1>10. ASSUME NEW b \in Browsers, CookieExpires(b) PROVE Goal
  BY <1>10 DEF CookieExpires, Jar, Leaving
<1>11. CASE UNCHANGED vars
  BY <1>11 DEF vars, Jar, Leaving
<1> QED
  BY <1>1, <1>2, <1>3, <1>4, <1>5, <1>6, <1>7, <1>8, <1>9, <1>10, <1>11 DEF Next, Serve

\* A browser without races and losses signs out of the session of its cookie.
THEOREM SignOutsRevoke == Spec => []SignOutRevokes
<1>1. Init => Leaving
  BY SessionsAssumption DEF Init, Leaving, Idle
<1>2. Leaving => SignOutRevokes
  <2> SUFFICES ASSUME Leaving, mishaps = 0, NEW t \in Tabs, tabs[t].stage = "farewell",
                      BrowserOf[t] \notin overlapped, Jar(t) # None
               PROVE  \E s \in Tokens :
                         /\ user_sessions[s].token = Jar(t)
                         /\ \A u \in Tabs : tabs[u].access = s => ~Served(u)
    BY DEF SignOutRevokes
  <2>1. PICK s \in Tokens : user_sessions[s].token = Jar(t) /\ user_sessions[s].revoked
    BY DEF Leaving
  <2>2. \A u \in Tabs : tabs[u].access = s => ~Served(u)
    BY <2>1 DEF Served, Valid
  <2> QED
    BY <2>1, <2>2
<1> QED
  BY <1>1, <1>2, LeavingKept, Invariance, PTL DEF Spec

\* A row that is not there is not revoked.
Blank == \A s \in Tokens : user_sessions[s].token = None => ~user_sessions[s].revoked

LEMMA BlankKept == IInv /\ Blank /\ [Next]_vars => Blank'
<1> SUFFICES ASSUME IInv, Blank, [Next]_vars, NEW s \in Tokens,
                    user_sessions'[s].token = None
             PROVE  ~user_sessions'[s].revoked
  BY DEF Blank
<1> USE SessionsAssumption DEF IInv, TypeOK, None, Tokens
<1>1. ASSUME NEW t \in Tabs, CreateSession(t) PROVE ~user_sessions'[s].revoked
  BY <1>1 DEF CreateSession, Blank, Absent
<1>2. ASSUME NEW t \in Tabs, RotateUserSession(t) PROVE ~user_sessions'[s].revoked
  BY <1>2 DEF RotateUserSession, Rotated, Blank, Row
<1>3. ASSUME NEW t \in Tabs, RevokeAllUserSessions(t) PROVE ~user_sessions'[s].revoked
  BY <1>3 DEF RevokeAllUserSessions, Absent, Row
<1>4. ASSUME NEW t \in Tabs, RevokeSessionByHash(t) PROVE ~user_sessions'[s].revoked
  BY <1>4 DEF RevokeSessionByHash, Blank, Row
<1>5. ASSUME NEW e \in Tokens, SessionExpires(e) PROVE ~user_sessions'[s].revoked
  BY <1>5 DEF SessionExpires, Blank, Row
<1>6. CASE UNCHANGED user_sessions
  BY <1>6 DEF Blank
<1> QED
  BY <1>1, <1>2, <1>3, <1>4, <1>5, <1>6 DEF Next, Serve, vars, Login, Refresh, Logout,
     Sends, Reload, FindValidSession, CheckReuse, Welcome, Farewell, Lost, CookieExpires

\* No step takes a revocation back, the rotation that has found the session valid
\* before it included.
THEOREM RevocationsStay == Spec => RevocationIsFinal
<1> USE SessionsAssumption DEF None, Tokens
<1>1. IInv /\ Blank /\ [Next]_vars =>
         \A s \in Tokens : user_sessions[s].revoked => user_sessions'[s].revoked
  <2> SUFFICES ASSUME IInv, Blank, [Next]_vars, NEW s \in Tokens, user_sessions[s].revoked
               PROVE  user_sessions'[s].revoked
    OBVIOUS
  <2> USE DEF IInv, TypeOK
  <2>1. ASSUME NEW t \in Tabs, CreateSession(t) PROVE user_sessions'[s].revoked
    <3>1. s # nextToken
      BY <2>1 DEF CreateSession, Issued, Absent
    <3> QED
      BY <2>1, <3>1 DEF CreateSession
  <2>2. ASSUME NEW t \in Tabs, RotateUserSession(t) PROVE user_sessions'[s].revoked
    BY <2>2 DEF RotateUserSession, Rotated, Row
  <2>3. ASSUME NEW t \in Tabs, RevokeAllUserSessions(t) PROVE user_sessions'[s].revoked
    <3>1. user_sessions[s].token # None
      BY DEF Blank
    <3> QED
      BY <2>3, <3>1 DEF RevokeAllUserSessions, Row
  <2>4. ASSUME NEW t \in Tabs, RevokeSessionByHash(t) PROVE user_sessions'[s].revoked
    BY <2>4 DEF RevokeSessionByHash, Row
  <2>5. ASSUME NEW e \in Tokens, SessionExpires(e) PROVE user_sessions'[s].revoked
    BY <2>5 DEF SessionExpires, Row
  <2>6. CASE UNCHANGED user_sessions
    BY <2>6
  <2> QED
    BY <2>1, <2>2, <2>3, <2>4, <2>5, <2>6 DEF Next, Serve, vars, Login, Refresh, Logout,
       Sends, Reload, FindValidSession, CheckReuse, Welcome, Farewell, Lost, CookieExpires
<1>2. Init => Blank
  BY DEF Init, Blank, Absent
<1> QED
  BY <1>1, <1>2, BlankKept, Invariance, PTL DEF Spec, RevocationIsFinal

=============================================================================
