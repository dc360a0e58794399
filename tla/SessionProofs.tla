------------------------------ MODULE SessionProofs ------------------------------
(***************************************************************************)
(* Theorems about Session, for any accounts and any number of tokens.      *)
(***************************************************************************)
EXTENDS Session, TLAPS

\* The header is the cookie or is missing; the form waits for the login and for its /me; nobody
\* else asks /me but a page that was loaded.
Waits == /\ token \in {None, cookie}
         /\ calls["login"] # None => form = "login"
         /\ calls["me"] # None => checking \/ form = "me"

\* What is known of the cookie, unless a login was raced: a /me in flight carries it, or brings
\* its account; the user is its account, but while a new one is asked for; and while it is being
\* logged out, there is no user, nor a /me to bring one.
Holds(u)   == cookie # None /\ owner[cookie] = u
CookieInv == ~raced =>
    /\ calls["me"] # None => /\ calls["me"].answer = Sent => calls["me"].cred = cookie
                             /\ calls["me"].answer \in Users => Holds(calls["me"].answer)
    /\ user # None /\ form # "me" => Holds(user)
    /\ calls["logout"] # None => user = None /\ calls["me"] = None /\ form # "me"

SessionInv == SessionTypeOK /\ Waits /\ CookieInv

\* A hard load starts over with the cookie, whatever was in flight.
LEMMA LoadStep ==
    ASSUME SessionInv, NEW p \in Paths, Load(p), UNCHANGED <<cookie, owner, dead>>,
           returnTo' \in Paths \cup {None}
    PROVE  SessionInv'
<1> USE SessionAssumption
<1>1. calls' \in [Kinds -> [cred : Tokens \cup {None}, answer : Answers] \cup {None}]
  BY DEF Load, Request, SessionInv, SessionTypeOK, Answers
<1>2. SessionTypeOK' BY <1>1 DEF Load, SessionInv, SessionTypeOK
<1>3. /\ calls'["login"] = None /\ calls'["logout"] = None
      /\ calls'["me"] = [cred |-> cookie, answer |-> Sent]
  BY DEF Load, Request, Kinds
<1>4. Waits' BY <1>3 DEF Load, Waits
<1>5. CookieInv' BY <1>3 DEF Load, CookieInv
<1> QED BY <1>2, <1>4, <1>5 DEF SessionInv

LEMMA PathsOK ==
    /\ \A p \in Paths : Middleware(p) \in Paths /\ Pushed(p) \subseteq Paths
    /\ \A u \in Users : Home[u] \in Paths
BY DEF Paths, Middleware, Pushed, Home

-----------------------------------------------------------------------------
(* Types.                                                                  *)

LEMMA ServeType ==
    ASSUME SessionTypeOK, NEW k \in Kinds, NEW a \in Answers, Serve(k, a)
    PROVE  calls' \in [Kinds -> [cred : Tokens \cup {None}, answer : Answers] \cup {None}]
BY DEF SessionTypeOK, Serve

LEMMA ServingType ==
    ASSUME SessionTypeOK, NEW k \in Kinds, Serving(k)
    PROVE  SessionTypeOK'
<1> USE SessionAssumption
<1>1. CASE Lose(k) BY <1>1, ServeType DEF Lose, Answers, SessionTypeOK
<1>2. CASE k = "me" /\ ServeMe
  <2>1. Account(calls["me"].cred) \in Users \cup {None}
    BY <1>2 DEF SessionTypeOK, Account, ServeMe, Waiting, Kinds
  <2> QED BY <1>2, <2>1, ServeType DEF ServeMe, Answers, SessionTypeOK
<1>3. CASE k = "data" /\ ServeData
  <2>1. CASE Serve("data", "401")
    BY <1>3, <2>1, ServeType DEF ServeData, Answers, SessionTypeOK
  <2>2. CASE calls' = [calls EXCEPT !["data"] = None]
    BY <1>3, <2>2 DEF ServeData, SessionTypeOK
  <2> QED BY <1>3, <2>1, <2>2 DEF ServeData
<1>4. CASE k = "login" /\ RefuseLogin
  BY <1>4, ServeType DEF RefuseLogin, Answers, SessionTypeOK
<1>5. ASSUME NEW u \in Users, NEW t \in Tokens, k = "login", ServeLogin(u, t) PROVE SessionTypeOK'
  BY <1>5 DEF ServeLogin, Answers, SessionTypeOK
<1>6. CASE k = "logout" /\ ServeLogout
  <2>1. dead' \subseteq Tokens
    BY <1>6 DEF ServeLogout, Account, SessionTypeOK, Waiting, Kinds
  <2>2. Serve("logout", "401") \/ Serve("logout", "ok") BY <1>6 DEF ServeLogout
  <2> QED BY <1>6, <2>1, <2>2, ServeType DEF ServeLogout, Answers, SessionTypeOK
<1> QED BY <1>1, <1>2, <1>3, <1>4, <1>5, <1>6 DEF Serving

LEMMA ReceivedType ==
    ASSUME SessionTypeOK, NEW k \in Kinds, Received(k)
    PROVE  calls' \in [Kinds -> [cred : Tokens \cup {None}, answer : Answers] \cup {None}]
BY DEF SessionTypeOK, Received

LEMMA ReceivingType ==
    ASSUME SessionTypeOK, NEW k \in Kinds, Receiving(k), ~ThrowOut(k)
    PROVE  SessionTypeOK'
<1> USE SessionAssumption
<1>1. CASE k = "me" /\ MeDone
  <2>1. /\ user' \in Users \cup {None} /\ raced' \in BOOLEAN /\ checking' \in BOOLEAN
        /\ form' \in {None, "login", "me"} /\ token' \in Tokens \cup {None}
    BY <1>1 DEF MeDone, SessionTypeOK, TokenAfter
  <2>2. path' \in Paths /\ returnTo' \in Paths \cup {None}
    <3>1. "/dashboard" \in Paths BY DEF Paths
    <3> QED BY <1>1, <3>1, PathsOK DEF MeDone, SessionTypeOK
  <2>3. Received("me") /\ UNCHANGED <<cookie, owner, dead>> BY <1>1 DEF MeDone
  <2> QED BY <1>1, <2>1, <2>2, <2>3, ReceivedType DEF SessionTypeOK
<1>2. CASE k = "login" /\ LoginDone
  <2>1. calls["login"] \in [cred : Tokens \cup {None}, answer : Answers]
    BY <1>2 DEF LoginDone, Answered, SessionTypeOK, Kinds
  <2>2. CASE calls["login"].answer = "ok"
    <3>1. Request(calls["login"].cred) \in [cred : Tokens \cup {None}, answer : Answers]
      BY <2>1 DEF Request, Answers
    <3>2. calls' \in [Kinds -> [cred : Tokens \cup {None}, answer : Answers] \cup {None}]
      BY <1>2, <2>2, <3>1 DEF LoginDone, SessionTypeOK
    <3> QED BY <1>2, <2>1, <2>2, <3>2 DEF LoginDone, SessionTypeOK
  <2>3. CASE calls["login"].answer # "ok"
    BY <1>2, <2>3, ReceivedType DEF LoginDone, SessionTypeOK, TokenAfter
  <2> QED BY <2>2, <2>3
<1>3. CASE k = "logout" /\ LogoutDone BY <1>3, ReceivedType DEF LogoutDone, SessionTypeOK
<1>4. CASE k = "data" /\ DataDone BY <1>4, ReceivedType DEF DataDone, SessionTypeOK, TokenAfter
<1> QED BY <1>1, <1>2, <1>3, <1>4 DEF Receiving

-----------------------------------------------------------------------------
(* Steps of the API.                                                       *)

\* An answer of the API touches neither the tab nor the token that anybody holds.
LEMMA ServingStep ==
    ASSUME SessionInv, NEW k \in Kinds, Serving(k)
    PROVE  SessionInv'
<1> USE SessionAssumption
<1>1. SessionTypeOK' BY ServingType DEF SessionInv
<1>2. UNCHANGED <<user, checking, token, cookie, form, raced>>
  BY DEF Serving, Lose, ServeMe, ServeData, RefuseLogin, ServeLogin, ServeLogout
<1>3. /\ \A j \in Kinds : calls'[j] # None => calls[j] # None
      /\ \A j \in Kinds \ {k} : calls'[j] = calls[j]
  BY DEF Serving, Lose, ServeMe, ServeData, RefuseLogin, ServeLogin, ServeLogout, Serve, Waiting,
         SessionInv, SessionTypeOK
<1>4. Waits' BY <1>2, <1>3 DEF SessionInv, Waits, Kinds
<1>5. \A u \in Users : Holds(u) => cookie' # None /\ owner'[cookie'] = u
  BY <1>2 DEF Serving, Lose, ServeMe, ServeData, RefuseLogin, ServeLogin, ServeLogout, Holds,
              SessionInv, SessionTypeOK
<1>6. ASSUME ~raced, calls'["me"] # None
      PROVE  /\ calls'["me"].answer = Sent => calls'["me"].cred = cookie'
             /\ calls'["me"].answer \in Users => cookie' # None /\ owner'[cookie'] = calls'["me"].answer
  <2>1. CASE k # "me"
    <3>1. calls'["me"] = calls["me"] BY <1>3, <2>1 DEF Kinds
    <3> QED BY <1>2, <1>5, <1>6, <3>1 DEF SessionInv, CookieInv
  <2>2. ASSUME NEW a, calls' = [calls EXCEPT !["me"] = [cred |-> None, answer |-> a]]
        PROVE  calls'["me"].answer = a
    BY <2>2 DEF SessionInv, SessionTypeOK, Kinds
  <2>3. CASE k = "me" /\ Lose(k) BY <2>2, <2>3 DEF Lose, Serve
  <2>4. CASE k = "me" /\ ServeMe
    <3>1. calls["me"] # None /\ calls["me"].answer = Sent BY <2>4 DEF ServeMe, Waiting
    <3>2. calls["me"].cred = cookie BY <1>6, <3>1 DEF SessionInv, CookieInv
    <3>3. calls'["me"].answer = IF Account(cookie) = None THEN "401" ELSE Account(cookie)
      BY <2>2, <2>4, <3>2 DEF ServeMe, Serve
    <3>4. Account(cookie) # None => cookie # None /\ owner[cookie] = Account(cookie) BY DEF Account
    <3>5. Account(cookie) \in Users \cup {None} BY DEF SessionInv, SessionTypeOK, Account
    <3>6. owner' = owner BY <2>4 DEF ServeMe
    <3>7. Sent # "401" /\ Sent \notin Users /\ "401" \notin Users OBVIOUS
    <3> QED BY <1>2, <3>3, <3>4, <3>5, <3>6, <3>7
  <2> QED BY <2>1, <2>3, <2>4 DEF Serving
<1>7. CookieInv'
  <2>1. ASSUME ~raced, user # None, form # "me" PROVE cookie' # None /\ owner'[cookie'] = user
    <3>1. user \in Users /\ Holds(user) BY <2>1 DEF SessionInv, SessionTypeOK, CookieInv
    <3> QED BY <1>5, <3>1
  <2>2. ~raced /\ calls'["logout"] # None => user = None /\ calls'["me"] = None /\ form # "me"
    BY <1>3 DEF SessionInv, CookieInv, Kinds
  <2> QED BY <1>2, <1>6, <2>1, <2>2 DEF CookieInv, Holds
<1> QED BY <1>1, <1>4, <1>7 DEF SessionInv

\* A token that expires is still its account's.
LEMMA ExpireStep == ASSUME SessionInv, NEW t \in Tokens, Expire(t) PROVE SessionInv'
BY DEF Expire, SessionInv, SessionTypeOK, Waits, CookieInv, Holds

-----------------------------------------------------------------------------
(* Steps of the tab.                                                       *)

LEMMA ThrownStep == ASSUME SessionInv, NEW k \in Kinds, ThrowOut(k) PROVE SessionInv'
<1>1. "/login" \in Paths /\ returnTo' \in Paths \cup {None}
  BY DEF ThrowOut, SessionInv, SessionTypeOK, Paths
<1> QED BY <1>1, LoadStep DEF ThrowOut

\* The answer of /me brings the account of the cookie, or nobody.
LEMMA MeStep == ASSUME SessionInv, MeDone PROVE SessionInv'
<1> USE SessionAssumption
<1>1. SessionTypeOK'
  <2>1. ~ThrowOut("me") BY DEF MeDone, ThrowOut
  <2> QED BY <2>1, ReceivingType DEF Receiving, SessionInv, Kinds
<1>2. /\ calls["me"] # None /\ calls'["me"] = None
      /\ calls'["login"] = calls["login"] /\ calls'["logout"] = calls["logout"]
  BY DEF MeDone, Answered, Received, SessionInv, SessionTypeOK, Kinds
<1>3. UNCHANGED <<cookie, owner>> /\ token' \in {None, token}
  BY DEF MeDone, TokenAfter
<1>4. form' = IF form = "me" THEN None ELSE form BY DEF MeDone
<1>5. Waits' BY <1>2, <1>3, <1>4 DEF SessionInv, Waits
<1>6. ASSUME ~raced', user' # None PROVE cookie # None /\ owner[cookie] = user'
  <2>1. ~raced BY <1>6 DEF MeDone
  <2>2. CASE calls["me"].answer \in Users
    <3>1. user' = calls["me"].answer BY <2>2 DEF MeDone
    <3> QED BY <1>2, <2>1, <2>2, <3>1 DEF SessionInv, CookieInv, Holds
  <2>3. CASE calls["me"].answer \notin Users
    <3>1. form # "me" BY <1>6, <2>3 DEF MeDone
    <3>2. checking BY <1>2, <3>1 DEF SessionInv, Waits
    <3> QED BY <1>6, <2>3, <3>2 DEF MeDone
  <2> QED BY <2>2, <2>3
<1>7. ASSUME ~raced' PROVE calls'["logout"] = None
  BY <1>2, <1>7 DEF MeDone, SessionInv, CookieInv
<1>8. CookieInv' BY <1>2, <1>3, <1>6, <1>7 DEF CookieInv, Holds
<1> QED BY <1>1, <1>5, <1>8 DEF SessionInv

\* A login brings its token, asks /me with it, and is raced if something was there already.
LEMMA LoginStep == ASSUME SessionInv, LoginDone PROVE SessionInv'
<1> USE SessionAssumption
<1>1. SessionTypeOK'
  <2>1. ~ThrowOut("login") BY DEF LoginDone, ThrowOut
  <2> QED BY <2>1, ReceivingType DEF Receiving, SessionInv, Kinds
<1>2. calls["login"] # None /\ form = "login"
  BY DEF LoginDone, Answered, SessionInv, Waits
<1>3. UNCHANGED <<user, checking, owner>> BY DEF LoginDone
<1>4. CASE calls["login"].answer = "ok"
  <2>1. /\ calls'["login"] = None /\ calls'["logout"] = calls["logout"]
        /\ calls["me"] = None => calls'["me"] = Request(calls["login"].cred)
    BY <1>4 DEF LoginDone, SessionInv, SessionTypeOK, Kinds
  <2>2. /\ form' = "me" /\ token' = cookie' /\ cookie' = calls["login"].cred
        /\ ~raced' => calls["me"] = None /\ calls["logout"] = None
    BY <1>4 DEF LoginDone, SessionInv, SessionTypeOK
  <2>3. Waits' BY <2>1, <2>2 DEF Waits
  <2>4. CookieInv' BY <2>1, <2>2 DEF CookieInv, Request
  <2> QED BY <1>1, <2>3, <2>4 DEF SessionInv
<1>5. CASE calls["login"].answer # "ok"
  <2>1. /\ calls'["login"] = None /\ calls'["me"] = calls["me"] /\ calls'["logout"] = calls["logout"]
    BY <1>5 DEF LoginDone, Received, SessionInv, SessionTypeOK, Kinds
  <2>2. /\ form' = None /\ token' \in {None, token} /\ UNCHANGED <<cookie, raced>>
    BY <1>5 DEF LoginDone, TokenAfter
  <2>3. Waits' BY <1>2, <1>3, <2>1, <2>2 DEF SessionInv, Waits
  <2>4. CookieInv' BY <1>2, <1>3, <2>1, <2>2 DEF SessionInv, CookieInv, Holds
  <2> QED BY <1>1, <2>3, <2>4 DEF SessionInv
<1> QED BY <1>4, <1>5

\* A logout takes the cookie with it, and nobody is there to miss it.
LEMMA LogoutStep == ASSUME SessionInv, LogoutDone PROVE SessionInv'
<1> USE SessionAssumption
<1>1. SessionTypeOK'
  <2>1. ~ThrowOut("logout") BY DEF LogoutDone, ThrowOut
  <2> QED BY <2>1, ReceivingType DEF Receiving, SessionInv, Kinds
<1>2. /\ calls["logout"] # None /\ calls'["logout"] = None
      /\ calls'["me"] = calls["me"] /\ calls'["login"] = calls["login"]
  BY DEF LogoutDone, Answered, Received, SessionInv, SessionTypeOK, Kinds
<1>3. UNCHANGED <<user, checking, form, owner, raced>> /\ token' = None BY DEF LogoutDone
<1>4. Waits' BY <1>2, <1>3 DEF SessionInv, Waits
<1>5. CookieInv' BY <1>2, <1>3 DEF SessionInv, CookieInv
<1> QED BY <1>1, <1>4, <1>5 DEF SessionInv

LEMMA DataStep == ASSUME SessionInv, DataDone PROVE SessionInv'
<1> USE SessionAssumption
<1>1. SessionTypeOK'
  <2>1. ~ThrowOut("data") BY DEF DataDone, ThrowOut
  <2> QED BY <2>1, ReceivingType DEF Receiving, SessionInv, Kinds
<1>2. \A k \in {"me", "login", "logout"} : calls'[k] = calls[k]
  BY DEF DataDone, Received, SessionInv, SessionTypeOK, Kinds
<1>3. UNCHANGED <<user, checking, cookie, form, owner, raced>> /\ token' \in {None, token}
  BY DEF DataDone, TokenAfter
<1>4. Waits' BY <1>2, <1>3 DEF SessionInv, Waits
<1>5. CookieInv' BY <1>2, <1>3 DEF SessionInv, CookieInv, Holds
<1> QED BY <1>1, <1>4, <1>5 DEF SessionInv

-----------------------------------------------------------------------------
(* Steps of the gates and of the user.                                     *)

LEMMA MovesStep ==
    ASSUME SessionInv, Gate \/ \E p \in Paths : Back(p)
    PROVE  SessionInv'
<1>1. path' \in Paths /\ returnTo' \in Paths \cup {None}
  <2>1. "/login" \in Paths BY DEF Paths
  <2> QED BY <2>1, PathsOK DEF Gate, Back, SessionInv, SessionTypeOK
<1>2. UNCHANGED <<user, checking, token, cookie, form, calls, owner, dead, raced>>
  BY DEF Gate, Back
<1> QED BY <1>1, <1>2 DEF SessionInv, SessionTypeOK, Waits, CookieInv, Holds

\* Who clicks has no /me in flight: a page is shown, and if a login is under way it is raced.
LEMMA AskStep ==
    ASSUME SessionInv, SubmitLogin \/ ClickLogout \/ DataCall
    PROVE  SessionInv'
<1> USE SessionAssumption
<1>1. \A c \in Tokens \cup {None} : Request(c) \in [cred : Tokens \cup {None}, answer : Answers]
  BY DEF Request, Answers
<1>2. Cred \in Tokens \cup {None} BY DEF Cred, SessionInv, SessionTypeOK
<1>3. CASE SubmitLogin
  <2>1. SessionTypeOK' BY <1>1, <1>3 DEF SubmitLogin, SessionInv, SessionTypeOK
  <2>2. calls'["me"] = calls["me"] /\ calls'["logout"] = calls["logout"]
    BY <1>3 DEF SubmitLogin, SessionInv, SessionTypeOK, Kinds
  <2>3. form = None /\ form' = "login" BY <1>3 DEF SubmitLogin, FormFree
  <2>4. UNCHANGED <<user, checking, token, cookie, owner, raced>> BY <1>3 DEF SubmitLogin
  <2> QED BY <2>1, <2>2, <2>3, <2>4 DEF SessionInv, Waits, CookieInv, Holds
<1>4. CASE ClickLogout
  <2>1. SessionTypeOK'
    <3>1. path' \in Paths BY <1>4 DEF ClickLogout, SessionInv, SessionTypeOK, Paths
    <3> QED BY <1>1, <1>2, <1>4, <3>1 DEF ClickLogout, SessionInv, SessionTypeOK
  <2>2. calls'["me"] = calls["me"] /\ calls'["login"] = calls["login"]
    BY <1>4 DEF ClickLogout, SessionInv, SessionTypeOK, Kinds
  <2>3. /\ ~checking /\ user' = None
        /\ ~raced' => ~raced /\ form = None
        /\ UNCHANGED <<checking, token, cookie, form, owner>>
    BY <1>4 DEF ClickLogout, PageShown, SessionInv, SessionTypeOK
  <2>4. Waits' BY <2>2, <2>3 DEF SessionInv, Waits
  <2>5. CookieInv' BY <2>2, <2>3 DEF SessionInv, Waits, CookieInv
  <2> QED BY <2>1, <2>4, <2>5 DEF SessionInv
<1>5. CASE DataCall
  <2>1. SessionTypeOK' BY <1>1, <1>2, <1>5 DEF DataCall, SessionInv, SessionTypeOK
  <2>2. \A k \in {"me", "login", "logout"} : calls'[k] = calls[k]
    BY <1>5 DEF DataCall, SessionInv, SessionTypeOK, Kinds
  <2>3. UNCHANGED <<user, checking, token, cookie, form, owner, raced>> BY <1>5 DEF DataCall
  <2> QED BY <2>1, <2>2, <2>3 DEF SessionInv, Waits, CookieInv, Holds
<1> QED BY <1>3, <1>4, <1>5

LEMMA VisitStep == ASSUME SessionInv, NEW p \in Paths, Visit(p) PROVE SessionInv'
BY LoadStep, PathsOK DEF Visit, SessionInv, SessionTypeOK

LEMMA StepSession == ASSUME SessionInv, [SessionNext]_sessionVars PROVE SessionInv'
<1>1. ASSUME NEW k \in Kinds, Proceed(k) PROVE SessionInv'
  BY <1>1, ServingStep, ThrownStep, MeStep, LoginStep, LogoutStep, DataStep DEF Proceed, Receiving
<1>2. CASE UNCHANGED sessionVars
  BY <1>2 DEF sessionVars, SessionInv, SessionTypeOK, Waits, CookieInv, Holds
<1> QED BY <1>1, <1>2, ExpireStep, MovesStep, AskStep, VisitStep
        DEF SessionNext, SessionSystem, SessionUser

LEMMA InitSession == SessionInit => SessionInv
<1> USE SessionAssumption
<1> SUFFICES ASSUME SessionInit PROVE SessionInv OBVIOUS
<1>1. Request(None) \in [cred : Tokens \cup {None}, answer : Answers] BY DEF Request, Answers
<1>2. SessionTypeOK BY <1>1 DEF SessionInit, SessionTypeOK, Paths
<1>3. /\ calls["login"] = None /\ calls["logout"] = None
      /\ calls["me"] = [cred |-> None, answer |-> Sent]
  BY DEF SessionInit, Kinds, Request
<1> QED BY <1>2, <1>3 DEF SessionInit, SessionInv, Waits, CookieInv

LEMMA InvMatches == SessionInv => SessionMatches
BY SessionAssumption DEF SessionInv, SessionTypeOK, Waits, CookieInv, Holds, SessionMatches, PageShown, Cred

\* For any accounts and tokens: the page on the screen is of the account whose token its requests
\* carry, whoever logged in or out before and whichever tokens have expired.
THEOREM ScreenMatchesSession == SessionSpec => []SessionMatches
<1>1. SessionInv /\ [SessionNext]_sessionVars => SessionInv' BY StepSession
<1> QED BY <1>1, InitSession, InvMatches, PTL DEF SessionSpec
=============================================================================
