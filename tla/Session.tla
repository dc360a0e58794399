-------------------------------- MODULE Session --------------------------------
(***************************************************************************)
(* The session of one browser tab: the token that lib/api.ts keeps in      *)
(* memory, the admin_token cookie, the user of contexts/auth-context.tsx,  *)
(* the login form, the gates of the two portals and the edge middleware.   *)
(* A hard load loses everything but the cookie and sessionStorage.         *)
(***************************************************************************)
EXTENDS PanelTypes, Integers

CONSTANTS Users,    \* the accounts
          Role,     \* the role of each
          MaxToken  \* how many tokens can be issued

VARIABLES path,      \* the page of the tab
          user,      \* the user of the auth context
          checking,  \* isLoading: the context waits for its first /me
          token,     \* the ApiClient's token
          cookie,    \* admin_token
          returnTo,  \* sessionStorage
          form,      \* the login form: None, or "login" or "me", the call it awaits
          calls,     \* the requests in flight, one of each kind, with the token they carry (a login: bring)
          owner,     \* the account of each token, None before it is issued
          dead,      \* the tokens that have expired or are on the blacklist
          raced      \* history: a login overlapped another /me or a logout, or got no /me

sessionVars == <<path, user, checking, token, cookie, returnTo, form, calls, owner, dead, raced>>

Tokens  == 1..MaxToken
Paths   == {"/login", "/dashboard", "/client"}
Kinds   == {"me", "login", "logout", "data"}
Answers == {Sent, Failed, "ok", "401"} \cup Users
\* The portal of each account.
Home    == [u \in Users |-> IF Role[u] = "client_user" THEN "/client" ELSE "/dashboard"]
ASSUME SessionAssumption == /\ Role \in [Users -> UserRole]
                            /\ MaxToken \in Nat
                            /\ {None, Sent, Failed, "ok", "401"} \cap Users = {}
                            /\ None \notin Tokens /\ None \notin {"login", "me"}
                            /\ Sent \notin {Failed, "ok", "401"}

Request(c) == [cred |-> c, answer |-> Sent]

SessionInit == /\ path = "/login" /\ user = None /\ checking = TRUE
               /\ token = None /\ cookie = None /\ returnTo = None /\ form = None
               /\ calls = [k \in Kinds |-> IF k = "me" THEN Request(None) ELSE None]
               /\ owner = [t \in Tokens |-> None] /\ dead = {}
               /\ raced = FALSE

\* The credentials a request carries: the header wins over the cookie.
Cred == IF token # None THEN token ELSE cookie
Account(c) == IF c = None \/ c \in dead THEN None ELSE owner[c]

Middleware(p) == IF p # "/login" /\ cookie = None THEN "/login" ELSE p
Pushed(p)     == {p, Middleware(p)}   \* router.push: the router may have the page already
Load(p)       == /\ path' = p
                 /\ user' = None /\ checking' = TRUE /\ token' = None /\ form' = None
                 /\ calls' = [k \in Kinds |-> IF k = "me" THEN Request(cookie) ELSE None]
                 /\ raced' = FALSE

\* A page of a portal is on the screen: its gate lets the user through.
PageShown == path # "/login" /\ ~checking /\ user # None /\ Home[user] = path

-----------------------------------------------------------------------------
(* The API.                                                                *)
Waiting(k)   == calls[k] # None /\ calls[k].answer = Sent
Serve(k, a)  == calls' = [calls EXCEPT ![k] = [cred |-> None, answer |-> a]]

\* get_current_user checks the token, the blacklist and the account.
ServeMe ==
    /\ Waiting("me")
    /\ LET u == Account(calls["me"].cred) IN Serve("me", IF u = None THEN "401" ELSE u)
    /\ UNCHANGED <<path, user, checking, token, cookie, returnTo, form, owner, dead, raced>>

\* A page's request: only a 401 means anything to the session.
ServeData ==
    /\ Waiting("data")
    /\ \/ Account(calls["data"].cred) = None /\ Serve("data", "401")
       \/ Account(calls["data"].cred) # None /\ calls' = [calls EXCEPT !["data"] = None]
    /\ UNCHANGED <<path, user, checking, token, cookie, returnTo, form, owner, dead, raced>>

ServeLogin(u, t) ==
    /\ Waiting("login") /\ owner[t] = None
    /\ \A s \in 1..t-1 : owner[s] # None
    /\ owner' = [owner EXCEPT ![t] = u]
    /\ calls' = [calls EXCEPT !["login"] = [cred |-> t, answer |-> "ok"]]
    /\ UNCHANGED <<path, user, checking, token, cookie, returnTo, form, dead, raced>>
RefuseLogin ==
    /\ Waiting("login") /\ Serve("login", "401")
    /\ UNCHANGED <<path, user, checking, token, cookie, returnTo, form, owner, dead, raced>>

\* The token is put on the blacklist; one that is not valid any more is a 401.
ServeLogout ==
    /\ Waiting("logout")
    /\ LET c == calls["logout"].cred
       IN  IF Account(c) = None THEN Serve("logout", "401") /\ UNCHANGED dead
                                ELSE Serve("logout", "ok") /\ dead' = dead \cup {c}
    /\ UNCHANGED <<path, user, checking, token, cookie, returnTo, form, owner, raced>>

Lose(k) == /\ k # "data" /\ Waiting(k) /\ Serve(k, Failed)
           /\ UNCHANGED <<path, user, checking, token, cookie, returnTo, form, owner, dead, raced>>

Expire(t) == /\ owner[t] # None /\ t \notin dead
             /\ dead' = dead \cup {t}
             /\ UNCHANGED <<path, user, checking, token, cookie, returnTo, form, calls, owner, raced>>

-----------------------------------------------------------------------------
(* The tab: what an answer does.                                           *)

\* Mutant: a 401 on /login loads /login again, which asks /me again.
ThrownOutAlways(k) == calls[k] # None /\ calls[k].answer = "401"

\* A 401 anywhere but on /login throws the tab out to it.
ThrownOut(k)     == calls[k] # None /\ calls[k].answer = "401" /\ path # "/login"
TokenAfter(k)    == IF calls[k].answer = "401" THEN None ELSE token
Answered(k)      == calls[k] # None /\ calls[k].answer # Sent
Received(k)      == calls' = [calls EXCEPT ![k] = None]

ThrowOut(k) == /\ Answered(k) /\ ThrownOut(k)
               /\ returnTo' = path
               /\ Load("/login")
               /\ UNCHANGED <<cookie, owner, dead>>

\* checkAuth and the second half of login() share one /me when they overlap.
MeDone ==
    /\ Answered("me") /\ ~ThrownOut("me")
    /\ LET u == calls["me"].answer
       IN  /\ user' = IF u \in Users THEN u ELSE IF checking THEN None ELSE user
           /\ IF u \in Users /\ form = "me"
              THEN /\ path' \in Pushed(IF returnTo # None THEN returnTo ELSE "/dashboard")
                   /\ returnTo' = None
              ELSE UNCHANGED <<path, returnTo>>
           /\ raced' = (raced \/ (form = "me" /\ u \notin Users))
    /\ checking' = FALSE
    /\ form' = IF form = "me" THEN None ELSE form
    /\ token' = TokenAfter("me")
    /\ Received("me")
    /\ UNCHANGED <<cookie, owner, dead>>

\* Mutant: login() is content with a user who is there already.
LoginDoneKeepsUser ==
    /\ Answered("login") /\ ~ThrownOut("login")
    /\ LET t == calls["login"].cred
       IN  IF calls["login"].answer = "ok"
           THEN /\ token' = t /\ cookie' = t /\ UNCHANGED raced
                /\ form' = IF user # None THEN None ELSE "me"
                /\ calls' = [calls EXCEPT !["login"] = None,
                                          !["me"] = IF user = None THEN Request(t) ELSE @]
           ELSE /\ token' = TokenAfter("login") /\ UNCHANGED <<cookie, raced>>
                /\ form' = None /\ Received("login")
    /\ UNCHANGED <<path, user, checking, returnTo, owner, dead>>

LoginDone ==
    /\ Answered("login") /\ ~ThrownOut("login")
    /\ LET t == calls["login"].cred
       IN  IF calls["login"].answer = "ok"
           THEN /\ token' = t /\ cookie' = t
                /\ form' = "me"
                /\ calls' = [calls EXCEPT !["login"] = None,
                                          !["me"] = IF @ = None THEN Request(t) ELSE @]
                /\ raced' = (raced \/ calls["me"] # None \/ calls["logout"] # None)
           ELSE /\ token' = TokenAfter("login") /\ UNCHANGED <<cookie, raced>>
                /\ form' = None /\ Received("login")
    /\ UNCHANGED <<path, user, checking, returnTo, owner, dead>>

LogoutDone ==
    /\ Answered("logout") /\ ~ThrownOut("logout")
    /\ token' = None
    /\ cookie' = IF calls["logout"].answer = "ok" THEN None ELSE cookie
    /\ Received("logout")
    /\ UNCHANGED <<path, user, checking, returnTo, form, owner, dead, raced>>

DataDone ==
    /\ Answered("data") /\ ~ThrownOut("data")
    /\ token' = TokenAfter("data")
    /\ Received("data")
    /\ UNCHANGED <<path, user, checking, cookie, returnTo, form, owner, dead, raced>>

\* The effect of AuthGate and of ClientAuthGate.
Gate == /\ path # "/login" /\ ~checking /\ ~PageShown
        /\ IF user = None THEN path' = "/login" /\ returnTo' = path
                          ELSE path' \in Pushed(Home[user]) /\ UNCHANGED returnTo
        /\ UNCHANGED <<user, checking, token, cookie, form, calls, owner, dead, raced>>

-----------------------------------------------------------------------------
(* The user.                                                               *)

\* An address is typed, or the page reloaded; "/" sends the tab on to /dashboard.
Visit(p) == /\ Load(Middleware(p))
            /\ UNCHANGED <<cookie, returnTo, owner, dead>>

\* Back and forward between pages of the running application.
Back(p) == /\ user # None /\ path # p /\ p \in Pushed(p)
           /\ path' = p
           /\ UNCHANGED <<user, checking, token, cookie, returnTo, form, calls, owner, dead, raced>>

\* The login form, with its fields and button enabled.
FormFree    == path = "/login" /\ form = None /\ calls["login"] = None
SubmitLogin == /\ FormFree
               /\ form' = "login"
               /\ calls' = [calls EXCEPT !["login"] = Request(None)]
               /\ UNCHANGED <<path, user, checking, token, cookie, returnTo, owner, dead, raced>>

ClickLogout == /\ PageShown /\ calls["logout"] = None
               /\ user' = None
               /\ path' \in {path, "/login"}   \* the gate may come before the push
               /\ calls' = [calls EXCEPT !["logout"] = Request(Cred)]
               /\ raced' = (raced \/ form # None)
               /\ UNCHANGED <<checking, token, cookie, returnTo, form, owner, dead>>

\* A page fetches or saves something.
DataCall == /\ PageShown /\ calls["data"] = None
            /\ calls' = [calls EXCEPT !["data"] = Request(Cred)]
            /\ UNCHANGED <<path, user, checking, token, cookie, returnTo, form, owner, dead, raced>>

Serving(k)   == \/ Lose(k)
                \/ k = "me" /\ ServeMe
                \/ k = "data" /\ ServeData
                \/ k = "login" /\ (RefuseLogin \/ \E u \in Users, t \in Tokens : ServeLogin(u, t))
                \/ k = "logout" /\ ServeLogout
Receiving(k) == \/ ThrowOut(k)
                \/ k = "me" /\ MeDone
                \/ k = "login" /\ LoginDone
                \/ k = "logout" /\ LogoutDone
                \/ k = "data" /\ DataDone
Proceed(k)    == Serving(k) \/ Receiving(k)   \* never both are enabled
SessionSystem == Gate \/ \E k \in Kinds : Proceed(k)
SessionUser   == \/ \E p \in Paths : Visit(p) \/ Back(p)
                 \/ SubmitLogin \/ ClickLogout \/ DataCall
                 \/ \E t \in Tokens : Expire(t)
SessionNext == SessionSystem \/ SessionUser

\* Effects run, and a /me is answered or lost and its answer handled: all that a tab needs to
\* come to rest, whatever becomes of the other requests.
SessionFairness == WF_sessionVars(Gate) /\ WF_sessionVars(Proceed("me"))
SessionSpec == SessionInit /\ [][SessionNext]_sessionVars /\ SessionFairness

-----------------------------------------------------------------------------
SessionTypeOK == /\ path \in Paths /\ user \in Users \cup {None} /\ checking \in BOOLEAN
                 /\ token \in Tokens \cup {None} /\ cookie \in Tokens \cup {None}
                 /\ returnTo \in Paths \cup {None}
                 /\ form \in {None, "login", "me"}
                 /\ calls \in [Kinds -> [cred : Tokens \cup {None}, answer : Answers] \cup {None}]
                 /\ owner \in [Tokens -> Users \cup {None}] /\ dead \subseteq Tokens
                 /\ raced \in BOOLEAN

\* A page that is on the screen is the page of the account its requests run under
\* (contexts/auth-context.tsx:38-76, lib/api.ts:124-152): whoever logged in, logged out or
\* loaded a page before. While a login is under way, and after one that overlapped another /me
\* or a logout or whose own /me failed, nothing is said until the next hard load.
SessionMatches == PageShown /\ form = None /\ ~raced => Cred # None /\ owner[Cred] = user

\* The tab comes to rest, on the login form or on a page, again and again, unless the user loads
\* pages again and again: no loop of redirects and reloads goes on for ever (lib/api.ts:143-146).
AtRest == ~checking /\ (path = "/login" \/ PageShown)
UserLoads == (\E p \in Paths : Visit(p)) /\ ~SessionSystem
ComesToRest == []<><<UserLoads>>_sessionVars \/ []<>AtRest
=============================================================================
