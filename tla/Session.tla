------------------------------- MODULE Session -------------------------------
(***************************************************************************)
(* Signing in and staying signed in: the tabs of one browser, which share  *)
(* the tokens in localStorage (lib/api.ts, AuthContext.tsx), and the       *)
(* accounts that the API checks the tokens against.  Every await is a      *)
(* point at which the other handlers of the tab, other tabs, logouts,      *)
(* expiries and page loads come in between.                                *)
(*                                                                         *)
(* A token is its user and whether it has expired; the signatures are      *)
(* SimpleJWT's.  A request is sent, decided by the API and answered, or    *)
(* fails (no answer, or an error that is no 401).                          *)
(***************************************************************************)
EXTENDS Naturals, FiniteSets

CONSTANTS
  Tab, User, Nobody,
  NoToken,
  Form,           \* LoginPage and RegisterPage, each time a tab shows one
  Panel,          \* requests that the pages of a tab make
  MaxInFlight,    \* bound: requests under way in the browser
  MaxSuspended    \* bound: accounts that admins deactivate

Slot == {"boot"} \cup Form \cup Panel

Token == [user : User, live : BOOLEAN]

VARIABLES
  account,     \* "none", "active" or "inactive": the row of each user
  access,      \* dataflow.access
  refresh,     \* dataflow.refresh
  user,        \* AuthContext's user in each tab
  loading,     \* AuthContext's loading
  renewing,    \* refreshPromise: the refresh under way in each tab
  req,         \* the requests of each tab
  late,        \* history: a refresh was under way when tokens were last
               \* stored or cleared
  split        \* history: tabs that had asked who the user is, or knew,
               \* when a login stored other tokens

vars == <<account, access, refresh, user, loading, renewing, req, late, split>>
tokens == <<access, refresh, late, split>>
screen == <<user, loading>>

(* A request of call `call`, with the token the request interceptor        *)
(* attached; `who` is the user it names, or the one its answer names.      *)
Idle == [at |-> "idle", call |-> "none", who |-> Nobody, token |-> NoToken, retried |-> FALSE]

Sent(call, who, token, retried) ==
  [at |-> "sent", call |-> call, who |-> who, token |-> token, retried |-> retried]

NotRenewing == [at |-> "no", token |-> NoToken]

Init ==
  /\ account = [u \in User |-> "none"]
  /\ access = NoToken /\ refresh = NoToken
  /\ user = [t \in Tab |-> Nobody]
  /\ loading = [t \in Tab |-> FALSE]
  /\ renewing = [t \in Tab |-> NotRenewing]
  /\ req = [t \in Tab |-> [s \in Slot |-> Idle]]
  /\ late = FALSE
  /\ split = [t \in Tab |-> FALSE]

Put(t, s, r) == req' = [req EXCEPT ![t][s] = r]

InFlight == {x \in Tab \X Slot : req[x[1]][x[2]].at # "idle"}

Room == Cardinality(InFlight) < MaxInFlight

Renewing(t) == renewing[t].at # "no"

-----------------------------------------------------------------------------
(* What the storage is put to.                                             *)

(* clear that forgets the refresh token. *)
ClearAccessOnly ==
  /\ access' = NoToken
  /\ late' = \E t \in Tab : renewing'[t].at # "no"
  /\ UNCHANGED <<refresh, split>>

(* tokenStorage.clear *)
Clear ==
  /\ access' = NoToken /\ refresh' = NoToken
  /\ late' = \E t \in Tab : renewing'[t].at # "no"
  /\ UNCHANGED split

(* A tab whose user, or whose question after it, is of the tokens before.  *)
Knows(t, s) == user[t] # Nobody \/ req[t][s].call \in {"boot", "me"}

(* A token read before the login has stored its own. *)
AttachedBefore == access

(* What the request interceptor attaches to a request that is made by the  *)
(* handler that has just stored a token. *)
Attached == access'

(* tokenStorage.set, after a login. *)
StoreTokens(u) ==
  /\ access' = [user |-> u, live |-> TRUE]
  /\ refresh' = [user |-> u, live |-> TRUE]
  /\ late' = \E t \in Tab : Renewing(t)
  /\ split' = [t \in Tab |-> split[t] \/ \E s \in Slot : Knows(t, s)]

-----------------------------------------------------------------------------
(* The page.                                                               *)

(* A page load in tab t: the script starts over, and whatever the old page *)
(* waited for is dropped.  loadCurrentUser asks who the tokens belong to.  *)
Load(t) ==
  /\ user' = [user EXCEPT ![t] = Nobody]
  /\ loading' = [loading EXCEPT ![t] = access # NoToken]
  /\ renewing' = [renewing EXCEPT ![t] = NotRenewing]
  /\ req' = [req EXCEPT ![t] = [s \in Slot |->
       IF s = "boot" /\ access # NoToken THEN Sent("boot", Nobody, access, FALSE) ELSE Idle]]
  /\ split' = [split EXCEPT ![t] = FALSE]
  /\ UNCHANGED <<account, access, refresh, late>>

(* The user opens or reloads the application. *)
Open(t) == Load(t)

(* The forms of LoginPage and RegisterPage, shown while there is no user;  *)
(* its `busy` keeps a form from being sent twice, but not the other page,  *)
(* nor the same page when the user comes back to it.                       *)
Submit(t, f, u, call) ==
  /\ user[t] = Nobody
  /\ req[t][f].at = "idle"
  /\ Put(t, f, Sent(call, u, IF call = "token" THEN NoToken ELSE access, FALSE))
  /\ UNCHANGED <<account, tokens, screen, renewing>>

(* A protected page asks for its data. *)
Ask(t, s) ==
  /\ user[t] # Nobody
  /\ req[t][s].at = "idle"
  /\ Put(t, s, Sent("page", Nobody, access, FALSE))
  /\ UNCHANGED <<account, tokens, screen, renewing>>

(* logout: what is in flight stays in flight. *)
Logout(t) ==
  /\ user[t] # Nobody
  /\ user' = [user EXCEPT ![t] = Nobody]
  /\ UNCHANGED renewing
  /\ Clear
  /\ UNCHANGED <<account, loading, req>>

-----------------------------------------------------------------------------
(* The API.                                                                *)

Accepts(token) ==
  token # NoToken /\ token.live /\ account[token.user] = "active"

Decide(t, s, verdict, who) ==
  Put(t, s, [req[t][s] EXCEPT !.at = verdict, !.who = who, !.token = NoToken])

(* JWTAuthentication before the view.  Registering needs no token but must *)
(* not have a bad one, and a name that is free.                            *)
Serve(t, s) ==
  LET r == req[t][s] IN
  /\ r.at = "sent" /\ r.call \in {"boot", "me", "page"}
  /\ IF Accepts(r.token)
     THEN Decide(t, s, "ok", IF r.call = "page" THEN Nobody ELSE r.token.user)
     ELSE Decide(t, s, "unauthorized", Nobody)
  /\ UNCHANGED <<account, tokens, screen, renewing>>

ServeRegister(t, f) ==
  LET r == req[t][f] IN
  /\ r.at = "sent" /\ r.call = "register"
  /\ IF r.token # NoToken /\ ~Accepts(r.token)
     THEN Decide(t, f, "unauthorized", r.who) /\ UNCHANGED account
     ELSE /\ account[r.who] = "none"
          /\ account' = [account EXCEPT ![r.who] = "active"]
          /\ Decide(t, f, "ok", r.who)
  /\ UNCHANGED <<tokens, screen, renewing>>

ServeLogin(t, f) ==
  LET r == req[t][f] IN
  /\ r.at = "sent" /\ r.call = "token"
  /\ Decide(t, f, IF account[r.who] = "active" THEN "ok" ELSE "unauthorized", r.who)
  /\ UNCHANGED <<account, tokens, screen, renewing>>

(* The answer to a refresh: an access token if the refresh token is good.  *)
(* Whether SimpleJWT also looks at the user depends on its version.        *)
ServeRefresh(t) ==
  LET token == renewing[t].token IN
  /\ renewing[t].at = "sent"
  /\ \E verdict \in {"ok", "refused"} :
       /\ verdict = "ok" => token.live
       /\ verdict = "refused" => ~Accepts(token)
       /\ renewing' = [renewing EXCEPT ![t] =
            [at |-> verdict, token |-> [token EXCEPT !.live = TRUE]]]
  /\ UNCHANGED <<account, tokens, screen, req>>

(* An admin clears is_active. *)
Deactivate(u) ==
  /\ account[u] = "active"
  /\ Cardinality({v \in User : account[v] = "inactive"}) < MaxSuspended
  /\ account' = [account EXCEPT ![u] = "inactive"]
  /\ UNCHANGED <<tokens, screen, renewing, req>>

Dead(token) == IF token = NoToken THEN NoToken ELSE [token EXCEPT !.live = FALSE]

(* ACCESS_TOKEN_LIFETIME is over for every access token there is. *)
AccessExpires ==
  /\ access' = Dead(access)
  /\ req' = [t \in Tab |-> [s \in Slot |-> [req[t][s] EXCEPT !.token = Dead(@)]]]
  /\ renewing' = [t \in Tab |->
       IF renewing[t].at = "ok" THEN [renewing[t] EXCEPT !.token = Dead(@)] ELSE renewing[t]]
  /\ UNCHANGED <<account, refresh, late, split, screen>>

(* REFRESH_TOKEN_LIFETIME is over. *)
RefreshExpires ==
  /\ refresh' = Dead(refresh)
  /\ renewing' = [t \in Tab |->
       IF renewing[t].at = "sent" THEN [renewing[t] EXCEPT !.token = Dead(@)] ELSE renewing[t]]
  /\ UNCHANGED <<account, access, late, split, screen, req>>

-----------------------------------------------------------------------------
(* Answers.                                                                *)

(* A call that succeeds.  login goes on from one call to the next. *)
Fulfil(t, s) ==
  LET r == req[t][s] IN
  /\ r.at = "ok"
  /\ \/ /\ r.call \in {"boot", "me"}
        /\ user' = [user EXCEPT ![t] = r.who]
        /\ loading' = [loading EXCEPT ![t] = @ /\ s # "boot"]
        /\ Put(t, s, Idle)
        /\ UNCHANGED tokens
     \/ /\ r.call = "page"
        /\ Put(t, s, Idle)
        /\ UNCHANGED <<tokens, user, loading>>
     \/ /\ r.call = "register"
        /\ Put(t, s, Sent("token", r.who, NoToken, FALSE))
        /\ UNCHANGED <<tokens, user, loading>>
     \/ /\ r.call = "token"
        /\ StoreTokens(r.who)
        /\ Put(t, s, Sent("me", Nobody, Attached, FALSE))
        /\ UNCHANGED <<user, loading>>
  /\ UNCHANGED <<account, renewing>>

(* loadCurrentUser without its finally. *)
PassOnLoading(t, s) ==
  /\ Put(t, s, Idle)
  /\ UNCHANGED loading
  /\ IF s = "boot"
     THEN user' = [user EXCEPT ![t] = Nobody] /\ Clear
     ELSE UNCHANGED <<user, tokens>>

(* A rejection that the interceptor passes on: loadCurrentUser clears the  *)
(* tokens, other callers show the error.                                   *)
PassOn(t, s) ==
  /\ Put(t, s, Idle)
  /\ IF s = "boot"
     THEN /\ user' = [user EXCEPT ![t] = Nobody]
          /\ loading' = [loading EXCEPT ![t] = FALSE]
          /\ Clear
     ELSE UNCHANGED <<user, loading, tokens>>

(* The catch of the interceptor: tokenStorage.clear and location.assign,   *)
(* which loads /login anew.  The page that is left has no further part.    *)
SignOut(t) ==
  /\ renewing' = [renewing EXCEPT ![t] = NotRenewing]
  /\ req' = [req EXCEPT ![t] = [s \in Slot |-> Idle]]
  /\ user' = [user EXCEPT ![t] = Nobody]
  /\ loading' = [loading EXCEPT ![t] = FALSE]
  /\ Clear

Final(r) == r.retried \/ r.call = "token"

(* A 401 that is final; the login endpoint's always is. *)
Refuse(t, s) ==
  /\ req[t][s].at = "unauthorized"
  /\ Final(req[t][s])
  /\ UNCHANGED <<account, renewing>>
  /\ PassOn(t, s)

(* A 401 that ends the session without a try at refreshing it. *)
RenewNever(t, s) ==
  /\ req[t][s].at = "unauthorized" /\ ~Final(req[t][s])
  /\ SignOut(t)
  /\ UNCHANGED account

(* A 401 that waits for the refresh of its tab, which it starts unless     *)
(* there is one; without a refresh token that fails at once.               *)
Renew(t, s) ==
  LET r == req[t][s] IN
  /\ r.at = "unauthorized" /\ ~Final(r)
  /\ IF Renewing(t) \/ refresh # NoToken
     THEN /\ Put(t, s, [r EXCEPT !.at = "waiting", !.retried = TRUE])
          /\ renewing' = IF Renewing(t) THEN renewing
                         ELSE [renewing EXCEPT ![t] = [at |-> "sent", token |-> refresh]]
          /\ UNCHANGED <<tokens, screen>>
     ELSE SignOut(t)
  /\ UNCHANGED account

Waiting(t) == {s \in Slot : req[t][s].at = "waiting"}

(* Only one of those who wait is resumed. *)
RenewedOne(t) ==
  /\ renewing[t].at = "ok"
  /\ access' = renewing[t].token
  /\ renewing' = [renewing EXCEPT ![t] = NotRenewing]
  /\ \E s \in Waiting(t) : Put(t, s, [req[t][s] EXCEPT !.at = "sent", !.token = access'])
  /\ UNCHANGED <<account, refresh, late, split, screen>>

(* setAccess, whoever is signed in by now; those who waited ask again, and *)
(* the request interceptor attaches what is stored.                        *)
Renewed(t) ==
  /\ renewing[t].at = "ok"
  /\ access' = renewing[t].token
  /\ renewing' = [renewing EXCEPT ![t] = NotRenewing]
  /\ req' = [req EXCEPT ![t] = [s \in Slot |->
       IF s \in Waiting(t)
       THEN [req[t][s] EXCEPT !.at = "sent", !.token = Attached] ELSE req[t][s]]]
  /\ UNCHANGED <<account, refresh, late, split, screen>>

RefreshRefused(t) ==
  /\ renewing[t].at = "refused"
  /\ SignOut(t)
  /\ UNCHANGED account

(* No answer to the refresh. *)
RefreshFails(t) ==
  /\ renewing[t].at \in {"sent", "ok"}
  /\ SignOut(t)
  /\ UNCHANGED account

(* No answer, or an error that is no 401. *)
Fails(t, s) ==
  /\ req[t][s].at \in {"sent", "ok", "unauthorized"}
  /\ UNCHANGED <<account, renewing>>
  /\ PassOn(t, s)

Api(t) ==
  \/ \E s \in Slot : Serve(t, s)
  \/ \E f \in Form : ServeRegister(t, f) \/ ServeLogin(t, f)
  \/ ServeRefresh(t)

Answers(t) ==
  \/ \E s \in Slot : Fulfil(t, s) \/ Refuse(t, s) \/ Renew(t, s) \/ Fails(t, s)
  \/ Renewed(t)
  \/ RefreshRefused(t)
  \/ RefreshFails(t)

Next ==
  \/ \E t \in Tab :
       \/ /\ Room
          /\ \/ Open(t)
             \/ \E f \in Form, u \in User : Submit(t, f, u, "token") \/ Submit(t, f, u, "register")
             \/ \E s \in Panel : Ask(t, s)
       \/ Logout(t)
       \/ Api(t)
       \/ Answers(t)
  \/ \E u \in User : Deactivate(u)
  \/ AccessExpires
  \/ RefreshExpires

Spec == Init /\ [][Next]_vars

-----------------------------------------------------------------------------
(* Properties.                                                             *)

Call == {"boot", "register", "token", "me", "page"}

(* Besides the types: a tab is loading until its first question has been   *)
(* answered, and who waits for a refresh is resumed when it ends.          *)
TypeOK ==
  /\ account \in [User -> {"none", "active", "inactive"}]
  /\ access \in Token \cup {NoToken} /\ refresh \in Token \cup {NoToken}
  /\ user \in [Tab -> User \cup {Nobody}]
  /\ loading \in [Tab -> BOOLEAN]
  /\ renewing \in [Tab -> [at : {"no", "sent", "ok", "refused"}, token : Token \cup {NoToken}]]
  /\ req \in [Tab -> [Slot ->
       [at : {"idle", "sent", "ok", "unauthorized", "waiting"}, call : Call \cup {"none"},
        who : User \cup {Nobody}, token : Token \cup {NoToken}, retried : BOOLEAN]]]
  /\ late \in BOOLEAN /\ split \in [Tab -> BOOLEAN]
  /\ \A t \in Tab : loading[t] <=> req[t]["boot"].at # "idle"
  /\ \A t \in Tab : Waiting(t) # {} <=> Renewing(t)

(* The two tokens in localStorage are there together and of one user,      *)
(* whatever mixture of logins, logouts, refreshes and reloads the tabs went *)
(* through, but for a refresh that was under way when they were last       *)
(* stored or cleared: its access token is stored when it comes.            *)
TokensBelongTogether ==
  \/ late
  \/ access = NoToken /\ refresh = NoToken
  \/ access # NoToken /\ refresh # NoToken /\ access.user = refresh.user

(* A tab shows the user as whom its requests are made, but for such a      *)
(* refresh, and for a login while the tab knew or had asked who the user   *)
(* of the tokens before was.                                               *)
ShownUserIsAsking ==
  \A t \in Tab : user[t] # Nobody /\ access # NoToken /\ ~late /\ ~split[t]
    => user[t] = access.user

(* The tokens are of one user, and tabs show that user. *)
SessionIsOfOneUser == TokensBelongTogether /\ ShownUserIsAsking

(* An access token that expires signs nobody out: while the refresh token  *)
(* is good, and but for the refreshes and logins above, tokens are taken   *)
(* away only by a logout, by a refresh or page load that fails, or by a    *)
(* page load that is refused again after a refresh.                        *)
LiveSessionIsKept ==
  [][refresh # NoToken /\ refresh.live /\ refresh' = NoToken
     /\ account[refresh.user] = "active" /\ ~late
     => \E t \in Tab : \/ Logout(t)
                       \/ RefreshFails(t)
                       \/ Fails(t, "boot")
                       \/ Refuse(t, "boot")]_vars

=============================================================================
