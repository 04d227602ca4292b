--------------------------- MODULE Clients_proofs ---------------------------
(***************************************************************************)
(* What clients of the API are promised, for any number of requests, tabs, *)
(* accounts, pipelines and runs: retries (Idempotency), one session in the *)
(* tabs of a browser (Session), and the page of a pipeline (PipelinePage). *)
(***************************************************************************)
EXTENDS MCClients, FiniteSetTheorems, SequenceTheorems, TLAPS


-----------------------------------------------------------------------------
(* Retries. *)

(* The table has one row per scope and keeps what has been answered, which *)
(* includes everything answered before a request came in.                  *)
Kept ==
  /\ \A rec1, rec2 \in records : rec1.scope = rec2.scope => rec1 = rec2
  /\ \A q \in Request : header[q].key # NoKey /\ answer[q] \in Run =>
       Answered(header[q], answer[q]) \in records
  /\ \A q \in Request : before[q] \subseteq records
  /\ \A q \in Request : pc[q] = "store" => result[q] \in Run
  /\ \A rec \in records : rec = [scope |-> rec.scope, run |-> rec.run]

(* What is recorded or answered was triggered by a request of that scope. *)
Owned ==
  /\ \A rec \in records : \E p \in owner[rec.run] : rec.scope = Scope(header[p])
  /\ \A q \in Request : pc[q] = "store" => q \in owner[result[q]]
  /\ AnswerIsOwn

IInv == TypeOK /\ Kept /\ Owned

(* What is true of requests at any time. *)
LEMMA Inductive == Spec => []IInv
<1>1. Init => IInv
  BY IdempotencyAssumption DEF Init, IInv, TypeOK, Kept, Header, Owned, AnswerIsOwn
<1>2. IInv /\ [Next]_vars => IInv'
  <2> SUFFICES ASSUME IInv, [Next]_vars PROVE IInv'
    OBVIOUS
  <2> USE IdempotencyAssumption
      DEF IInv, TypeOK, Kept, Owned, AnswerIsOwn, Answered, Scope, Goto, Respond
  <2>1. ASSUME NEW q \in Request, Arrive(q) PROVE IInv'
    BY <2>1 DEF Arrive
  <2>2. ASSUME NEW q \in Request, Replay(q) PROVE IInv'
    BY <2>2, SMTT(30) DEF Replay, Existing
  <2>3. ASSUME NEW q \in Request, Miss(q) PROVE IInv'
    BY <2>3 DEF Miss
  <2>4. ASSUME NEW q \in Request, NEW r \in Run, View(q, r) PROVE IInv'
    BY <2>4 DEF View
  <2>10. ASSUME NEW q \in Request, NEW r \in Run, ViewRaises(q, r) PROVE IInv'
    BY <2>10 DEF ViewRaises
  <2>5. ASSUME NEW q \in Request, ViewFails(q) PROVE IInv'
    BY <2>5 DEF ViewFails
  <2>6. ASSUME NEW q \in Request, Store(q) PROVE IInv'
    BY <2>6, SMTT(30) DEF Store, Existing
  <2>7. ASSUME NEW q \in Request, StoreConflict(q) PROVE IInv'
    BY <2>7 DEF StoreConflict
  <2>8. ASSUME NEW q \in Request, Die(q) PROVE IInv'
    BY <2>8 DEF Die
  <2>9. CASE UNCHANGED vars
    BY <2>9 DEF vars
  <2>. QED
    BY <2>1, <2>2, <2>3, <2>4, <2>5, <2>6, <2>7, <2>8, <2>9, <2>10 DEF Next
<1>. QED
  BY <1>1, <1>2, PTL DEF Spec

(* Types are kept; in particular only runs are ever recorded. *)
THEOREM TypeCorrect == Spec => []TypeOK
<1>1. IInv => TypeOK
  BY DEF IInv
<1>. QED
  BY <1>1, Inductive, PTL

(* A client that retries after an answer gets that answer, whatever other  *)
(* requests, races and kills there are.                                    *)
THEOREM RetriesAreReplayed == Spec => []RetryIsReplayed
<1>1. IInv => RetryIsReplayed
  BY DEF IInv, Kept, RetryIsReplayed, Answered
<1>. QED
  BY <1>1, Inductive, PTL

(* Nobody is answered with a run of another user or another pipeline. *)
THEOREM AnswersAreOwn == Spec => []AnswerIsOwn
<1>1. IInv => AnswerIsOwn
  BY DEF IInv, Owned
<1>. QED
  BY <1>1, Inductive, PTL

-----------------------------------------------------------------------------
(* The tabs of a browser, with any number of requests under way and of      *)
(* accounts that are deactivated: Session and Admin are instances of it.    *)

CONSTANTS MaxInFlight, MaxSuspended
Browser == INSTANCE Session WITH User <- Account

(* What the instance's assumption says of Browser. *)
LEMMA Names ==
  /\ NoToken \notin Browser!Token /\ Nobody \notin Account
  /\ "boot" \notin Form \cup Panel /\ Form \cap Panel = {}
BY BrowserAssumption DEF Browser!Token, Session!Token

Exchange ==
  [at : {"idle", "sent", "ok", "unauthorized", "waiting"}, call : Browser!Call \cup {"none"},
   who : Account \cup {Nobody}, token : Browser!Token \cup {NoToken}, retried : BOOLEAN]

(* A request whose call is one that is made of its slot. *)
WellPut(s, r) ==
  /\ r \in Exchange
  /\ r.call = "boot" => s = "boot"
  /\ r.call \in {"me", "register", "token"} => s \in Form
  /\ r.call = "page" => s \in Panel
  /\ r.call \in {"register", "token"} => r.who \in Account

Types ==
  /\ account \in [Account -> {"none", "active", "inactive"}]
  /\ access \in Browser!Token \cup {NoToken} /\ refresh \in Browser!Token \cup {NoToken}
  /\ user \in [Tab -> Account \cup {Nobody}]
  /\ loading \in [Tab -> BOOLEAN]
  /\ renewing \in [Tab -> [at : {"no", "sent", "ok", "refused"}, token : Browser!Token \cup {NoToken}]]
  /\ req \in [Tab -> [Browser!Slot -> Exchange]]
  /\ late \in BOOLEAN /\ split \in [Tab -> BOOLEAN]
  /\ \A t \in Tab : renewing[t].at # "no" => renewing[t].token # NoToken
  /\ \A t \in Tab, s \in Browser!Slot : WellPut(s, req[t][s])

Loading == \A t \in Tab : loading[t] <=> req[t]["boot"].at # "idle"

Resumed == \A t \in Tab : (\E s \in Browser!Slot : req[t][s].at = "waiting") <=> renewing[t].at # "no"

Shape == Types /\ Loading /\ Resumed

(* Calls of the session, of the forms and of the panels have slots of *)
(* their own.                                                         *)
LEMMA Slots ==
  /\ "boot" \in Browser!Slot
  /\ \A f \in Form : f \in Browser!Slot /\ f # "boot"
  /\ \A s \in Panel : s \in Browser!Slot /\ s # "boot" /\ s \notin Form
  /\ \A s \in Browser!Slot : WellPut(s, Browser!Idle)
  /\ Browser!Idle.at = "idle" /\ Browser!Idle.call = "none" /\ Browser!Idle.token = NoToken
BY Names DEF Browser!Slot, Browser!Idle, WellPut, Exchange

(* What the handlers send is well put in its slot. *)
LEMMA Sending ==
  ASSUME Types
  PROVE  /\ \A token \in {NoToken, access}, retried \in BOOLEAN :
              WellPut("boot", Browser!Sent("boot", Nobody, token, retried))
         /\ \A f \in Form, u \in Account, call \in {"token", "register"}, token \in {NoToken, access} :
              WellPut(f, Browser!Sent(call, u, token, FALSE))
         /\ \A s \in Panel : WellPut(s, Browser!Sent("page", Nobody, access, FALSE))
         /\ \A call, who, token, retried : Browser!Sent(call, who, token, retried).at = "sent"
BY DEF Types, Browser!Sent, Exchange, Browser!Call, WellPut

(* A token that expires is nobody else's. *)
LEMMA Dying ==
  ASSUME NEW token \in Browser!Token \cup {NoToken}
  PROVE  LET dead == Browser!Dead(token) IN
         /\ dead \in Browser!Token \cup {NoToken}
         /\ dead = NoToken <=> token = NoToken
         /\ token # NoToken => dead.user = token.user
BY Names DEF Browser!Dead, Browser!Token

(* What Put does to every request. *)
LEMMA Putting ==
  ASSUME Types, NEW t \in Tab, NEW s \in Browser!Slot, NEW r, Browser!Put(t, s, r)
  PROVE  /\ \A v \in Tab, x \in Browser!Slot : req'[v][x] = IF v = t /\ x = s THEN r ELSE req[v][x]
         /\ WellPut(s, r) => /\ req' \in [Tab -> [Browser!Slot -> Exchange]]
                             /\ \A v \in Tab, x \in Browser!Slot : WellPut(x, req'[v][x])
BY DEF Types, Browser!Put, WellPut

(* What a request becomes that the API has decided. *)
Decided(r, at, who) == [r EXCEPT !.at = at, !.who = who, !.token = NoToken]

(* A request that the API has decided is as well put as it was. *)
LEMMA Deciding ==
  ASSUME NEW s \in Browser!Slot, NEW r, WellPut(s, r), NEW at \in {"ok", "unauthorized"},
         NEW who \in Account \cup {Nobody}, r.call \in {"register", "token"} => who \in Account
  PROVE  /\ WellPut(s, Decided(r, at, who))
         /\ Decided(r, at, who).at = at /\ Decided(r, at, who).who = who
         /\ Decided(r, at, who).token = NoToken /\ Decided(r, at, who).call = r.call
BY DEF WellPut, Exchange, Decided

(* A step that puts one request, of which nobody waits for a refresh. *)
LEMMA ShapeOfPut ==
  ASSUME Shape, NEW t \in Tab, NEW s \in Browser!Slot, NEW r,
         Browser!Put(t, s, r), WellPut(s, r), req[t][s].at # "waiting", r.at # "waiting",
         UNCHANGED renewing,
         account' \in [Account -> {"none", "active", "inactive"}],
         access' \in Browser!Token \cup {NoToken}, refresh' \in Browser!Token \cup {NoToken},
         late' \in BOOLEAN, split' \in [Tab -> BOOLEAN],
         user' \in [Tab -> Account \cup {Nobody}],
         loading' \in [Tab -> BOOLEAN],
         \A v \in Tab : loading'[v] <=> IF v = t /\ s = "boot" THEN r.at # "idle" ELSE loading[v]
  PROVE  Shape'
<1>1. /\ \A v \in Tab, x \in Browser!Slot : req'[v][x] = IF v = t /\ x = s THEN r ELSE req[v][x]
      /\ req' \in [Tab -> [Browser!Slot -> Exchange]]
      /\ \A v \in Tab, x \in Browser!Slot : WellPut(x, req'[v][x])
  BY Putting DEF Shape
<1>2. Types'
  BY <1>1 DEF Shape, Types
<1>3. Loading'
  BY <1>1, Slots DEF Shape, Loading
<1>4. Resumed'
  BY <1>1 DEF Shape, Resumed
<1>. QED BY <1>2, <1>3, <1>4 DEF Shape

(* What such a step need not change. *)
LEMMA Keeping ==
  ASSUME Shape
  PROVE  /\ UNCHANGED account => account' \in [Account -> {"none", "active", "inactive"}]
         /\ UNCHANGED access => access' \in Browser!Token \cup {NoToken}
         /\ UNCHANGED refresh => refresh' \in Browser!Token \cup {NoToken}
         /\ UNCHANGED late => late' \in BOOLEAN
         /\ UNCHANGED split => split' \in [Tab -> BOOLEAN]
         /\ UNCHANGED user => user' \in [Tab -> Account \cup {Nobody}]
         /\ UNCHANGED loading =>
              /\ loading' \in [Tab -> BOOLEAN]
              /\ \A t \in Tab : \A s, r :
                   (req[t]["boot"].at # "idle" /\ r.at # "idle") \/ s # "boot" =>
                   \A v \in Tab :
                     loading'[v] <=> IF v = t /\ s = "boot" THEN r.at # "idle" ELSE loading[v]
BY DEF Shape, Types, Loading

(* The interceptor that gives up leaves nothing under way in its tab. *)
LEMMA ShapeOfSignOut ==
  ASSUME Shape, NEW t \in Tab, Browser!SignOut(t), UNCHANGED account
  PROVE  Shape'
<1>1. /\ \A v \in Tab, x \in Browser!Slot :
           req'[v][x] = IF v = t THEN Browser!Idle ELSE req[v][x]
      /\ \A v \in Tab, x \in Browser!Slot : WellPut(x, req'[v][x])
      /\ req' \in [Tab -> [Browser!Slot -> Exchange]]
  BY Slots DEF Shape, Types, Browser!SignOut, WellPut
<1>2. Types'
  BY <1>1 DEF Shape, Types, Browser!SignOut, Browser!Clear, Browser!NotRenewing
<1>3. Loading'
  BY <1>1, Slots DEF Shape, Types, Loading, Browser!SignOut
<1>4. Resumed'
  BY <1>1, Slots DEF Shape, Types, Resumed, Browser!SignOut, Browser!NotRenewing
<1>. QED BY <1>2, <1>3, <1>4 DEF Shape

(* No step of a tab, of the API or of time breaks the shape. *)
LEMMA ShapeInductive == Shape /\ [Browser!Next]_(Browser!vars) => Shape'
<1> SUFFICES ASSUME Shape, [Browser!Next]_(Browser!vars) PROVE Shape'
  OBVIOUS
<1> USE DEF Browser!tokens, Browser!screen
<1>1. ASSUME NEW t \in Tab, Browser!Open(t) PROVE Shape'
  <2>1. /\ user' = [user EXCEPT ![t] = Nobody]
        /\ loading' = [loading EXCEPT ![t] = access # NoToken]
        /\ renewing' = [renewing EXCEPT ![t] = Browser!NotRenewing]
        /\ split' = [split EXCEPT ![t] = FALSE]
        /\ UNCHANGED <<account, access, refresh, late>>
    BY <1>1 DEF Browser!Open, Browser!Load
  <2> DEFINE r(s) == IF s = "boot" /\ access # NoToken
                     THEN Browser!Sent("boot", Nobody, access, FALSE) ELSE Browser!Idle
  <2>2. req' = [req EXCEPT ![t] = [s \in Browser!Slot |-> r(s)]]
    BY <1>1 DEF Browser!Open, Browser!Load
  <2>3. \A s \in Browser!Slot : WellPut(s, r(s)) /\ r(s).at # "waiting"
          /\ (s = "boot" => (r(s).at # "idle" <=> access # NoToken))
    BY Slots, Sending DEF Shape, Types, WellPut, Browser!Call
  <2> HIDE DEF r
  <2>4. /\ req' \in [Tab -> [Browser!Slot -> Exchange]]
        /\ \A v \in Tab, s \in Browser!Slot : req'[v][s] = IF v = t THEN r(s) ELSE req[v][s]
    BY <2>2, <2>3 DEF Shape, Types, WellPut
  <2>5. Types'
    BY <2>1, <2>3, <2>4 DEF Shape, Types, Browser!NotRenewing
  <2>6. Loading'
    <3>1. \A v \in Tab : loading'[v] <=> IF v = t THEN access # NoToken ELSE loading[v]
      BY <2>1, Zenon DEF Shape, Types
    <3>2. \A v \in Tab : req'[v]["boot"] = IF v = t THEN r("boot") ELSE req[v]["boot"]
      BY <2>4, Slots
    <3>. QED BY <2>3, <3>1, <3>2, Slots DEF Shape, Loading
  <2>7. Resumed'
    <3>1. \A v \in Tab : renewing'[v].at = IF v = t THEN "no" ELSE renewing[v].at
      BY <2>1 DEF Shape, Types, Browser!NotRenewing
    <3>. QED BY <2>3, <2>4, <3>1 DEF Shape, Resumed
  <2>. QED BY <2>5, <2>6, <2>7 DEF Shape
<1>2. ASSUME NEW t \in Tab, NEW f \in Form, NEW u \in Account, NEW call \in {"token", "register"},
              Browser!Submit(t, f, u, call)
      PROVE  Shape'
  <2> DEFINE r == Browser!Sent(call, u, IF call = "token" THEN NoToken ELSE access, FALSE)
  <2>1. WellPut(f, r) /\ r.at = "sent"
    BY Sending DEF Shape
  <2>2. /\ Browser!Put(t, f, r)
        /\ UNCHANGED <<account, access, refresh, late, split, user, loading, renewing>>
        /\ req[t][f].at = "idle"
    BY <1>2 DEF Browser!Submit
  <2> HIDE DEF r
  <2>. QED
    BY <2>1, <2>2, Slots, ShapeOfPut, Keeping
<1>3. ASSUME NEW t \in Tab, NEW s \in Panel, Browser!Ask(t, s) PROVE Shape'
  <2> DEFINE r == Browser!Sent("page", Nobody, access, FALSE)
  <2>1. WellPut(s, r) /\ r.at = "sent"
    BY Sending DEF Shape
  <2>2. /\ Browser!Put(t, s, r)
        /\ UNCHANGED <<account, access, refresh, late, split, user, loading, renewing>>
        /\ req[t][s].at = "idle"
    BY <1>3 DEF Browser!Ask
  <2> HIDE DEF r
  <2>. QED
    BY <2>1, <2>2, Slots, ShapeOfPut, Keeping
<1>4. ASSUME NEW t \in Tab, Browser!Logout(t) PROVE Shape'
  <2>1. Types'
    BY <1>4 DEF Browser!Logout, Browser!Clear, Shape, Types
  <2>. QED
    BY <1>4, <2>1 DEF Browser!Logout, Shape, Loading, Resumed
<1>5. ASSUME NEW t \in Tab, NEW s \in Browser!Slot, Browser!Serve(t, s) PROVE Shape'
  <2>1. WellPut(s, req[t][s]) /\ req[t][s].at = "sent" /\ req[t][s].call \in {"boot", "me", "page"}
        /\ UNCHANGED <<account, access, refresh, late, split, user, loading, renewing>>
    BY <1>5 DEF Browser!Serve, Shape, Types
  <2>2. PICK at \in {"ok", "unauthorized"}, who \in Account \cup {Nobody} :
          Browser!Decide(t, s, at, who)
    <3>1. Browser!Accepts(req[t][s].token) => req[t][s].token.user \in Account
      BY <2>1 DEF Browser!Accepts, WellPut, Exchange, Browser!Token
    <3>2. CASE Browser!Accepts(req[t][s].token)
      BY <1>5, <3>1, <3>2, Zenon DEF Browser!Serve
    <3>3. CASE ~Browser!Accepts(req[t][s].token)
      BY <1>5, <3>3, Zenon DEF Browser!Serve
    <3>. QED BY <3>2, <3>3
  <2> DEFINE d == Decided(req[t][s], at, who)
  <2>3. Browser!Put(t, s, d)
    BY <2>2 DEF Browser!Decide, Decided
  <2>4. WellPut(s, d) /\ d.at = at
    BY <2>1, Deciding
  <2> HIDE DEF d
  <2>. QED
    BY <2>1, <2>3, <2>4, ShapeOfPut, Keeping
<1>6. ASSUME NEW t \in Tab, NEW f \in Form, Browser!ServeRegister(t, f) \/ Browser!ServeLogin(t, f) PROVE Shape'
  <2>1. /\ WellPut(f, req[t][f]) /\ req[t][f].at = "sent"
        /\ UNCHANGED <<access, refresh, late, split, user, loading, renewing>>
        /\ req[t][f].call \in {"register", "token"}
    BY <1>6, Slots DEF Browser!ServeRegister, Browser!ServeLogin, Shape, Types
  <2>4. req[t][f].who \in Account
    BY <2>1 DEF WellPut
  <2>5. account' \in [Account -> {"none", "active", "inactive"}]
    BY <1>6, <2>4 DEF Browser!ServeRegister, Browser!ServeLogin, Shape, Types
  <2>2. PICK at \in {"ok", "unauthorized"} : Browser!Decide(t, f, at, req[t][f].who)
    <3>1. CASE Browser!ServeRegister(t, f)
      BY <3>1 DEF Browser!ServeRegister
    <3>2. CASE Browser!ServeLogin(t, f)
      BY <3>2 DEF Browser!ServeLogin
    <3>. QED BY <1>6, <3>1, <3>2
  <2> DEFINE d == Decided(req[t][f], at, req[t][f].who)
  <2>3. Browser!Put(t, f, d)
    BY <2>2 DEF Browser!Decide, Decided
  <2>6. WellPut(f, d) /\ d.at = at
    BY <2>1, <2>4, Deciding, Slots
  <2> HIDE DEF d
  <2>. QED
    BY <2>1, <2>3, <2>5, <2>6, Slots, ShapeOfPut, Keeping
<1>7. ASSUME NEW t \in Tab, Browser!ServeRefresh(t) PROVE Shape'
  <2>1. PICK verdict \in {"ok", "refused"} :
          renewing' = [renewing EXCEPT ![t] =
            [at |-> verdict, token |-> [renewing[t].token EXCEPT !.live = TRUE]]]
    BY <1>7 DEF Browser!ServeRefresh
  <2>2. /\ UNCHANGED <<account, access, refresh, late, split, user, loading, req>>
        /\ renewing[t].at = "sent" /\ renewing[t].token \in Browser!Token
    BY <1>7 DEF Browser!ServeRefresh, Shape, Types
  <2>3. [renewing[t].token EXCEPT !.live = TRUE] \in Browser!Token
    BY <2>2 DEF Browser!Token
  <2>4. Types'
    BY <2>1, <2>2, <2>3, Names DEF Shape, Types
  <2>5. \A v \in Tab : renewing'[v].at # "no" <=> renewing[v].at # "no"
    BY <2>1, <2>2 DEF Shape, Types
  <2>. QED
    BY <2>2, <2>4, <2>5 DEF Shape, Loading, Resumed
<1>8. ASSUME NEW u \in Account, Browser!Deactivate(u) PROVE Shape'
  BY <1>8 DEF Browser!Deactivate, Shape, Types, Loading, Resumed
<1>9. CASE Browser!AccessExpires
  <2>1. /\ UNCHANGED <<account, refresh, late, split, user, loading>>
        /\ access' = Browser!Dead(access)
        /\ req' = [t \in Tab |-> [s \in Browser!Slot |->
             [req[t][s] EXCEPT !.token = Browser!Dead(req[t][s].token)]]]
        /\ renewing' = [t \in Tab |-> IF renewing[t].at = "ok"
             THEN [renewing[t] EXCEPT !.token = Browser!Dead(renewing[t].token)] ELSE renewing[t]]
    BY <1>9 DEF Browser!AccessExpires
  <2>2. ASSUME NEW t \in Tab, NEW s \in Browser!Slot
        PROVE  WellPut(s, req'[t][s]) /\ req'[t][s].at = req[t][s].at
    <3>1. WellPut(s, req[t][s]) /\ Browser!Dead(req[t][s].token) \in Browser!Token \cup {NoToken}
      BY Dying DEF Shape, Types, WellPut, Exchange
    <3>2. req'[t][s] = [req[t][s] EXCEPT !.token = Browser!Dead(req[t][s].token)]
      BY <2>1
    <3>. QED BY <3>1, <3>2 DEF WellPut, Exchange
  <2>3. Types'
    <3>1. \A t \in Tab : /\ Browser!Dead(renewing[t].token) \in Browser!Token \cup {NoToken}
                         /\ Browser!Dead(renewing[t].token) = NoToken <=> renewing[t].token = NoToken
      BY Dying DEF Shape, Types
    <3>2. /\ renewing' \in [Tab -> [at : {"no", "sent", "ok", "refused"}, token : Browser!Token \cup {NoToken}]]
          /\ \A v \in Tab : renewing'[v].at # "no" => renewing'[v].token # NoToken
      BY <2>1, <3>1 DEF Shape, Types
    <3>3. req' \in [Tab -> [Browser!Slot -> Exchange]]
      BY <2>1, <2>2 DEF WellPut
    <3>4. access' \in Browser!Token \cup {NoToken}
      BY <2>1, Dying DEF Shape, Types
    <3>. QED BY <2>1, <2>2, <3>2, <3>3, <3>4 DEF Shape, Types
  <2>4. \A v \in Tab : renewing'[v].at = renewing[v].at
    BY <2>1 DEF Shape, Types
  <2>5. Loading'
    BY <2>1, <2>2, Slots DEF Shape, Loading
  <2>6. Resumed'
    BY <2>2, <2>4 DEF Shape, Resumed
  <2>. QED
    BY <2>3, <2>5, <2>6 DEF Shape
<1>10. CASE Browser!RefreshExpires
  <2>1. /\ UNCHANGED <<account, access, late, split, user, loading, req>>
        /\ refresh' = Browser!Dead(refresh)
        /\ renewing' = [t \in Tab |-> IF renewing[t].at = "sent"
             THEN [renewing[t] EXCEPT !.token = Browser!Dead(renewing[t].token)] ELSE renewing[t]]
    BY <1>10 DEF Browser!RefreshExpires
  <2>2. Types'
    <3>1. \A t \in Tab : /\ Browser!Dead(renewing[t].token) \in Browser!Token \cup {NoToken}
                         /\ Browser!Dead(renewing[t].token) = NoToken <=> renewing[t].token = NoToken
      BY Dying DEF Shape, Types
    <3>2. /\ renewing' \in [Tab -> [at : {"no", "sent", "ok", "refused"}, token : Browser!Token \cup {NoToken}]]
          /\ \A v \in Tab : renewing'[v].at # "no" => renewing'[v].token # NoToken
      BY <2>1, <3>1 DEF Shape, Types
    <3>3. refresh' \in Browser!Token \cup {NoToken}
      BY <2>1, Dying DEF Shape, Types
    <3>. QED BY <2>1, <3>2, <3>3 DEF Shape, Types
  <2>3. \A v \in Tab : renewing'[v].at = renewing[v].at
    BY <2>1 DEF Shape, Types
  <2>. QED
    BY <2>1, <2>2, <2>3 DEF Shape, Loading, Resumed
<1>11. ASSUME NEW t \in Tab, NEW s \in Browser!Slot, Browser!Fulfil(t, s) PROVE Shape'
  <2> DEFINE r == req[t][s]
  <2>1. WellPut(s, r) /\ r.at = "ok" /\ UNCHANGED <<account, renewing>>
    BY <1>11 DEF Browser!Fulfil, Shape, Types
  <2>2. CASE /\ r.call \in {"boot", "me"}
             /\ user' = [user EXCEPT ![t] = r.who]
             /\ loading' = [loading EXCEPT ![t] = loading[t] /\ s # "boot"]
             /\ Browser!Put(t, s, Browser!Idle)
             /\ UNCHANGED <<access, refresh, late, split>>
    <3>1. \A v \in Tab : loading'[v] <=> IF v = t /\ s = "boot" THEN FALSE ELSE loading[v]
      BY <2>2, Zenon DEF Shape, Types
    <3>2. user' \in [Tab -> Account \cup {Nobody}] /\ loading' \in [Tab -> BOOLEAN]
      BY <2>1, <2>2 DEF Shape, Types, WellPut, Exchange
    <3>. QED
      BY <2>1, <2>2, <3>1, <3>2, Slots, ShapeOfPut, Keeping
  <2>3. CASE /\ r.call = "page"
             /\ Browser!Put(t, s, Browser!Idle)
             /\ UNCHANGED <<access, refresh, late, split, user, loading>>
    <3>1. s # "boot"
      BY <2>1, <2>3, Slots DEF WellPut
    <3>. QED
      BY <2>1, <2>3, <3>1, Slots, ShapeOfPut, Keeping
  <2>4. CASE /\ r.call = "register"
             /\ Browser!Put(t, s, Browser!Sent("token", r.who, NoToken, FALSE))
             /\ UNCHANGED <<access, refresh, late, split, user, loading>>
    <3> DEFINE d == Browser!Sent("token", r.who, NoToken, FALSE)
    <3>1. s \in Form /\ r.who \in Account
      BY <2>1, <2>4 DEF WellPut
    <3>2. WellPut(s, d) /\ d.at = "sent"
      BY <3>1, Sending DEF Shape
    <3>3. Browser!Put(t, s, d) /\ UNCHANGED <<access, refresh, late, split, user, loading>>
      BY <2>4
    <3> HIDE DEF d
    <3>. QED
      BY <2>1, <3>1, <3>2, <3>3, Slots, ShapeOfPut, Keeping
  <2>5. CASE /\ r.call = "token"
             /\ Browser!StoreTokens(r.who)
             /\ Browser!Put(t, s, Browser!Sent("me", Nobody, access', FALSE))
             /\ UNCHANGED <<user, loading>>
    <3>1. s \in Form /\ r.who \in Account
      BY <2>1, <2>5 DEF WellPut
    <3>2. /\ access' \in Browser!Token /\ refresh' \in Browser!Token
          /\ late' \in BOOLEAN /\ split' \in [Tab -> BOOLEAN]
      BY <2>5, <3>1 DEF Browser!StoreTokens, Browser!Token
    <3> DEFINE d == Browser!Sent("me", Nobody, access', FALSE)
    <3>3. WellPut(s, d) /\ d.at = "sent"
      BY <3>1, <3>2 DEF WellPut, Exchange, Browser!Sent, Browser!Call
    <3>4. Browser!Put(t, s, d) /\ UNCHANGED <<user, loading>>
      BY <2>5
    <3> HIDE DEF d
    <3>. QED
      BY <2>1, <3>1, <3>2, <3>3, <3>4, Slots, ShapeOfPut, Keeping
  <2>. QED BY <1>11, <2>2, <2>3, <2>4, <2>5 DEF Browser!Fulfil, Browser!Attached
<1>12. ASSUME NEW t \in Tab, NEW s \in Browser!Slot, Browser!PassOn(t, s), UNCHANGED <<account, renewing>>,
              req[t][s].at # "waiting"
       PROVE  Shape'
  <2>1. CASE s = "boot"
    <3>1. \A v \in Tab : loading'[v] <=> IF v = t /\ s = "boot" THEN FALSE ELSE loading[v]
      BY <1>12, <2>1, Zenon DEF Browser!PassOn, Shape, Types
    <3>2. /\ user' \in [Tab -> Account \cup {Nobody}] /\ loading' \in [Tab -> BOOLEAN]
          /\ access' = NoToken /\ refresh' = NoToken /\ late' \in BOOLEAN /\ UNCHANGED split
          /\ Browser!Put(t, s, Browser!Idle)
      BY <1>12, <2>1 DEF Browser!PassOn, Browser!Clear, Shape, Types
    <3>. QED
      BY <1>12, <2>1, <3>1, <3>2, Slots, ShapeOfPut, Keeping
  <2>2. CASE s # "boot"
    BY <1>12, <2>2, Slots, ShapeOfPut, Keeping DEF Browser!PassOn
  <2>. QED BY <2>1, <2>2
<1>13. ASSUME NEW t \in Tab, NEW s \in Browser!Slot, Browser!Renew(t, s) PROVE Shape'
  <2>1. CASE Browser!SignOut(t)
    BY <1>13, <2>1, ShapeOfSignOut DEF Browser!Renew
  <2>2. CASE ~Browser!SignOut(t)
    <3> DEFINE r == [req[t][s] EXCEPT !.at = "waiting", !.retried = TRUE]
    <3>1. /\ WellPut(s, req[t][s]) /\ req[t][s].at = "unauthorized"
          /\ Browser!Put(t, s, r)
          /\ UNCHANGED <<account, access, refresh, late, split, user, loading>>
          /\ renewing[t].at # "no" \/ refresh # NoToken
          /\ renewing' = IF renewing[t].at # "no" THEN renewing
                         ELSE [renewing EXCEPT ![t] = [at |-> "sent", token |-> refresh]]
      BY <1>13, <2>2 DEF Browser!Renew, Browser!Renewing, Shape, Types
    <3>2. WellPut(s, r) /\ r.at = "waiting"
      BY <3>1 DEF WellPut, Exchange
    <3> HIDE DEF r
    <3>3. /\ \A v \in Tab, x \in Browser!Slot : req'[v][x] = IF v = t /\ x = s THEN r ELSE req[v][x]
          /\ req' \in [Tab -> [Browser!Slot -> Exchange]]
          /\ \A v \in Tab, x \in Browser!Slot : WellPut(x, req'[v][x])
      BY <3>1, <3>2, Putting DEF Shape
    <3>4. /\ renewing' \in [Tab -> [at : {"no", "sent", "ok", "refused"}, token : Browser!Token \cup {NoToken}]]
          /\ \A v \in Tab : renewing'[v].at # "no" => renewing'[v].token # NoToken
          /\ \A v \in Tab : renewing'[v].at # "no" <=> v = t \/ renewing[v].at # "no"
      BY <3>1 DEF Shape, Types
    <3>5. Types'
      BY <3>1, <3>3, <3>4 DEF Shape, Types
    <3>6. Loading'
      BY <3>1, <3>2, <3>3, Slots DEF Shape, Loading
    <3>7. Resumed'
      BY <3>2, <3>3, <3>4 DEF Shape, Resumed
    <3>. QED BY <3>5, <3>6, <3>7 DEF Shape
  <2>. QED BY <2>1, <2>2
<1>14. ASSUME NEW t \in Tab, Browser!Renewed(t) PROVE Shape'
  <2>1. /\ UNCHANGED <<account, refresh, late, split, user, loading>>
        /\ access' = renewing[t].token /\ access' \in Browser!Token
        /\ renewing' = [renewing EXCEPT ![t] = Browser!NotRenewing]
        /\ req' = [req EXCEPT ![t] = [s \in Browser!Slot |->
             IF req[t][s].at = "waiting"
             THEN [req[t][s] EXCEPT !.at = "sent", !.token = access'] ELSE req[t][s]]]
    BY <1>14 DEF Browser!Renewed, Browser!Waiting, Browser!Attached, Shape, Types
  <2>2. ASSUME NEW v \in Tab, NEW s \in Browser!Slot
        PROVE  /\ WellPut(s, req'[v][s])
               /\ req'[v][s].at = IF v = t /\ req[v][s].at = "waiting" THEN "sent" ELSE req[v][s].at
    <3>1. req'[v][s] = IF v = t /\ req[v][s].at = "waiting"
                       THEN [req[v][s] EXCEPT !.at = "sent", !.token = access'] ELSE req[v][s]
      BY <2>1 DEF Shape, Types
    <3>2. WellPut(s, req[v][s])
      BY DEF Shape, Types
    <3>3. CASE v = t /\ req[v][s].at = "waiting"
      <4> DEFINE r == [req[v][s] EXCEPT !.at = "sent", !.token = access']
      <4>1. access' \in Browser!Token /\ req'[v][s] = r
        BY <2>1, <3>1, <3>3
      <4>2. WellPut(s, r) /\ r.at = "sent"
        BY <3>2, <4>1 DEF WellPut, Exchange
      <4>. QED BY <3>3, <4>1, <4>2
    <3>4. CASE ~(v = t /\ req[v][s].at = "waiting")
      BY <3>1, <3>2, <3>4
    <3>. QED BY <3>3, <3>4
  <2>3. \A v \in Tab : renewing'[v].at = IF v = t THEN "no" ELSE renewing[v].at
    BY <2>1 DEF Shape, Types, Browser!NotRenewing
  <2>4. Types'
    <3>1. req' \in [Tab -> [Browser!Slot -> Exchange]]
      BY <2>1, <2>2 DEF Shape, Types, WellPut
    <3>. QED BY <2>1, <2>2, <3>1 DEF Shape, Types, Browser!NotRenewing
  <2>5. Loading'
    <3>1. \A v \in Tab : req'[v]["boot"].at = "idle" <=> req[v]["boot"].at = "idle"
      BY <2>2, Slots
    <3>. QED BY <2>1, <3>1 DEF Shape, Loading
  <2>6. Resumed'
    BY <2>2, <2>3 DEF Shape, Resumed
  <2>. QED BY <2>4, <2>5, <2>6 DEF Shape
<1>15. ASSUME NEW t \in Tab, Browser!RefreshRefused(t) \/ Browser!RefreshFails(t) PROVE Shape'
  BY <1>15, ShapeOfSignOut DEF Browser!RefreshRefused, Browser!RefreshFails
<1>16. ASSUME NEW t \in Tab, NEW s \in Browser!Slot, Browser!Refuse(t, s) \/ Browser!Fails(t, s) PROVE Shape'
  BY <1>12, <1>16 DEF Browser!Refuse, Browser!Fails
<1>17. CASE UNCHANGED Browser!vars
  BY <1>17 DEF Browser!vars, Shape, Types, Loading, Resumed
<1>. QED
  BY <1>1, <1>2, <1>3, <1>4, <1>5, <1>6, <1>7, <1>8, <1>9, <1>10, <1>11, <1>13, <1>14, <1>15, <1>16, <1>17
     DEF Browser!Next, Browser!Api, Browser!Answers

-----------------------------------------------------------------------------
(* A refresh is of the refresh token that is stored. *)
RenewsOwn ==
  ~late => \A t \in Tab : renewing[t].at # "no" =>
    refresh # NoToken /\ renewing[t].token.user = refresh.user

(* A question after the user that is asked, or answered, for u. *)
AsksFor(r, u) ==
  r.call \in {"boot", "me"} =>
    /\ r.token # NoToken => r.token.user = u
    /\ r.at = "ok" => r.who = u

(* What a tab shows, and what it asks, is of the user of the tokens. *)
Asking ==
  ~late /\ access # NoToken => \A t \in Tab : ~split[t] =>
    /\ user[t] # Nobody => user[t] = access.user
    /\ \A s \in Browser!Slot : AsksFor(req[t][s], access.user)

OneUser == Browser!TokensBelongTogether /\ RenewsOwn /\ Asking

(* Without tokens there is nobody to differ from. *)
LEMMA OneUserOfClear == Browser!Clear => OneUser'
BY DEF Browser!Clear, OneUser, Browser!TokensBelongTogether, RenewsOwn, Asking

(* A step that puts one request, which asks for the user of the tokens. *)
LEMMA OneUserOfPut ==
  ASSUME Shape, OneUser, NEW t \in Tab, NEW s \in Browser!Slot, NEW r, Browser!Put(t, s, r),
         UNCHANGED <<access, refresh, late, split, renewing>>,
         \A v \in Tab : v # t => user'[v] = user[v],
         ~late /\ access # NoToken /\ ~split[t] =>
           /\ user'[t] # Nobody => user'[t] = access.user
           /\ AsksFor(r, access.user)
  PROVE  OneUser'
<1>1. \A v \in Tab, x \in Browser!Slot : req'[v][x] = IF v = t /\ x = s THEN r ELSE req[v][x]
  BY Putting DEF Shape
<1>2. Browser!TokensBelongTogether' /\ RenewsOwn'
  BY DEF OneUser, Browser!TokensBelongTogether, RenewsOwn
<1>3. Asking'
  BY <1>1 DEF OneUser, Asking
<1>. QED BY <1>2, <1>3 DEF OneUser

(* A step that leaves the requests alone. *)
LEMMA OneUserOfFrame ==
  OneUser /\ UNCHANGED <<access, refresh, late, split, renewing, user, req>> => OneUser'
BY DEF OneUser, Browser!TokensBelongTogether, RenewsOwn, Asking

(* Only a login or a late refresh changes whose the tokens are. *)
LEMMA OneUserInductive == Shape /\ OneUser /\ [Browser!Next]_(Browser!vars) => OneUser'
<1> SUFFICES ASSUME Shape, OneUser, [Browser!Next]_(Browser!vars) PROVE OneUser'
  OBVIOUS
<1> USE DEF Browser!tokens, Browser!screen
<1>1. ASSUME NEW t \in Tab, Browser!Open(t) PROVE OneUser'
  <2>1. /\ UNCHANGED <<access, refresh, late>>
        /\ \A v \in Tab : user'[v] = IF v = t THEN Nobody ELSE user[v]
        /\ \A v \in Tab : renewing'[v] = IF v = t THEN Browser!NotRenewing ELSE renewing[v]
        /\ \A v \in Tab : v # t => split'[v] = split[v]
        /\ \A v \in Tab, s \in Browser!Slot : req'[v][s] =
             IF v # t THEN req[v][s]
             ELSE IF s = "boot" /\ access # NoToken
                  THEN Browser!Sent("boot", Nobody, access, FALSE) ELSE Browser!Idle
    BY <1>1 DEF Browser!Open, Browser!Load, Shape, Types
  <2>2. Browser!TokensBelongTogether' /\ RenewsOwn'
    BY <2>1 DEF OneUser, Browser!TokensBelongTogether, RenewsOwn, Browser!NotRenewing
  <2>3. \A s \in Browser!Slot : access # NoToken => AsksFor(req'[t][s], access.user)
    BY <2>1 DEF AsksFor, Browser!Sent, Browser!Idle
  <2>4. Asking'
    BY <2>1, <2>3 DEF OneUser, Asking
  <2>. QED BY <2>2, <2>4 DEF OneUser
<1>2. ASSUME NEW t \in Tab, NEW f \in Form, NEW u \in Account, NEW call \in {"token", "register"},
              Browser!Submit(t, f, u, call)
      PROVE  OneUser'
  <2> DEFINE r == Browser!Sent(call, u, IF call = "token" THEN NoToken ELSE access, FALSE)
  <2>1. \A w : AsksFor(r, w)
    BY DEF AsksFor, Browser!Sent
  <2>2. Browser!Put(t, f, r) /\ UNCHANGED <<access, refresh, late, split, renewing, user>>
    BY <1>2 DEF Browser!Submit
  <2> HIDE DEF r
  <2>. QED BY <2>1, <2>2, Slots, OneUserOfPut DEF OneUser, Asking
<1>3. ASSUME NEW t \in Tab, NEW s \in Panel, Browser!Ask(t, s) PROVE OneUser'
  <2> DEFINE r == Browser!Sent("page", Nobody, access, FALSE)
  <2>1. \A w : AsksFor(r, w)
    BY DEF AsksFor, Browser!Sent
  <2>2. Browser!Put(t, s, r) /\ UNCHANGED <<access, refresh, late, split, renewing, user>>
    BY <1>3 DEF Browser!Ask
  <2> HIDE DEF r
  <2>. QED BY <2>1, <2>2, Slots, OneUserOfPut DEF OneUser, Asking
<1>4. ASSUME NEW t \in Tab, Browser!Logout(t) PROVE OneUser'
  BY <1>4, OneUserOfClear DEF Browser!Logout
<1>5. ASSUME NEW t \in Tab, NEW s \in Browser!Slot, Browser!Serve(t, s) PROVE OneUser'
  <2> DEFINE who == IF ~Browser!Accepts(req[t][s].token) \/ req[t][s].call = "page"
                    THEN Nobody ELSE req[t][s].token.user
             at == IF Browser!Accepts(req[t][s].token) THEN "ok" ELSE "unauthorized"
             d == Decided(req[t][s], at, who)
  <2>1. Browser!Put(t, s, d) /\ UNCHANGED <<access, refresh, late, split, renewing, user>>
    <3>1. CASE Browser!Accepts(req[t][s].token)
      BY <1>5, <3>1 DEF Browser!Serve, Browser!Decide, Decided
    <3>2. CASE ~Browser!Accepts(req[t][s].token)
      BY <1>5, <3>2 DEF Browser!Serve, Browser!Decide, Decided
    <3>. QED BY <3>1, <3>2
  <2>2. WellPut(s, req[t][s]) /\ (req[t][s].token # NoToken => req[t][s].token \in Browser!Token)
        /\ req[t][s].call \in {"boot", "me", "page"}
    BY <1>5 DEF Browser!Serve, Shape, Types, WellPut, Exchange
  <2>3. /\ d.at = at /\ d.who = who /\ d.token = NoToken /\ d.call = req[t][s].call
    BY <2>2 DEF Decided, WellPut, Exchange
  <2> HIDE DEF d
  <2>4. \A w : AsksFor(req[t][s], w) => AsksFor(d, w)
    BY <2>3 DEF AsksFor, Browser!Accepts
  <2>. QED BY <2>1, <2>4, OneUserOfPut DEF OneUser, Asking
<1>6. ASSUME NEW t \in Tab, NEW f \in Form, Browser!ServeRegister(t, f) \/ Browser!ServeLogin(t, f) PROVE OneUser'
  <2>1. /\ WellPut(f, req[t][f]) /\ req[t][f].call \in {"register", "token"}
        /\ UNCHANGED <<access, refresh, late, split, user, renewing>>
    BY <1>6, Slots DEF Browser!ServeRegister, Browser!ServeLogin, Shape, Types
  <2>2. PICK at \in {"ok", "unauthorized"} : Browser!Decide(t, f, at, req[t][f].who)
    <3>1. CASE Browser!ServeRegister(t, f)
      BY <3>1 DEF Browser!ServeRegister
    <3>2. CASE Browser!ServeLogin(t, f)
      BY <3>2 DEF Browser!ServeLogin
    <3>. QED BY <1>6, <3>1, <3>2
  <2> DEFINE d == Decided(req[t][f], at, req[t][f].who)
  <2>3. Browser!Put(t, f, d)
    BY <2>2 DEF Browser!Decide, Decided
  <2>4. \A w : AsksFor(d, w)
    BY <2>1 DEF Decided, WellPut, Exchange, AsksFor
  <2> HIDE DEF d
  <2>. QED BY <2>1, <2>3, <2>4, Slots, OneUserOfPut DEF OneUser, Asking
<1>7. ASSUME NEW t \in Tab, Browser!ServeRefresh(t) PROVE OneUser'
  <2>1. /\ UNCHANGED <<access, refresh, late, split, user, req>>
        /\ renewing[t].at # "no" /\ renewing[t].token \in Browser!Token
        /\ \E verdict \in {"ok", "refused"} : renewing' = [renewing EXCEPT ![t] =
             [at |-> verdict, token |-> [renewing[t].token EXCEPT !.live = TRUE]]]
    BY <1>7 DEF Browser!ServeRefresh, Shape, Types
  <2>2. \A v \in Tab : renewing'[v].at # "no" =>
          renewing[v].at # "no" /\ renewing'[v].token.user = renewing[v].token.user
    BY <2>1 DEF Shape, Types, Browser!Token
  <2>. QED
    BY <2>1, <2>2 DEF OneUser, Browser!TokensBelongTogether, RenewsOwn, Asking
<1>8. ASSUME NEW u \in Account, Browser!Deactivate(u) PROVE OneUser'
  BY <1>8, OneUserOfFrame DEF Browser!Deactivate
<1>9. CASE Browser!AccessExpires
  <2>1. /\ UNCHANGED <<refresh, late, split, user>>
        /\ access' = NoToken <=> access = NoToken
        /\ access # NoToken => access'.user = access.user
    BY <1>9, Dying DEF Browser!AccessExpires, Shape, Types
  <2>2. ASSUME NEW t \in Tab, NEW s \in Browser!Slot, NEW w, AsksFor(req[t][s], w)
        PROVE  AsksFor(req'[t][s], w)
    <3>1. /\ req'[t][s] = [req[t][s] EXCEPT !.token = Browser!Dead(req[t][s].token)]
          /\ req[t][s] \in Exchange
      BY <1>9 DEF Browser!AccessExpires, Shape, Types, WellPut
    <3>2. req[t][s].token \in Browser!Token \cup {NoToken}
      BY <3>1 DEF Exchange
    <3>. QED BY <2>2, <3>1, <3>2, Dying DEF AsksFor, Exchange
  <2>3. ASSUME NEW t \in Tab
        PROVE  /\ renewing'[t].at = renewing[t].at
               /\ renewing[t].at # "no" => renewing'[t].token.user = renewing[t].token.user
    <3>1. /\ renewing'[t] = IF renewing[t].at = "ok"
             THEN [renewing[t] EXCEPT !.token = Browser!Dead(renewing[t].token)] ELSE renewing[t]
          /\ renewing[t] \in [at : {"no", "sent", "ok", "refused"}, token : Browser!Token \cup {NoToken}]
          /\ renewing[t].at # "no" => renewing[t].token # NoToken
      BY <1>9 DEF Browser!AccessExpires, Shape, Types
    <3>. QED BY <3>1, Dying
  <2>4. Browser!TokensBelongTogether' /\ RenewsOwn'
    BY <2>1, <2>3 DEF OneUser, Browser!TokensBelongTogether, RenewsOwn
  <2>5. Asking'
    BY <2>1, <2>2 DEF OneUser, Asking
  <2>. QED BY <2>4, <2>5 DEF OneUser
<1>10. CASE Browser!RefreshExpires
  <2>1. /\ UNCHANGED <<access, late, split, user, req>>
        /\ refresh' = NoToken <=> refresh = NoToken
        /\ refresh # NoToken => refresh'.user = refresh.user
    BY <1>10, Dying DEF Browser!RefreshExpires, Shape, Types
  <2>2. ASSUME NEW t \in Tab
        PROVE  /\ renewing'[t].at = renewing[t].at
               /\ renewing[t].at # "no" => renewing'[t].token.user = renewing[t].token.user
    <3>1. /\ renewing'[t] = IF renewing[t].at = "sent"
             THEN [renewing[t] EXCEPT !.token = Browser!Dead(renewing[t].token)] ELSE renewing[t]
          /\ renewing[t] \in [at : {"no", "sent", "ok", "refused"}, token : Browser!Token \cup {NoToken}]
          /\ renewing[t].at # "no" => renewing[t].token # NoToken
      BY <1>10 DEF Browser!RefreshExpires, Shape, Types
    <3>. QED BY <3>1, Dying
  <2>3. Browser!TokensBelongTogether' /\ RenewsOwn'
    BY <2>1, <2>2 DEF OneUser, Browser!TokensBelongTogether, RenewsOwn
  <2>4. Asking'
    BY <2>1 DEF OneUser, Asking
  <2>. QED BY <2>3, <2>4 DEF OneUser
<1>11. ASSUME NEW t \in Tab, NEW s \in Browser!Slot, Browser!Fulfil(t, s) PROVE OneUser'
  <2> DEFINE r == req[t][s]
  <2>1. WellPut(s, r) /\ r.at = "ok" /\ UNCHANGED renewing
    BY <1>11 DEF Browser!Fulfil, Shape, Types
  <2>2. \A w : AsksFor(Browser!Idle, w)
    BY DEF AsksFor, Browser!Idle
  <2>3. CASE /\ r.call \in {"boot", "me"}
             /\ user' = [user EXCEPT ![t] = r.who]
             /\ Browser!Put(t, s, Browser!Idle)
             /\ UNCHANGED <<access, refresh, late, split>>
    <3>1. ~late /\ access # NoToken /\ ~split[t] => r.who = access.user
      BY <2>1, <2>3 DEF OneUser, Asking, AsksFor
    <3>2. user'[t] = r.who /\ \A v \in Tab : v # t => user'[v] = user[v]
      BY <2>3 DEF Shape, Types
    <3>. QED BY <2>1, <2>2, <2>3, <3>1, <3>2, OneUserOfPut
  <2>4. CASE /\ Browser!Put(t, s, Browser!Idle)
             /\ UNCHANGED <<access, refresh, late, split, user>>
    BY <2>1, <2>2, <2>4, OneUserOfPut DEF OneUser, Asking
  <2>5. CASE /\ Browser!Put(t, s, Browser!Sent("token", r.who, NoToken, FALSE))
             /\ UNCHANGED <<access, refresh, late, split, user>>
    <3> DEFINE d == Browser!Sent("token", r.who, NoToken, FALSE)
    <3>1. \A w : AsksFor(d, w)
      BY DEF AsksFor, Browser!Sent
    <3>2. Browser!Put(t, s, d)
      BY <2>5
    <3> HIDE DEF d
    <3>. QED BY <2>1, <2>5, <3>1, <3>2, OneUserOfPut DEF OneUser, Asking
  <2>6. CASE /\ r.call = "token"
             /\ Browser!StoreTokens(r.who)
             /\ Browser!Put(t, s, Browser!Sent("me", Nobody, access', FALSE))
             /\ UNCHANGED user
    <3>1. s \in Form /\ r.who \in Account
      BY <2>1, <2>6 DEF WellPut
    <3>2. /\ access' = [user |-> r.who, live |-> TRUE] /\ refresh' = [user |-> r.who, live |-> TRUE]
          /\ access' # NoToken /\ refresh' # NoToken
          /\ ~late' => \A v \in Tab : renewing[v].at = "no"
          /\ \A v \in Tab : ~split'[v] =>
               \A x \in Browser!Slot : ~Browser!Knows(v, x)
      <4>1. /\ access' = [user |-> r.who, live |-> TRUE]
            /\ refresh' = [user |-> r.who, live |-> TRUE]
            /\ late' = \E v \in Tab : Browser!Renewing(v)
            /\ split' = [v \in Tab |-> split[v] \/
                 \E x \in Browser!Slot : Browser!Knows(v, x)]
        BY <2>6 DEF Browser!StoreTokens
      <4>2. access' # NoToken /\ refresh' # NoToken
        <5>1. [user |-> r.who, live |-> TRUE] \in Browser!Token
          BY <3>1 DEF Browser!Token
        <5>. QED BY <4>1, <5>1, Names
      <4>3. ~late' => \A v \in Tab : renewing[v].at = "no"
        BY <4>1 DEF Browser!Renewing
      <4>4. ASSUME NEW v \in Tab, ~split'[v]
            PROVE  \A x \in Browser!Slot : ~Browser!Knows(v, x)
        BY <4>1, <4>4, Zenon
      <4>. QED BY <4>1, <4>2, <4>3, <4>4
    <3> DEFINE d == Browser!Sent("me", Nobody, access', FALSE)
    <3>3. AsksFor(d, r.who) /\ Browser!Put(t, s, d)
      BY <2>6, <3>2 DEF AsksFor, Browser!Sent
    <3> HIDE DEF d
    <3>4. \A v \in Tab, x \in Browser!Slot : req'[v][x] = IF v = t /\ x = s THEN d ELSE req[v][x]
      BY <3>3, Putting DEF Shape
    <3>5. Browser!TokensBelongTogether' /\ RenewsOwn'
      BY <2>1, <3>2 DEF Browser!TokensBelongTogether, RenewsOwn
    <3>6. ASSUME NEW v \in Tab, ~split'[v], NEW x \in Browser!Slot
          PROVE  user[v] = Nobody /\ AsksFor(req'[v][x], r.who)
      <4>1. user[v] = Nobody /\ req[v][x].call \notin {"boot", "me"}
        BY <3>2, <3>6, Slots DEF Browser!Knows
      <4>. QED BY <3>3, <3>4, <4>1 DEF AsksFor
    <3>7. Asking'
      BY <2>6, <3>2, <3>6, Slots DEF Asking
    <3>. QED BY <3>5, <3>7 DEF OneUser
  <2>. QED BY <1>11, <2>3, <2>4, <2>5, <2>6 DEF Browser!Fulfil, Browser!Attached
<1>12. ASSUME NEW t \in Tab, NEW s \in Browser!Slot, Browser!PassOn(t, s), UNCHANGED renewing
       PROVE  OneUser'
  <2>1. CASE s = "boot"
    BY <1>12, <2>1, OneUserOfClear DEF Browser!PassOn
  <2>2. CASE s # "boot"
    <3>1. \A w : AsksFor(Browser!Idle, w)
      BY DEF AsksFor, Browser!Idle
    <3>. QED BY <1>12, <2>2, <3>1, OneUserOfPut DEF Browser!PassOn, OneUser, Asking
  <2>. QED BY <2>1, <2>2
<1>13. ASSUME NEW t \in Tab, NEW s \in Browser!Slot, Browser!Renew(t, s) PROVE OneUser'
  <2>1. CASE Browser!SignOut(t)
    BY <2>1, OneUserOfClear DEF Browser!SignOut
  <2>2. CASE ~Browser!SignOut(t)
    <3> DEFINE r == [req[t][s] EXCEPT !.at = "waiting", !.retried = TRUE]
    <3>1. /\ Browser!Put(t, s, r)
          /\ UNCHANGED <<access, refresh, late, split, user>>
          /\ renewing[t].at # "no" \/ refresh # NoToken
          /\ renewing' = IF renewing[t].at # "no" THEN renewing
                         ELSE [renewing EXCEPT ![t] = [at |-> "sent", token |-> refresh]]
      BY <1>13, <2>2 DEF Browser!Renew, Browser!Renewing
    <3>2. \A w : AsksFor(req[t][s], w) => AsksFor(r, w)
      BY DEF AsksFor, Shape, Types, Exchange
    <3> HIDE DEF r
    <3>3. \A v \in Tab, x \in Browser!Slot : req'[v][x] = IF v = t /\ x = s THEN r ELSE req[v][x]
      BY <3>1, Putting DEF Shape
    <3>4. Browser!TokensBelongTogether' /\ RenewsOwn'
      BY <3>1 DEF Shape, Types, OneUser, Browser!TokensBelongTogether, RenewsOwn
    <3>5. Asking'
      BY <3>1, <3>2, <3>3 DEF OneUser, Asking
    <3>. QED BY <3>4, <3>5 DEF OneUser
  <2>. QED BY <2>1, <2>2
<1>14. ASSUME NEW t \in Tab, Browser!Renewed(t) PROVE OneUser'
  <2>1. /\ UNCHANGED <<refresh, late, split, user>>
        /\ access' = renewing[t].token /\ access' \in Browser!Token /\ renewing[t].at # "no"
        /\ access' # NoToken
        /\ renewing' = [renewing EXCEPT ![t] = Browser!NotRenewing]
    BY <1>14 DEF Browser!Renewed, Shape, Types
  <2>2. ~late => /\ refresh # NoToken /\ access # NoToken
                 /\ access'.user = access.user /\ access.user = refresh.user
    BY <2>1 DEF OneUser, RenewsOwn, Browser!TokensBelongTogether
  <2>3. ASSUME NEW v \in Tab, NEW s \in Browser!Slot, AsksFor(req[v][s], access'.user)
        PROVE  AsksFor(req'[v][s], access'.user)
    <3>1. req'[v][s] = IF v = t /\ req[v][s].at = "waiting"
                       THEN [req[v][s] EXCEPT !.at = "sent", !.token = access'] ELSE req[v][s]
      BY <1>14 DEF Browser!Renewed, Browser!Waiting, Browser!Attached, Shape, Types
    <3>2. CASE v = t /\ req[v][s].at = "waiting"
      <4>1. req'[v][s].at = "sent" /\ req'[v][s].token = access'
        BY <3>1, <3>2 DEF Shape, Types, Exchange
      <4>. QED BY <4>1 DEF AsksFor
    <3>3. CASE ~(v = t /\ req[v][s].at = "waiting")
      BY <2>3, <3>1, <3>3
    <3>. QED BY <3>2, <3>3
  <2>4. Browser!TokensBelongTogether'
    BY <2>1, <2>2 DEF Browser!TokensBelongTogether
  <2>5. RenewsOwn'
    BY <2>1 DEF OneUser, RenewsOwn, Shape, Types, Browser!NotRenewing
  <2>6. Asking'
    BY <2>1, <2>2, <2>3 DEF OneUser, Asking
  <2>. QED BY <2>4, <2>5, <2>6 DEF OneUser
<1>15. ASSUME NEW t \in Tab, Browser!RefreshRefused(t) \/ Browser!RefreshFails(t) PROVE OneUser'
  BY <1>15, OneUserOfClear DEF Browser!RefreshRefused, Browser!RefreshFails, Browser!SignOut
<1>16. ASSUME NEW t \in Tab, NEW s \in Browser!Slot, Browser!Refuse(t, s) \/ Browser!Fails(t, s) PROVE OneUser'
  BY <1>12, <1>16 DEF Browser!Refuse, Browser!Fails
<1>17. CASE UNCHANGED Browser!vars
  BY <1>17, OneUserOfFrame DEF Browser!vars
<1>. QED
  BY <1>1, <1>2, <1>3, <1>4, <1>5, <1>6, <1>7, <1>8, <1>9, <1>10, <1>11, <1>13, <1>14, <1>15, <1>16, <1>17
     DEF Browser!Next, Browser!Api, Browser!Answers

-----------------------------------------------------------------------------
(* A login that succeeded is of somebody who is registered. *)
Registered(r) == r.call = "token" /\ r.at = "ok" => account[r.who] # "none"

Good(token) == token.live /\ account[token.user] = "active"

(* Whoever holds a token is registered, and a refresh that was refused was  *)
(* of a refresh token that is no longer good.                              *)
Refusals ==
  /\ refresh # NoToken => account[refresh.user] # "none"
  /\ \A t \in Tab, s \in Browser!Slot : Registered(req[t][s])
  /\ ~late => \A t \in Tab :
       /\ renewing[t].at = "sent" => renewing[t].token = refresh
       /\ renewing[t].at = "refused" => ~Good(refresh)

(* A step that puts one request. *)
LEMMA RefusalsOfPut ==
  ASSUME Shape, Refusals, NEW t \in Tab, NEW s \in Browser!Slot, NEW r, Browser!Put(t, s, r),
         UNCHANGED <<account, refresh, late, renewing>>, Registered(r)
  PROVE  Refusals'
<1>1. \A v \in Tab, x \in Browser!Slot : req'[v][x] = IF v = t /\ x = s THEN r ELSE req[v][x]
  BY Putting DEF Shape
<1>. QED BY <1>1 DEF Refusals, Registered, Good

(* A step that clears the storage. *)
LEMMA RefusalsOfClear ==
  ASSUME Shape, Refusals, Browser!Clear, UNCHANGED account,
         \A t \in Tab, s \in Browser!Slot : req'[t][s] \in {req[t][s], Browser!Idle}
  PROVE  Refusals'
<1>1. refresh' = NoToken /\ (~late' => \A t \in Tab : renewing'[t].at = "no")
  BY DEF Browser!Clear
<1>2. \A t \in Tab, s \in Browser!Slot : Registered(req[t][s])'
  BY Slots DEF Refusals, Registered
<1>. QED BY <1>1, <1>2 DEF Refusals

(* A sign-out is a clear. *)
LEMMA RefusalsOfSignOut ==
  ASSUME Shape, Refusals, NEW t \in Tab, Browser!SignOut(t), UNCHANGED account
  PROVE  Refusals'
<1>1. \A v \in Tab, s \in Browser!Slot : req'[v][s] \in {req[v][s], Browser!Idle}
  BY DEF Browser!SignOut, Shape, Types
<1>. QED BY <1>1, RefusalsOfClear DEF Browser!SignOut

(* No refresh is refused while its token is good. *)
LEMMA RefusalsInductive == Shape /\ OneUser /\ Refusals /\ [Browser!Next]_(Browser!vars) => Refusals'
<1> SUFFICES ASSUME Shape, OneUser, Refusals, [Browser!Next]_(Browser!vars) PROVE Refusals'
  OBVIOUS
<1> USE DEF Browser!tokens, Browser!screen
<1>0. Registered(Browser!Idle)
  BY Slots DEF Registered
<1>1. ASSUME NEW t \in Tab, Browser!Open(t) PROVE Refusals'
  <2>1. /\ UNCHANGED <<account, refresh, late>>
        /\ \A v \in Tab : renewing'[v] = IF v = t THEN Browser!NotRenewing ELSE renewing[v]
        /\ \A v \in Tab, s \in Browser!Slot : req'[v][s] =
             IF v # t THEN req[v][s]
             ELSE IF s = "boot" /\ access # NoToken
                  THEN Browser!Sent("boot", Nobody, access, FALSE) ELSE Browser!Idle
    BY <1>1 DEF Browser!Open, Browser!Load, Shape, Types
  <2>2. \A v \in Tab, s \in Browser!Slot : Registered(req[v][s])'
    BY <2>1, <1>0 DEF Refusals, Registered, Browser!Sent
  <2>. QED BY <2>1, <2>2 DEF Refusals, Good, Browser!NotRenewing
<1>2. ASSUME NEW t \in Tab, NEW f \in Form, NEW u \in Account, NEW call \in {"token", "register"},
              Browser!Submit(t, f, u, call)
      PROVE  Refusals'
  <2> DEFINE r == Browser!Sent(call, u, IF call = "token" THEN NoToken ELSE access, FALSE)
  <2>1. Registered(r)
    BY DEF Registered, Browser!Sent
  <2>2. Browser!Put(t, f, r) /\ UNCHANGED <<account, refresh, late, renewing>>
    BY <1>2 DEF Browser!Submit
  <2> HIDE DEF r
  <2>. QED BY <2>1, <2>2, Slots, RefusalsOfPut
<1>3. ASSUME NEW t \in Tab, NEW s \in Panel, Browser!Ask(t, s) PROVE Refusals'
  <2> DEFINE r == Browser!Sent("page", Nobody, access, FALSE)
  <2>1. Registered(r)
    BY DEF Registered, Browser!Sent
  <2>2. Browser!Put(t, s, r) /\ UNCHANGED <<account, refresh, late, renewing>>
    BY <1>3 DEF Browser!Ask
  <2> HIDE DEF r
  <2>. QED BY <2>1, <2>2, Slots, RefusalsOfPut
<1>4. ASSUME NEW t \in Tab, Browser!Logout(t) PROVE Refusals'
  BY <1>4, RefusalsOfClear DEF Browser!Logout
<1>5. ASSUME NEW t \in Tab, NEW s \in Browser!Slot, Browser!Serve(t, s) PROVE Refusals'
  <2>1. PICK at, who : Browser!Decide(t, s, at, who)
    <3>1. CASE Browser!Accepts(req[t][s].token)
      BY <1>5, <3>1 DEF Browser!Serve
    <3>2. CASE ~Browser!Accepts(req[t][s].token)
      BY <1>5, <3>2 DEF Browser!Serve
    <3>. QED BY <3>1, <3>2
  <2> DEFINE d == Decided(req[t][s], at, who)
  <2>2. Browser!Put(t, s, d) /\ UNCHANGED <<account, refresh, late, renewing>>
    BY <1>5, <2>1 DEF Browser!Serve, Browser!Decide, Decided
  <2>3. Registered(d)
    BY <1>5 DEF Browser!Serve, Shape, Types, Exchange, Decided, Registered
  <2> HIDE DEF d
  <2>. QED BY <2>2, <2>3, RefusalsOfPut
<1>6. ASSUME NEW t \in Tab, NEW f \in Form, Browser!ServeRegister(t, f) PROVE Refusals'
  <2> DEFINE r == req[t][f]
  <2>1. /\ r.call = "register" /\ r.who \in Account /\ r \in Exchange
        /\ UNCHANGED <<refresh, late, renewing>>
    BY <1>6, Slots DEF Browser!ServeRegister, Shape, Types, WellPut
  <2>2. PICK at : Browser!Decide(t, f, at, r.who)
    BY <1>6 DEF Browser!ServeRegister
  <2> DEFINE d == Decided(r, at, r.who)
  <2>3. Browser!Put(t, f, d) /\ d.call = "register"
    BY <2>1, <2>2 DEF Browser!Decide, Decided, Exchange
  <2> HIDE DEF d
  <2>4. \A v \in Tab, x \in Browser!Slot : req'[v][x] = IF v = t /\ x = f THEN d ELSE req[v][x]
    BY <2>3, Slots, Putting DEF Shape
  <2>5. \A u \in Account : account[u] # "none" => account'[u] = account[u]
    BY <1>6 DEF Browser!ServeRegister, Shape, Types
  <2>6. \A v \in Tab, x \in Browser!Slot : Registered(req[v][x])'
    BY <2>3, <2>4, <2>5 DEF Refusals, Registered, Shape, Types, WellPut
  <2>7. refresh # NoToken => account'[refresh.user] = account[refresh.user]
    BY <2>5 DEF Refusals, Shape, Types, Browser!Token
  <2>8. ~late => \A v \in Tab : renewing[v].at # "no" => refresh # NoToken
    BY DEF OneUser, RenewsOwn
  <2>. QED BY <2>1, <2>6, <2>7, <2>8 DEF Refusals, Good
<1>7. ASSUME NEW t \in Tab, NEW f \in Form, Browser!ServeLogin(t, f) PROVE Refusals'
  <2> DEFINE r == req[t][f]
             at == IF account[r.who] = "active" THEN "ok" ELSE "unauthorized"
             d == Decided(r, at, r.who)
  <2>1. Browser!Put(t, f, d) /\ r \in Exchange /\ UNCHANGED <<account, refresh, late, renewing>>
    BY <1>7, Slots DEF Browser!ServeLogin, Browser!Decide, Decided, Shape, Types
  <2>2. Registered(d)
    BY <2>1 DEF Exchange, Decided, Registered
  <2> HIDE DEF d
  <2>. QED BY <2>1, <2>2, Slots, RefusalsOfPut
<1>8. ASSUME NEW t \in Tab, Browser!ServeRefresh(t) PROVE Refusals'
  <2>1. PICK verdict \in {"ok", "refused"} :
          /\ renewing' = [renewing EXCEPT ![t] =
               [at |-> verdict, token |-> [renewing[t].token EXCEPT !.live = TRUE]]]
          /\ verdict = "refused" => ~Browser!Accepts(renewing[t].token)
    BY <1>8 DEF Browser!ServeRefresh
  <2>2. /\ UNCHANGED <<account, refresh, late, req>>
        /\ renewing[t].at = "sent"
    BY <1>8 DEF Browser!ServeRefresh
  <2>3. ~late => renewing[t].token = refresh /\ refresh # NoToken
    BY <2>2 DEF Refusals, OneUser, RenewsOwn
  <2>4. \A v \in Tab : IF v = t THEN renewing'[v].at = verdict ELSE renewing'[v] = renewing[v]
    BY <2>1 DEF Shape, Types
  <2>. QED BY <2>1, <2>2, <2>3, <2>4 DEF Refusals, Registered, Good, Browser!Accepts
<1>9. ASSUME NEW u \in Account, Browser!Deactivate(u) PROVE Refusals'
  <2>1. /\ UNCHANGED <<refresh, late, renewing, req>>
        /\ \A w \in Account : account'[w] = IF w = u THEN "inactive" ELSE account[w]
    BY <1>9 DEF Browser!Deactivate, Shape, Types
  <2>2. \A t \in Tab, s \in Browser!Slot : Registered(req[t][s])'
    BY <2>1 DEF Refusals, Registered, Shape, Types, WellPut
  <2>3. refresh # NoToken => refresh.user \in Account
    BY DEF Shape, Types, Browser!Token
  <2>4. ~late => \A v \in Tab : renewing[v].at # "no" => refresh # NoToken
    BY DEF OneUser, RenewsOwn
  <2>. QED BY <2>1, <2>2, <2>3, <2>4 DEF Refusals, Good
<1>10. CASE Browser!AccessExpires
  <2>1. /\ UNCHANGED <<account, refresh, late>>
        /\ \A t \in Tab, s \in Browser!Slot :
             req'[t][s] = [req[t][s] EXCEPT !.token = Browser!Dead(req[t][s].token)]
        /\ \A t \in Tab : renewing'[t] = IF renewing[t].at = "ok"
             THEN [renewing[t] EXCEPT !.token = Browser!Dead(renewing[t].token)] ELSE renewing[t]
    BY <1>10 DEF Browser!AccessExpires
  <2>2. ASSUME NEW t \in Tab, NEW s \in Browser!Slot PROVE Registered(req[t][s])'
    <3>1. req[t][s] \in Exchange /\ Registered(req[t][s])
      BY DEF Shape, Types, Refusals
    <3>2. /\ req'[t][s].call = req[t][s].call /\ req'[t][s].at = req[t][s].at
          /\ req'[t][s].who = req[t][s].who
      BY <2>1, <3>1 DEF Exchange
    <3>. QED BY <2>1, <3>1, <3>2 DEF Registered
  <2>3. \A t \in Tab : IF renewing[t].at = "ok" THEN renewing'[t].at = "ok"
                       ELSE renewing'[t] = renewing[t]
    BY <2>1 DEF Shape, Types
  <2>. QED BY <2>1, <2>2, <2>3 DEF Refusals, Good
<1>11. CASE Browser!RefreshExpires
  <2>1. /\ UNCHANGED <<account, late, req>>
        /\ refresh' = Browser!Dead(refresh)
        /\ \A t \in Tab : renewing'[t] = IF renewing[t].at = "sent"
             THEN [renewing[t] EXCEPT !.token = Browser!Dead(renewing[t].token)] ELSE renewing[t]
    BY <1>11 DEF Browser!RefreshExpires
  <2>2. \A t \in Tab, s \in Browser!Slot : Registered(req[t][s])'
    BY <2>1 DEF Refusals, Registered
  <2>3. refresh' # NoToken => account[refresh'.user] # "none"
    BY <2>1, Dying DEF Refusals, Shape, Types
  <2>4. \A t \in Tab : /\ renewing'[t].at = renewing[t].at
                       /\ renewing[t].at = "sent" => renewing'[t].token = Browser!Dead(renewing[t].token)
    BY <2>1 DEF Shape, Types
  <2>5. ~late => \A v \in Tab : renewing[v].at # "no" => refresh # NoToken
    BY DEF OneUser, RenewsOwn
  <2>6. refresh # NoToken => ~refresh'.live
    BY <2>1 DEF Browser!Dead, Shape, Types, Browser!Token
  <2>. QED BY <2>1, <2>2, <2>3, <2>4, <2>5, <2>6 DEF Refusals, Good
<1>12. ASSUME NEW t \in Tab, NEW s \in Browser!Slot, Browser!Fulfil(t, s) PROVE Refusals'
  <2> DEFINE r == req[t][s]
  <2>1. WellPut(s, r) /\ r.at = "ok" /\ UNCHANGED <<account, renewing>>
    BY <1>12 DEF Browser!Fulfil, Shape, Types
  <2>2. CASE Browser!Put(t, s, Browser!Idle) /\ UNCHANGED <<refresh, late>>
    BY <2>1, <2>2, <1>0, RefusalsOfPut
  <2>3. CASE /\ Browser!Put(t, s, Browser!Sent("token", r.who, NoToken, FALSE))
             /\ UNCHANGED <<refresh, late>>
    <3> DEFINE d == Browser!Sent("token", r.who, NoToken, FALSE)
    <3>1. Registered(d) /\ Browser!Put(t, s, d)
      BY <2>3 DEF Registered, Browser!Sent
    <3> HIDE DEF d
    <3>. QED BY <2>1, <2>3, <3>1, RefusalsOfPut
  <2>4. CASE /\ r.call = "token"
             /\ Browser!StoreTokens(r.who)
             /\ Browser!Put(t, s, Browser!Sent("me", Nobody, access', FALSE))
    <3>1. account[r.who] # "none"
      BY <2>1, <2>4 DEF Refusals, Registered
    <3>2. refresh' = [user |-> r.who, live |-> TRUE] /\ (~late' => \A v \in Tab : renewing[v].at = "no")
      BY <2>4 DEF Browser!StoreTokens, Browser!Renewing
    <3> DEFINE d == Browser!Sent("me", Nobody, access', FALSE)
    <3>3. Registered(d) /\ Browser!Put(t, s, d)
      BY <2>4 DEF Registered, Browser!Sent
    <3> HIDE DEF d
    <3>4. \A v \in Tab, x \in Browser!Slot : req'[v][x] = IF v = t /\ x = s THEN d ELSE req[v][x]
      BY <3>3, Putting DEF Shape
    <3>5. \A v \in Tab, x \in Browser!Slot : Registered(req[v][x])'
      BY <2>1, <3>3, <3>4 DEF Refusals, Registered
    <3>. QED BY <2>1, <3>1, <3>2, <3>5 DEF Refusals
  <2>. QED BY <1>12, <2>2, <2>3, <2>4 DEF Browser!Fulfil, Browser!Attached
<1>13. ASSUME NEW t \in Tab, NEW s \in Browser!Slot, Browser!PassOn(t, s), UNCHANGED <<account, renewing>>
       PROVE  Refusals'
  <2>1. CASE s = "boot"
    <3>1. \A v \in Tab, x \in Browser!Slot : req'[v][x] \in {req[v][x], Browser!Idle}
      BY <1>13, Putting DEF Browser!PassOn, Shape
    <3>. QED BY <1>13, <2>1, <3>1, RefusalsOfClear DEF Browser!PassOn
  <2>2. CASE s # "boot"
    BY <1>0, <1>13, <2>2, RefusalsOfPut DEF Browser!PassOn
  <2>. QED BY <2>1, <2>2
<1>14. ASSUME NEW t \in Tab, NEW s \in Browser!Slot, Browser!Renew(t, s) PROVE Refusals'
  <2>1. CASE Browser!SignOut(t)
    BY <1>14, <2>1, RefusalsOfSignOut DEF Browser!Renew
  <2>2. CASE ~Browser!SignOut(t)
    <3> DEFINE r == [req[t][s] EXCEPT !.at = "waiting", !.retried = TRUE]
    <3>1. /\ Browser!Put(t, s, r)
          /\ UNCHANGED <<account, refresh, late>>
          /\ renewing' = IF renewing[t].at # "no" THEN renewing
                         ELSE [renewing EXCEPT ![t] = [at |-> "sent", token |-> refresh]]
      BY <1>14, <2>2 DEF Browser!Renew, Browser!Renewing
    <3>2. Registered(r)
      BY DEF Registered, Shape, Types, Exchange
    <3> HIDE DEF r
    <3>3. \A v \in Tab, x \in Browser!Slot : req'[v][x] = IF v = t /\ x = s THEN r ELSE req[v][x]
      BY <3>1, Putting DEF Shape
    <3>4. \A v \in Tab : renewing'[v] \in {renewing[v], [at |-> "sent", token |-> refresh]}
      BY <3>1 DEF Shape, Types
    <3>. QED BY <3>1, <3>2, <3>3, <3>4 DEF Refusals, Registered, Good
  <2>. QED BY <2>1, <2>2
<1>15. ASSUME NEW t \in Tab, Browser!Renewed(t) PROVE Refusals'
  <2>1. /\ UNCHANGED <<account, refresh, late>>
        /\ \A v \in Tab : renewing'[v] = IF v = t THEN Browser!NotRenewing ELSE renewing[v]
    BY <1>15 DEF Browser!Renewed, Shape, Types
  <2>2. ASSUME NEW v \in Tab, NEW s \in Browser!Slot PROVE Registered(req[v][s])'
    <3>1. req'[v][s] = IF v = t /\ req[v][s].at = "waiting"
                       THEN [req[v][s] EXCEPT !.at = "sent", !.token = access'] ELSE req[v][s]
      BY <1>15 DEF Browser!Renewed, Browser!Waiting, Browser!Attached, Shape, Types
    <3>2. req[v][s] \in Exchange /\ Registered(req[v][s])
      BY DEF Shape, Types, Refusals
    <3>3. CASE v = t /\ req[v][s].at = "waiting"
      BY <3>1, <3>2, <3>3 DEF Exchange, Registered
    <3>4. CASE ~(v = t /\ req[v][s].at = "waiting")
      BY <2>1, <3>1, <3>2, <3>4 DEF Registered
    <3>. QED BY <3>3, <3>4
  <2>. QED BY <2>1, <2>2 DEF Refusals, Good, Browser!NotRenewing
<1>16. ASSUME NEW t \in Tab, Browser!RefreshRefused(t) \/ Browser!RefreshFails(t) PROVE Refusals'
  BY <1>16, RefusalsOfSignOut DEF Browser!RefreshRefused, Browser!RefreshFails
<1>17. ASSUME NEW t \in Tab, NEW s \in Browser!Slot, Browser!Refuse(t, s) \/ Browser!Fails(t, s) PROVE Refusals'
  BY <1>13, <1>17 DEF Browser!Refuse, Browser!Fails
<1>18. CASE UNCHANGED Browser!vars
  BY <1>18 DEF Browser!vars, Refusals, Registered, Good
<1>. QED
  BY <1>1, <1>2, <1>3, <1>4, <1>5, <1>6, <1>7, <1>8, <1>9, <1>10, <1>11, <1>12, <1>14, <1>15, <1>16, <1>17, <1>18
     DEF Browser!Next, Browser!Api, Browser!Answers

(* What is true of the browser at any time. *)
LEMMA BrowserInvariant == Browser!Spec => [](Shape /\ OneUser /\ Refusals)
<1>1. Browser!Init => Shape /\ OneUser /\ Refusals
  <2> SUFFICES ASSUME Browser!Init PROVE Shape /\ OneUser /\ Refusals
    OBVIOUS
  <2>1. Types
    BY Slots DEF Browser!Init, Types, Browser!NotRenewing, WellPut
  <2>2. Loading /\ Resumed
    BY Slots DEF Browser!Init, Loading, Resumed, Browser!NotRenewing
  <2>3. OneUser
    BY DEF Browser!Init, OneUser, Browser!TokensBelongTogether, RenewsOwn, Asking, Browser!NotRenewing
  <2>4. Refusals
    BY Slots DEF Browser!Init, Refusals, Registered, Browser!NotRenewing
  <2>. QED BY <2>1, <2>2, <2>3, <2>4 DEF Shape
<1>2. Shape /\ OneUser /\ Refusals /\ [Browser!Next]_(Browser!vars) => (Shape /\ OneUser /\ Refusals)'
  BY ShapeInductive, OneUserInductive, RefusalsInductive
<1>. QED BY <1>1, <1>2, PTL DEF Browser!Spec

(* Every tab shows the user as whom it asks, and the two tokens are of him: *)
(* for any number of tabs, users and calls, logins, logouts, page loads,    *)
(* expiries, deactivations and refreshes (api.ts, AuthContext.tsx).         *)
THEOREM SessionsAreOfOneUser == Browser!Spec => []SessionIsOfOneUser
<1>1. OneUser => SessionIsOfOneUser
  <2> SUFFICES ASSUME OneUser PROVE SessionIsOfOneUser
    OBVIOUS
  <2>1. Session!TokensBelongTogether
    BY DEF OneUser, Browser!TokensBelongTogether, Session!TokensBelongTogether
  <2>2. Session!ShownUserIsAsking
    BY DEF OneUser, Asking, Session!ShownUserIsAsking
  <2>. QED BY <2>1, <2>2 DEF SessionIsOfOneUser, Session!SessionIsOfOneUser
<1>. QED BY <1>1, BrowserInvariant, PTL

(* While the refresh token is good, tokens are taken away by a logout, by a *)
(* refresh or a page load that fails, or by a page load that is refused     *)
(* again, never because an access token has expired (the interceptor).      *)
THEOREM LiveSessionsAreKept == Browser!Spec => LiveSessionIsKept
<1> DEFINE Lost ==
      refresh # NoToken /\ refresh.live /\ refresh' = NoToken
      /\ account[refresh.user] = "active" /\ ~late
<1> DEFINE Allowed ==
      \E t \in Tab : \/ Session!Logout(t)
                     \/ Session!RefreshFails(t)
                     \/ Session!Fails(t, "boot")
                     \/ Session!Refuse(t, "boot")
<1>1. ASSUME Shape, OneUser, Refusals, [Browser!Next]_(Browser!vars), Lost
      PROVE  Allowed
  <2>0. "boot" \in Browser!Slot /\ refresh # NoToken /\ refresh' = NoToken
    BY <1>1, Slots
  <2>1. ASSUME NEW t \in Tab, Browser!Logout(t) PROVE Allowed
    BY <2>1 DEF Browser!Logout, Session!Logout, Browser!Clear, Session!Clear
  <2>2. ASSUME NEW t \in Tab, Browser!SignOut(t), Browser!RefreshFails(t) PROVE Allowed
    BY <2>2 DEF Browser!RefreshFails, Session!RefreshFails, Browser!SignOut, Session!SignOut,
       Browser!Clear, Session!Clear, Browser!NotRenewing, Session!NotRenewing,
       Browser!Slot, Session!Slot, Browser!Idle, Session!Idle
  <2>3. ASSUME NEW t \in Tab, NEW s \in Browser!Slot, Browser!PassOn(t, s) PROVE s = "boot"
    BY <2>0, <2>3 DEF Browser!PassOn, Browser!tokens
  <2>4. ASSUME NEW t \in Tab, NEW s \in Browser!Slot, Browser!Fails(t, s) PROVE Allowed
    <3>1. s = "boot"
      BY <2>3, <2>4 DEF Browser!Fails
    <3>2. Session!Fails(t, "boot")
      BY <2>4, <3>1 DEF Browser!Fails, Session!Fails, Browser!PassOn, Session!PassOn,
         Browser!Clear, Session!Clear, Browser!Put, Session!Put, Browser!Idle, Session!Idle
    <3>. QED BY <3>2
  <2>5. ASSUME NEW t \in Tab, NEW s \in Browser!Slot, Browser!Refuse(t, s) PROVE Allowed
    <3>1. s = "boot"
      BY <2>3, <2>5 DEF Browser!Refuse
    <3>2. Session!Refuse(t, "boot")
      BY <2>5, <3>1 DEF Browser!Refuse, Session!Refuse, Browser!PassOn, Session!PassOn,
         Browser!Final, Session!Final,
         Browser!Clear, Session!Clear, Browser!Put, Session!Put, Browser!Idle, Session!Idle
    <3>. QED BY <3>2
  <2>6. ASSUME NEW t \in Tab, Browser!RefreshRefused(t) PROVE FALSE
    BY <1>1, <2>6 DEF Browser!RefreshRefused, Refusals, Good
  <2>7. ASSUME NEW t \in Tab, NEW s \in Browser!Slot, Browser!Renew(t, s) PROVE FALSE
    BY <2>0, <2>7 DEF Browser!Renew, Browser!tokens
  <2>8. ASSUME NEW t \in Tab, NEW s \in Browser!Slot, Browser!Fulfil(t, s) PROVE FALSE
    <3>1. CASE UNCHANGED refresh
      BY <2>0, <3>1
    <3>2. CASE req[t][s].call = "token" /\ Browser!StoreTokens(req[t][s].who)
      <4>1. req[t][s].who \in Account
        BY <1>1, <3>2 DEF Shape, Types, WellPut
      <4>2. refresh' \in Browser!Token
        BY <3>2, <4>1 DEF Browser!StoreTokens, Browser!Token
      <4>. QED BY <2>0, <4>2, Names
    <3>. QED BY <2>8, <3>1, <3>2 DEF Browser!Fulfil, Browser!tokens
  <2>9. CASE Browser!RefreshExpires
    <3>1. Browser!Dead(refresh) # NoToken
      BY <1>1, <2>0, Dying DEF Shape, Types
    <3>. QED BY <2>0, <2>9, <3>1 DEF Browser!RefreshExpires
  <2>10. ASSUME UNCHANGED refresh PROVE FALSE
    BY <2>0, <2>10
  <2>11. \A t \in Tab : /\ Browser!Open(t) => UNCHANGED refresh
                        /\ Browser!Renewed(t) => UNCHANGED refresh
                        /\ Browser!Api(t) => UNCHANGED refresh
    BY DEF Browser!Open, Browser!Load, Browser!Renewed, Browser!Api, Browser!Serve,
       Browser!ServeRegister, Browser!ServeLogin, Browser!ServeRefresh, Browser!tokens
  <2>12. \A t \in Tab : /\ \A f, u, call : Browser!Submit(t, f, u, call) => UNCHANGED refresh
                        /\ \A s : Browser!Ask(t, s) => UNCHANGED refresh
    BY DEF Browser!Submit, Browser!Ask, Browser!tokens
  <2>13. (\E u \in Account : Browser!Deactivate(u)) \/ Browser!AccessExpires \/ UNCHANGED Browser!vars
         => UNCHANGED refresh
    BY DEF Browser!Deactivate, Browser!AccessExpires, Browser!vars, Browser!tokens
  <2>14. \A t \in Tab : Browser!RefreshFails(t) => Browser!SignOut(t)
    BY DEF Browser!RefreshFails
  <2> HIDE DEF Allowed
  <2>. QED
    BY <1>1, <2>1, <2>2, <2>4, <2>5, <2>6, <2>7, <2>8, <2>9, <2>10, <2>11, <2>12, <2>13, <2>14
       DEF Browser!Next, Browser!Answers
<1>2. Shape /\ OneUser /\ Refusals /\ [Browser!Next]_(Browser!vars) => [Lost => Allowed]_(Session!vars)
  BY <1>1
<1>. QED BY <1>2, BrowserInvariant, PTL DEF Browser!Spec, LiveSessionIsKept, Session!LiveSessionIsKept

-----------------------------------------------------------------------------
(* The page of a pipeline. *)

(* What becomes of a sequence of calls. *)
Grown(s, t, e) ==
  /\ Len(t) = Len(s) + 1 /\ t[Len(t)] = e
  /\ \A i \in 1 .. Len(s) : t[i] = s[i]

Shrunk(s, t, i) ==
  /\ Len(t) = Len(s) - 1
  /\ \A j \in 1 .. Len(t) : t[j] = s[IF j < i THEN j ELSE j + 1]

Replaced(s, t, i, e) ==
  /\ Len(t) = Len(s)
  /\ \A j \in 1 .. Len(s) : t[j] = IF j = i THEN e ELSE s[j]

(* Append. *)
LEMMA Growing ==
  ASSUME NEW S, NEW s \in Seq(S), NEW e \in S
  PROVE  Append(s, e) \in Seq(S) /\ Grown(s, Append(s, e), e)
BY AppendProperties, LenProperties DEF Grown

(* RemoveAt. *)
LEMMA Shrinking ==
  ASSUME NEW S, NEW s \in Seq(S), NEW i \in DOMAIN s
  PROVE  Page!RemoveAt(s, i) \in Seq(S) /\ Shrunk(s, Page!RemoveAt(s, i), i)
<1> DEFINE l == SubSeq(s, 1, i - 1)  r == SubSeq(s, i + 1, Len(s))
<1>1. Len(s) \in Nat /\ i \in 1 .. Len(s) /\ \A j \in 1 .. Len(s) : s[j] \in S
  BY LenProperties, ElementOfSeq
<1>2. /\ l \in Seq(S) /\ Len(l) = i - 1
      /\ \A j \in 1 .. i - 1 : l[j] = s[j]
  <2>1. \A j \in 1 .. (i - 1) : s[j] \in S
    BY <1>1
  <2>2. /\ l \in Seq(S) /\ Len(l) = (IF 1 <= i - 1 THEN i - 1 - 1 + 1 ELSE 0)
        /\ \A j \in 1 .. i - 1 - 1 + 1 : l[j] = s[1 + j - 1]
    BY <1>1, <2>1, SubSeqProperties
  <2> HIDE DEF l
  <2>. QED BY <1>1, <2>2
<1>3. /\ r \in Seq(S) /\ Len(r) = Len(s) - i
      /\ \A j \in 1 .. Len(s) - i : r[j] = s[i + j]
  <2>1. \A j \in (i + 1) .. Len(s) : s[j] \in S
    BY <1>1
  <2>2. /\ r \in Seq(S) /\ Len(r) = (IF i + 1 <= Len(s) THEN Len(s) - (i + 1) + 1 ELSE 0)
        /\ \A j \in 1 .. Len(s) - (i + 1) + 1 : r[j] = s[i + 1 + j - 1]
    BY <1>1, <2>1, SubSeqProperties
  <2> HIDE DEF r
  <2>. QED BY <1>1, <2>2
<1>4. Page!RemoveAt(s, i) = l \o r
  BY DEF Page!RemoveAt
<1> HIDE DEF l, r
<1>5. /\ l \o r \in Seq(S) /\ Len(l \o r) = Len(l) + Len(r)
      /\ \A j \in 1 .. Len(l) + Len(r) : (l \o r)[j] = IF j <= Len(l) THEN l[j] ELSE r[j - Len(l)]
  BY <1>2, <1>3, ConcatProperties
<1> DEFINE c == l \o r
<1> HIDE DEF c
<1>6. Len(c) = Len(s) - 1
  BY <1>1, <1>2, <1>3, <1>5 DEF c
<1>7. ASSUME NEW j \in 1 .. Len(c) PROVE c[j] = s[IF j < i THEN j ELSE j + 1]
  <2>1. CASE j < i
    BY <1>1, <1>2, <1>3, <1>5, <1>6, <2>1 DEF c
  <2>2. CASE ~(j < i)
    <3>1. c[j] = r[j - (i - 1)] /\ j - (i - 1) \in 1 .. Len(s) - i
      BY <1>1, <1>2, <1>3, <1>5, <1>6, <2>2 DEF c
    <3>2. i + (j - (i - 1)) = j + 1
      BY <1>1
    <3>. QED BY <1>3, <2>2, <3>1, <3>2
  <2>. QED BY <2>1, <2>2
<1>. QED BY <1>4, <1>5, <1>6, <1>7 DEF Shrunk, c

(* What a call that is removed leaves: the others, in order. *)
LEMMA Remaining ==
  ASSUME NEW S, NEW s \in Seq(S), NEW i \in DOMAIN s, NEW t \in Seq(S), Shrunk(s, t, i)
  PROVE  /\ \A j \in DOMAIN t : \E k \in DOMAIN s : k # i /\ t[j] = s[k]
         /\ \A k \in DOMAIN s : k # i => \E j \in DOMAIN t : t[j] = s[k]
         /\ \A j1, j2 \in DOMAIN t : j1 < j2 =>
              \E k1, k2 \in DOMAIN s : k1 < k2 /\ k1 # i /\ k2 # i /\ t[j1] = s[k1] /\ t[j2] = s[k2]
         /\ i = 1 /\ Len(t) # 0 => t[Len(t)] = s[Len(s)]
         /\ i = 1 => (Len(t) = 0 <=> Len(s) = 1)
<1>1. /\ Len(s) \in Nat /\ DOMAIN s = 1 .. Len(s) /\ DOMAIN t = 1 .. Len(s) - 1
      /\ i \in 1 .. Len(s) /\ Len(t) = Len(s) - 1 /\ Len(t) \in Nat
  BY LenProperties DEF Shrunk
<1> DEFINE old(j) == IF j < i THEN j ELSE j + 1
<1>2. \A j \in DOMAIN t : old(j) \in DOMAIN s /\ old(j) # i /\ t[j] = s[old(j)]
  BY <1>1 DEF Shrunk
<1>3. \A j1, j2 \in DOMAIN t : j1 < j2 => old(j1) < old(j2)
  BY <1>1
<1>4. ASSUME NEW k \in DOMAIN s, k # i PROVE \E j \in DOMAIN t : t[j] = s[k]
  <2>1. CASE k < i
    <3>1. k \in DOMAIN t /\ old(k) = k
      BY <1>1, <2>1
    <3>. QED BY <1>2, <3>1
  <2>2. CASE k > i
    <3>1. k - 1 \in DOMAIN t /\ old(k - 1) = k
      BY <1>1, <2>2
    <3>. QED BY <1>2, <3>1
  <2>. QED BY <1>1, <1>4, <2>1, <2>2
<1>5. ASSUME i = 1, Len(t) # 0 PROVE Len(t) \in DOMAIN t /\ old(Len(t)) = Len(s)
  <2>1. Len(t) >= 1 /\ Len(t) + 1 = Len(s) /\ ~(Len(t) < i)
    BY <1>1, <1>5
  <2>. QED BY <1>1, <2>1
<1>6. i = 1 => (Len(t) = 0 <=> Len(s) = 1)
  BY <1>1
<1> HIDE DEF old
<1>. QED BY <1>2, <1>3, <1>4, <1>5, <1>6

(* One call that is served in its place. *)
LEMMA Replacing ==
  ASSUME NEW S, NEW s \in Seq(S), NEW i \in DOMAIN s, NEW e \in S
  PROVE  [s EXCEPT ![i] = e] \in Seq(S) /\ Replaced(s, [s EXCEPT ![i] = e], i, e)
<1>1. i \in 1 .. Len(s)
  BY LenProperties
<1>. QED BY <1>1, ExceptSeq DEF Replaced

(* A finite set is listed in some order. *)
LEMMA Listing ==
  ASSUME NEW T, NEW S \in SUBSET T, IsFiniteSet(S)
  PROVE  /\ Page!SetToSeq(S) \in Seq(T)
         /\ \A i \in DOMAIN Page!SetToSeq(S) : Page!SetToSeq(S)[i] \in S
<1> DEFINE n == Cardinality(S)
<1>1. n \in Nat /\ ExistsBijection(1 .. n, S)
  BY FS_CardinalityType
<1>2. \E f \in [1 .. n -> S] : Page!IsInjective(f)
  BY <1>1 DEF ExistsBijection, Bijection, Injection, IsInjective, Page!IsInjective
<1>3. Page!Cardinality(S) = n
  BY DEF Page!Cardinality, Cardinality
<1>4. Page!SetToSeq(S) \in [1 .. n -> S]
  BY <1>2, <1>3 DEF Page!SetToSeq
<1>. QED
  <2>1. Page!SetToSeq(S) \in Seq(S)
    BY <1>1, <1>4
  <2>. QED BY <1>1, <1>4, <2>1, SeqMonotonic

Switch == {"active", "paused"}
PageRow == [run : PageRun, status : Page!Contract!Shown]
GetCall == [of : Pipeline, reload : BOOLEAN, data : Switch \cup {Page!Unserved}]
ListCall == [of : Pipeline, served : BOOLEAN, data : Seq(PageRow)]
PollCall == [run : PageRun, own : BOOLEAN, data : Page!Contract!Shown \cup {Page!Unserved}]
Button ==
  [at : {"none", "sent", "opened", "served", "reloading"}, 
   call : {"none", "run", "pause", "resume", "clone"}, key : Pipeline \cup {NoPipeline},
   run : PageRun \cup {NoRun}, data : Page!Contract!Shown \cup Pipeline \cup {Page!Unserved}]

Server ==
  /\ status \in [PageRun -> {"absent"} \cup Page!Contract!Shown]
  /\ stage \in [PageRun -> {"absent", "due", "kept"}]
  /\ of \in [PageRun -> Pipeline \cup {NoPipeline}]
  /\ \A r \in PageRun : /\ stage[r] = "absent" <=> status[r] = "absent"
                        /\ of[r] = NoPipeline <=> status[r] = "absent"
  /\ Page!Known \subseteq Pipeline
  /\ switch \in [Page!Known -> Switch]

Front ==
  /\ route \in Pipeline \cup {NoPipeline}
  /\ shown \in [id : Pipeline \cup {NoPipeline}, switch : Switch]
  /\ rows \in Seq(PageRow)
  /\ gets \in Seq(GetCall) /\ lists \in Seq(ListCall) /\ polls \in Seq(PollCall)
  /\ act \in Button
  /\ polling \in PageRun \cup {NoRun} /\ timer \in BOOLEAN
  /\ started \subseteq PageRun /\ disturbed \subseteq PageRun /\ tangled \in BOOLEAN

Opened == {r \in PageRun : status[r] # "absent"}

(* What the page speaks of is there. *)
Refers ==
  /\ route \in Page!Known \cup {NoPipeline} /\ shown.id \in Page!Known \cup {NoPipeline}
  /\ \A i \in DOMAIN rows : rows[i].run \in Opened
  /\ \A i \in DOMAIN gets : gets[i].of \in Page!Known
  /\ \A i \in DOMAIN lists : \A k \in DOMAIN lists[i].data : lists[i].data[k].run \in Opened
  /\ \A i \in DOMAIN polls : polls[i].run \in Opened
  /\ polling \in Opened \cup {NoRun} /\ started \subseteq Opened

Acting ==
  /\ act.at \in {"sent", "opened", "served"} => act.key \in Page!Known
  /\ act.at = "opened" => act.call = "run"
  /\ act.at \in {"opened", "served"} /\ act.call = "run" =>
       act.run \in Opened /\ of[act.run] = act.key
  /\ act.at = "served" /\ act.call = "run" => act.data \in Page!Contract!Shown
  /\ act.at = "served" /\ act.call = "clone" => act.data \in Page!Known

(* actionBusy lasts as long as the one reload after an action. *)
Busy ==
  /\ \A i, j \in DOMAIN gets : gets[i].reload /\ gets[j].reload => i = j
  /\ act.at = "reloading" <=> \E i \in DOMAIN gets : gets[i].reload
  /\ route = NoPipeline => shown.id = NoPipeline /\ act.at = "none" /\ DOMAIN gets = {}

(* Pipelines and runs stay, and a run stays one of its pipeline. *)
Lasting ==
  /\ \A r \in Opened : r \in Opened' /\ of'[r] = of[r]
  /\ Page!Known \subseteq Page!Known'

(* A new run is open, and nothing else is. *)
LEMMA OpeningRun ==
  ASSUME Server, NEW r \in PageRun, NEW p \in Pipeline, Page!Open(r, p)
  PROVE  /\ status' \in [PageRun -> {"absent"} \cup Page!Contract!Shown]
         /\ stage' \in [PageRun -> {"absent", "due", "kept"}]
         /\ of' \in [PageRun -> Pipeline \cup {NoPipeline}]
         /\ \A q \in PageRun : /\ stage'[q] = "absent" <=> status'[q] = "absent"
                               /\ of'[q] = NoPipeline <=> status'[q] = "absent"
         /\ \A q \in Opened : q \in Opened' /\ of'[q] = of[q]
         /\ r \in Opened' /\ r \notin Opened /\ of'[r] = p
BY PageAssumption DEF Server, Page!Open, Page!Contract!Open, Page!Contract!Shown, Opened

(* The back end keeps its contract, whatever the page does. *)
LEMMA ServerSteps ==
  ASSUME Server, Front, Refers, Acting, [Page!Next]_(Page!vars)
  PROVE  Server' /\ Lasting
<1>1. ASSUME UNCHANGED Page!server PROVE Server' /\ Lasting
  BY <1>1 DEF Page!server, Page!runs, Server, Lasting, Opened, Page!Known
<1>2. ASSUME NEW r \in PageRun, Page!Proceed(r) PROVE Server' /\ Lasting
  <2>1. /\ UNCHANGED <<of, switch>> /\ stage[r] = "due"
        /\ \/ stage' = [stage EXCEPT ![r] = "kept"] /\ UNCHANGED status
           \/ UNCHANGED stage /\ \E s \in Reported : status' = [status EXCEPT ![r] = s]
    BY <1>2 DEF Page!Proceed, Page!Contract!Keep, Page!Contract!Show
  <2>. QED BY <2>1, PageAssumption DEF Server, Lasting, Opened, Page!Known, Page!Contract!Shown, Page!Contract!Ended
<1>3. ASSUME NEW r \in PageRun, Page!OpenElsewhere(r) PROVE Server' /\ Lasting
  <2>1. PICK p \in Page!Known : Page!Open(r, p)
    BY <1>3 DEF Page!OpenElsewhere
  <2>2. p \in Pipeline /\ UNCHANGED switch
    BY <1>3 DEF Server, Page!OpenElsewhere
  <2>. QED BY <2>1, <2>2, OpeningRun DEF Server, Lasting, Page!Known
<1>4. ASSUME NEW r \in PageRun, Page!ServeRun(r) PROVE Server' /\ Lasting
  <2>1. Page!Open(r, act.key) /\ act.key \in Pipeline /\ UNCHANGED switch
    BY <1>4 DEF Page!ServeRun, Acting, Server
  <2>. QED BY <2>1, OpeningRun DEF Server, Lasting, Page!Known
<1>5. ASSUME NEW p \in Pipeline, Page!ServeClone(p) PROVE Server' /\ Lasting
  BY <1>5 DEF Page!ServeClone, Page!runs, Server, Lasting, Opened, Page!Known, Switch
<1>6. ASSUME Page!ServeToggle PROVE Server' /\ Lasting
  BY <1>6 DEF Page!ServeToggle, Page!runs, Server, Lasting, Opened, Page!Known, Switch
<1>7. \A i : /\ Page!ServeGet(i) \/ Page!GetAnswered(i) \/ Page!GetLost(i) => UNCHANGED Page!server
             /\ Page!ServeList(i) \/ Page!ListAnswered(i) \/ Page!ListLost(i) => UNCHANGED Page!server
             /\ Page!ServePoll(i) \/ Page!PollAnswered(i) \/ Page!PollLost(i) => UNCHANGED Page!server
  BY DEF Page!ServeGet, Page!GetAnswered, Page!GetLost, Page!ServeList, Page!ListAnswered, Page!ListLost,
     Page!ServePoll, Page!PollAnswered, Page!PollLost
<1>8. /\ \A p : Page!GoTo(p) => UNCHANGED Page!server
      /\ \A call : Page!Click(call) => UNCHANGED Page!server
      /\ Page!ReadRun \/ Page!RunAnswered \/ Page!CloneAnswered \/ Page!ToggleAnswered \/ Page!ActionLost
         \/ Page!Tick \/ UNCHANGED Page!vars => UNCHANGED Page!server
  BY DEF Page!GoTo, Page!Click, Page!ReadRun, Page!RunAnswered, Page!CloneAnswered, Page!ToggleAnswered,
     Page!ActionLost, Page!Tick, Page!vars
<1>. QED BY <1>1, <1>2, <1>3, <1>4, <1>5, <1>6, <1>7, <1>8 DEF Page!Next

Linked == Front /\ Refers /\ Acting /\ Busy

(* Two calls at once, as after a clone: the old pipeline again and the new one. *)
LEMMA GrowingTwice ==
  ASSUME NEW S, NEW s \in Seq(S), NEW e \in S, NEW f \in S
  PROVE  /\ s \o <<e, f>> \in Seq(S) /\ Len(s \o <<e, f>>) = Len(s) + 2
         /\ \A i \in 1 .. Len(s) : (s \o <<e, f>>)[i] = s[i]
         /\ (s \o <<e, f>>)[Len(s) + 1] = e /\ (s \o <<e, f>>)[Len(s) + 2] = f
<1>1. <<e, f>> \in Seq(S) /\ Len(<<e, f>>) = 2
  OBVIOUS
<1>2. Len(s) \in Nat
  BY LenProperties
<1>. QED BY <1>1, <1>2, ConcatProperties

(* What new calls and the idle button look like. *)
LEMMA Calling ==
  /\ \A p \in Pipeline, reload \in BOOLEAN :
       /\ Page!Get(p, reload) \in GetCall
       /\ Page!Get(p, reload).of = p /\ Page!Get(p, reload).reload = reload
       /\ Page!Get(p, reload).data = Page!Unserved
  /\ \A p \in Pipeline : Page!List(p) \in ListCall /\ Page!List(p).data = <<>> /\ Page!List(p).of = p
  /\ \A r \in PageRun : /\ Page!Poll(r) \in PollCall /\ Page!Poll(r).run = r
                        /\ Page!Poll(r).data = Page!Unserved
  /\ Page!NoAct \in Button /\ Page!NoAct.at = "none"
  /\ \A at \in {"none", "reloading"} : LET b == [Page!NoAct EXCEPT !.at = at] IN b \in Button /\ b.at = at
  /\ DOMAIN <<>> = {}
BY DEF Page!Get, GetCall, Page!List, ListCall, Page!Poll, PollCall, Page!NoAct, Button

(* A step that leaves page and calls alone. *)
LEMMA LinkedStays ==
  ASSUME Server, Linked, Lasting, disturbed' \subseteq PageRun,
         UNCHANGED <<Page!view, polling, timer, polls, started, act, gets, lists, tangled>>
  PROVE  Linked'
<1>1. UNCHANGED <<route, shown, rows, polling, timer, polls, started, act, gets, lists, tangled>>
  BY DEF Page!view
<1>2. Front'
  BY <1>1 DEF Linked, Front
<1>3. Refers'
  BY <1>1 DEF Linked, Refers, Lasting
<1>4. Acting'
  BY <1>1 DEF Linked, Acting, Lasting
<1>5. Busy'
  BY <1>1 DEF Linked, Busy
<1>. QED BY <1>2, <1>3, <1>4, <1>5 DEF Linked

(* A step that only changes `act`, before and after which nothing reloads. *)
LEMMA LinkedOfAct ==
  ASSUME Server, Linked, Lasting, act' \in Button, tangled' \in BOOLEAN,
         UNCHANGED <<Page!view, polling, timer, polls, started, disturbed, gets, lists>>,
         act.at # "reloading", act'.at # "reloading", Acting',
         route # NoPipeline \/ act'.at = "none"
  PROVE  Linked'
<1>1. UNCHANGED <<route, shown, rows, polling, timer, polls, started, disturbed, gets, lists>>
  BY DEF Page!view
<1>2. Front'
  BY <1>1 DEF Linked, Front
<1>3. Refers'
  BY <1>1 DEF Linked, Refers, Lasting
<1>5. Busy'
  BY <1>1 DEF Linked, Busy
<1>. QED BY <1>2, <1>3, <1>5 DEF Linked

(* Steps of the button's call. *)
LEMMA ActSteps ==
  ASSUME Server, Linked, Server', Lasting
  PROVE  /\ \A r \in PageRun : Page!ServeRun(r) => Linked'
         /\ Page!ReadRun => Linked'
         /\ \A p \in Pipeline : Page!ServeClone(p) => Linked'
         /\ Page!ServeToggle => Linked'
         /\ \A call \in {"run", "pause", "resume", "clone"} : Page!Click(call) => Linked'
         /\ Page!ActionLost => Linked'
<1>0. act \in Button
  BY DEF Linked, Front
<1>1. ASSUME NEW r \in PageRun, Page!ServeRun(r) PROVE Linked'
  <2>1. act' = [act EXCEPT !.at = "opened", !.run = r] /\ act.at = "sent" /\ act.call = "run"
        /\ act.key \in Pipeline
    BY <1>1 DEF Page!ServeRun, Server, Linked, Acting
  <2>2. r \in Opened' /\ of'[r] = act.key
    BY <1>1, <2>1, OpeningRun DEF Page!ServeRun
  <2>3. /\ act' \in Button /\ act'.at = "opened" /\ act'.call = "run" /\ act'.run = r
        /\ act'.key = act.key /\ act'.data = act.data
    BY <1>0, <2>1 DEF Button
  <2>4. Acting'
    BY <2>1, <2>2, <2>3 DEF Linked, Acting, Lasting
  <2>. QED BY <1>1, <2>1, <2>3, <2>4, LinkedOfAct DEF Page!ServeRun, Page!poller, Linked, Front, Busy
<1>2. ASSUME Page!ReadRun PROVE Linked'
  <2>1. act' = [act EXCEPT !.at = "served", !.data = status[act.run]] /\ act.at = "opened"
        /\ UNCHANGED Page!server
    BY <1>2 DEF Page!ReadRun
  <2>2. act.run \in PageRun /\ status[act.run] \in Page!Contract!Shown /\ act.call = "run"
    BY <2>1 DEF Linked, Acting, Opened, Server
  <2>3. /\ act' \in Button /\ act'.at = "served" /\ act'.call = "run" /\ act'.run = act.run
        /\ act'.key = act.key /\ act'.data = status[act.run]
    BY <1>0, <2>1, <2>2 DEF Button
  <2>4. Acting'
    BY <2>1, <2>2, <2>3 DEF Linked, Acting, Lasting
  <2>. QED BY <1>2, <2>1, <2>3, <2>4, LinkedOfAct DEF Page!ReadRun, Page!poller, Linked, Front, Busy
<1>3. ASSUME NEW p \in Pipeline, Page!ServeClone(p) PROVE Linked'
  <2>1. act' = [act EXCEPT !.at = "served", !.data = p] /\ act.at = "sent" /\ act.call = "clone"
        /\ p \in Page!Known'
    BY <1>3 DEF Page!ServeClone, Page!Known
  <2>3. /\ act' \in Button /\ act'.at = "served" /\ act'.call = "clone" /\ act'.run = act.run
        /\ act'.key = act.key /\ act'.data = p
    BY <1>0, <2>1 DEF Button
  <2>4. Acting'
    BY <2>1, <2>3 DEF Linked, Acting, Lasting
  <2>. QED BY <1>3, <2>1, <2>3, <2>4, LinkedOfAct DEF Page!ServeClone, Page!poller, Linked, Front, Busy
<1>4. ASSUME Page!ServeToggle PROVE Linked'
  <2>1. act' = [act EXCEPT !.at = "served"] /\ act.at = "sent" /\ act.call \in {"pause", "resume"}
    BY <1>4 DEF Page!ServeToggle
  <2>3. /\ act' \in Button /\ act'.at = "served" /\ act'.call = act.call /\ act'.run = act.run
        /\ act'.key = act.key
    BY <1>0, <2>1 DEF Button
  <2>4. Acting'
    BY <2>1, <2>3 DEF Linked, Acting, Lasting
  <2>. QED BY <1>4, <2>1, <2>3, <2>4, LinkedOfAct DEF Page!ServeToggle, Page!poller, Linked, Front, Busy
<1>5. ASSUME NEW call \in {"run", "pause", "resume", "clone"}, Page!Click(call) PROVE Linked'
  <2>1. /\ act' = [Page!NoAct EXCEPT !.at = "sent", !.call = call, !.key = route]
        /\ act.at = "none" /\ shown.id # NoPipeline
    BY <1>5 DEF Page!Click
  <2>2. route \in Page!Known /\ route # NoPipeline
    BY <2>1 DEF Linked, Refers, Busy
  <2>3. /\ act' \in Button /\ act'.at = "sent" /\ act'.call = call /\ act'.key = route
    BY <2>1 DEF Button, Page!NoAct, Linked, Front
  <2>4. Acting'
    BY <2>1, <2>2, <2>3 DEF Linked, Acting, Lasting
  <2>. QED BY <1>5, <2>1, <2>2, <2>3, <2>4, LinkedOfAct DEF Page!Click, Page!poller, Linked, Front
<1>6. ASSUME Page!ActionLost PROVE Linked'
  <2>1. act' = Page!NoAct /\ act.at # "reloading" /\ tangled' = TRUE
    BY <1>6 DEF Page!ActionLost
  <2>4. Acting'
    BY <2>1, Calling DEF Acting
  <2>. QED BY <1>6, <2>1, <2>4, Calling, LinkedOfAct DEF Page!ActionLost, Page!poller
<1>. QED BY <1>1, <1>2, <1>3, <1>4, <1>5, <1>6

(* Steps of the calls for the pipeline. *)
LEMMA GetSteps ==
  ASSUME Server, Linked, Server', Lasting, NEW i \in DOMAIN gets
  PROVE  /\ Page!ServeGet(i) => Linked'
         /\ Page!GetAnswered(i) => Linked'
         /\ Page!GetLost(i) => Linked'
<1>0. /\ gets \in Seq(GetCall) /\ i \in 1 .. Len(gets) /\ Len(gets) \in Nat
      /\ gets[i] \in GetCall /\ gets[i].of \in Page!Known /\ act \in Button
  BY LenProperties, ElementOfSeq DEF Linked, Front, Refers
<1>1. ASSUME Page!ServeGet(i) PROVE Linked'
  <2> DEFINE g == [gets[i] EXCEPT !.data = switch[gets[i].of]]
  <2>1. /\ g \in GetCall /\ g.of = gets[i].of /\ g.reload = gets[i].reload
    BY <1>0 DEF GetCall, Server
  <2>2. /\ gets' = [gets EXCEPT ![i] = g]
        /\ UNCHANGED <<route, shown, rows, polling, timer, polls, started, disturbed, act, lists>>
        /\ tangled' \in BOOLEAN
    BY <1>0, <1>1 DEF Page!ServeGet, Page!view, Page!poller, Linked, Front
  <2> HIDE DEF g
  <2>3. gets' \in Seq(GetCall) /\ Replaced(gets, gets', i, g)
    BY <1>0, <2>1, <2>2, Replacing
  <2>4. /\ Len(gets') = Len(gets) /\ DOMAIN gets' = 1 .. Len(gets) /\ DOMAIN gets = 1 .. Len(gets)
        /\ \A j \in 1 .. Len(gets) : gets'[j].of = gets[j].of /\ gets'[j].reload = gets[j].reload
    BY <1>0, <2>1, <2>3, LenProperties DEF Replaced
  <2>5. Front'
    BY <2>2, <2>3 DEF Linked, Front
  <2>6. Refers'
    BY <2>2, <2>4 DEF Linked, Refers, Lasting
  <2>7. Acting'
    BY <2>2 DEF Linked, Acting, Lasting
  <2>8. Busy'
    BY <2>2, <2>4 DEF Linked, Busy
  <2>. QED BY <2>5, <2>6, <2>7, <2>8 DEF Linked
<1>2. ASSUME gets' = Page!RemoveAt(gets, i), act' = IF gets[i].reload THEN Page!NoAct ELSE act,
             shown' \in {shown, [id |-> gets[i].of, switch |-> gets[i].data]},
             shown' # shown => gets[i].data # Page!Unserved,
             UNCHANGED <<route, rows, polling, timer, polls, started, disturbed, lists>>,
             tangled' \in BOOLEAN
      PROVE  Linked'
  <2>1. gets' \in Seq(GetCall) /\ Shrunk(gets, gets', i)
    BY <1>0, <1>2, Shrinking
  <2>2. /\ Len(gets') = Len(gets) - 1 /\ DOMAIN gets' = 1 .. Len(gets) - 1 /\ DOMAIN gets = 1 .. Len(gets)
        /\ \A j \in 1 .. Len(gets) - 1 : gets'[j] = gets[IF j < i THEN j ELSE j + 1]
    BY <1>0, <2>1, LenProperties DEF Shrunk
  <2>3. Front'
    <3>1. act' \in Button
      BY <1>0, <1>2, Calling
    <3>2. shown' \in [id : Pipeline \cup {NoPipeline}, switch : Switch]
      BY <1>0, <1>2 DEF GetCall, Linked, Front, Server
    <3>. QED BY <1>2, <2>1, <3>1, <3>2 DEF Linked, Front
  <2>4. Refers'
    <3>1. shown'.id \in Page!Known \cup {NoPipeline}
      BY <1>0, <1>2 DEF Linked, Refers
    <3>2. \A j \in DOMAIN gets' : gets'[j].of \in Page!Known
      BY <1>0, <2>2 DEF Linked, Refers
    <3>. QED BY <1>2, <3>1, <3>2 DEF Linked, Refers, Lasting
  <2>5. Acting'
    BY <1>2, Calling DEF Linked, Acting, Lasting
  <2>6. Busy'
    <3>1. /\ \A j \in DOMAIN gets' : \E k \in DOMAIN gets : k # i /\ gets'[j] = gets[k]
          /\ \A k \in DOMAIN gets : k # i => \E j \in DOMAIN gets' : gets'[j] = gets[k]
          /\ \A j1, j2 \in DOMAIN gets' : j1 < j2 =>
               \E k1, k2 \in DOMAIN gets : k1 < k2 /\ gets'[j1] = gets[k1] /\ gets'[j2] = gets[k2]
      BY <1>0, <2>1, Remaining
    <3>2. \A j1, j2 \in DOMAIN gets' : gets'[j1].reload /\ gets'[j2].reload => j1 = j2
      <4>1. ASSUME NEW j1 \in DOMAIN gets', NEW j2 \in DOMAIN gets', j1 < j2,
                   gets'[j1].reload, gets'[j2].reload
            PROVE  FALSE
        <5>1. PICK k1, k2 \in DOMAIN gets : k1 < k2 /\ gets'[j1] = gets[k1] /\ gets'[j2] = gets[k2]
          BY <3>1, <4>1
        <5>2. k1 = k2
          BY <4>1, <5>1 DEF Linked, Busy
        <5>. QED BY <1>0, <2>2, <5>1, <5>2
      <4>. QED BY <1>0, <2>2, <4>1
    <3>3. CASE gets[i].reload
      <4>1. \A j \in DOMAIN gets' : ~gets'[j].reload
        BY <1>0, <2>2, <3>1, <3>3 DEF Linked, Busy
      <4>2. act'.at = "none"
        BY <1>2, <3>3, Calling
      <4>. QED BY <1>0, <1>2, <2>2, <4>1, <4>2 DEF Linked, Busy
    <3>4. CASE ~gets[i].reload
      <4>1. (\E j \in DOMAIN gets' : gets'[j].reload) <=> \E j \in DOMAIN gets : gets[j].reload
        BY <3>1, <3>4
      <4>2. act' = act
        BY <1>2, <3>4
      <4>3. route' = NoPipeline => FALSE
        BY <1>0, <1>2, <2>2 DEF Linked, Busy
      <4>. QED BY <3>2, <4>1, <4>2, <4>3 DEF Linked, Busy
    <3>. QED BY <3>3, <3>4
  <2>. QED BY <2>3, <2>4, <2>5, <2>6 DEF Linked
<1>3. ASSUME Page!GetAnswered(i) PROVE Linked'
  BY <1>2, <1>3 DEF Page!GetAnswered, Page!poller, Linked, Front
<1>4. ASSUME Page!GetLost(i) PROVE Linked'
  BY <1>2, <1>4 DEF Page!GetLost, Page!view, Page!poller, Linked, Front
<1>. QED BY <1>1, <1>3, <1>4

(* The rows of a list are runs of the pipeline it is of. *)
LEMMA ListServed ==
  ASSUME Server, NEW p \in Pipeline,
         NEW data, data = Page!SetToSeq({[run |-> r, status |-> status[r]] : r \in {r \in PageRun : of[r] = p}})
  PROVE  /\ data \in Seq(PageRow)
         /\ \A k \in DOMAIN data : data[k].run \in Opened /\ of[data[k].run] = p
<1> DEFINE R == {r \in PageRun : of[r] = p}
           row(r) == [run |-> r, status |-> status[r]]
           T == {row(r) : r \in R}
<1>1. \A r \in R : r \in Opened /\ row(r) \in PageRow
  BY PageAssumption DEF Server, Opened, PageRow
<1>2. IsFiniteSet(R)
  BY PageAssumption, FS_Subset
<1>3. [r \in R |-> row(r)] \in Surjection(R, T)
  BY DEF Surjection
<1>4. IsFiniteSet(T)
  <2> HIDE DEF R, T
  <2>. QED BY <1>2, <1>3, FS_Surjection
<1>5. T \in SUBSET PageRow
  BY <1>1
<1>6. data = Page!SetToSeq(T)
  OBVIOUS
<1>7. data \in Seq(PageRow) /\ \A k \in DOMAIN data : data[k] \in T
  <2> HIDE DEF T
  <2>. QED BY <1>4, <1>5, <1>6, Listing
<1>8. \A x \in T : x.run \in R
  OBVIOUS
<1>. QED BY <1>1, <1>7, <1>8

(* Polls that the interval which made them has forgotten. *)
LEMMA Detaching ==
  ASSUME NEW s \in Seq(PollCall), NEW t, t \in {s, [j \in DOMAIN s |-> [s[j] EXCEPT !.own = FALSE]]}
  PROVE  /\ t \in Seq(PollCall) /\ Len(t) = Len(s) /\ DOMAIN t = DOMAIN s
         /\ \A j \in DOMAIN s : t[j].run = s[j].run /\ t[j].data = s[j].data
<1>1. CASE t = s
  BY <1>1
<1>2. CASE t = [j \in DOMAIN s |-> [s[j] EXCEPT !.own = FALSE]]
  <2>1. DOMAIN s = 1 .. Len(s) /\ Len(s) \in Nat /\ \A j \in DOMAIN s : s[j] \in PollCall
    BY LenProperties, ElementOfSeq
  <2>2. DOMAIN t = 1 .. Len(s) /\ \A j \in DOMAIN s : t[j] = [s[j] EXCEPT !.own = FALSE]
    BY <1>2, <2>1
  <2>3. \A j \in DOMAIN s : t[j] \in PollCall /\ t[j].run = s[j].run /\ t[j].data = s[j].data
    BY <2>1, <2>2 DEF PollCall
  <2>4. t \in [1 .. Len(s) -> PollCall]
    BY <1>2, <2>1, <2>3
  <2>. QED BY <2>1, <2>2, <2>3, <2>4
<1>. QED BY <1>1, <1>2

(* Steps of the calls for its runs. *)
LEMMA ListSteps ==
  ASSUME Server, Linked, Server', Lasting, NEW i \in DOMAIN lists
  PROVE  /\ Page!ServeList(i) => Linked'
         /\ Page!ListAnswered(i) => Linked'
         /\ Page!ListLost(i) => Linked'
<1>0. /\ lists \in Seq(ListCall) /\ i \in 1 .. Len(lists) /\ Len(lists) \in Nat
      /\ lists[i] \in ListCall
  BY LenProperties, ElementOfSeq DEF Linked, Front, Refers
<1>1. ASSUME Page!ServeList(i) PROVE Linked'
  <2>1. PICK data : data = Page!SetToSeq({[run |-> r, status |-> status[r]] :
                                          r \in {r \in PageRun : of[r] = lists[i].of}})
    OBVIOUS
  <2> DEFINE l == [lists[i] EXCEPT !.served = TRUE, !.data = data]
  <2>2. /\ data \in Seq(PageRow) /\ \A k \in DOMAIN data : data[k].run \in Opened
    <3>1. lists[i].of \in Pipeline
      BY <1>0 DEF ListCall
    <3>. QED BY <2>1, <3>1, ListServed
  <2>3. l \in ListCall /\ l.data = data
    BY <1>0, <2>2 DEF ListCall
  <2>4. lists' = [lists EXCEPT ![i] = l]
    BY <1>0, <1>1, <2>1 DEF Page!ServeList
  <2>5. UNCHANGED <<status, switch, route, shown, rows, polling, timer, polls, started, disturbed, act, gets, tangled>>
    BY <1>1 DEF Page!ServeList, Page!server, Page!runs, Page!view, Page!poller
  <2> HIDE DEF l
  <2>6. lists' \in Seq(ListCall) /\ Replaced(lists, lists', i, l)
    BY <1>0, <2>3, <2>4, Replacing
  <2>7. \A j \in DOMAIN lists' : lists'[j] = IF j = i THEN l ELSE lists[j]
    BY <1>0, <2>6, LenProperties DEF Replaced
  <2>8. Front'
    BY <2>5, <2>6 DEF Linked, Front
  <2>9. Refers'
    <3>1. DOMAIN lists' = DOMAIN lists
      BY <1>0, <2>6, LenProperties DEF Replaced
    <3>2. \A j \in DOMAIN lists' : \A k \in DOMAIN lists'[j].data : lists'[j].data[k].run \in Opened'
      BY <2>2, <2>3, <2>7, <3>1 DEF Linked, Refers, Lasting
    <3>. QED BY <2>5, <3>2 DEF Linked, Refers, Lasting
  <2>10. Acting'
    BY <2>5 DEF Linked, Acting, Lasting
  <2>11. Busy'
    BY <2>5 DEF Linked, Busy
  <2>. QED BY <2>8, <2>9, <2>10, <2>11 DEF Linked
<1>2. ASSUME lists' = Page!RemoveAt(lists, i), UNCHANGED <<route, shown, act, gets, polling, started, disturbed>>,
             rows' \in {rows, lists[i].data}, polls' \in Seq(PollCall),
             \A j \in DOMAIN polls' : polls'[j].run \in Opened,
             timer' \in BOOLEAN, tangled' \in BOOLEAN
      PROVE  Linked'
  <2>1. lists' \in Seq(ListCall) /\ Shrunk(lists, lists', i)
    BY <1>0, <1>2, Shrinking
  <2>2. \A j \in DOMAIN lists' : \E k \in DOMAIN lists : lists'[j] = lists[k]
    BY <1>0, <2>1, Remaining
  <2>3. rows' \in Seq(PageRow) /\ \A j \in DOMAIN rows' : rows'[j].run \in Opened
    BY <1>0, <1>2 DEF Linked, Front, Refers, ListCall
  <2>4. Front'
    BY <1>2, <2>1, <2>3 DEF Linked, Front
  <2>5. Refers'
    BY <1>2, <2>2, <2>3 DEF Linked, Refers, Lasting
  <2>6. Acting'
    BY <1>2 DEF Linked, Acting, Lasting
  <2>7. Busy'
    BY <1>2 DEF Linked, Busy
  <2>. QED BY <2>4, <2>5, <2>6, <2>7 DEF Linked
<1>3. ASSUME Page!ListAnswered(i) PROVE Linked'
  <2>1. timer' \in BOOLEAN
    BY <1>3 DEF Page!ListAnswered, Page!SetRuns, Linked, Front
  <2>2. polls' \in {polls, [j \in DOMAIN polls |-> [polls[j] EXCEPT !.own = FALSE]]}
    BY <1>3 DEF Page!ListAnswered, Page!SetRuns
  <2>3. polls' \in Seq(PollCall) /\ \A j \in DOMAIN polls' : polls'[j].run \in Opened
    BY <2>2, Detaching DEF Linked, Front, Refers
  <2>. QED BY <1>2, <1>3, <2>1, <2>3 DEF Page!ListAnswered, Page!SetRuns, Linked, Front
<1>4. ASSUME Page!ListLost(i) PROVE Linked'
  BY <1>2, <1>4 DEF Page!ListLost, Page!view, Page!poller, Linked, Front, Refers
<1>. QED BY <1>1, <1>3, <1>4

(* The rows after a poll of run r has been answered with s. *)
LEMMA Updating ==
  ASSUME Front, NEW r \in PageRun, NEW s \in Page!Contract!Shown, NEW t, t = Page!Updated(r, s)
  PROVE  /\ t \in Seq(PageRow) /\ Len(t) = Len(rows) /\ DOMAIN t = DOMAIN rows
         /\ \A j \in DOMAIN rows : /\ t[j].run = rows[j].run
                                   /\ t[j].status = IF rows[j].run = r THEN s ELSE rows[j].status
<1>1. rows \in Seq(PageRow)
  BY DEF Front
<1>2. DOMAIN rows = 1 .. Len(rows) /\ Len(rows) \in Nat /\ \A j \in DOMAIN rows : rows[j] \in PageRow
  BY <1>1, LenProperties, ElementOfSeq
<1>3. DOMAIN t = 1 .. Len(rows)
      /\ \A j \in DOMAIN rows : t[j] = IF rows[j].run = r THEN [rows[j] EXCEPT !.status = s] ELSE rows[j]
  BY <1>2 DEF Page!Updated
<1>4. \A j \in DOMAIN rows : /\ t[j] \in PageRow /\ t[j].run = rows[j].run
                             /\ t[j].status = IF rows[j].run = r THEN s ELSE rows[j].status
  BY <1>2, <1>3 DEF PageRow
<1>5. t \in [1 .. Len(rows) -> PageRow]
  <2>1. t = [j \in 1 .. Len(rows) |-> t[j]]
    BY <1>2 DEF Page!Updated
  <2>. QED BY <1>2, <1>4, <2>1
<1>. QED BY <1>2, <1>4, <1>5

(* Steps of the polls. *)
LEMMA PollSteps ==
  ASSUME Server, Linked, Server', Lasting
  PROVE  /\ Page!Tick => Linked'
         /\ \A i \in DOMAIN polls : /\ Page!ServePoll(i) => Linked'
                                    /\ Page!PollAnswered(i) => Linked'
                                    /\ Page!PollLost(i) => Linked'
<1>0. /\ polls \in Seq(PollCall) /\ DOMAIN polls = 1 .. Len(polls) /\ Len(polls) \in Nat
      /\ \A i \in DOMAIN polls : polls[i] \in PollCall /\ polls[i].run \in Opened
      /\ Opened \subseteq PageRun
  BY LenProperties, ElementOfSeq DEF Linked, Front, Refers, Opened
<1>1. ASSUME UNCHANGED <<route, shown, act, gets, lists, started, tangled>>,
             rows' \in Seq(PageRow), \A j \in DOMAIN rows' : rows'[j].run \in Opened,
             polls' \in Seq(PollCall), \A j \in DOMAIN polls' : polls'[j].run \in Opened,
             timer' \in BOOLEAN, polling' \in {polling, NoRun}, disturbed' \subseteq PageRun
      PROVE  Linked'
  <2>1. Front'
    BY <1>1 DEF Linked, Front
  <2>2. Refers'
    BY <1>1 DEF Linked, Refers, Lasting
  <2>3. Acting'
    BY <1>1 DEF Linked, Acting, Lasting
  <2>4. Busy'
    BY <1>1 DEF Linked, Busy
  <2>. QED BY <2>1, <2>2, <2>3, <2>4 DEF Linked
<1>2. ASSUME Page!Tick PROVE Linked'
  <2>1. polling \in Opened /\ polls' = Append(polls, Page!Poll(polling))
    BY <1>2 DEF Page!Tick, Linked, Refers
  <2>2. Page!Poll(polling) \in PollCall /\ Page!Poll(polling).run = polling
    BY <1>0, <2>1, Calling
  <2>3. polls' \in Seq(PollCall) /\ Grown(polls, polls', Page!Poll(polling))
    BY <1>0, <2>1, <2>2, Growing
  <2>4. \A j \in DOMAIN polls' : polls'[j].run \in Opened
    BY <1>0, <2>1, <2>2, <2>3, LenProperties DEF Grown
  <2>. QED BY <1>1, <1>2, <2>3, <2>4 DEF Page!Tick, Page!view, Linked, Front, Refers
<1>3. ASSUME NEW i \in DOMAIN polls, Page!ServePoll(i) PROVE Linked'
  <2> DEFINE q == [polls[i] EXCEPT !.data = status[polls[i].run]]
  <2>1. q \in PollCall /\ q.run = polls[i].run
    BY <1>0 DEF PollCall, Server, Opened
  <2>2. polls' = [polls EXCEPT ![i] = q]
    BY <1>0, <1>3 DEF Page!ServePoll
  <2> HIDE DEF q
  <2>3. polls' \in Seq(PollCall) /\ Replaced(polls, polls', i, q)
    BY <1>0, <2>1, <2>2, Replacing
  <2>4. \A j \in DOMAIN polls' : polls'[j].run \in Opened
    BY <1>0, <2>1, <2>3, LenProperties DEF Replaced
  <2>5. disturbed' \subseteq PageRun
    BY <1>0, <1>3 DEF Page!ServePoll, Linked, Front
  <2>. QED BY <1>1, <1>3, <2>3, <2>4, <2>5 DEF Page!ServePoll, Page!view, Linked, Front, Refers
<1>4. ASSUME NEW i \in DOMAIN polls, polls' = Page!RemoveAt(polls, i)
      PROVE  polls' \in Seq(PollCall) /\ \A j \in DOMAIN polls' : polls'[j].run \in Opened
  <2>1. polls' \in Seq(PollCall) /\ Shrunk(polls, polls', i)
    BY <1>0, <1>4, Shrinking
  <2>2. \A j \in DOMAIN polls' : \E k \in DOMAIN polls : k # i /\ polls'[j] = polls[k]
    BY <2>1, Remaining DEF Linked, Front
  <2>. QED BY <1>0, <2>1, <2>2
<1>5. ASSUME NEW i \in DOMAIN polls, Page!PollAnswered(i) PROVE Linked'
  <2>1. polls[i].data \in Page!Contract!Shown /\ polls[i].run \in PageRun
    BY <1>0, <1>5 DEF Page!PollAnswered, PollCall
  <2>2. rows' \in Seq(PageRow) /\ \A j \in DOMAIN rows' : rows'[j].run \in Opened
    BY <1>5, <2>1, Updating DEF Page!PollAnswered, Linked, Refers
  <2>3. polls' \in Seq(PollCall) /\ \A j \in DOMAIN polls' : polls'[j].run \in Opened
    BY <1>4, <1>5 DEF Page!PollAnswered
  <2>4. timer' \in BOOLEAN /\ polling' \in {polling, NoRun} /\ disturbed' \subseteq PageRun
    BY <1>5, <2>1 DEF Page!PollAnswered, Linked, Front
  <2>. QED BY <1>1, <1>5, <2>2, <2>3, <2>4 DEF Page!PollAnswered
<1>6. ASSUME NEW i \in DOMAIN polls, Page!PollLost(i) PROVE Linked'
  <2>3. polls' \in Seq(PollCall) /\ \A j \in DOMAIN polls' : polls'[j].run \in Opened
    BY <1>4, <1>6 DEF Page!PollLost
  <2>. QED BY <1>1, <1>6, <2>3 DEF Page!PollLost, Page!view, Linked, Front, Refers
<1>. QED BY <1>2, <1>3, <1>5, <1>6

(* A row is put before the others. *)
Topped(r, s) == <<[run |-> r, status |-> s]>> \o rows

(* The rows with the run that was started put on top. *)
LEMMA Prepending ==
  ASSUME Front, NEW r \in PageRun, NEW s \in Page!Contract!Shown, NEW t, t = Topped(r, s)
  PROVE  /\ t \in Seq(PageRow) /\ Len(t) = Len(rows) + 1 /\ Len(t) # Len(rows)
         /\ 1 \in DOMAIN t /\ t[1].run = r /\ t[1].status = s
         /\ \A j \in DOMAIN t : t[j] = t[1] \/ \E k \in DOMAIN rows : t[j] = rows[k]
         /\ \A k \in DOMAIN rows : \E j \in DOMAIN t : t[j] = rows[k]
<1> DEFINE x == [run |-> r, status |-> s]
<1>1. x \in PageRow /\ x.run = r /\ x.status = s
  BY DEF PageRow
<1> HIDE DEF x
<1>2. <<x>> \in Seq(PageRow) /\ Len(<<x>>) = 1 /\ <<x>>[1] = x
  BY <1>1
<1>3. rows \in Seq(PageRow) /\ Len(rows) \in Nat /\ DOMAIN rows = 1 .. Len(rows)
  BY LenProperties DEF Front
<1>4. /\ t \in Seq(PageRow) /\ Len(t) = 1 + Len(rows)
      /\ \A i \in 1 .. 1 + Len(rows) : t[i] = IF i <= 1 THEN <<x>>[i] ELSE rows[i - 1]
  BY <1>2, <1>3, ConcatProperties DEF x, Topped
<1>5. DOMAIN t = 1 .. Len(rows) + 1 /\ t[1] = x
  BY <1>2, <1>3, <1>4, LenProperties
<1>6. ASSUME NEW j \in DOMAIN t, j # 1 PROVE \E k \in DOMAIN rows : t[j] = rows[k]
  <2>1. j - 1 \in DOMAIN rows /\ t[j] = rows[j - 1]
    BY <1>3, <1>4, <1>5, <1>6
  <2>. QED BY <2>1
<1>7. ASSUME NEW k \in DOMAIN rows PROVE \E j \in DOMAIN t : t[j] = rows[k]
  <2>1. k + 1 \in DOMAIN t /\ k + 1 - 1 = k /\ ~(k + 1 <= 1)
    BY <1>3, <1>5, <1>7
  <2>2. t[k + 1] = rows[k]
    BY <1>3, <1>4, <1>5, <2>1
  <2>. QED BY <2>1, <2>2
<1>8. Len(t) = Len(rows) + 1 /\ Len(t) # Len(rows) /\ 1 \in DOMAIN t
  <2>1. Len(t) = 1 + Len(rows) /\ Len(rows) \in Nat
    BY <1>3, <1>4
  <2>2. 1 \in 1 .. Len(rows) + 1
    BY <2>1
  <2>. QED BY <1>5, <2>1, <2>2
<1>. QED BY <1>1, <1>4, <1>5, <1>6, <1>7, <1>8

(* An action has been answered, and the page reloads. *)
LEMMA ReloadStarts ==
  ASSUME Server, Linked, Server', Lasting, act.at = "served",
         NEW g \in GetCall, g.of \in Page!Known, g.reload, gets' = Append(gets, g),
         act' = [Page!NoAct EXCEPT !.at = "reloading"],
         UNCHANGED <<route, shown, lists, tangled>>,
         rows' \in Seq(PageRow), \A j \in DOMAIN rows' : rows'[j].run \in Opened,
         polls' \in Seq(PollCall), \A j \in DOMAIN polls' : polls'[j].run \in Opened,
         timer' \in BOOLEAN, polling' \in Opened \cup {NoRun},
         started' \subseteq Opened, disturbed' \subseteq PageRun
  PROVE  Linked'
<1>1. act' \in Button /\ act'.at = "reloading" /\ \A j \in DOMAIN gets : ~gets[j].reload
  BY Calling DEF Linked, Busy
<1>2. gets' \in Seq(GetCall) /\ Grown(gets, gets', g)
  BY Growing DEF Linked, Front
<1>3. /\ DOMAIN gets' = 1 .. Len(gets) + 1 /\ DOMAIN gets = 1 .. Len(gets) /\ Len(gets) \in Nat
      /\ \A j \in DOMAIN gets' : gets'[j] = IF j \in DOMAIN gets THEN gets[j] ELSE g
  BY <1>2, LenProperties DEF Linked, Front, Grown
<1>4. Front'
  BY <1>1, <1>2 DEF Linked, Front, Opened
<1>5. Refers'
  <2>1. \A j \in DOMAIN gets' : gets'[j].of \in Page!Known
    BY <1>3 DEF Linked, Refers
  <2>. QED BY <2>1 DEF Linked, Refers, Lasting
<1>6. Acting'
  BY <1>1 DEF Acting
<1>7. Busy'
  <2>1. \A j \in DOMAIN gets' : gets'[j].reload <=> j = Len(gets) + 1
    BY <1>1, <1>3
  <2>2. Len(gets) + 1 \in DOMAIN gets'
    BY <1>3
  <2>3. route' # NoPipeline
    BY DEF Linked, Busy
  <2>. QED BY <1>1, <2>1, <2>2, <2>3 DEF Busy
<1>. QED BY <1>4, <1>5, <1>6, <1>7 DEF Linked

(* A step that asks for pipelines: what is asked is there, and it reloads *)
(* once, if the page is busy reloading.                                   *)
LEMMA GoSteps ==
  ASSUME Server, Linked, Server', Lasting
  PROVE  /\ \A p \in Pipeline : Page!GoTo(p) => Linked'
         /\ Page!CloneAnswered => Linked'
         /\ Page!ToggleAnswered => Linked'
<1>0. /\ gets \in Seq(GetCall) /\ DOMAIN gets = 1 .. Len(gets) /\ Len(gets) \in Nat
      /\ lists \in Seq(ListCall) /\ DOMAIN lists = 1 .. Len(lists) /\ Len(lists) \in Nat
      /\ Page!Known \subseteq Pipeline /\ act \in Button
  BY LenProperties DEF Linked, Front, Refers, Server
<1>1. ASSUME NEW p \in Pipeline, lists' = Append(lists, Page!List(p))
      PROVE  /\ lists' \in Seq(ListCall)
             /\ \A j \in DOMAIN lists' : \A k \in DOMAIN lists'[j].data : lists'[j].data[k].run \in Opened
  <2>1. lists' \in Seq(ListCall) /\ Grown(lists, lists', Page!List(p))
    BY <1>0, <1>1, Calling, Growing
  <2>2. ASSUME NEW j \in DOMAIN lists', NEW k \in DOMAIN lists'[j].data PROVE lists'[j].data[k].run \in Opened
    <3>1. (j \in DOMAIN lists /\ lists'[j] = lists[j]) \/ lists'[j] = Page!List(p)
      BY <1>0, <2>1, LenProperties DEF Grown
    <3>2. lists'[j] # Page!List(p)
      BY <2>2, Calling
    <3>. QED BY <2>2, <3>1, <3>2 DEF Linked, Refers
  <2>. QED BY <2>1, <2>2
<1>2. ASSUME NEW p \in Pipeline, Page!GoTo(p) PROVE Linked'
  <2> DEFINE g == Page!Get(p, FALSE)
  <2>1. /\ p \in Page!Known /\ p # NoPipeline /\ route' = p /\ gets' = Append(gets, g)
        /\ UNCHANGED <<switch, shown, rows, polling, timer, polls, started, act>>
        /\ tangled' \in BOOLEAN /\ disturbed' \subseteq PageRun
    BY <1>0, <1>2, PageAssumption DEF Page!GoTo, Page!server, Linked, Front
  <2>2. g \in GetCall /\ g.of = p /\ ~g.reload
    BY Calling
  <2> HIDE DEF g
  <2>3. gets' \in Seq(GetCall) /\ Grown(gets, gets', g)
    BY <1>0, <2>1, <2>2, Growing
  <2>4. /\ DOMAIN gets' = 1 .. Len(gets) + 1
        /\ \A j \in DOMAIN gets' : gets'[j] = IF j \in DOMAIN gets THEN gets[j] ELSE g
    BY <1>0, <2>3, LenProperties DEF Grown
  <2>5. /\ lists' \in Seq(ListCall)
        /\ \A j \in DOMAIN lists' : \A k \in DOMAIN lists'[j].data : lists'[j].data[k].run \in Opened
    BY <1>1, <1>2 DEF Page!GoTo
  <2>6. Front'
    BY <2>1, <2>3, <2>5 DEF Linked, Front
  <2>7. Refers'
    <3>1. \A j \in DOMAIN gets' : gets'[j].of \in Page!Known
      BY <1>0, <2>1, <2>2, <2>4 DEF Linked, Refers
    <3>. QED BY <2>1, <2>5, <3>1 DEF Linked, Refers, Lasting
  <2>8. Acting'
    BY <2>1 DEF Linked, Acting, Lasting
  <2>9. Busy'
    <3>1. \A j \in DOMAIN gets' : gets'[j].reload => j \in DOMAIN gets /\ gets[j].reload
      BY <2>2, <2>4
    <3>2. \A j \in DOMAIN gets : j \in DOMAIN gets' /\ gets'[j] = gets[j]
      BY <1>0, <2>4
    <3>. QED BY <2>1, <3>1, <3>2 DEF Linked, Busy
  <2>. QED BY <2>6, <2>7, <2>8, <2>9 DEF Linked
<1>3. ASSUME Page!ToggleAnswered PROVE Linked'
  <2> DEFINE g == Page!Get(act.key, TRUE)
  <2>1. /\ gets' = Append(gets, g) /\ act' = [Page!NoAct EXCEPT !.at = "reloading"]
        /\ UNCHANGED <<switch, route, shown, rows, polling, timer, polls, started, disturbed, lists, tangled>>
        /\ act.at = "served"
    BY <1>3 DEF Page!ToggleAnswered, Page!server, Page!view, Page!poller
  <2>2. act.key \in Page!Known /\ g \in GetCall /\ g.of = act.key /\ g.reload
    BY <1>0, <2>1, Calling DEF Linked, Acting
  <2>. QED BY <1>0, <2>1, <2>2, ReloadStarts DEF Linked, Front, Refers
<1>4. ASSUME Page!CloneAnswered PROVE Linked'
  <2> DEFINE p == act.data  g == Page!Get(act.key, TRUE)  h == Page!Get(p, FALSE)
  <2>1. /\ gets' = gets \o <<g, h>> /\ lists' = Append(lists, Page!List(p))
        /\ act' = [Page!NoAct EXCEPT !.at = "reloading"] /\ route' = p
        /\ UNCHANGED <<switch, shown, rows, polling, timer, polls, started, tangled>>
        /\ act.at = "served" /\ act.call = "clone" /\ disturbed' \subseteq PageRun
    BY <1>4 DEF Page!CloneAnswered, Page!server, Linked, Front
  <2>2. /\ act.key \in Page!Known /\ p \in Page!Known /\ p \in Pipeline /\ p # NoPipeline
        /\ g \in GetCall /\ g.of = act.key /\ g.reload
        /\ h \in GetCall /\ h.of = p /\ ~h.reload
    BY <1>0, <2>1, Calling, PageAssumption DEF Linked, Acting
  <2>3. act' \in Button /\ act'.at = "reloading" /\ \A j \in DOMAIN gets : ~gets[j].reload
    BY <2>1, Calling DEF Linked, Busy
  <2> HIDE DEF p, g, h
  <2>4. /\ gets' \in Seq(GetCall) /\ DOMAIN gets' = 1 .. Len(gets) + 2
        /\ \A j \in DOMAIN gets' : gets'[j] = IF j \in DOMAIN gets THEN gets[j]
                                              ELSE IF j = Len(gets) + 1 THEN g ELSE h
    <3>1. /\ gets' \in Seq(GetCall) /\ Len(gets') = Len(gets) + 2
          /\ \A i \in 1 .. Len(gets) : gets'[i] = gets[i]
          /\ gets'[Len(gets) + 1] = g /\ gets'[Len(gets) + 2] = h
      BY <1>0, <2>1, <2>2, GrowingTwice
    <3>. QED BY <1>0, <3>1, LenProperties
  <2>5. /\ lists' \in Seq(ListCall)
        /\ \A j \in DOMAIN lists' : \A k \in DOMAIN lists'[j].data : lists'[j].data[k].run \in Opened
    BY <1>1, <2>1, <2>2
  <2>6. Front'
    BY <2>1, <2>2, <2>3, <2>4, <2>5 DEF Linked, Front
  <2>7. Refers'
    <3>1. \A j \in DOMAIN gets' : gets'[j].of \in Page!Known
      BY <1>0, <2>2, <2>4 DEF Linked, Refers
    <3>. QED BY <2>1, <2>2, <2>5, <3>1 DEF Linked, Refers, Lasting
  <2>8. Acting'
    BY <2>3 DEF Acting
  <2>9. Busy'
    <3>1. \A j \in DOMAIN gets' : gets'[j].reload <=> j = Len(gets) + 1
      BY <1>0, <2>2, <2>3, <2>4
    <3>2. Len(gets) + 1 \in DOMAIN gets'
      BY <1>0, <2>4
    <3>. QED BY <2>1, <2>2, <2>3, <3>1, <3>2 DEF Busy
  <2>. QED BY <2>6, <2>7, <2>8, <2>9 DEF Linked
<1>. QED BY <1>2, <1>3, <1>4

(* The answer to "run": the run is put on top and polled from now on. *)
LEMMA RunAnsweredStep ==
  ASSUME Server, Linked, Server', Lasting, Page!RunAnswered
  PROVE  Linked'
<1> DEFINE g == Page!Get(act.key, TRUE)  row == [run |-> act.run, status |-> act.data]
<1>1. /\ gets' = Append(gets, g) /\ act' = [Page!NoAct EXCEPT !.at = "reloading"]
      /\ UNCHANGED <<switch, route, shown, lists, tangled>>
      /\ act.at = "served" /\ act.call = "run" /\ Page!SetRuns(<<row>> \o rows, polls)
      /\ polling' \in {polling, act.run} /\ started' \subseteq started \cup {act.run}
      /\ disturbed' \subseteq disturbed \cup started \cup {act.run}
  BY DEF Page!RunAnswered, Page!server
<1>2. /\ act.key \in Page!Known /\ act.run \in Opened /\ act.run \in PageRun
      /\ act.data \in Page!Contract!Shown /\ Page!Known \subseteq Pipeline
  BY <1>1 DEF Linked, Acting, Opened, Server
<1>3. g \in GetCall /\ g.of = act.key /\ g.reload
  BY <1>2, Calling
<1>4. rows' \in Seq(PageRow) /\ \A j \in DOMAIN rows' : rows'[j].run \in Opened
  <2>1. Front /\ rows' = Topped(act.run, act.data)
    BY <1>1 DEF Linked, Page!SetRuns, Topped
  <2>2. /\ rows' \in Seq(PageRow) /\ rows'[1].run = act.run
        /\ \A j \in DOMAIN rows' : rows'[j] = rows'[1] \/ \E k \in DOMAIN rows : rows'[j] = rows[k]
    BY <1>2, <2>1, Prepending
  <2>. QED BY <1>2, <2>2 DEF Linked, Refers
<1>5. /\ polls' \in {polls, [j \in DOMAIN polls |-> [polls[j] EXCEPT !.own = FALSE]]}
      /\ timer' \in BOOLEAN
  BY <1>1 DEF Page!SetRuns, Linked, Front
<1>6. polls' \in Seq(PollCall) /\ \A j \in DOMAIN polls' : polls'[j].run \in Opened
  BY <1>5, Detaching DEF Linked, Front, Refers
<1> HIDE DEF g, row
<1>. QED BY <1>1, <1>2, <1>3, <1>4, <1>5, <1>6, ReloadStarts DEF Linked, Front, Refers

(* Every call stays linked to what it was made for. *)
LEMMA LinkedSteps ==
  ASSUME Server, Linked, [Page!Next]_(Page!vars)
  PROVE  Server' /\ Lasting /\ Linked'
<1>1. Server' /\ Lasting
  BY ServerSteps DEF Linked
<1>2. ASSUME NEW r \in PageRun, Page!Proceed(r) PROVE Linked'
  <2>1. disturbed' \subseteq PageRun
    BY <1>2 DEF Page!Proceed, Linked, Front
  <2>. QED BY <1>1, <1>2, <2>1, LinkedStays DEF Page!Proceed
<1>3. ASSUME NEW r \in PageRun, Page!OpenElsewhere(r) PROVE Linked'
  BY <1>1, <1>3, LinkedStays DEF Page!OpenElsewhere, Page!poller, Linked, Front
<1>4. ASSUME UNCHANGED Page!vars PROVE Linked'
  BY <1>1, <1>4, LinkedStays DEF Page!vars, Page!poller, Linked, Front
<1>. QED BY <1>1, <1>2, <1>3, <1>4, ActSteps, GetSteps, ListSteps, PollSteps, GoSteps, RunAnsweredStep
         DEF Page!Next

(* A toggle the page has not been told the result of. *)
Toggled == act.at = "served" /\ act.call \in {"pause", "resume"}

Current(g) == g.of = route /\ (g.data \in {Page!Unserved, switch[route]} \/ Toggled)

(* As long as nothing is tangled, the get that was asked last is of the     *)
(* route and no older than the last toggle; with none under way the page    *)
(* shows what it has brought.                                               *)
PipelineOfRoute ==
  route # NoPipeline /\ ~tangled =>
    /\ act.at \in {"sent", "opened", "served"} => act.key = route
    /\ Len(gets) = 0 => shown.id = route /\ (shown.switch = switch[route] \/ Toggled)
    /\ Len(gets) # 0 => Current(gets[Len(gets)])

AllOf(data, p) == \A k \in DOMAIN data : of[data[k].run] = p

RowsOfRoute ==
  route # NoPipeline /\ ~tangled =>
    /\ Len(lists) = 0 => AllOf(rows, route)
    /\ Len(lists) # 0 => lists[Len(lists)].of = route /\ AllOf(lists[Len(lists)].data, route)

(* The last get under way decides what the page comes to show. *)
LEMMA PipelineOfRouteSteps ==
  ASSUME Server, Linked, PipelineOfRoute, [Page!Next]_(Page!vars)
  PROVE  PipelineOfRoute'
<1>0. /\ gets \in Seq(GetCall) /\ DOMAIN gets = 1 .. Len(gets) /\ Len(gets) \in Nat
      /\ \A i \in DOMAIN gets : gets[i] \in GetCall /\ gets[i].of \in Page!Known
      /\ act \in Button /\ route \in Page!Known \cup {NoPipeline} /\ Page!Known \subseteq Pipeline
  BY LenProperties, ElementOfSeq DEF Linked, Front, Refers, Server
<1>1. ASSUME UNCHANGED <<route, act, gets, shown, switch>>, tangled => tangled' PROVE PipelineOfRoute'
  BY <1>1 DEF PipelineOfRoute, Current, Toggled
<1>2. ASSUME UNCHANGED <<route, gets, shown, tangled>>, ~Toggled, ~Toggled', 
             route # NoPipeline => switch'[route] = switch[route],
             act'.at \in {"sent", "opened", "served"} => act'.key = route \/ (act'.key = act.key /\ act.at # "none"),
             act.at \in {"none", "sent", "opened", "served"}
      PROVE  PipelineOfRoute'
  BY <1>2 DEF PipelineOfRoute, Current
<1>3. ASSUME NEW r \in PageRun, Page!ServeRun(r) PROVE PipelineOfRoute'
  <2>1. act'.at = "opened" /\ act'.key = act.key
    BY <1>0, <1>3 DEF Page!ServeRun, Button
  <2>. QED BY <1>2, <1>3, <2>1 DEF Page!ServeRun, Page!view, Toggled
<1>4. ASSUME Page!ReadRun PROVE PipelineOfRoute'
  <2>1. act'.at = "served" /\ act'.key = act.key /\ act'.call = act.call /\ act.call = "run"
    BY <1>0, <1>4 DEF Page!ReadRun, Button, Linked, Acting
  <2>. QED BY <1>2, <1>4, <2>1 DEF Page!ReadRun, Page!view, Page!server, Toggled
<1>5. ASSUME NEW p \in Pipeline, Page!ServeClone(p) PROVE PipelineOfRoute'
  <2>1. act'.at = "served" /\ act'.key = act.key /\ act'.call = "clone"
    BY <1>0, <1>5 DEF Page!ServeClone, Button
  <2>2. route # NoPipeline => switch'[route] = switch[route]
    BY <1>0, <1>5 DEF Page!ServeClone
  <2>. QED BY <1>2, <1>5, <2>1, <2>2 DEF Page!ServeClone, Page!view, Toggled
<1>6. ASSUME Page!ServeToggle PROVE PipelineOfRoute'
  <2>1. act'.at = "served" /\ act'.key = act.key /\ act'.call \in {"pause", "resume"} /\ act.at = "sent"
    BY <1>0, <1>6 DEF Page!ServeToggle, Button
  <2>2. UNCHANGED <<route, gets, shown, tangled>>
    BY <1>6 DEF Page!ServeToggle, Page!view
  <2>. QED BY <2>1, <2>2 DEF PipelineOfRoute, Current, Toggled
<1>7. ASSUME NEW call \in {"run", "pause", "resume", "clone"}, Page!Click(call) PROVE PipelineOfRoute'
  <2>1. act'.at = "sent" /\ act'.key = route
    BY <1>7 DEF Page!Click, Page!NoAct
  <2>2. UNCHANGED <<route, gets, shown, tangled, switch>> /\ act.at = "none"
    BY <1>7 DEF Page!Click, Page!view, Page!server
  <2>3. ~Toggled /\ ~Toggled'
    BY <2>1, <2>2 DEF Toggled
  <2>. QED BY <1>2, <2>1, <2>2, <2>3
<1>8. ASSUME tangled' PROVE PipelineOfRoute'
  BY <1>8 DEF PipelineOfRoute
<1>9. ASSUME NEW i \in DOMAIN gets, Page!ServeGet(i) PROVE PipelineOfRoute'
  <2> DEFINE g == [gets[i] EXCEPT !.data = switch[gets[i].of]]
  <2>1. gets' = [gets EXCEPT ![i] = g] /\ g \in GetCall /\ g.of = gets[i].of /\ g.data = switch[gets[i].of]
    BY <1>0, <1>9 DEF Page!ServeGet, GetCall, Server
  <2>2. UNCHANGED <<route, shown, act, switch>> /\ (tangled => tangled')
    BY <1>9 DEF Page!ServeGet, Page!view, Page!server
  <2> HIDE DEF g
  <2>3. Replaced(gets, gets', i, g)
    BY <1>0, <2>1, Replacing
  <2>4. Len(gets') = Len(gets) /\ Len(gets) # 0
    BY <1>0, <2>3 DEF Replaced
  <2>5. gets'[Len(gets)] = IF i = Len(gets) THEN g ELSE gets[Len(gets)]
    BY <1>0, <2>3, <2>4 DEF Replaced
  <2>. QED BY <2>1, <2>2, <2>4, <2>5 DEF PipelineOfRoute, Current, Toggled
<1>10. ASSUME NEW i \in DOMAIN gets, Page!GetAnswered(i) PROVE PipelineOfRoute'
  <2> SUFFICES ASSUME ~tangled', route' # NoPipeline PROVE PipelineOfRoute'
    BY DEF PipelineOfRoute
  <2>1. /\ i = 1 /\ ~tangled /\ UNCHANGED <<route, switch>>
        /\ gets' = Page!RemoveAt(gets, i) /\ gets[i].data # Page!Unserved
        /\ shown' = [id |-> gets[i].of, switch |-> gets[i].data]
        /\ act' = IF gets[i].reload THEN Page!NoAct ELSE act
    BY <1>10 DEF Page!GetAnswered, Page!server
  <2>2. Toggled' <=> Toggled
    <3>1. CASE gets[i].reload
      BY <2>1, <3>1, Calling DEF Toggled, Linked, Busy
    <3>2. CASE ~gets[i].reload
      BY <2>1, <3>2 DEF Toggled
    <3>. QED BY <3>1, <3>2
  <2>3. Shrunk(gets, gets', i) /\ gets' \in Seq(GetCall)
    BY <1>0, <2>1, Shrinking
  <2>4. /\ i = 1 /\ Len(gets') # 0 => gets'[Len(gets')] = gets[Len(gets)]
        /\ i = 1 => (Len(gets') = 0 <=> Len(gets) = 1)
    <3>1. gets \in Seq(GetCall)
      BY <1>0
    <3>. QED BY <2>3, <3>1, Remaining
  <2>5. Len(gets) # 0
    BY <1>0
  <2>6. act'.at \in {"sent", "opened", "served"} => act' = act
    BY <2>1, Calling
  <2>. QED BY <2>1, <2>2, <2>4, <2>5, <2>6 DEF PipelineOfRoute, Current
<1>11. ASSUME NEW g \in GetCall, Len(gets') # 0, gets'[Len(gets')] = g, g.of = route', g.data = Page!Unserved,
              act'.at \in {"none", "reloading"} \/ (UNCHANGED <<act>> /\ (act.at # "none" => tangled'))
       PROVE  PipelineOfRoute'
  BY <1>11 DEF PipelineOfRoute, Current, Toggled
<1>12. ASSUME NEW p \in Pipeline, Page!GoTo(p) PROVE PipelineOfRoute'
  <2>1. gets' = Append(gets, Page!Get(p, FALSE))
    BY <1>12 DEF Page!GoTo
  <2>2. /\ Page!Get(p, FALSE) \in GetCall /\ Page!Get(p, FALSE).of = p
        /\ Page!Get(p, FALSE).data = Page!Unserved
    BY Calling
  <2>3. Grown(gets, gets', Page!Get(p, FALSE))
    BY <1>0, <2>1, <2>2, Growing
  <2>4. Len(gets') # 0 /\ gets'[Len(gets')] = Page!Get(p, FALSE)
    BY <1>0, <2>3 DEF Grown
  <2>5. act.at # "none" => tangled'
    BY <1>12 DEF Page!GoTo
  <2>. QED BY <1>11, <1>12, <2>2, <2>4, <2>5 DEF Page!GoTo
<1>13. ASSUME Page!RunAnswered \/ Page!ToggleAnswered PROVE PipelineOfRoute'
  <2> SUFFICES ASSUME ~tangled', route' # NoPipeline PROVE PipelineOfRoute'
    BY DEF PipelineOfRoute
  <2>1. /\ gets' = Append(gets, Page!Get(act.key, TRUE)) /\ UNCHANGED <<route, tangled>>
        /\ act' = [Page!NoAct EXCEPT !.at = "reloading"] /\ act.at = "served"
    BY <1>13 DEF Page!RunAnswered, Page!ToggleAnswered, Page!view
  <2>2. act.key = route /\ act.key \in Pipeline /\ act'.at = "reloading"
    BY <1>0, <2>1, Calling DEF PipelineOfRoute
  <2>3. /\ Page!Get(act.key, TRUE) \in GetCall /\ Page!Get(act.key, TRUE).of = act.key
        /\ Page!Get(act.key, TRUE).data = Page!Unserved
    BY <2>2, Calling
  <2>4. Grown(gets, gets', Page!Get(act.key, TRUE))
    BY <1>0, <2>1, <2>3, Growing
  <2>5. Len(gets') # 0 /\ gets'[Len(gets')] = Page!Get(act.key, TRUE)
    BY <1>0, <2>4 DEF Grown
  <2>. QED BY <1>11, <2>1, <2>2, <2>3, <2>5
<1>14. ASSUME Page!CloneAnswered PROVE PipelineOfRoute'
  <2> DEFINE p == act.data  g == Page!Get(act.key, TRUE)  h == Page!Get(p, FALSE)
  <2>1. /\ gets' = gets \o <<g, h>> /\ act' = [Page!NoAct EXCEPT !.at = "reloading"] /\ route' = p
        /\ act.at = "served" /\ act.call = "clone"
    BY <1>14 DEF Page!CloneAnswered
  <2>2. /\ g \in GetCall /\ h \in GetCall /\ h.of = p /\ h.data = Page!Unserved
        /\ act'.at = "reloading"
    BY <1>0, <2>1, Calling DEF Linked, Acting
  <2> HIDE DEF p, g, h
  <2>3. Len(gets') = Len(gets) + 2 /\ gets'[Len(gets) + 2] = h
    BY <1>0, <2>1, <2>2, GrowingTwice
  <2>. QED BY <1>0, <1>11, <2>1, <2>2, <2>3
<1>15. \A i : Page!GetLost(i) \/ Page!ListLost(i) => tangled'
  BY DEF Page!GetLost, Page!ListLost
<1>16. \A i : Page!ServeList(i) \/ Page!ServePoll(i) \/ Page!PollAnswered(i) \/ Page!PollLost(i) =>
              UNCHANGED <<route, act, gets, shown, switch, tangled>>
  BY DEF Page!ServeList, Page!ServePoll, Page!PollAnswered, Page!PollLost, Page!server, Page!view
<1>17. ASSUME NEW i, Page!ListAnswered(i) PROVE PipelineOfRoute'
  <2>1. UNCHANGED <<route, act, gets, shown, switch>>
    BY <1>17 DEF Page!ListAnswered, Page!server
  <2>2. tangled => tangled'
    BY <1>17, Zenon DEF Page!ListAnswered
  <2>. QED BY <1>1, <2>1, <2>2
<1>18. \A r : Page!Proceed(r) \/ Page!OpenElsewhere(r) => UNCHANGED <<route, act, gets, shown, switch, tangled>>
  BY DEF Page!Proceed, Page!OpenElsewhere, Page!view
<1>19. Page!ActionLost => tangled'
  BY DEF Page!ActionLost
<1>20. Page!Tick \/ UNCHANGED Page!vars => UNCHANGED <<route, act, gets, shown, switch, tangled>>
  BY DEF Page!Tick, Page!server, Page!view, Page!vars
<1>. QED
  BY <1>1, <1>3, <1>4, <1>5, <1>6, <1>7, <1>8, <1>9, <1>10, <1>12, <1>13, <1>14, <1>15, <1>16, <1>17, <1>18,
     <1>19, <1>20
     DEF Page!Next

(* The last list under way decides which rows it comes to show. *)
LEMMA RowsOfRouteSteps ==
  ASSUME Server, Linked, Lasting, PipelineOfRoute, RowsOfRoute, [Page!Next]_(Page!vars)
  PROVE  RowsOfRoute'
<1>0. /\ lists \in Seq(ListCall) /\ DOMAIN lists = 1 .. Len(lists) /\ Len(lists) \in Nat
      /\ \A i \in DOMAIN lists : lists[i] \in ListCall
      /\ \A i \in DOMAIN lists : \A k \in DOMAIN lists[i].data : lists[i].data[k].run \in Opened
      /\ \A k \in DOMAIN rows : rows[k].run \in Opened
      /\ Page!Known \subseteq Pipeline
  BY LenProperties, ElementOfSeq DEF Linked, Front, Refers, Server
<1>1. \A r \in Opened : of'[r] = of[r]
  BY DEF Lasting
<1>2. ASSUME UNCHANGED <<route, lists, rows>>, tangled => tangled' PROVE RowsOfRoute'
  BY <1>0, <1>1, <1>2 DEF RowsOfRoute, AllOf
<1>3. ASSUME tangled' PROVE RowsOfRoute'
  BY <1>3 DEF RowsOfRoute
<1>4. ASSUME NEW i \in DOMAIN lists, Page!ServeList(i) PROVE RowsOfRoute'
  <2>1. PICK data : data = Page!SetToSeq({[run |-> r, status |-> status[r]] :
                                          r \in {r \in PageRun : of[r] = lists[i].of}})
    OBVIOUS
  <2> DEFINE l == [lists[i] EXCEPT !.served = TRUE, !.data = data]
  <2>2. /\ data \in Seq(PageRow) /\ \A k \in DOMAIN data : data[k].run \in Opened /\ of[data[k].run] = lists[i].of
    <3>1. lists[i].of \in Pipeline
      BY <1>0 DEF ListCall
    <3>. QED BY <2>1, <3>1, ListServed
  <2>3. l \in ListCall /\ l.data = data /\ l.of = lists[i].of
    BY <1>0, <2>2 DEF ListCall
  <2>4. lists' = [lists EXCEPT ![i] = l] /\ UNCHANGED <<route, tangled, rows, of>>
    BY <1>0, <1>4, <2>1 DEF Page!ServeList, Page!view, Page!server, Page!runs
  <2> HIDE DEF l
  <2>5. Replaced(lists, lists', i, l)
    BY <1>0, <2>3, <2>4, Replacing
  <2>6. /\ Len(lists') = Len(lists) /\ Len(lists) # 0
        /\ lists'[Len(lists)] = IF i = Len(lists) THEN l ELSE lists[Len(lists)]
    BY <1>0, <2>5 DEF Replaced
  <2>. QED BY <2>2, <2>3, <2>4, <2>6 DEF RowsOfRoute, AllOf
<1>5. ASSUME NEW i \in DOMAIN lists, Page!ListAnswered(i) PROVE RowsOfRoute'
  <2> SUFFICES ASSUME ~tangled', route' # NoPipeline PROVE RowsOfRoute'
    BY DEF RowsOfRoute
  <2>1. /\ i = 1 /\ ~tangled /\ UNCHANGED <<route, of>> /\ rows' = lists[i].data
        /\ lists' = Page!RemoveAt(lists, i)
    BY <1>5 DEF Page!ListAnswered, Page!SetRuns, Page!server, Page!runs
  <2>2. Shrunk(lists, lists', i) /\ lists' \in Seq(ListCall)
    BY <1>0, <2>1, Shrinking
  <2>3. /\ i = 1 /\ Len(lists') # 0 => lists'[Len(lists')] = lists[Len(lists)]
        /\ i = 1 => (Len(lists') = 0 <=> Len(lists) = 1)
    <3>1. lists \in Seq(ListCall)
      BY <1>0
    <3>. QED BY <2>2, <3>1, Remaining
  <2>. QED BY <1>0, <2>1, <2>3 DEF RowsOfRoute, AllOf
<1>6. ASSUME NEW p \in Pipeline, lists' = Append(lists, Page!List(p)), route' = p PROVE RowsOfRoute'
  <2>1. Page!List(p) \in ListCall /\ Page!List(p).data = <<>> /\ Page!List(p).of = p /\ DOMAIN <<>> = {}
    BY Calling
  <2>2. Grown(lists, lists', Page!List(p))
    BY <1>0, <1>6, <2>1, Growing
  <2>3. Len(lists') # 0 /\ lists'[Len(lists')] = Page!List(p)
    BY <1>0, <2>2 DEF Grown
  <2>. QED BY <1>6, <2>1, <2>3 DEF RowsOfRoute, AllOf
<1>7. ASSUME Page!RunAnswered PROVE RowsOfRoute'
  <2> SUFFICES ASSUME ~tangled', route' # NoPipeline PROVE RowsOfRoute'
    BY DEF RowsOfRoute
  <2>1. /\ ~tangled /\ UNCHANGED <<route, of, lists>> /\ rows' = Topped(act.run, act.data)
        /\ act.at = "served" /\ act.call = "run" /\ Front
    BY <1>7 DEF Page!RunAnswered, Page!SetRuns, Page!server, Page!runs, Topped, Linked
  <2>2. act.run \in PageRun /\ act.data \in Page!Contract!Shown /\ of[act.run] = route
    BY <2>1 DEF Linked, Acting, Opened, PipelineOfRoute
  <2>3. /\ rows'[1].run = act.run
        /\ \A j \in DOMAIN rows' : rows'[j] = rows'[1] \/ \E k \in DOMAIN rows : rows'[j] = rows[k]
    BY <2>1, <2>2, Prepending
  <2>. QED BY <2>1, <2>2, <2>3 DEF RowsOfRoute, AllOf
<1>8. ASSUME NEW i \in DOMAIN polls, Page!PollAnswered(i) PROVE RowsOfRoute'
  <2>1. polls[i] \in PollCall
    BY ElementOfSeq, LenProperties DEF Linked, Front
  <2>2. polls[i].data \in Page!Contract!Shown /\ polls[i].run \in PageRun
    BY <1>8, <2>1 DEF Page!PollAnswered, PollCall
  <2>3. DOMAIN rows' = DOMAIN rows /\ \A j \in DOMAIN rows : rows'[j].run = rows[j].run
    BY <1>8, <2>2, Updating DEF Page!PollAnswered, Linked
  <2>4. UNCHANGED <<route, tangled, lists, of>>
    BY <1>8 DEF Page!PollAnswered, Page!server, Page!runs
  <2>. QED BY <2>3, <2>4 DEF RowsOfRoute, AllOf
<1>9. ASSUME Page!CloneAnswered PROVE RowsOfRoute'
  BY <1>0, <1>6, <1>9 DEF Page!CloneAnswered, Linked, Acting
<1>10. ASSUME NEW p \in Pipeline, Page!GoTo(p) PROVE RowsOfRoute'
  BY <1>6, <1>10 DEF Page!GoTo
<1>11. \A i : Page!GetLost(i) \/ Page!ListLost(i) => tangled'
  BY DEF Page!GetLost, Page!ListLost
<1>12. \A i : Page!ServePoll(i) \/ Page!PollLost(i) => UNCHANGED <<route, lists, rows, tangled>>
  BY DEF Page!ServePoll, Page!PollLost, Page!view
<1>13. ASSUME NEW i, Page!ServeGet(i) \/ Page!GetAnswered(i) PROVE RowsOfRoute'
  <2>1. UNCHANGED <<route, lists, rows>>
    BY <1>13 DEF Page!ServeGet, Page!GetAnswered, Page!view
  <2>2. tangled => tangled'
    BY <1>13, Zenon DEF Page!ServeGet, Page!GetAnswered
  <2>. QED BY <1>2, <2>1, <2>2
<1>14. \A x : Page!Proceed(x) \/ Page!OpenElsewhere(x) \/ Page!ServeRun(x) \/ Page!ServeClone(x) \/ Page!Click(x) =>
              UNCHANGED <<route, lists, rows, tangled>>
  BY DEF Page!Proceed, Page!OpenElsewhere, Page!ServeRun, Page!ServeClone, Page!Click, Page!view
<1>15. Page!ActionLost => tangled'
  BY DEF Page!ActionLost
<1>16. Page!Tick \/ Page!ReadRun \/ Page!ServeToggle \/ Page!ToggleAnswered \/ UNCHANGED Page!vars =>
              UNCHANGED <<route, lists, rows, tangled>>
  BY DEF Page!Tick, Page!ReadRun, Page!ServeToggle, Page!ToggleAnswered, Page!view, Page!vars
<1>. QED
  BY <1>2, <1>3, <1>4, <1>5, <1>7, <1>8, <1>9, <1>10, <1>11, <1>12, <1>13, <1>14, <1>15, <1>16 DEF Page!Next

Ends == Page!TerminalStatuses
Settled == Ends \cup {Page!Unserved}

(* The run is polled: no answer that is not its end can come after one that is. *)
Pending(r) ==
  /\ polling = r /\ timer
  /\ \A i, j \in DOMAIN polls : i < j /\ polls[i].data \in Ends => polls[j].data \in Settled

(* The run is shown with its end, and no answer under way can undo it. *)
Over(r) ==
  /\ polling = NoRun
  /\ DOMAIN polls # {} => status[r] \in Ends
  /\ \A i \in DOMAIN polls : polls[i].data \in Settled
  /\ \A k \in DOMAIN rows : rows[k].run = r => rows[k].status \in Ends

(* A run whose poll is undisturbed is the only one; its polls are served in *)
(* the order they are asked, and once one has read its end the run has it.  *)
Watched(r) ==
  /\ Len(lists) = 0
  /\ \A i \in DOMAIN polls : polls[i].run = r
  /\ \E k \in DOMAIN rows : rows[k].run = r
  /\ \A i, j \in DOMAIN polls : i < j /\ polls[j].data # Page!Unserved => polls[i].data # Page!Unserved
  /\ \A i \in DOMAIN polls : polls[i].data \in Ends => status[r] \in Ends
  /\ Pending(r) \/ Over(r)

Quiet == started \ disturbed

AllWatched == \A r \in Quiet : Watched(r) /\ \A q \in Quiet : q = r

(* Polls keep the run watched, until one has read its end and puts it *)
(* there.                                                             *)
LEMMA WatchedOfPolls ==
  ASSUME Server, Linked, NEW r \in Quiet, Watched(r)
  PROVE  /\ Page!Tick => Watched(r)'
         /\ \A i \in DOMAIN polls : /\ Page!ServePoll(i) => r \in disturbed' \/ Watched(r)'
                                    /\ Page!PollAnswered(i) => r \in disturbed' \/ Watched(r)'
                                    /\ Page!PollLost(i) => Watched(r)'
<1>0. /\ polls \in Seq(PollCall) /\ DOMAIN polls = 1 .. Len(polls) /\ Len(polls) \in Nat
      /\ \A i \in DOMAIN polls : polls[i] \in PollCall /\ polls[i].run = r
      /\ r \in PageRun /\ r # NoRun /\ r \in Opened
  BY LenProperties, ElementOfSeq, PageAssumption DEF Linked, Front, Refers, Watched, Quiet, Opened
<1>1. Page!Unserved \notin Ends
  BY DEF Page!Unserved, Ends, Page!TerminalStatuses
<1>2. ASSUME Page!Tick PROVE Watched(r)'
  <2>1. /\ polls' = Append(polls, Page!Poll(polling)) /\ polling # NoRun
        /\ UNCHANGED <<status, rows, polling, timer, lists>>
    BY <1>2 DEF Page!Tick, Page!server, Page!runs, Page!view
  <2>2. Pending(r) /\ polling = r
    BY <2>1 DEF Watched, Pending, Over
  <2>3. Page!Poll(r) \in PollCall /\ Page!Poll(r).run = r /\ Page!Poll(r).data = Page!Unserved
    BY <1>0, Calling
  <2>4. polls' \in Seq(PollCall) /\ Grown(polls, polls', Page!Poll(r))
    BY <1>0, <2>1, <2>2, <2>3, Growing
  <2>5. /\ DOMAIN polls' = 1 .. Len(polls) + 1
        /\ \A j \in DOMAIN polls' : polls'[j] = IF j \in DOMAIN polls THEN polls[j] ELSE Page!Poll(r)
    BY <1>0, <2>4, LenProperties DEF Grown
  <2>6. \A j \in DOMAIN polls' : polls'[j].run = r /\ (polls'[j].data \in Ends => j \in DOMAIN polls)
    BY <1>0, <1>1, <2>3, <2>5
  <2>7. \A i, j \in DOMAIN polls' : i < j /\ polls'[j].data # Page!Unserved => polls'[i].data # Page!Unserved
    BY <1>0, <2>3, <2>5 DEF Watched
  <2>8. Pending(r)'
    <3>1. ASSUME NEW i \in DOMAIN polls', NEW j \in DOMAIN polls', i < j, polls'[i].data \in Ends
          PROVE  polls'[j].data \in Settled
      BY <1>0, <1>1, <2>2, <2>3, <2>5, <3>1 DEF Pending, Settled
    <3>. QED BY <2>1, <2>2, <3>1 DEF Pending
  <2>. QED BY <2>1, <2>5, <2>6, <2>7, <2>8 DEF Watched
<1>3. ASSUME NEW i \in DOMAIN polls, Page!ServePoll(i) PROVE r \in disturbed' \/ Watched(r)'
  <2> DEFINE q == [polls[i] EXCEPT !.data = status[r]]
  <2>1. /\ polls[i].data = Page!Unserved /\ polls' = [polls EXCEPT ![i] = q]
        /\ UNCHANGED <<status, rows, polling, timer, lists>>
    BY <1>0, <1>3 DEF Page!ServePoll, Page!server, Page!runs, Page!view
  <2>2. q \in PollCall /\ q.run = r /\ q.data = status[r] /\ q.data # Page!Unserved
    BY <1>0 DEF PollCall, Server, Opened, Page!Unserved, Page!Contract!Shown, Page!Contract!Ended
  <2> SUFFICES ASSUME r \notin disturbed' PROVE Watched(r)'
    OBVIOUS
  <2>3. \A j \in DOMAIN polls : j < i => polls[j].data # Page!Unserved
    BY <1>0, <1>3 DEF Page!ServePoll, Page!Before
  <2>4. \A j \in DOMAIN polls : i < j => polls[j].data = Page!Unserved
    BY <2>1 DEF Watched
  <2> HIDE DEF q
  <2>5. polls' \in Seq(PollCall) /\ Replaced(polls, polls', i, q)
    BY <1>0, <2>1, <2>2, Replacing
  <2>6. /\ DOMAIN polls' = DOMAIN polls
        /\ \A j \in DOMAIN polls : polls'[j] = IF j = i THEN q ELSE polls[j]
    BY <1>0, <2>5, LenProperties DEF Replaced
  <2>7. \A j, k \in DOMAIN polls' : j < k /\ polls'[k].data # Page!Unserved => polls'[j].data # Page!Unserved
    BY <1>0, <2>2, <2>3, <2>4, <2>6 DEF Watched
  <2>8. \A j \in DOMAIN polls' : polls'[j].run = r /\ (polls'[j].data \in Ends => status[r] \in Ends)
    BY <1>0, <2>2, <2>6 DEF Watched
  <2>9. Pending(r) => Pending(r)'
    <3>1. ASSUME Pending(r), NEW j \in DOMAIN polls', NEW k \in DOMAIN polls', j < k, polls'[j].data \in Ends
          PROVE  polls'[k].data \in Settled
      <4>1. CASE k = i
        BY <2>2, <2>6, <2>8, <3>1, <4>1 DEF Settled
      <4>2. CASE j = i
        BY <1>0, <2>4, <2>6, <3>1, <4>2 DEF Settled
      <4>3. CASE j # i /\ k # i
        BY <2>6, <3>1, <4>3 DEF Pending
      <4>. QED BY <4>1, <4>2, <4>3
    <3>. QED BY <2>1, <3>1 DEF Pending
  <2>10. Over(r) => Over(r)'
    BY <2>1, <2>2, <2>6 DEF Over, Settled
  <2>. QED BY <2>1, <2>7, <2>8, <2>9, <2>10 DEF Watched
<1>4. ASSUME NEW i \in DOMAIN polls, polls' = Page!RemoveAt(polls, i)
      PROVE  /\ \A j \in DOMAIN polls' : \E k \in DOMAIN polls : k # i /\ polls'[j] = polls[k]
             /\ \A j1, j2 \in DOMAIN polls' : j1 < j2 =>
                  \E k1, k2 \in DOMAIN polls : k1 < k2 /\ k1 # i /\ k2 # i /\ polls'[j1] = polls[k1] /\ polls'[j2] = polls[k2]
             /\ DOMAIN polls # {}
  <2>1. polls' \in Seq(PollCall) /\ Shrunk(polls, polls', i)
    BY <1>0, <1>4, Shrinking
  <2>2. polls \in Seq(PollCall)
    BY <1>0
  <2>. QED BY <2>1, <2>2, Remaining
<1>5. ASSUME NEW i \in DOMAIN polls, polls' = Page!RemoveAt(polls, i), UNCHANGED status
      PROVE  /\ \A j \in DOMAIN polls' : polls'[j].run = r
             /\ \A j, k \in DOMAIN polls' : j < k /\ polls'[k].data # Page!Unserved => polls'[j].data # Page!Unserved
             /\ \A j \in DOMAIN polls' : polls'[j].data \in Ends => status'[r] \in Ends
  <2>1. \A j \in DOMAIN polls' : \E k \in DOMAIN polls : k # i /\ polls'[j] = polls[k]
    BY <1>4, <1>5
  <2>2. ASSUME NEW j \in DOMAIN polls', NEW k \in DOMAIN polls', j < k, polls'[k].data # Page!Unserved
        PROVE  polls'[j].data # Page!Unserved
    <3>1. PICK k1, k2 \in DOMAIN polls : k1 < k2 /\ polls'[j] = polls[k1] /\ polls'[k] = polls[k2]
      BY <1>4, <1>5, <2>2
    <3>. QED BY <2>2, <3>1 DEF Watched
  <2>. QED BY <1>0, <1>5, <2>1, <2>2 DEF Watched
<1>6. ASSUME NEW i \in DOMAIN polls, Page!PollAnswered(i) PROVE r \in disturbed' \/ Watched(r)'
  <2> DEFINE s == polls[i].data
  <2>1. /\ s # Page!Unserved /\ s \in Page!Contract!Shown /\ rows' = Page!Updated(r, s)
        /\ polling' = (IF s \in Ends THEN NoRun ELSE polling)
        /\ polls' = Page!RemoveAt(polls, i) /\ UNCHANGED <<status, lists>>
    BY <1>0, <1>6 DEF Page!PollAnswered, PollCall, Page!server, Page!runs, Ends
  <2>0. s \notin Ends /\ timer => timer'
    BY <1>6, Zenon DEF Page!PollAnswered, Ends
  <2> SUFFICES ASSUME r \notin disturbed' PROVE Watched(r)'
    OBVIOUS
  <2>2. i = 1
    BY <1>0, <1>6 DEF Page!PollAnswered
  <2>3. /\ DOMAIN rows' = DOMAIN rows
        /\ \A k \in DOMAIN rows : /\ rows'[k].run = rows[k].run
                                  /\ rows'[k].status = IF rows[k].run = r THEN s ELSE rows[k].status
    BY <1>0, <2>1, Updating DEF Linked
  <2>4. /\ \A j \in DOMAIN polls' : polls'[j].run = r
        /\ \A j, k \in DOMAIN polls' : j < k /\ polls'[k].data # Page!Unserved => polls'[j].data # Page!Unserved
        /\ \A j \in DOMAIN polls' : polls'[j].data \in Ends => status'[r] \in Ends
    BY <1>5, <2>1
  <2>5. \E k \in DOMAIN rows' : rows'[k].run = r
    BY <2>3 DEF Watched
  <2>6. CASE s \in Ends
    <3>1. \A k \in DOMAIN rows' : rows'[k].run = r => rows'[k].status \in Ends
      BY <2>3, <2>6
    <3>2. polling' = NoRun /\ status'[r] \in Ends
      BY <2>1, <2>6 DEF Watched
    <3>3. \A k \in DOMAIN polls : k # i => polls[k].data \in Settled
      BY <1>0, <2>2, <2>6 DEF Watched, Pending, Over
    <3>4. \A j \in DOMAIN polls' : polls'[j].data \in Settled
      BY <1>4, <2>1, <3>3
    <3>5. Over(r)'
      BY <3>1, <3>2, <3>4 DEF Over
    <3>. QED BY <2>1, <2>4, <2>5, <3>5 DEF Watched
  <2>7. CASE s \notin Ends
    <3>1. Pending(r)
      BY <2>1, <2>7 DEF Watched, Over, Settled
    <3>2. polling' = r /\ timer'
      BY <2>0, <2>1, <2>7, <3>1 DEF Pending
    <3>3. ASSUME NEW j \in DOMAIN polls', NEW k \in DOMAIN polls', j < k, polls'[j].data \in Ends
          PROVE  polls'[k].data \in Settled
      <4>1. PICK k1, k2 \in DOMAIN polls : k1 < k2 /\ polls'[j] = polls[k1] /\ polls'[k] = polls[k2]
        BY <1>4, <2>1, <3>3
      <4>. QED BY <3>1, <3>3, <4>1 DEF Pending
    <3>4. Pending(r)'
      BY <3>2, <3>3 DEF Pending
    <3>. QED BY <2>1, <2>4, <2>5, <3>4 DEF Watched
  <2>. QED BY <2>6, <2>7
<1>7. ASSUME NEW i \in DOMAIN polls, Page!PollLost(i) PROVE Watched(r)'
  <2>1. polls' = Page!RemoveAt(polls, i) /\ UNCHANGED <<status, lists, rows, polling, timer>>
    BY <1>7 DEF Page!PollLost, Page!server, Page!runs, Page!view
  <2>2. /\ \A j \in DOMAIN polls' : polls'[j].run = r
        /\ \A j, k \in DOMAIN polls' : j < k /\ polls'[k].data # Page!Unserved => polls'[j].data # Page!Unserved
        /\ \A j \in DOMAIN polls' : polls'[j].data \in Ends => status'[r] \in Ends
    BY <1>5, <2>1
  <2>3. Pending(r) => Pending(r)'
    <3>1. ASSUME Pending(r), NEW j \in DOMAIN polls', NEW k \in DOMAIN polls', j < k, polls'[j].data \in Ends
          PROVE  polls'[k].data \in Settled
      <4>1. PICK k1, k2 \in DOMAIN polls : k1 < k2 /\ polls'[j] = polls[k1] /\ polls'[k] = polls[k2]
        BY <1>4, <2>1, <3>1
      <4>. QED BY <3>1, <4>1 DEF Pending
    <3>. QED BY <2>1, <3>1 DEF Pending
  <2>4. Over(r) => Over(r)'
    <3>1. (\A j \in DOMAIN polls' : \E k \in DOMAIN polls : polls'[j] = polls[k]) /\ DOMAIN polls # {}
      BY <1>4, <2>1
    <3>. QED BY <2>1, <3>1 DEF Over
  <2>. QED BY <2>1, <2>2, <2>3, <2>4 DEF Watched
<1>. QED BY <1>2, <1>3, <1>6, <1>7

(* A run that is started, when the page learns of it, is watched. *)
LEMMA WatchedOfRunAnswered ==
  ASSUME Server, Linked, AllWatched, Page!RunAnswered
  PROVE  AllWatched'
<1> DEFINE due == act.data \notin Ends
<1>1. /\ polling' = (IF due THEN act.run ELSE polling)
      /\ started' = (IF due THEN started \cup {act.run} ELSE started)
      /\ disturbed' = disturbed \cup (IF due THEN started ELSE {})
                                \cup (IF polls # <<>> \/ lists # <<>> THEN {act.run} ELSE {})
      /\ Page!SetRuns(Topped(act.run, act.data), polls)
      /\ UNCHANGED <<status, lists>> /\ act.at = "served" /\ act.call = "run"
  BY DEF Page!RunAnswered, Page!server, Page!runs, Topped, Ends
<1>2. /\ act.run \in PageRun /\ act.run # NoRun /\ act.data \in Page!Contract!Shown /\ Front
      /\ polls \in Seq(PollCall) /\ lists \in Seq(ListCall)
  BY <1>1, PageAssumption DEF Linked, Acting, Opened, Front
<1> DEFINE new == Topped(act.run, act.data)
<1>9. new = Topped(act.run, act.data)
  OBVIOUS
<1> HIDE DEF new
<1>3. /\ Len(new) # Len(rows) /\ 1 \in DOMAIN new /\ new[1].run = act.run /\ new[1].status = act.data
      /\ \A j \in DOMAIN new : new[j] = new[1] \/ \E k \in DOMAIN rows : new[j] = rows[k]
      /\ \A k \in DOMAIN rows : \E j \in DOMAIN new : new[j] = rows[k]
  BY <1>2, <1>9, Prepending
<1>4. /\ rows' = new /\ timer' = (polling' # NoRun)
      /\ polls' = [i \in DOMAIN polls |-> [polls[i] EXCEPT !.own = FALSE]]
  BY <1>1, <1>9, <1>3 DEF Page!SetRuns
<1>5. DOMAIN polls' = DOMAIN polls /\ \A j \in DOMAIN polls : polls'[j].run = polls[j].run /\ polls'[j].data = polls[j].data
  BY <1>2, <1>4, Detaching
<1>6. CASE due
  <2>1. Quiet' \subseteq {act.run}
    BY <1>1, <1>6 DEF Quiet
  <2>2. ASSUME NEW r \in Quiet' PROVE Watched(r)'
    <3>1. r = act.run /\ polls = <<>> /\ lists = <<>>
      BY <1>1, <2>1 DEF Quiet
    <3>2. DOMAIN polls' = {} /\ Len(lists') = 0
      BY <1>1, <1>5, <3>1, Calling
    <3>3. polling' = r /\ r # NoRun
      BY <1>1, <1>2, <1>6, <3>1
    <3>4. timer'
      BY <1>4, <3>3, Zenon
    <3>5. Pending(r)'
      BY <3>2, <3>3, <3>4 DEF Pending
    <3>6. \E k \in DOMAIN rows' : rows'[k].run = r
      BY <1>3, <1>4, <3>1
    <3>. QED BY <3>2, <3>5, <3>6 DEF Watched
  <2>. QED BY <2>1, <2>2 DEF AllWatched
<1>7. CASE ~due
  <2>1. Quiet' \subseteq Quiet /\ polling' = polling
    BY <1>1, <1>7 DEF Quiet
  <2>2. ASSUME NEW r \in Quiet, Watched(r), r \in PageRun PROVE Watched(r)'
    <3>1. \E k \in DOMAIN rows' : rows'[k].run = r
      BY <1>3, <1>4, <2>2 DEF Watched
    <3>2. \A k \in DOMAIN rows' : rows'[k].status \in Ends \/ \E j \in DOMAIN rows : rows'[k] = rows[j]
      BY <1>3, <1>4, <1>7
    <3>3. /\ Len(lists') = 0
          /\ \A i \in DOMAIN polls' : polls'[i].run = r
          /\ \A i, j \in DOMAIN polls' : i < j /\ polls'[j].data # Page!Unserved => polls'[i].data # Page!Unserved
          /\ \A i \in DOMAIN polls' : polls'[i].data \in Ends => status'[r] \in Ends
      BY <1>1, <1>5, <2>2 DEF Watched
    <3>4. Pending(r) => Pending(r)'
      <4>1. r # NoRun
        BY <2>2, PageAssumption
      <4>2. ASSUME Pending(r) PROVE polling' = r /\ timer'
        BY <1>4, <2>1, <4>1, <4>2 DEF Pending
      <4>. QED BY <1>5, <4>2 DEF Pending
    <3>5. Over(r) => Over(r)'
      BY <1>1, <1>5, <2>1, <3>2 DEF Over
    <3>. QED BY <2>2, <3>1, <3>3, <3>4, <3>5 DEF Watched
  <2>3. Quiet \subseteq PageRun
    BY DEF Quiet, Linked, Front
  <2>. QED BY <2>1, <2>2, <2>3 DEF AllWatched
<1>. QED BY <1>6, <1>7

(* Whatever else happens makes the run watched no more only as disturbed. *)
LEMMA AllWatchedSteps ==
  ASSUME Server, Linked, AllWatched, [Page!Next]_(Page!vars)
  PROVE  AllWatched'
<1>0. /\ Quiet \subseteq Opened /\ Opened \subseteq PageRun
      /\ lists \in Seq(ListCall) /\ DOMAIN lists = 1 .. Len(lists)
  BY LenProperties DEF Quiet, Linked, Front, Refers, Opened
<1>1. ASSUME UNCHANGED started, disturbed \subseteq disturbed',
             \A r \in Quiet : Watched(r) /\ r \notin disturbed' => Watched(r)'
      PROVE  AllWatched'
  <2>1. Quiet' \subseteq Quiet /\ \A r \in Quiet' : r \notin disturbed'
    BY <1>1 DEF Quiet
  <2>. QED BY <1>1, <2>1 DEF AllWatched
<1>2. ASSUME NEW r \in Quiet, Watched(r), UNCHANGED <<rows, polling, timer, polls, lists>>, status'[r] = status[r]
      PROVE  Watched(r)'
  BY <1>2 DEF Watched, Pending, Over
<1>3. ASSUME UNCHANGED <<rows, polling, timer, polls, lists, status, started, disturbed>> PROVE AllWatched'
  BY <1>1, <1>2, <1>3
<1>4. ASSUME NEW p \in PageRun, Page!Proceed(p) PROVE AllWatched'
  <2>1. /\ UNCHANGED <<rows, polling, timer, polls, lists, started>> /\ disturbed \subseteq disturbed'
        /\ status[p] \in Ends /\ status'[p] \notin Ends /\ (\E i \in DOMAIN polls : polls[i].run = p)
             => p \in disturbed'
        /\ \A r \in PageRun \ {p} : status'[r] = status[r]
    BY <1>4 DEF Page!Proceed, Page!view, Ends, Page!Contract!Keep, Page!Contract!Show, Server
  <2>2. ASSUME NEW r \in Quiet, Watched(r), r \notin disturbed' PROVE Watched(r)'
    <3>1. CASE r # p
      BY <1>0, <1>2, <2>1, <2>2, <3>1
    <3>2. CASE r = p
      <4>1. DOMAIN polls # {} /\ status[r] \in Ends => status'[r] \in Ends
        BY <2>1, <2>2, <3>2 DEF Watched
      <4>. QED BY <2>1, <2>2, <4>1 DEF Watched, Pending, Over
    <3>. QED BY <3>1, <3>2
  <2>. QED BY <1>1, <2>1, <2>2
<1>5. ASSUME NEW p \in PageRun, Page!OpenElsewhere(p) \/ Page!ServeRun(p) PROVE AllWatched'
  <2>1. UNCHANGED <<rows, polling, timer, polls, lists, started, disturbed>> /\ Page!Contract!Open(p)
    BY <1>5 DEF Page!OpenElsewhere, Page!ServeRun, Page!Open, Page!view, Page!poller
  <2>2. \A r \in Opened : status'[r] = status[r]
    BY <2>1 DEF Page!Contract!Open, Server, Opened
  <2>. QED BY <1>0, <1>1, <1>2, <2>1, <2>2
<1>6. ASSUME Page!Tick \/ (\E i \in DOMAIN polls : Page!ServePoll(i) \/ Page!PollAnswered(i) \/ Page!PollLost(i))
      PROVE  AllWatched'
  <2>1. UNCHANGED started /\ disturbed \subseteq disturbed'
    BY <1>6 DEF Page!Tick, Page!ServePoll, Page!PollAnswered, Page!PollLost
  <2>. QED BY <1>1, <1>6, <2>1, WatchedOfPolls
<1>7. ASSUME NEW i \in DOMAIN lists, UNCHANGED <<started, disturbed>> PROVE AllWatched'
  <2>1. \A r \in Quiet : ~Watched(r)
    BY <1>0, <1>7 DEF Watched
  <2>2. Quiet = {}
    BY <2>1 DEF AllWatched
  <2>. QED BY <1>1, <1>7, <2>2
<1>8. ASSUME UNCHANGED started, disturbed' = disturbed \cup started PROVE AllWatched'
  BY <1>8 DEF AllWatched, Quiet
<1>9. \A i : Page!ServeList(i) \/ Page!ListAnswered(i) \/ Page!ListLost(i) => UNCHANGED <<started, disturbed>>
  BY DEF Page!ServeList, Page!ListAnswered, Page!ListLost, Page!poller
<1>10. /\ \A p : Page!GoTo(p) => UNCHANGED started /\ disturbed' = disturbed \cup started
       /\ Page!CloneAnswered => UNCHANGED started /\ disturbed' = disturbed \cup started
  BY DEF Page!GoTo, Page!CloneAnswered
<1>11. \A x : Page!ServeGet(x) \/ Page!GetAnswered(x) \/ Page!GetLost(x) \/ Page!ServeClone(x) \/ Page!Click(x) =>
              UNCHANGED <<rows, polling, timer, polls, lists, status, started, disturbed>>
  BY DEF Page!ServeGet, Page!GetAnswered, Page!GetLost, Page!ServeClone, Page!Click,
     Page!server, Page!runs, Page!view, Page!poller
<1>12. Page!ReadRun \/ Page!ServeToggle \/ Page!ToggleAnswered \/ Page!ActionLost \/ UNCHANGED Page!vars =>
              UNCHANGED <<rows, polling, timer, polls, lists, status, started, disturbed>>
  BY DEF Page!ReadRun, Page!ServeToggle, Page!ToggleAnswered, Page!ActionLost, Page!vars,
     Page!server, Page!runs, Page!view, Page!poller
<1>. QED
  BY <1>3, <1>4, <1>5, <1>6, <1>7, <1>8, <1>9, <1>10, <1>11, <1>12, WatchedOfRunAnswered DEF Page!Next

(* Everything the properties of the page rest on. *)
PageInvariant == Server /\ Linked /\ PipelineOfRoute /\ RowsOfRoute /\ AllWatched

(* What is true of the page at any time. *)
LEMMA PageKeepsInvariant == Page!Spec => []PageInvariant
<1>1. Page!Init => PageInvariant
  <2> SUFFICES ASSUME Page!Init PROVE PageInvariant
    OBVIOUS
  <2>1. Server
    BY PageAssumption DEF Page!Init, Page!Contract!ContractInit, Server, Page!Known, Switch
  <2>2. Front
    <3>1. \A S : <<>> \in Seq(S)
      OBVIOUS
    <3>2. shown \in [id : Pipeline \cup {NoPipeline}, switch : Switch]
      BY DEF Page!Init, Switch
    <3>3. rows = <<>> /\ gets = <<>> /\ lists = <<>> /\ polls = <<>> /\ act \in Button
      BY Calling DEF Page!Init
    <3>. QED BY <3>1, <3>2, <3>3 DEF Page!Init, Front
  <2>3. Refers /\ Acting /\ Busy
    BY Calling, PageAssumption DEF Page!Init, Refers, Acting, Busy
  <2>4. PipelineOfRoute /\ RowsOfRoute /\ AllWatched
    BY DEF Page!Init, PipelineOfRoute, RowsOfRoute, AllWatched, Quiet
  <2>. QED BY <2>1, <2>2, <2>3, <2>4 DEF PageInvariant, Linked
<1>2. PageInvariant /\ [Page!Next]_(Page!vars) => PageInvariant'
  BY LinkedSteps, PipelineOfRouteSteps, RowsOfRouteSteps, AllWatchedSteps DEF PageInvariant
<1>. QED BY <1>1, <1>2, PTL DEF Page!Spec

(* The page is about its route and what it has started is polled or shown  *)
(* with its end, for any pipelines and runs and however many clicks, calls *)
(* and answers in any order.                                               *)
THEOREM PageStaysInStep == Page!Spec => []PageIsInStep
<1>1. PageInvariant => PageIsInStep
  <2> SUFFICES ASSUME PageInvariant PROVE PageIsInStep
    OBVIOUS
  <2>1. ASSUME route # NoPipeline, ~tangled, gets = <<>>, lists = <<>>, act.at = "none"
        PROVE  /\ shown = [id |-> route, switch |-> switch[route]]
               /\ \A i \in DOMAIN rows : of[rows[i].run] = route
    <3>1. Len(gets) = 0 /\ Len(lists) = 0 /\ ~Toggled
      BY <2>1 DEF Toggled
    <3>2. shown.id = route /\ shown.switch = switch[route] /\ AllOf(rows, route)
      BY <2>1, <3>1 DEF PageInvariant, PipelineOfRoute, RowsOfRoute
    <3>. QED BY <3>2 DEF AllOf, PageInvariant, Linked, Front
  <2>2. Page!PageIsOfItsRoute
    BY <2>1 DEF Page!PageIsOfItsRoute
  <2>3. Page!StartedRunIsWatched
    BY DEF PageInvariant, AllWatched, Watched, Quiet, Pending, Over, Ends, Page!StartedRunIsWatched, Page!RowsOf
  <2>. QED BY <2>2, <2>3 DEF PageIsInStep, Page!PageIsInStep
<1>. QED BY <1>1, PageKeepsInvariant, PTL

(* The types are part of it. *)
LEMMA PageTypes == PageInvariant => Page!TypeOK
<1> SUFFICES ASSUME PageInvariant PROVE Page!TypeOK
  OBVIOUS
<1>1. Server /\ Front /\ Refers /\ Busy
  BY DEF PageInvariant, Linked
<1>2. \A i \in DOMAIN rows : rows[i].run \in PageRun /\ rows[i].status \in Page!Contract!Shown
  <2>1. \A i \in DOMAIN rows : rows[i] \in PageRow
    BY <1>1, ElementOfSeq, LenProperties DEF Front
  <2>. QED BY <2>1 DEF PageRow
<1>3. \A i \in DOMAIN polls : polls[i].data \in {Page!Unserved} \cup Page!Contract!Shown
  <2>1. \A i \in DOMAIN polls : polls[i] \in PollCall
    BY <1>1, ElementOfSeq, LenProperties DEF Front
  <2>. QED BY <2>1 DEF PollCall
<1>. QED BY <1>1, <1>2, <1>3 DEF Page!TypeOK, Server, Front, Refers, Busy

(* The types are part of the shape, for Session as for Browser. *)
LEMMA BrowserTypes == Shape => Session!TypeOK
<1> SUFFICES ASSUME Shape PROVE Session!TypeOK
  OBVIOUS
<1>1. Session!Token = Browser!Token /\ Session!Slot = Browser!Slot /\ Session!Call = Browser!Call
  BY DEF Session!Token, Browser!Token, Session!Slot, Browser!Slot, Session!Call, Browser!Call
<1>2. \A t \in Tab : Session!Waiting(t) # {} <=> Session!Renewing(t)
  BY <1>1 DEF Shape, Resumed, Session!Waiting, Session!Renewing
<1>. QED BY <1>1, <1>2 DEF Shape, Types, Loading, Exchange, Session!TypeOK

(* The types of tabs and page, and who loads, waits or is busy: nobody for *)
(* longer than an answer is due.                                           *)
THEOREM PartsAreTyped == Browser!Spec /\ Page!Spec => []PartsTypeOK
<1>1. Shape /\ PageInvariant => PartsTypeOK
  BY BrowserTypes, PageTypes DEF PartsTypeOK
<1>. QED
  BY <1>1, BrowserInvariant, PageKeepsInvariant, PTL
=============================================================================
