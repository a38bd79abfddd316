--------------------------------- MODULE Api ---------------------------------
(***************************************************************************)
(* The HTTP layer: the routes (api/router/router.go), the handlers         *)
(* (api/handler/user.go, push.go) and the rpcx client they call logic      *)
(* with (api/rpc/rpc.go).  A request is a chain of calls: the middleware   *)
(* checks the session, the handler may check it again, and then acts.      *)
(* A call that fails leaves the zero value in the reply, whose code is     *)
(* that of a success, and a call whose connection breaks is sent again     *)
(* (client.Failtry) while the first may still run.                         *)
(*                                                                         *)
(* What logic does in a call is one step here; Auth and Presence take the  *)
(* handlers of logic apart.                                                *)
(***************************************************************************)
EXTENDS Integers, Sequences, FiniteSets

CONSTANTS
  Requests,   \* HTTP requests
  Routes,     \* the routes clients use, see Plan
  Users,      \* user ids
  Known,      \* the users with an account and a session in the beginning
  NoUser,     \* the zero value of a user id and name
  Nil,        \* nothing yet
  MaxRetry,   \* client.Option.Retries
  MaxFault    \* bound: calls that fail, connections that break

\* The calls of a route, in order; Guard is the CheckAuth of the middleware.
Plan == [login       |-> <<"Login">>,
         register    |-> <<"Register">>,
         checkAuth   |-> <<"Guard", "CheckAuth">>,
         logout      |-> <<"Guard", "Logout">>,
         push        |-> <<"Guard", "GetUserInfoByUserId", "CheckAuth", "Push">>,
         pushRoom    |-> <<"Guard", "CheckAuth", "PushRoom">>,
         count       |-> <<"Guard", "Count">>,
         getRoomInfo |-> <<"Guard", "GetRoomInfo">>]

ASSUME ApiAssumption ==
  /\ IsFiniteSet(Requests) /\ IsFiniteSet(Users) /\ Known \subseteq Users /\ NoUser \notin Users
  /\ Nil \notin {"ok", "fail", "session"}
  /\ Routes \subseteq DOMAIN Plan
  /\ MaxRetry \in Nat /\ MaxFault \in Nat

\* Tokens are random texts: the n-th one made is n.  No request makes more than one
\* with every attempt.
NoToken == 0
Tokens  == 1 .. Cardinality(Users) + Cardinality(Requests) * (MaxRetry + 1)

\* A reply: code, and the user or the token in it.  A reply nobody filled in is Zero.
Success == 0
Fail    == 1
Replies == [code : {Success, Fail}, user : Users \cup {NoUser}, token : Tokens \cup {NoToken}]
Reply(code, user, token) == [code |-> code, user |-> user, token |-> token]
Zero    == Reply(0, NoUser, NoToken)
Refusal == Reply(Fail, NoUser, NoToken)

VARIABLES
  accounts,   \* the user table
  minted,     \* tokens made
  owner,      \* the user of a token
  alive,      \* tokens whose session is set
  current,    \* Redis: sess_map_<user>
  asked,      \* a request: route, token, user to log in or register
  step,       \* the call of its plan it waits for; 0 before it arrives
  tries,      \* attempts of that call
  wire,       \* attempts logic has not run yet
  reply,      \* the answer on its way back
  found,      \* the user the handler has found with CheckAuth
  got,        \* the token of a login or register
  answer,     \* what the client is told
  sent,       \* history: the senders of what logic published for a request
  failed,     \* history: requests one of whose calls failed
  barred,     \* history: requests whose token had no session when they arrived
  faults

logicVars == <<accounts, minted, owner, alive, current, sent>>
callVars  == <<step, tries, wire, reply>>
vars == <<logicVars, callVars, asked, found, got, answer, failed, barred, faults>>

Init ==
  /\ accounts = Known /\ minted = Cardinality(Known)
  /\ \E f \in [Known -> 1 .. minted] :
       /\ \A v, w \in Known : v # w => f[v] # f[w]
       /\ owner = [t \in Tokens |-> IF t <= minted THEN CHOOSE u \in Known : f[u] = t ELSE Nil]
       /\ current = [u \in Users |-> IF u \in Known THEN f[u] ELSE NoToken]
  /\ alive = 1 .. minted
  /\ asked = [q \in Requests |-> Nil] /\ answer = [q \in Requests |-> Nil]
  /\ step = [q \in Requests |-> 0] /\ tries = [q \in Requests |-> 0]
  /\ wire = {} /\ reply = [q \in Requests |-> Nil]
  /\ found = [q \in Requests |-> NoUser] /\ got = [q \in Requests |-> NoToken]
  /\ sent = [q \in Requests |-> <<>>] /\ failed = {} /\ barred = {} /\ faults = 0
-------------------------------------------------------------------------------
PlanOf(q)  == Plan[asked[q].route]
Now(q)     == PlanOf(q)[step[q]]
Waiting(q) == step[q] > 0 /\ answer[q] = Nil
Guarded(route) == Plan[route][1] = "Guard"

\* The client makes a call for request q, the n-th of its plan.
CallOut(q, n) ==
  /\ step' = [step EXCEPT ![q] = n]
  /\ tries' = [tries EXCEPT ![q] = 1]
  /\ wire' = wire \cup {[req |-> q, step |-> n, try |-> 1]}
  /\ reply' = [reply EXCEPT ![q] = Nil]

\* A request with a well-formed body: a token somebody was given, or a user's name.
Arrive(q, route, t, u) ==
  /\ step[q] = 0
  /\ IF Guarded(route) THEN t \in 1 .. minted /\ u = NoUser ELSE t = NoToken /\ u \in Users
  /\ asked' = [asked EXCEPT ![q] = [route |-> route, token |-> t, user |-> u]]
  /\ barred' = IF Guarded(route) /\ t \notin alive THEN barred \cup {q} ELSE barred
  /\ CallOut(q, 1)
  /\ UNCHANGED <<logicVars, found, got, answer, failed, faults>>
-------------------------------------------------------------------------------
(* Logic runs a call. *)

\* Logic answers attempt m; an answer to an attempt that was given up is dropped.
Return(m, r) ==
  LET q == m.req IN
  /\ wire' = wire \ {m}
  /\ reply' = IF Waiting(q) /\ step[q] = m.step /\ tries[q] = m.try THEN [reply EXCEPT ![q] = r] ELSE reply
  /\ UNCHANGED <<step, tries, asked, found, got, answer, barred>>

Method(m) == PlanOf(m.req)[m.step]
Does(m, methods) == m \in wire /\ Method(m) \in methods

ServeCheckAuth(m) ==
  LET t == asked[m.req].token IN
  /\ Does(m, {"Guard", "CheckAuth"})
  /\ Return(m, IF t \in alive THEN Reply(Success, owner[t], NoToken) ELSE Refusal)
  /\ UNCHANGED <<logicVars, failed, faults>>

ServeUserInfo(m) ==
  /\ Does(m, {"GetUserInfoByUserId"})
  /\ Return(m, Reply(Success, NoUser, NoToken))
  /\ UNCHANGED <<logicVars, failed, faults>>

\* A new session of user u; Login also names it in sess_map and ends the old one.
Mint(m, u) ==
  /\ minted' = minted + 1
  /\ owner' = [owner EXCEPT ![minted'] = u]
  /\ Return(m, Reply(Success, NoUser, minted'))

ServeLogin(m) ==
  LET u == asked[m.req].user IN
  /\ Does(m, {"Login"}) /\ u \in accounts
  /\ Mint(m, u)
  /\ alive' = (alive \ {current[u]}) \cup {minted'}
  /\ current' = [current EXCEPT ![u] = minted']
  /\ UNCHANGED <<accounts, sent, failed, faults>>

ServeRegister(m) ==
  LET u == asked[m.req].user IN
  /\ Does(m, {"Register"}) /\ u \notin accounts
  /\ accounts' = accounts \cup {u}
  /\ Mint(m, u)
  /\ alive' = alive \cup {minted'}
  /\ UNCHANGED <<current, sent, failed, faults>>

ServeLogout(m) ==
  LET t == asked[m.req].token IN
  /\ Does(m, {"Logout"})
  /\ IF t \in alive
     THEN /\ alive' = alive \ {t}
          /\ current' = [current EXCEPT ![owner[t]] = NoToken]
          /\ Return(m, Reply(Success, NoUser, NoToken))
     ELSE Return(m, Refusal) /\ UNCHANGED <<alive, current>>
  /\ UNCHANGED <<accounts, minted, owner, sent, failed, faults>>

\* Push, PushRoom, Count, GetRoomInfo publish.
ServePublish(m) ==
  /\ Does(m, {"Push", "PushRoom", "Count", "GetRoomInfo"})
  /\ sent' = [sent EXCEPT ![m.req] = Append(@, found[m.req])]
  /\ Return(m, Reply(Success, NoUser, NoToken))
  /\ UNCHANGED <<accounts, minted, owner, alive, current, failed, faults>>

\* The handler returns an error before it has done anything: Redis or the database
\* fails, the password is wrong, the name is taken, the room is empty.  The reply is
\* what the rpcx client makes of it; Failtry does not try again.
ServeError(m, r) ==
  /\ m \in wire /\ r \in {Zero, Refusal}
  /\ IF \/ Method(m) = "Login" /\ asked[m.req].user \notin accounts
        \/ Method(m) = "Register" /\ asked[m.req].user \in accounts
     THEN UNCHANGED faults ELSE faults < MaxFault /\ faults' = faults + 1
  /\ Return(m, r)
  /\ failed' = failed \cup {m.req}
  /\ UNCHANGED logicVars
-------------------------------------------------------------------------------
(* The client and the handlers. *)

\* The connection breaks.  The attempt, or its answer, is lost, or logic has it and
\* will run it.  Failtry sends it again, and returns an error in the end.
GivenUp_Hanging == Nil
GivenUp == Zero
Exhausted_Late(q) == tries[q] > MaxRetry + 1
Exhausted(q) == tries[q] > MaxRetry
Attempt(q, n) == [req |-> q, step |-> step[q], try |-> n]
Break(q) ==
  /\ Waiting(q) /\ reply[q] # Zero /\ faults < MaxFault
  /\ faults' = faults + 1
  /\ \E kept \in {wire, wire \ {Attempt(q, tries[q])}} :
       IF Exhausted(q)
       THEN /\ wire' = kept
            /\ tries' = tries
            /\ reply' = [reply EXCEPT ![q] = GivenUp]
            /\ failed' = failed \cup {q}
       ELSE /\ wire' = kept \cup {Attempt(q, tries[q] + 1)}
            /\ tries' = [tries EXCEPT ![q] = @ + 1]
            /\ reply' = [reply EXCEPT ![q] = Nil]
            /\ failed' = failed
  /\ UNCHANGED <<logicVars, step, asked, found, got, answer, barred>>

\* What the middleware and the handlers look at in a reply.
Passes_CodeOnly(r) == r.code # Fail
Passes(r) == r.code # Fail /\ r.user # NoUser
HasToken_CodeOnly(r) == r.code # Fail
HasToken(r) == r.code # Fail /\ r.token # NoToken
Refused_Never(r) == FALSE
Refused(r) == r.code = Fail
Accepted(q) == CASE Now(q) = "Guard" -> Passes(reply[q])
                 [] Now(q) \in {"Login", "Register"} -> HasToken(reply[q])
                 [] OTHER -> ~Refused(reply[q])

\* The request is answered: a failed guard is a session error.
Refuse(q) ==
  /\ reply[q] # Nil /\ Waiting(q) /\ ~Accepted(q)
  /\ answer' = [answer EXCEPT ![q] = IF Now(q) = "Guard" THEN "session" ELSE "fail"]
  /\ UNCHANGED <<logicVars, callVars, asked, found, got, failed, barred, faults>>

Found(q) == IF Now(q) = "CheckAuth" THEN [found EXCEPT ![q] = reply[q].user] ELSE found

Succeed(q) ==
  /\ reply[q] # Nil /\ Waiting(q) /\ Accepted(q) /\ step[q] = Len(PlanOf(q))
  /\ answer' = [answer EXCEPT ![q] = "ok"]
  /\ got' = [got EXCEPT ![q] = reply[q].token]
  /\ found' = Found(q)
  /\ UNCHANGED <<logicVars, callVars, asked, failed, barred, faults>>

Continue(q) ==
  /\ reply[q] # Nil /\ Waiting(q) /\ Accepted(q) /\ step[q] < Len(PlanOf(q))
  /\ found' = Found(q)
  /\ CallOut(q, step[q] + 1)
  /\ UNCHANGED <<logicVars, asked, got, answer, failed, barred, faults>>
-------------------------------------------------------------------------------
Serve(m) == \/ ServeCheckAuth(m) \/ ServeUserInfo(m) \/ ServeLogin(m) \/ ServeRegister(m)
            \/ ServeLogout(m) \/ ServePublish(m)

Handle(q) == Refuse(q) \/ Succeed(q) \/ Continue(q)

Next ==
  \/ \E q \in Requests : \/ \E route \in Routes, t \in Tokens \cup {NoToken}, u \in Users \cup {NoUser} :
                              Arrive(q, route, t, u)
                         \/ Break(q)
                         \/ Handle(q)
  \/ \E m \in wire : \/ Serve(m)
                     \/ \E r \in {Zero, Refusal} : ServeError(m, r)

Spec == Init /\ [][Next]_vars

\* Logic runs every call that got to it, and the goroutine of a request goes on.
Attempts == [req : Requests, step : 1 .. 4, try : 1 .. MaxRetry + 1]
Fairness == /\ \A m \in Attempts : WF_vars(m \in wire /\ (Serve(m) \/ \E r \in {Zero, Refusal} : ServeError(m, r)))
            /\ \A q \in Requests : WF_vars(Handle(q))
FairSpec == Spec /\ Fairness
-------------------------------------------------------------------------------
TypeOK ==
  /\ accounts \subseteq Users /\ minted \in 0 .. Cardinality(Tokens) /\ alive \subseteq 1 .. minted
  /\ owner \in [Tokens -> Users \cup {Nil}] /\ current \in [Users -> Tokens \cup {NoToken}]
  /\ asked \in [Requests -> [route : Routes, token : Tokens \cup {NoToken},
                          user : Users \cup {NoUser}] \cup {Nil}]
  /\ step \in [Requests -> 0 .. 4] /\ tries \in [Requests -> 0 .. MaxRetry + 1]
  /\ wire \subseteq Attempts /\ reply \in [Requests -> Replies \cup {Nil}]
  /\ found \in [Requests -> Users \cup {NoUser}] /\ got \in [Requests -> Tokens \cup {NoToken}]
  /\ answer \in [Requests -> {Nil, "ok", "fail", "session"}]
  /\ sent \in [Requests -> Seq(Users \cup {NoUser})]
  /\ failed \subseteq Requests /\ barred \subseteq Requests /\ faults \in 0 .. MaxFault
-------------------------------------------------------------------------------
(* Properties. *)

\* A request that comes with a token that has no session any more is told so and does
\* nothing, whatever calls fail or are sent twice (CheckSessionId).
Barred ==
  \A q \in barred : answer[q] \in {Nil, "session"} /\ sent[q] = <<>> /\ found[q] = NoUser

\* What push and pushRoom publish carries the user of the token as its sender, and
\* checkAuth answers with him, unless a call of the request failed: a session that ends
\* between the check of the middleware and the one of the handler makes the handler
\* refuse (handler Push, PushRoom, CheckAuth; router.go:69).
Signed ==
  \A q \in Requests \ failed : asked[q] # Nil =>
    /\ asked[q].route \in {"push", "pushRoom"} =>
         \A i \in DOMAIN sent[q] : sent[q][i] = owner[asked[q].token]
    /\ asked[q].route = "checkAuth" /\ answer[q] = "ok" => found[q] = owner[asked[q].token]

\* A login or register that is answered with success hands out a token that logic made
\* for that user, although a failed call has the code of a success (handler Login,
\* Register; rpc.go:41).
TokenGiven ==
  \A q \in Requests : answer[q] = "ok" /\ asked[q].route \in {"login", "register"} =>
    got[q] \in 1 .. minted /\ owner[got[q]] = asked[q].user

\* Every request is answered.
Answered == \A q \in Requests : step[q] > 0 ~> answer[q] # Nil
===============================================================================
