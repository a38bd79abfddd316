------------------------------- MODULE ApiProofs -------------------------------
(* What the api layer keeps whatever calls fail, break or run twice: a dead token does  *)
(* nothing, what is published is signed, and a login gets a token of its own user.      *)
EXTENDS Api, FunctionTheorems, FiniteSetTheorems, SequenceTheorems, TLAPS

\* The routes whose handler needs the user of the token, and the call that finds him.
Signing == {"push", "pushRoom", "checkAuth"}
Checked(route) == IF route = "push" THEN 3 ELSE 2
Persons == Users \cup {NoUser, Nil}
AskedFor == [route : Routes, token : Tokens \cup {NoToken}, user : Users \cup {NoUser}]

\* The part of the type invariant that the properties rest on.
Shape ==
  /\ alive \subseteq 1 .. minted /\ minted \in Nat
  /\ asked \in [Requests -> AskedFor \cup {Nil}]
  /\ step \in [Requests -> Nat] /\ tries \in [Requests -> Nat]
  /\ owner \in [Tokens -> Persons] /\ found \in [Requests -> Persons]
  /\ DOMAIN answer = Requests /\ DOMAIN reply = Requests
  /\ \A q \in Requests : reply[q] # Nil => reply[q].user \in Persons
  /\ sent \in [Requests -> Seq(Persons)]
  /\ barred \subseteq Requests

\* A request that arrived has a plan, and is at one of its calls; its attempts on the
\* wire are for this call or an earlier one.
Progress ==
  /\ \A q \in Requests :
       IF step[q] = 0
       THEN /\ q \notin barred /\ answer[q] = Nil /\ sent[q] = <<>> /\ found[q] = NoUser
            /\ asked[q] = Nil
       ELSE /\ asked[q] \in AskedFor /\ step[q] \in DOMAIN PlanOf(q)
            /\ Guarded(asked[q].route) => asked[q].token \in 1 .. minted
  /\ \A m \in wire : m.req \in Requests /\ m.step \in 1 .. step[m.req]

\* A barred request has been told nothing yet but that its session is gone.
BarredAt ==
  \A q \in barred : /\ Guarded(asked[q].route) /\ asked[q].token \notin alive
                    /\ step[q] = 1 /\ reply[q] \in {Nil, Zero, Refusal}

\* Until a call of the request fails: the answer to a check is the user of the token, or
\* a refusal, and the handler knows him once it has gone past its check.
Finds(q) == LET r == asked[q].route
                u == owner[asked[q].token] IN
  /\ Now(q) \in {"Guard", "CheckAuth"} => reply[q] \in {Nil, Refusal, Reply(Success, u, NoToken)}
  /\ step[q] > Checked(r) \/ (r = "checkAuth" /\ answer[q] = "ok") => found[q] = u
  /\ r \in {"push", "pushRoom"} => \A i \in DOMAIN sent[q] : sent[q][i] = u

KnownSender == \A q \in Requests \ failed : step[q] > 0 /\ asked[q].route \in Signing => Finds(q)

IInv == Shape /\ Progress /\ Barred /\ BarredAt /\ KnownSender
-------------------------------------------------------------------------------
\* The plans, call by call: the guard comes first, and a call to CheckAuth comes before
\* the one that publishes.
LEMMA Plans ==
  ASSUME NEW r \in Routes
  PROVE  /\ DOMAIN Plan[r] \subseteq 1 .. 4 /\ 1 \in DOMAIN Plan[r] /\ Len(Plan[r]) \in DOMAIN Plan[r]
         /\ \A i \in DOMAIN Plan[r] : i \in 1 .. Len(Plan[r])
         /\ \A i \in 1 .. Len(Plan[r]) : i \in DOMAIN Plan[r]
         /\ r \in Signing => Guarded(r)
         /\ \A i \in DOMAIN Plan[r] : Plan[r][i] = "CheckAuth" => r \in Signing /\ i = Checked(r)
         /\ r \in Signing => Plan[r][Checked(r)] = "CheckAuth" /\ Checked(r) \in DOMAIN Plan[r]
         /\ \A i \in DOMAIN Plan[r] : r \in {"push", "pushRoom"} /\ Plan[r][i] \in {"Push", "PushRoom", "Count", "GetRoomInfo"}
              => i > Checked(r)
         /\ \A i \in DOMAIN Plan[r] : Plan[r][i] \in {"Login", "Register"} => ~Guarded(r)
         /\ Guarded(r) => Plan[r][1] = "Guard"
         /\ r = "checkAuth" => Len(Plan[r]) = Checked(r)
         /\ Checked(r) > 1 /\ Checked(r) \in Nat /\ Len(Plan[r]) \in Nat
<1>1. r \in {"login", "register", "checkAuth", "logout", "push", "pushRoom", "count", "getRoomInfo"}
  BY ApiAssumption DEF ApiAssumption, Plan
<1>2. CASE r = "login"
  BY <1>2 DEF Plan, Signing, Checked, Guarded
<1>3. CASE r = "register"
  BY <1>3 DEF Plan, Signing, Checked, Guarded
<1>4. CASE r = "checkAuth"
  BY <1>4 DEF Plan, Signing, Checked, Guarded
<1>5. CASE r = "logout"
  BY <1>5 DEF Plan, Signing, Checked, Guarded
<1>6. CASE r = "push"
  BY <1>6 DEF Plan, Signing, Checked, Guarded
<1>7. CASE r = "pushRoom"
  BY <1>7 DEF Plan, Signing, Checked, Guarded
<1>8. CASE r = "count"
  BY <1>8 DEF Plan, Signing, Checked, Guarded
<1>9. CASE r = "getRoomInfo"
  BY <1>9 DEF Plan, Signing, Checked, Guarded
<1> QED
  BY <1>1, <1>2, <1>3, <1>4, <1>5, <1>6, <1>7, <1>8, <1>9

LEMMA TokenNumbers == Tokens \subseteq Nat \ {0}
<1>1. Cardinality(Users) \in Nat /\ Cardinality(Requests) \in Nat
  BY ApiAssumption, FS_CardinalityType DEF ApiAssumption
<1>2. Cardinality(Requests) * (MaxRetry + 1) \in Nat
  BY <1>1, ApiAssumption DEF ApiAssumption
<1> QED
  BY <1>1, <1>2 DEF Tokens

LEMMA InvariantInit == Init => IInv
<1> SUFFICES ASSUME Init PROVE IInv
  OBVIOUS
<1>1. minted \in Nat /\ IsFiniteSet(1 .. minted) /\ Cardinality(1 .. minted) = minted
  <2>1. IsFiniteSet(Known)
    BY ApiAssumption, FS_Subset DEF ApiAssumption
  <2>2. Cardinality(Known) \in Nat
    BY <2>1, FS_CardinalityType
  <2>3. minted \in Nat /\ 1 \in Int
    BY <2>2 DEF Init
  <2>4. IsFiniteSet(1 .. minted) /\ Cardinality(1 .. minted) = IF 1 > minted THEN 0 ELSE minted - 1 + 1
    BY <2>3, FS_Interval
  <2> QED
    BY <2>3, <2>4
<1>2. owner \in [Tokens -> Persons]
  <2>1. PICK f \in [Known -> 1 .. minted] :
          /\ \A v, w \in Known : v # w => f[v] # f[w]
          /\ owner = [t \in Tokens |-> IF t <= minted THEN CHOOSE u \in Known : f[u] = t ELSE Nil]
    BY DEF Init
  <2>2. f \in Injection(Known, 1 .. minted)
    BY <2>1 DEF Injection, IsInjective
  <2>3. f \in Surjection(Known, 1 .. minted)
    <3>1. Cardinality(Known) = Cardinality(1 .. minted)
      BY <1>1 DEF Init
    <3> QED
      BY <1>1, <2>2, <3>1, FS_Injection
  <2>4. \A t \in 1 .. minted : \E u \in Known : f[u] = t
    BY <2>3 DEF Surjection
  <2>5. ASSUME NEW t \in Tokens
        PROVE  (IF t <= minted THEN CHOOSE u \in Known : f[u] = t ELSE Nil) \in Persons
    <3>1. t <= minted => t \in 1 .. minted
      BY <1>1, <2>5 DEF Tokens
    <3>2. CASE t <= minted
      <4>1. (CHOOSE u \in Known : f[u] = t) \in Known
        BY <2>4, <3>1, <3>2
      <4> QED
        BY <3>2, <4>1, ApiAssumption DEF ApiAssumption, Persons
    <3> QED
      BY <3>2 DEF Persons
  <2> QED
    BY <2>1, <2>5
<1>3. sent \in [Requests -> Seq(Persons)]
  BY EmptySeq DEF Init
<1>4. Shape
  BY <1>1, <1>2, <1>3 DEF Init, Shape, Persons
<1>5. Progress
  BY DEF Init, Progress
<1>6. Barred /\ BarredAt
  BY DEF Init, Barred, BarredAt
<1>7. KnownSender
  BY DEF Init, KnownSender
<1> QED
  BY <1>4, <1>5, <1>6, <1>7 DEF IInv
-------------------------------------------------------------------------------
(* What logic does in a call, seen from the requests. *)

Publishes == {"Push", "PushRoom", "Count", "GetRoomInfo"}
LogicDoes(m, r) ==
  /\ minted' \in {minted, minted + 1} /\ alive' \subseteq 1 .. minted'
  /\ \A t \in 1 .. minted : t \notin alive => t \notin alive'
  /\ owner' \in [Tokens -> Persons] /\ \A t \in Tokens : t <= minted => owner'[t] = owner[t]
  /\ \/ sent' = sent
     \/ Method(m) \in Publishes /\ sent' = [sent EXCEPT ![m.req] = Append(@, found[m.req])]
  /\ failed' \in {failed, failed \cup {m.req}}
  /\ Method(m) \in {"Guard", "CheckAuth"} =>
       \/ asked[m.req].token \in alive /\ r = Reply(Success, owner[asked[m.req].token], NoToken)
       \/ r = Refusal
       \/ r = Zero /\ m.req \in failed'
  /\ r.user \in Persons

\* The call an attempt is for.
LEMMA Attempted ==
  ASSUME Shape, Progress, NEW m \in wire
  PROVE  /\ m.req \in Requests /\ step[m.req] > 0 /\ m.step \in 1 .. step[m.req]
         /\ asked[m.req] \in AskedFor /\ asked[m.req].route \in Routes
         /\ asked[m.req].token \in Tokens \cup {NoToken} /\ asked[m.req].user \in Users \cup {NoUser}
         /\ m.step \in DOMAIN Plan[asked[m.req].route]
<1>1. m.req \in Requests /\ m.step \in 1 .. step[m.req] /\ step[m.req] \in Nat
  BY DEF Shape, Progress
<1>2. step[m.req] > 0 /\ asked[m.req] \in AskedFor /\ step[m.req] \in DOMAIN Plan[asked[m.req].route]
  BY <1>1 DEF Progress, PlanOf
<1>3. /\ asked[m.req].route \in Routes /\ asked[m.req].token \in Tokens \cup {NoToken}
      /\ asked[m.req].user \in Users \cup {NoUser}
  BY <1>2 DEF AskedFor
<1>4. PICK n \in Nat : n = Len(Plan[asked[m.req].route]) /\ step[m.req] \in 1 .. n
                        /\ \A i \in 1 .. n : i \in DOMAIN Plan[asked[m.req].route]
  <2>1. /\ Len(Plan[asked[m.req].route]) \in 1 .. 4
        /\ step[m.req] \in 1 .. Len(Plan[asked[m.req].route])
        /\ \A i \in 1 .. Len(Plan[asked[m.req].route]) : i \in DOMAIN Plan[asked[m.req].route]
    BY <1>2, <1>3, Plans
  <2> QED
    BY <2>1
<1> QED
  BY <1>1, <1>2, <1>3, <1>4

LEMMA ServeEffect ==
  ASSUME Shape, Progress, NEW m \in wire,
         Serve(m) \/ \E r \in {Zero, Refusal} : ServeError(m, r)
  PROVE  \E r : Return(m, r) /\ LogicDoes(m, r)
<1> DEFINE q == m.req
           t == asked[q].token
           u == asked[q].user
<1>0. /\ minted \in Nat /\ alive \subseteq 1 .. minted /\ owner \in [Tokens -> Persons]
      /\ t \in Tokens \cup {NoToken} /\ u \in Persons
  BY Attempted DEF Shape, Persons
<1>1. Zero.user \in Persons /\ Refusal.user \in Persons /\ \A v, n : Reply(Success, v, n).user = v
  BY DEF Zero, Refusal, Reply, Persons
<1>2. CASE ServeCheckAuth(m)
  <2>1. t \in alive => owner[t] \in Persons
    <3>1. NoToken \notin alive
      BY <1>0 DEF NoToken
    <3> QED
      BY <1>0, <3>1
  <2>2. /\ Method(m) \notin Publishes /\ UNCHANGED <<logicVars, failed>>
        /\ Return(m, IF t \in alive THEN Reply(Success, owner[t], NoToken) ELSE Refusal)
    BY <1>2 DEF ServeCheckAuth, Does, Publishes
  <2>3. CASE t \in alive
    <3>1. LogicDoes(m, Reply(Success, owner[t], NoToken))
      BY <1>0, <1>1, <2>1, <2>2, <2>3 DEF LogicDoes, logicVars
    <3> QED
      BY <2>2, <2>3, <3>1
  <2>4. CASE t \notin alive
    <3>1. LogicDoes(m, Refusal)
      BY <1>0, <1>1, <2>2, <2>4 DEF LogicDoes, logicVars
    <3> QED
      BY <2>2, <2>4, <3>1
  <2> QED
    BY <2>3, <2>4
<1>3. CASE ServeUserInfo(m)
  <2>1. /\ Method(m) = "GetUserInfoByUserId" /\ UNCHANGED <<logicVars, failed>>
        /\ Return(m, Reply(Success, NoUser, NoToken))
    BY <1>3 DEF ServeUserInfo, Does
  <2>2. LogicDoes(m, Reply(Success, NoUser, NoToken))
    BY <1>0, <1>1, <2>1 DEF LogicDoes, logicVars, Persons
  <2> QED
    BY <2>1, <2>2
<1>4. CASE ServeLogin(m) \/ ServeRegister(m)
  <2>1. /\ Method(m) \in {"Login", "Register"} /\ UNCHANGED <<sent, failed>>
        /\ minted' = minted + 1 /\ owner' = [owner EXCEPT ![minted + 1] = u]
        /\ alive' \subseteq alive \cup {minted + 1}
        /\ Return(m, Reply(Success, NoUser, minted'))
    BY <1>4 DEF ServeLogin, ServeRegister, Mint, Does
  <2>2. \A n \in 1 .. minted : n \notin alive => n \notin alive'
    BY <1>0, <2>1
  <2>3. /\ owner' \in [Tokens -> Persons]
        /\ \A n \in Tokens : n <= minted => owner'[n] = owner[n]
    <3>1. ASSUME NEW n \in Tokens, n <= minted
          PROVE  n # minted + 1
      BY <1>0, <3>1, TokenNumbers
    <3>2. owner' \in [Tokens -> Persons]
      BY <1>0, <2>1
    <3> QED
      BY <1>0, <2>1, <3>1, <3>2
  <2>4. alive' \subseteq 1 .. minted'
    BY <1>0, <2>1
  <2>5. LogicDoes(m, Reply(Success, NoUser, minted'))
    BY <1>1, <2>1, <2>2, <2>3, <2>4 DEF LogicDoes, Persons
  <2> QED
    BY <2>1, <2>5
<1>5. CASE ServeLogout(m)
  <2>1. /\ Method(m) = "Logout" /\ UNCHANGED <<minted, owner, sent, failed>> /\ alive' \subseteq alive
    BY <1>5 DEF ServeLogout, Does
  <2>2. PICK r \in {Refusal, Reply(Success, NoUser, NoToken)} : Return(m, r)
    BY <1>5 DEF ServeLogout
  <2>3. LogicDoes(m, r)
    BY <1>0, <1>1, <2>1, <2>2 DEF LogicDoes, Persons
  <2> QED
    BY <2>2, <2>3
<1>6. CASE ServePublish(m)
  <2>1. /\ Method(m) \in Publishes /\ UNCHANGED <<minted, owner, alive, failed>>
        /\ sent' = [sent EXCEPT ![q] = Append(@, found[q])]
        /\ Return(m, Reply(Success, NoUser, NoToken))
    BY <1>6 DEF ServePublish, Does, Publishes
  <2>2. LogicDoes(m, Reply(Success, NoUser, NoToken))
    BY <1>0, <1>1, <2>1 DEF LogicDoes, Persons, Publishes
  <2> QED
    BY <2>1, <2>2
<1>7. ASSUME NEW r \in {Zero, Refusal}, ServeError(m, r)
      PROVE  \E s : Return(m, s) /\ LogicDoes(m, s)
  <2>1. UNCHANGED logicVars /\ failed' = failed \cup {q} /\ Return(m, r)
    BY <1>7 DEF ServeError
  <2>2. LogicDoes(m, r)
    BY <1>0, <1>1, <1>7, <2>1 DEF LogicDoes, logicVars
  <2> QED
    BY <2>1, <2>2
<1> QED
  BY <1>2, <1>3, <1>4, <1>5, <1>6, <1>7 DEF Serve
-------------------------------------------------------------------------------
(* A step of logic keeps the invariant. *)

\* An answer reaches the request that waits for this attempt, or nobody.
LEMMA Returned ==
  ASSUME NEW m, NEW r, Return(m, r)
  PROVE  /\ wire' \subseteq wire /\ UNCHANGED <<step, tries, asked, found, answer, barred>>
         /\ \/ reply' = reply
            \/ /\ answer[m.req] = Nil /\ step[m.req] = m.step /\ Method(m) = Now(m.req)
               /\ reply' = [reply EXCEPT ![m.req] = r]
BY DEF Return, Waiting, Method, Now

LEMMA LogicShape ==
  ASSUME IInv, NEW m \in wire, NEW r, Return(m, r), LogicDoes(m, r)
  PROVE  Shape' /\ Progress'
<1>1. /\ wire' \subseteq wire /\ UNCHANGED <<step, tries, asked, found, answer, barred>>
      /\ reply' = reply \/ reply' = [reply EXCEPT ![m.req] = r]
  BY Returned
<1>2. /\ m.req \in Requests /\ step[m.req] > 0
  BY Attempted DEF IInv
<1>3. /\ minted \in Nat /\ minted' \in Nat /\ minted' >= minted /\ alive' \subseteq 1 .. minted'
      /\ owner' \in [Tokens -> Persons]
  BY DEF IInv, Shape, LogicDoes
<1>4. /\ sent' \in [Requests -> Seq(Persons)]
      /\ \A q \in Requests : q # m.req => sent'[q] = sent[q]
  <2>1. sent \in [Requests -> Seq(Persons)] /\ found[m.req] \in Persons
    BY <1>2 DEF IInv, Shape
  <2>2. CASE sent' = sent
    BY <2>1, <2>2
  <2>3. CASE sent' = [sent EXCEPT ![m.req] = Append(@, found[m.req])]
    <3>1. Append(sent[m.req], found[m.req]) \in Seq(Persons)
      BY <1>2, <2>1, AppendProperties
    <3> QED
      BY <1>2, <2>1, <2>3, <3>1
  <2> QED
    BY <2>2, <2>3 DEF LogicDoes
<1>5. /\ DOMAIN reply' = Requests
      /\ \A q \in Requests : reply'[q] # Nil => reply'[q].user \in Persons
  BY <1>1, <1>2 DEF IInv, Shape, LogicDoes
<1>6. Shape'
  BY <1>1, <1>3, <1>4, <1>5 DEF IInv, Shape
<1>7. ASSUME NEW q \in Requests
      PROVE  IF step[q] = 0
             THEN /\ q \notin barred /\ answer[q] = Nil /\ sent'[q] = <<>> /\ found[q] = NoUser
                  /\ asked[q] = Nil
             ELSE /\ asked[q] \in AskedFor /\ step[q] \in DOMAIN PlanOf(q)
                  /\ Guarded(asked[q].route) => asked[q].token \in 1 .. minted'
  <2>1. CASE step[q] = 0
    BY <1>2, <1>4, <2>1 DEF IInv, Progress
  <2>2. CASE step[q] # 0
    <3>1. /\ asked[q] \in AskedFor /\ step[q] \in DOMAIN PlanOf(q)
          /\ Guarded(asked[q].route) => asked[q].token \in 1 .. minted
      BY <2>2 DEF IInv, Progress
    <3> QED
      BY <1>3, <2>2, <3>1
  <2> QED
    BY <2>1, <2>2
<1>8. Progress'
  BY <1>1, <1>7 DEF IInv, Progress, PlanOf
<1> QED
  BY <1>6, <1>8

LEMMA LogicBarred ==
  ASSUME IInv, NEW m \in wire, NEW r, Return(m, r), LogicDoes(m, r)
  PROVE  Barred' /\ BarredAt'
<1>1. ASSUME NEW q \in barred, q = m.req
      PROVE  sent'[q] = sent[q] /\ r \in {Zero, Refusal}
  <2>1. /\ asked[q].token \notin alive /\ asked[q].route \in Routes /\ Guarded(asked[q].route)
        /\ m.step = 1
    BY <1>1, Attempted DEF IInv, BarredAt
  <2>2. Method(m) = "Guard"
    BY <1>1, <2>1, Plans DEF Method, PlanOf
  <2> QED
    BY <1>1, <2>1, <2>2 DEF LogicDoes, Publishes
<1>2. /\ UNCHANGED <<step, asked, found, answer, barred>>
      /\ reply' = reply \/ reply' = [reply EXCEPT ![m.req] = r]
  BY Returned
<1>3. ASSUME NEW q \in barred
      PROVE  /\ sent'[q] = sent[q] /\ reply'[q] \in {Nil, Zero, Refusal}
             /\ asked[q].token \notin alive'
  <2>1. /\ q \in Requests /\ reply[q] \in {Nil, Zero, Refusal} /\ step[q] = 1
        /\ asked[q].token \notin alive /\ Guarded(asked[q].route) /\ asked[q].token \in 1 .. minted
    BY DEF IInv, BarredAt, Shape, Progress
  <2>2. sent'[q] = sent[q]
    BY <1>1, <2>1 DEF LogicDoes, IInv, Shape
  <2>3. reply'[q] \in {Nil, Zero, Refusal}
    BY <1>1, <1>2, <2>1 DEF IInv, Shape
  <2>4. asked[q].token \notin alive'
    BY <2>1 DEF LogicDoes
  <2> QED
    BY <2>2, <2>3, <2>4
<1> QED
  BY <1>2, <1>3 DEF IInv, Barred, BarredAt

LEMMA LogicSender ==
  ASSUME IInv, NEW m \in wire, NEW r, Return(m, r), LogicDoes(m, r)
  PROVE  KnownSender'
<1>1. /\ UNCHANGED <<step, asked, found, answer>>
      /\ \/ reply' = reply
         \/ /\ step[m.req] = m.step /\ Method(m) = Now(m.req)
            /\ reply' = [reply EXCEPT ![m.req] = r]
  BY Returned
<1> SUFFICES ASSUME NEW q \in Requests, q \notin failed', step[q] > 0, asked[q].route \in Signing
             PROVE  Finds(q)'
  BY <1>1 DEF KnownSender
<1> DEFINE u == owner[asked[q].token]
           c == Checked(asked[q].route)
<1>2. /\ asked[q] \in AskedFor /\ asked[q].route \in Routes /\ asked[q].token \in Tokens \cup {NoToken}
      /\ Guarded(asked[q].route) /\ asked[q].token \in 1 .. minted
  <2>1. /\ asked[q] \in AskedFor
        /\ Guarded(asked[q].route) => asked[q].token \in 1 .. minted
    BY DEF IInv, Progress
  <2>2. asked[q].route \in Routes /\ asked[q].token \in Tokens \cup {NoToken}
    BY <2>1 DEF AskedFor
  <2> QED
    BY <2>1, <2>2, Plans
<1>3. q \notin failed /\ Finds(q)
  BY DEF IInv, KnownSender, LogicDoes
<1>4. owner'[asked[q].token] = u
  <2>1. asked[q].token \in Tokens /\ asked[q].token <= minted
    BY <1>2 DEF NoToken, IInv, Shape
  <2> QED
    BY <2>1 DEF LogicDoes
<1>5. Now(q) \in {"Guard", "CheckAuth"} => reply'[q] \in {Nil, Refusal, Reply(Success, u, NoToken)}
  <2>1. CASE reply'[q] = reply[q]
    BY <1>3, <2>1 DEF Finds
  <2>2. CASE reply'[q] # reply[q]
    <3>1. q = m.req /\ Method(m) = Now(q) /\ reply'[q] = r
      BY <1>1, <2>2 DEF IInv, Shape
    <3> QED
      BY <3>1 DEF LogicDoes
  <2> QED
    BY <2>1, <2>2
<1>6. asked[q].route \in {"push", "pushRoom"} => \A i \in DOMAIN sent'[q] : sent'[q][i] = u
  <2>1. CASE sent'[q] = sent[q]
    BY <1>3, <2>1 DEF Finds
  <2>2. CASE sent'[q] # sent[q] /\ asked[q].route \in {"push", "pushRoom"}
    <3>1. q = m.req /\ Method(m) \in Publishes /\ sent'[q] = Append(sent[q], found[q])
      BY <2>2 DEF LogicDoes, IInv, Shape
    <3>2. m.step \in DOMAIN Plan[asked[q].route] /\ m.step \in 1 .. step[q] /\ step[q] \in Nat
      BY <3>1, Attempted DEF IInv, Shape
    <3>3. m.step > c /\ c \in Nat
      BY <1>2, <2>2, <3>1, <3>2, Plans DEF Method, PlanOf, Publishes
    <3>4. found[q] = u
      BY <1>3, <3>2, <3>3 DEF Finds
    <3>5. sent[q] \in Seq(Persons) /\ found[q] \in Persons
      BY DEF IInv, Shape
    <3>6. \A i \in DOMAIN sent[q] : sent[q][i] = u
      BY <1>3, <2>2 DEF Finds
    <3>7. /\ DOMAIN Append(sent[q], found[q]) = 1 .. Len(sent[q]) + 1 /\ Len(sent[q]) \in Nat
          /\ DOMAIN sent[q] = 1 .. Len(sent[q])
          /\ \A i \in 1 .. Len(sent[q]) : Append(sent[q], found[q])[i] = sent[q][i]
          /\ Append(sent[q], found[q])[Len(sent[q]) + 1] = found[q]
      BY <3>5, AppendProperties, LenProperties
    <3> QED
      BY <3>1, <3>4, <3>6, <3>7
  <2> QED
    BY <2>1, <2>2
<1>7. step[q] > c \/ (asked[q].route = "checkAuth" /\ answer[q] = "ok") => found[q] = u
  BY <1>3 DEF Finds
<1> QED
  BY <1>1, <1>4, <1>5, <1>6, <1>7 DEF Finds, Now, PlanOf
-------------------------------------------------------------------------------
(* The steps of the client and of the handlers. *)

\* A request that arrived, at its route.
LEMMA Arrived ==
  ASSUME Shape, Progress, NEW q \in Requests, step[q] > 0
  PROVE  /\ asked[q] \in AskedFor /\ asked[q].route \in Routes /\ step[q] \in Nat
         /\ step[q] \in DOMAIN Plan[asked[q].route] /\ step[q] \in 1 .. Len(Plan[asked[q].route])
         /\ Guarded(asked[q].route) => asked[q].token \in 1 .. minted
<1>1. /\ asked[q] \in AskedFor /\ step[q] \in DOMAIN Plan[asked[q].route]
      /\ Guarded(asked[q].route) => asked[q].token \in 1 .. minted
  BY DEF Progress, PlanOf
<1>2. asked[q].route \in Routes
  BY <1>1 DEF AskedFor
<1> QED
  BY <1>1, <1>2, Plans DEF Shape

LEMMA ArriveNext ==
  ASSUME IInv, NEW q \in Requests, NEW route \in Routes, NEW t \in Tokens \cup {NoToken},
         NEW u \in Users \cup {NoUser}, Arrive(q, route, t, u)
  PROVE  IInv'
<1> DEFINE a == [route |-> route, token |-> t, user |-> u]
<1>1. /\ step[q] = 0 /\ asked' = [asked EXCEPT ![q] = a]
      /\ step' = [step EXCEPT ![q] = 1] /\ tries' = [tries EXCEPT ![q] = 1]
      /\ wire' = wire \cup {[req |-> q, step |-> 1, try |-> 1]}
      /\ reply' = [reply EXCEPT ![q] = Nil]
      /\ UNCHANGED <<minted, owner, alive, sent, found, answer, failed>>
  BY DEF Arrive, CallOut, logicVars
<1>2. /\ a \in AskedFor /\ a.route = route /\ a.token = t
      /\ 1 \in DOMAIN Plan[route] /\ (Guarded(route) => t \in 1 .. minted)
  BY Plans DEF Arrive, AskedFor
<1>3. barred' \subseteq barred \cup {q} /\ (q \in barred' => Guarded(route) /\ t \notin alive)
  BY <1>1 DEF Arrive, IInv, Progress
<1>4. q \notin barred /\ answer[q] = Nil /\ sent[q] = <<>> /\ found[q] = NoUser
  BY <1>1 DEF IInv, Progress
<1>5. Shape'
  BY <1>1, <1>2, <1>3 DEF IInv, Shape
<1>6. /\ asked'[q] = a /\ step'[q] = 1 /\ reply'[q] = Nil
      /\ \A p \in Requests : p # q => asked'[p] = asked[p] /\ step'[p] = step[p] /\ reply'[p] = reply[p]
  BY <1>1 DEF IInv, Shape
<1>7. Progress'
  <2>1. ASSUME NEW p \in Requests
        PROVE  IF step'[p] = 0
               THEN /\ p \notin barred' /\ answer[p] = Nil /\ sent[p] = <<>> /\ found[p] = NoUser
                    /\ asked'[p] = Nil
               ELSE /\ asked'[p] \in AskedFor /\ step'[p] \in DOMAIN Plan[asked'[p].route]
                    /\ Guarded(asked'[p].route) => asked'[p].token \in 1 .. minted
    <3>1. CASE p = q
      BY <1>2, <1>6, <3>1
    <3>2. CASE p # q
      BY <1>3, <1>6, <3>2 DEF IInv, Progress, PlanOf
    <3> QED
      BY <3>1, <3>2
  <2>2. \A m \in wire' : m.req \in Requests /\ m.step \in 1 .. step'[m.req]
    <3>1. \A m \in wire : m.req \in Requests /\ m.step \in 1 .. step[m.req] /\ m.req # q
      BY <1>1 DEF IInv, Progress
    <3> QED
      BY <1>1, <1>6, <3>1
  <2> QED
    BY <1>1, <2>1, <2>2 DEF Progress, PlanOf
<1>8. Barred' /\ BarredAt'
  BY <1>1, <1>2, <1>3, <1>4, <1>6 DEF IInv, Shape, Barred, BarredAt
<1>9. KnownSender'
  <2> SUFFICES ASSUME NEW p \in Requests, p \notin failed, step'[p] > 0, asked'[p].route \in Signing
               PROVE  Finds(p)'
    BY <1>1 DEF KnownSender
  <2>1. CASE p = q
    <3>1. ~(step'[p] > Checked(asked'[p].route))
      BY <1>2, <1>6, <2>1, Plans
    <3>2. answer[p] # "ok" /\ sent[p] = <<>>
      BY <1>4, <2>1, ApiAssumption DEF ApiAssumption
    <3> QED
      BY <1>1, <1>6, <2>1, <3>1, <3>2 DEF Finds
  <2>2. CASE p # q
    <3>1. Finds(p)
      BY <1>6, <2>2 DEF IInv, KnownSender
    <3> QED
      BY <1>1, <1>6, <2>2, <3>1 DEF Finds, Now, PlanOf
  <2> QED
    BY <2>1, <2>2
<1> QED
  BY <1>5, <1>7, <1>8, <1>9 DEF IInv

LEMMA BreakNext ==
  ASSUME IInv, NEW q \in Requests, Break(q)
  PROVE  IInv'
<1>1. /\ step[q] > 0 /\ UNCHANGED <<minted, owner, alive, sent, step, asked, found, answer, barred>>
      /\ tries' = tries \/ tries' = [tries EXCEPT ![q] = @ + 1]
      /\ \/ reply' = [reply EXCEPT ![q] = Nil] /\ failed' = failed
         \/ reply' = [reply EXCEPT ![q] = Zero] /\ failed' = failed \cup {q}
      /\ \A m \in wire' : m \in wire \/ (m.req = q /\ m.step = step[q])
  BY DEF Break, Waiting, Attempt, GivenUp, logicVars
<1>2. Zero.user \in Persons
  BY DEF Zero, Reply, Persons
<1>3. Shape'
  <2>1. tries' \in [Requests -> Nat]
    <3>1. tries \in [Requests -> Nat] /\ tries[q] + 1 \in Nat
      BY DEF IInv, Shape
    <3>2. tries' = tries \/ tries' = [tries EXCEPT ![q] = tries[q] + 1]
      BY <1>1
    <3> QED
      BY <3>1, <3>2
  <2>2. DOMAIN reply' = Requests /\ \A p \in Requests : reply'[p] # Nil => reply'[p].user \in Persons
    BY <1>1, <1>2 DEF IInv, Shape
  <2> QED
    BY <1>1, <2>1, <2>2 DEF IInv, Shape
<1>4. step[q] \in Nat
  BY DEF IInv, Shape
<1>5. Progress'
  BY <1>1, <1>4 DEF IInv, Progress, PlanOf
<1>6. Barred' /\ BarredAt'
  BY <1>1 DEF IInv, Shape, Barred, BarredAt
<1>7. KnownSender'
  BY <1>1 DEF IInv, Shape, KnownSender, Finds, Now, PlanOf
<1> QED
  BY <1>3, <1>5, <1>6, <1>7 DEF IInv

\* A barred request is refused at the guard.
LEMMA BarredRefused ==
  ASSUME IInv, NEW q \in barred, reply[q] # Nil, Waiting(q)
  PROVE  ~Accepted(q) /\ Now(q) = "Guard"
<1>1. reply[q] \in {Zero, Refusal} /\ step[q] = 1 /\ Guarded(asked[q].route) /\ asked[q].route \in Routes
  BY Arrived DEF IInv, BarredAt, Shape
<1>2. Now(q) = "Guard"
  BY <1>1, Plans DEF Now, PlanOf
<1>3. ~Passes(reply[q])
  BY <1>1 DEF Passes, Zero, Refusal, Reply, Fail
<1> QED
  BY <1>2, <1>3 DEF Accepted

\* A handler that goes on past its check has found the user.
LEMMA FindsUser ==
  ASSUME IInv, NEW q \in Requests, reply[q] # Nil, Waiting(q), Accepted(q)
  PROVE  /\ found' = Found(q) => found' \in [Requests -> Persons]
         /\ found' = Found(q) => \A p \in Requests : p # q => found'[p] = found[p]
         /\ found' = Found(q) /\ q \notin failed /\ asked[q].route \in Signing
              /\ step[q] >= Checked(asked[q].route) => found'[q] = owner[asked[q].token]
<1> DEFINE u == owner[asked[q].token]
<1>1. /\ step[q] > 0 /\ step[q] \in Nat /\ asked[q].route \in Routes
      /\ step[q] \in DOMAIN Plan[asked[q].route] /\ found \in [Requests -> Persons]
      /\ reply[q].user \in Persons
  BY Arrived DEF Waiting, IInv, Shape
<1>2. ASSUME found' = Found(q)
      PROVE  /\ found' \in [Requests -> Persons]
             /\ \A p \in Requests : p # q => found'[p] = found[p]
  BY <1>1, <1>2 DEF Found
<1>3. ASSUME found' = Found(q), q \notin failed, asked[q].route \in Signing,
             step[q] >= Checked(asked[q].route)
      PROVE  found'[q] = u
  <2>1. Finds(q)
    BY <1>1, <1>3 DEF IInv, KnownSender
  <2>2. CASE Now(q) = "CheckAuth"
    <3>1. reply[q] # Refusal
      BY <2>2 DEF Accepted, Refused, Refusal, Reply
    <3>2. reply[q] = Reply(Success, u, NoToken)
      BY <2>1, <2>2, <3>1 DEF Finds
    <3>3. found'[q] = reply[q].user
      BY <1>1, <1>3, <2>2 DEF Found
    <3> QED
      BY <3>2, <3>3 DEF Reply
  <2>3. CASE Now(q) # "CheckAuth"
    <3>1. step[q] # Checked(asked[q].route)
      BY <1>1, <1>3, <2>3, Plans DEF Now, PlanOf
    <3>2. step[q] > Checked(asked[q].route)
      BY <1>1, <1>3, <3>1, Plans
    <3>3. found[q] = u
      BY <2>1, <3>2 DEF Finds
    <3> QED
      BY <1>3, <2>3, <3>3 DEF Found
  <2> QED
    BY <2>2, <2>3
<1> QED
  BY <1>2, <1>3

LEMMA RefuseNext ==
  ASSUME IInv, NEW q \in Requests, Refuse(q)
  PROVE  IInv'
<1>1. /\ step[q] > 0 /\ reply[q] # Nil /\ Waiting(q)
      /\ answer' = [answer EXCEPT ![q] = IF Now(q) = "Guard" THEN "session" ELSE "fail"]
      /\ UNCHANGED <<minted, owner, alive, sent, step, tries, wire, reply, asked, found, failed, barred>>
  BY DEF Refuse, Waiting, logicVars, callVars
<1>2. Shape'
  BY <1>1 DEF IInv, Shape
<1>3. Progress'
  BY <1>1 DEF IInv, Shape, Progress, PlanOf
<1>4. Barred' /\ BarredAt'
  BY <1>1, BarredRefused DEF IInv, Shape, Barred, BarredAt
<1>5. KnownSender'
  BY <1>1 DEF IInv, Shape, KnownSender, Finds, Now, PlanOf
<1> QED
  BY <1>2, <1>3, <1>4, <1>5 DEF IInv

LEMMA SucceedNext ==
  ASSUME IInv, NEW q \in Requests, Succeed(q)
  PROVE  IInv'
<1>1. /\ step[q] > 0 /\ reply[q] # Nil /\ Waiting(q) /\ Accepted(q) /\ found' = Found(q)
      /\ step[q] = Len(Plan[asked[q].route])
      /\ answer' = [answer EXCEPT ![q] = "ok"]
      /\ UNCHANGED <<minted, owner, alive, sent, step, tries, wire, reply, asked, failed, barred>>
  BY DEF Succeed, Waiting, logicVars, callVars, PlanOf
<1>2. q \notin barred
  BY <1>1, BarredRefused
<1>3. /\ found' \in [Requests -> Persons]
      /\ \A p \in Requests : p # q => found'[p] = found[p] /\ answer'[p] = answer[p]
  BY <1>1, FindsUser DEF IInv, Shape
<1>4. Shape'
  BY <1>1, <1>3 DEF IInv, Shape
<1>5. Progress'
  BY <1>1, <1>3 DEF IInv, Shape, Progress, PlanOf
<1>6. Barred' /\ BarredAt'
  BY <1>1, <1>2, <1>3 DEF IInv, Shape, Barred, BarredAt
<1>7. KnownSender'
  <2> SUFFICES ASSUME NEW p \in Requests, p \notin failed, step[p] > 0, asked[p].route \in Signing
               PROVE  Finds(p)'
    BY <1>1 DEF KnownSender
  <2>1. Finds(p)
    BY DEF IInv, KnownSender
  <2>2. CASE p = q
    <3>1. asked[q].route \in Routes
      BY <1>1, Arrived DEF IInv
    <3>2. asked[q].route = "checkAuth" => step[q] = Checked(asked[q].route)
      BY <1>1, <3>1, Plans
    <3>3. step[q] > Checked(asked[q].route) \/ asked[q].route = "checkAuth"
            => found'[q] = owner[asked[q].token]
      <4>1. /\ step[q] \in Nat /\ Checked(asked[q].route) \in Nat
            /\ step[q] >= Checked(asked[q].route) => found'[q] = owner[asked[q].token]
        BY <1>1, <2>2, <3>1, FindsUser, Plans DEF IInv, Shape
      <4> QED
        BY <3>2, <4>1
    <3> QED
      BY <1>1, <2>1, <2>2, <3>3 DEF Finds, Now, PlanOf
  <2>3. CASE p # q
    BY <1>1, <1>3, <2>1, <2>3 DEF Finds, Now, PlanOf
  <2> QED
    BY <2>2, <2>3
<1> QED
  BY <1>4, <1>5, <1>6, <1>7 DEF IInv

LEMMA ContinueNext ==
  ASSUME IInv, NEW q \in Requests, Continue(q)
  PROVE  IInv'
<1>1. /\ step[q] > 0 /\ reply[q] # Nil /\ Waiting(q) /\ Accepted(q) /\ found' = Found(q)
      /\ step[q] < Len(Plan[asked[q].route])
      /\ step' = [step EXCEPT ![q] = step[q] + 1] /\ tries' = [tries EXCEPT ![q] = 1]
      /\ wire' = wire \cup {[req |-> q, step |-> step[q] + 1, try |-> 1]}
      /\ reply' = [reply EXCEPT ![q] = Nil]
      /\ UNCHANGED <<minted, owner, alive, sent, answer, asked, failed, barred>>
  BY DEF Continue, CallOut, Waiting, logicVars, PlanOf
<1>2. q \notin barred
  BY <1>1, BarredRefused
<1>3. /\ found' \in [Requests -> Persons] /\ step[q] \in Nat /\ step'[q] = step[q] + 1
      /\ reply'[q] = Nil
      /\ \A p \in Requests : p # q => found'[p] = found[p] /\ step'[p] = step[p] /\ reply'[p] = reply[p]
  BY <1>1, FindsUser DEF IInv, Shape
<1>4. asked[q].route \in Routes /\ step[q] + 1 \in DOMAIN Plan[asked[q].route] /\ asked[q] \in AskedFor
      /\ (Guarded(asked[q].route) => asked[q].token \in 1 .. minted)
      /\ Checked(asked[q].route) \in Nat
  <2>1. asked[q].route \in Routes /\ asked[q] \in AskedFor
        /\ (Guarded(asked[q].route) => asked[q].token \in 1 .. minted)
    BY <1>1, Arrived DEF IInv
  <2>2. step[q] + 1 \in 1 .. Len(Plan[asked[q].route])
    BY <1>1, <1>3, <2>1, Plans
  <2> QED
    BY <2>1, <2>2, Plans
<1>5. Shape'
  <2>1. step' \in [Requests -> Nat] /\ tries' \in [Requests -> Nat]
    <3>1. step \in [Requests -> Nat] /\ tries \in [Requests -> Nat] /\ step[q] + 1 \in Nat
      BY DEF IInv, Shape
    <3>2. step' = [step EXCEPT ![q] = step[q] + 1] /\ tries' = [tries EXCEPT ![q] = 1]
      BY <1>1
    <3> QED
      BY <3>1, <3>2
  <2> QED
    BY <1>1, <1>3, <2>1 DEF IInv, Shape
<1>6. Progress'
  <2>1. ASSUME NEW p \in Requests
        PROVE  IF step'[p] = 0
               THEN /\ p \notin barred /\ answer[p] = Nil /\ sent[p] = <<>> /\ found'[p] = NoUser
                    /\ asked[p] = Nil
               ELSE /\ asked[p] \in AskedFor /\ step'[p] \in DOMAIN Plan[asked[p].route]
                    /\ Guarded(asked[p].route) => asked[p].token \in 1 .. minted
    <3>1. CASE p = q
      BY <1>3, <1>4, <3>1
    <3>2. CASE p # q
      BY <1>3, <3>2 DEF IInv, Progress, PlanOf
    <3> QED
      BY <3>1, <3>2
  <2>2. \A m \in wire' : m.req \in Requests /\ m.step \in 1 .. step'[m.req]
    <3>1. \A m \in wire : m.req \in Requests /\ m.step \in 1 .. step[m.req]
      BY DEF IInv, Progress
    <3> QED
      BY <1>1, <1>3, <3>1
  <2> QED
    BY <1>1, <2>1, <2>2 DEF Progress, PlanOf
<1>7. Barred' /\ BarredAt'
  BY <1>1, <1>2, <1>3 DEF IInv, Shape, Barred, BarredAt
<1>8. KnownSender'
  <2> SUFFICES ASSUME NEW p \in Requests, p \notin failed, step'[p] > 0, asked[p].route \in Signing
               PROVE  Finds(p)'
    BY <1>1 DEF KnownSender
  <2>1. Finds(p)
    BY <1>1, <1>3 DEF IInv, KnownSender
  <2>2. CASE p = q
    <3>1. step'[q] > Checked(asked[q].route) => found'[q] = owner[asked[q].token]
      BY <1>1, <1>3, <1>4, <2>2, FindsUser
    <3>2. answer[q] # "ok"
      BY <1>1, ApiAssumption DEF Waiting, ApiAssumption
    <3> QED
      BY <1>1, <1>3, <2>1, <2>2, <3>1, <3>2 DEF Finds
  <2>3. CASE p # q
    BY <1>1, <1>3, <2>1, <2>3 DEF Finds, Now, PlanOf
  <2> QED
    BY <2>2, <2>3
<1> QED
  BY <1>5, <1>6, <1>7, <1>8 DEF IInv
-------------------------------------------------------------------------------
LEMMA InvariantNext == IInv /\ [Next]_vars => IInv'
<1> SUFFICES ASSUME IInv, [Next]_vars PROVE IInv'
  OBVIOUS
<1>1. ASSUME NEW m \in wire, Serve(m) \/ \E r \in {Zero, Refusal} : ServeError(m, r)
      PROVE  IInv'
  <2>1. PICK r : Return(m, r) /\ LogicDoes(m, r)
    BY <1>1, ServeEffect DEF IInv
  <2> QED
    BY <2>1, LogicShape, LogicBarred, LogicSender DEF IInv
<1>2. CASE UNCHANGED vars
  BY <1>2 DEF vars, logicVars, callVars, IInv, Shape, Progress, PlanOf, Barred, BarredAt,
              KnownSender, Finds, Now
<1> QED
  BY <1>1, <1>2, ArriveNext, BreakNext, RefuseNext, SucceedNext, ContinueNext DEF Next, Handle

\* A request whose token had no session when it arrived does nothing and is told so, for
\* any number of requests, users and failures (router.go CheckSessionId).
THEOREM DeadTokenDoesNothing == Spec => []Barred
<1>1. IInv => Barred
  BY DEF IInv
<1> QED
  BY <1>1, InvariantInit, InvariantNext, PTL DEF Spec

LEMMA SignedFollows == IInv => Signed
<1> SUFFICES ASSUME IInv, NEW q \in Requests \ failed, asked[q] # Nil
             PROVE  /\ asked[q].route \in {"push", "pushRoom"} =>
                         \A i \in DOMAIN sent[q] : sent[q][i] = owner[asked[q].token]
                    /\ asked[q].route = "checkAuth" /\ answer[q] = "ok" => found[q] = owner[asked[q].token]
  BY DEF Signed
<1>1. step[q] > 0
  BY DEF IInv, Shape, Progress
<1>2. asked[q].route \in Signing => Finds(q)
  BY <1>1 DEF IInv, KnownSender
<1> QED
  BY <1>2 DEF Finds, Signing

\* What is published for a request, and what checkAuth answers, names the user of its
\* token as long as none of its calls failed (handler Push, PushRoom, CheckAuth).
THEOREM SenderIsRight == Spec => []Signed
BY SignedFollows, InvariantInit, InvariantNext, PTL DEF Spec
-------------------------------------------------------------------------------
(* Types and tokens: how many can be made, and whose they are. *)

\* The attempts of logins and registrations that logic has run, or that were lost.  Each
\* made one token at the most, and a request has MaxRetry + 1 of them.
Spent == {x \in Requests \X (1 .. MaxRetry + 1) :
            /\ step[x[1]] > 0 /\ ~Guarded(asked[x[1]].route) /\ x[2] <= tries[x[1]]
            /\ [req |-> x[1], step |-> 1, try |-> x[2]] \notin wire}

Budget == minted <= Cardinality(Users) + Cardinality(Spent)

\* A token made has a user; a login or register names one.
Owned  == \A t \in 1 .. minted : owner[t] \in Users
Asking == \A q \in Requests : step[q] > 0 /\ ~Guarded(asked[q].route) => asked[q].user \in Users

\* The attempts of the call a request waits for are the first ones, up to the last.
Attempting == \A m \in wire : m.step = step[m.req] => m.try <= tries[m.req]

\* A token in a reply was made for the user the request names.
Tokened == \A q \in Requests : reply[q] # Nil =>
  \/ reply[q].token = NoToken
  \/ reply[q].token \in 1 .. minted /\ owner[reply[q].token] = asked[q].user

Minting == TypeOK /\ Budget /\ Owned /\ Asking /\ Attempting /\ Tokened /\ TokenGiven
TInv == IInv /\ Minting

\* Who logs in or registers makes one call, and no other does what these calls do.
LEMMA OneCall ==
  ASSUME NEW r \in Routes
  PROVE  /\ ~Guarded(r) <=> r \in {"login", "register"}
         /\ ~Guarded(r) => Len(Plan[r]) = 1 /\ Plan[r][1] \in {"Login", "Register"}
         /\ Len(Plan[r]) \in 1 .. 4
<1>1. r \in {"login", "register", "checkAuth", "logout", "push", "pushRoom", "count", "getRoomInfo"}
  BY ApiAssumption DEF ApiAssumption, Plan
<1>2. CASE r = "login"
  BY <1>2 DEF Plan, Guarded
<1>3. CASE r = "register"
  BY <1>3 DEF Plan, Guarded
<1>4. CASE r = "checkAuth"
  BY <1>4 DEF Plan, Guarded
<1>5. CASE r = "logout"
  BY <1>5 DEF Plan, Guarded
<1>6. CASE r = "push"
  BY <1>6 DEF Plan, Guarded
<1>7. CASE r = "pushRoom"
  BY <1>7 DEF Plan, Guarded
<1>8. CASE r = "count"
  BY <1>8 DEF Plan, Guarded
<1>9. CASE r = "getRoomInfo"
  BY <1>9 DEF Plan, Guarded
<1> QED
  BY <1>1, <1>2, <1>3, <1>4, <1>5, <1>6, <1>7, <1>8, <1>9

LEMMA TokenCount ==
  /\ Cardinality(Tokens) = Cardinality(Users) + Cardinality(Requests) * (MaxRetry + 1)
  /\ Tokens = 1 .. Cardinality(Tokens) /\ Cardinality(Tokens) \in Nat /\ Cardinality(Users) \in Nat
<1> DEFINE N == Cardinality(Users) + Cardinality(Requests) * (MaxRetry + 1)
<1>1. Cardinality(Users) \in Nat /\ Cardinality(Requests) \in Nat /\ MaxRetry + 1 \in Nat
  BY ApiAssumption, FS_CardinalityType DEF ApiAssumption
<1>2. Cardinality(Requests) * (MaxRetry + 1) \in Nat
  BY <1>1
<1>3. N \in Nat /\ 1 \in Int
  BY <1>1, <1>2
<1>4. Tokens = 1 .. N
  BY DEF Tokens
<1> HIDE DEF N
<1>5. Cardinality(1 .. N) = IF 1 > N THEN 0 ELSE N - 1 + 1
  BY <1>3, FS_Interval
<1>6. Cardinality(1 .. N) = N
  BY <1>3, <1>5
<1>7. Cardinality(Tokens) = N
  BY <1>4, <1>6
<1> QED
  BY <1>1, <1>3, <1>4, <1>7 DEF N

LEMMA SpentBound ==
  ASSUME NEW S \in SUBSET (Requests \X (1 .. MaxRetry + 1))
  PROVE  /\ IsFiniteSet(S) /\ Cardinality(S) \in Nat
         /\ Cardinality(S) <= Cardinality(Requests) * (MaxRetry + 1)
<1>1. MaxRetry \in Nat /\ 1 \in Int /\ MaxRetry + 1 \in Int
  BY ApiAssumption DEF ApiAssumption
<1>2. IsFiniteSet(1 .. MaxRetry + 1) /\ Cardinality(1 .. MaxRetry + 1) = MaxRetry + 1
  <2>1. /\ IsFiniteSet(1 .. MaxRetry + 1)
        /\ Cardinality(1 .. MaxRetry + 1) = IF 1 > MaxRetry + 1 THEN 0 ELSE MaxRetry + 1 - 1 + 1
    BY <1>1, FS_Interval
  <2> QED
    BY <1>1, <2>1
<1>3. /\ IsFiniteSet(Requests \X (1 .. MaxRetry + 1))
      /\ Cardinality(Requests \X (1 .. MaxRetry + 1)) = Cardinality(Requests) * (MaxRetry + 1)
  BY <1>2, ApiAssumption, FS_Product DEF ApiAssumption
<1>4. IsFiniteSet(S) /\ Cardinality(S) <= Cardinality(Requests) * (MaxRetry + 1)
  BY <1>3, FS_Subset
<1> QED
  BY <1>4, FS_CardinalityType

\* A step that makes no token.
LEMMA BudgetKept ==
  ASSUME TypeOK, Budget, minted' = minted, Spent \subseteq Spent'
  PROVE  Budget'
<1>1. /\ Spent \in SUBSET (Requests \X (1 .. MaxRetry + 1))
      /\ Spent' \in SUBSET (Requests \X (1 .. MaxRetry + 1))
  BY DEF Spent
<1>2. IsFiniteSet(Spent') /\ Cardinality(Spent') \in Nat /\ Cardinality(Spent) \in Nat
  BY <1>1, SpentBound
<1>3. Cardinality(Spent) <= Cardinality(Spent')
  BY <1>2, FS_Subset
<1>4. minted \in Nat /\ minted <= Cardinality(Users) + Cardinality(Spent) /\ Cardinality(Users) \in Nat
  BY TokenCount DEF TypeOK, Budget
<1>5. minted <= Cardinality(Users) + Cardinality(Spent')
  BY <1>2, <1>3, <1>4
<1> QED
  BY <1>5 DEF Budget
\* A login or register that logic runs for the first time leaves room for its token.
LEMMA Room ==
  ASSUME TInv, NEW m \in wire, wire' = wire \ {m}, UNCHANGED <<step, tries, asked>>
  PROVE  /\ Spent \subseteq Spent'
         /\ Method(m) \in {"Login", "Register"} =>
              /\ minted + 1 \in Tokens /\ asked[m.req].user \in Users
              /\ minted + 1 <= Cardinality(Users) + Cardinality(Spent')
<1> DEFINE q == m.req
           x == <<m.req, m.try>>
<1>1. Spent \subseteq Spent'
  BY DEF Spent
<1>2. ASSUME Method(m) \in {"Login", "Register"}
      PROVE  /\ minted + 1 \in Tokens /\ asked[q].user \in Users
             /\ minted + 1 <= Cardinality(Users) + Cardinality(Spent')
  <2>1. /\ q \in Requests /\ step[q] > 0 /\ m.step \in 1 .. step[q] /\ step[q] \in Nat
        /\ asked[q].route \in Routes /\ m.step \in DOMAIN Plan[asked[q].route]
        /\ step[q] \in 1 .. Len(Plan[asked[q].route])
    BY Attempted, Arrived DEF TInv, IInv
  <2>2. ~Guarded(asked[q].route)
    BY <1>2, <2>1, Plans DEF Method, PlanOf
  <2>3. m.step = 1 /\ step[q] = 1
    <3>1. Len(Plan[asked[q].route]) = 1
      BY <2>1, <2>2, OneCall
    <3> QED
      BY <2>1, <3>1
  <2>4. asked[q].user \in Users
    BY <2>1, <2>2 DEF TInv, Minting, Asking
  <2>5. m \in Attempts /\ m.try <= tries[q]
    BY <2>3 DEF TInv, Minting, Attempting, TypeOK
  <2>6. m = [req |-> q, step |-> 1, try |-> m.try] /\ m.try \in 1 .. MaxRetry + 1
    BY <2>3, <2>5 DEF Attempts
  <2>7. x \notin Spent
    BY <2>6 DEF Spent
  <2>8. x \in Spent'
    BY <2>1, <2>2, <2>5, <2>6 DEF Spent
  <2>9. /\ Spent \in SUBSET (Requests \X (1 .. MaxRetry + 1))
        /\ Spent' \in SUBSET (Requests \X (1 .. MaxRetry + 1))
    BY DEF Spent
  <2>10. /\ IsFiniteSet(Spent) /\ IsFiniteSet(Spent')
         /\ Cardinality(Spent) \in Nat /\ Cardinality(Spent') \in Nat
         /\ Cardinality(Spent') <= Cardinality(Requests) * (MaxRetry + 1)
    BY <2>9, SpentBound
  <2>11. Cardinality(Spent \cup {x}) = Cardinality(Spent) + 1
    BY <2>7, <2>10, FS_AddElement
  <2>12. Cardinality(Spent \cup {x}) <= Cardinality(Spent')
    <3>1. Spent \cup {x} \in SUBSET Spent'
      BY <1>1, <2>8
    <3> QED
      BY <2>10, <3>1, FS_Subset
  <2>13. minted \in Nat /\ minted <= Cardinality(Users) + Cardinality(Spent) /\ Cardinality(Users) \in Nat
    BY TokenCount DEF TInv, Minting, TypeOK, Budget
  <2>14. minted + 1 <= Cardinality(Users) + Cardinality(Spent')
    BY ONLY <2>10, <2>11, <2>12, <2>13, SMT
  <2>15. minted + 1 \in Tokens
    <3>1. PICK k : k = Cardinality(Requests) * (MaxRetry + 1)
      OBVIOUS
    <3>2. /\ Cardinality(Tokens) = Cardinality(Users) + k /\ Tokens = 1 .. Cardinality(Tokens)
          /\ Cardinality(Tokens) \in Nat /\ Cardinality(Spent') <= k
      BY <2>10, <3>1, TokenCount
    <3>3. k \in Nat
      <4>1. Cardinality(Requests) \in Nat /\ MaxRetry + 1 \in Nat
        BY ApiAssumption, FS_CardinalityType DEF ApiAssumption
      <4> QED
        BY <3>1, <4>1
    <3>4. minted + 1 \in 1 .. Cardinality(Tokens)
      BY ONLY <2>10, <2>13, <2>14, <3>2, <3>3, SMT
    <3> QED
      BY <3>2, <3>4
  <2> QED
    BY <2>4, <2>14, <2>15
<1> QED
  BY <1>1, <1>2
-------------------------------------------------------------------------------
(* What logic does in a call, seen from the tokens. *)

Tells(m, r) ==
  /\ Return(m, r) /\ r \in Replies
  /\ accounts' \subseteq Users /\ current' \in [Users -> Tokens \cup {NoToken}]
  /\ sent' \in [Requests -> Seq(Users \cup {NoUser})]
  /\ failed' \subseteq Requests /\ faults' \in 0 .. MaxFault
  /\ \/ minted' = minted /\ owner' = owner /\ alive' \subseteq alive /\ r.token = NoToken
     \/ /\ Method(m) \in {"Login", "Register"}
        /\ minted' = minted + 1 /\ owner' = [owner EXCEPT ![minted + 1] = asked[m.req].user]
        /\ alive' \subseteq alive \cup {minted + 1} /\ r.token = minted + 1

LEMMA ReplyTypes ==
  /\ Zero \in Replies /\ Refusal \in Replies /\ Zero.token = NoToken /\ Refusal.token = NoToken
  /\ \A v \in Users \cup {NoUser}, n \in Tokens \cup {NoToken} :
       Reply(Success, v, n) \in Replies /\ Reply(Success, v, n).token = n
BY DEF Zero, Refusal, Reply, Replies, Success, Fail

LEMMA ServeTells ==
  ASSUME TInv, NEW m \in wire,
         Serve(m) \/ \E r \in {Zero, Refusal} : ServeError(m, r)
  PROVE  \E r : Tells(m, r)
<1> DEFINE q == m.req
           t == asked[q].token
           u == asked[q].user
<1>0. /\ accounts \subseteq Users /\ minted \in Nat /\ alive \subseteq 1 .. minted
      /\ owner \in [Tokens -> Users \cup {Nil}] /\ current \in [Users -> Tokens \cup {NoToken}]
      /\ found \in [Requests -> Users \cup {NoUser}]
      /\ sent \in [Requests -> Seq(Users \cup {NoUser})]
      /\ failed \subseteq Requests /\ faults \in 0 .. MaxFault /\ MaxFault \in Nat
      /\ \A n \in alive : owner[n] \in Users
  BY ApiAssumption DEF ApiAssumption, TInv, Minting, TypeOK, Owned
<1>1. q \in Requests
  BY Attempted DEF TInv, IInv
<1>2. CASE ServeCheckAuth(m)
  <2>1. /\ UNCHANGED <<logicVars, failed, faults>>
        /\ Return(m, IF t \in alive THEN Reply(Success, owner[t], NoToken) ELSE Refusal)
    BY <1>2 DEF ServeCheckAuth
  <2>2. PICK r : Return(m, r) /\ r \in Replies /\ r.token = NoToken
    BY <1>0, <2>1, ReplyTypes
  <2>3. Tells(m, r)
    BY <1>0, <2>1, <2>2 DEF Tells, logicVars
  <2> QED
    BY <2>3
<1>3. CASE ServeUserInfo(m)
  <2>1. UNCHANGED <<logicVars, failed, faults>> /\ Return(m, Reply(Success, NoUser, NoToken))
    BY <1>3 DEF ServeUserInfo
  <2>2. Tells(m, Reply(Success, NoUser, NoToken))
    BY <1>0, <2>1, ReplyTypes DEF Tells, logicVars
  <2> QED
    BY <2>2
<1>4. CASE ServeLogin(m) \/ ServeRegister(m)
  <2>1. /\ Method(m) \in {"Login", "Register"} /\ UNCHANGED <<sent, failed, faults>>
        /\ minted' = minted + 1 /\ owner' = [owner EXCEPT ![minted + 1] = u]
        /\ alive' \subseteq alive \cup {minted + 1} /\ accounts' \subseteq accounts \cup {u}
        /\ current' = current \/ current' = [current EXCEPT ![u] = minted + 1]
        /\ Return(m, Reply(Success, NoUser, minted + 1))
    BY <1>4 DEF ServeLogin, ServeRegister, Mint, Does
  <2>2. wire' = wire \ {m} /\ UNCHANGED <<step, tries, asked>>
    BY <2>1 DEF Return
  <2>3. minted + 1 \in Tokens /\ u \in Users
    BY <2>1, <2>2, Room
  <2>4. current' \in [Users -> Tokens \cup {NoToken}] /\ accounts' \subseteq Users
    BY <1>0, <2>1, <2>3
  <2>5. Tells(m, Reply(Success, NoUser, minted + 1))
    BY <1>0, <2>1, <2>3, <2>4, ReplyTypes DEF Tells
  <2> QED
    BY <2>5
<1>5. CASE ServeLogout(m)
  <2>1. UNCHANGED <<accounts, minted, owner, sent, failed, faults>> /\ alive' \subseteq alive
    BY <1>5 DEF ServeLogout
  <2>2. PICK r \in {Refusal, Reply(Success, NoUser, NoToken)} : Return(m, r)
    BY <1>5 DEF ServeLogout
  <2>3. current' = current \/ (t \in alive /\ current' = [current EXCEPT ![owner[t]] = NoToken])
    BY <1>5 DEF ServeLogout
  <2>4. current' \in [Users -> Tokens \cup {NoToken}]
    BY <1>0, <2>3
  <2>5. r \in Replies /\ r.token = NoToken
    BY <2>2, ReplyTypes
  <2>6. Tells(m, r)
    BY <1>0, <2>1, <2>2, <2>4, <2>5 DEF Tells
  <2> QED
    BY <2>6
<1>6. CASE ServePublish(m)
  <2>1. /\ UNCHANGED <<accounts, minted, owner, alive, current, failed, faults>>
        /\ sent' = [sent EXCEPT ![q] = Append(sent[q], found[q])]
        /\ Return(m, Reply(Success, NoUser, NoToken))
    BY <1>6 DEF ServePublish
  <2>2. sent' \in [Requests -> Seq(Users \cup {NoUser})]
    <3>1. Append(sent[q], found[q]) \in Seq(Users \cup {NoUser})
      BY <1>0, <1>1, AppendProperties
    <3> QED
      BY <1>0, <2>1, <3>1
  <2>3. Tells(m, Reply(Success, NoUser, NoToken))
    BY <1>0, <2>1, <2>2, ReplyTypes DEF Tells
  <2> QED
    BY <2>3
<1>7. ASSUME NEW r \in {Zero, Refusal}, ServeError(m, r)
      PROVE  \E s : Tells(m, s)
  <2>1. /\ UNCHANGED logicVars /\ failed' = failed \cup {q} /\ Return(m, r)
        /\ faults' = faults \/ (faults < MaxFault /\ faults' = faults + 1)
    BY <1>7 DEF ServeError
  <2>2. faults' \in 0 .. MaxFault
    BY <1>0, <2>1
  <2>3. failed' \subseteq Requests
    BY <1>0, <1>1, <2>1
  <2>4. Tells(m, r)
    BY <1>0, <2>1, <2>2, <2>3, ReplyTypes DEF Tells, logicVars
  <2> QED
    BY <2>4
<1> QED
  BY <1>2, <1>3, <1>4, <1>5, <1>6, <1>7 DEF Serve
\* A step of logic keeps the types and the owners of the tokens.
LEMMA LogicMints ==
  ASSUME TInv, NEW m \in wire, NEW r, Tells(m, r)
  PROVE  Minting'
<1>0. /\ wire' = wire \ {m} /\ UNCHANGED <<step, tries, asked, found, got, answer, barred>>
      /\ reply' = reply \/ reply' = [reply EXCEPT ![m.req] = r]
      /\ m.req \in Requests /\ r \in Replies
  BY Attempted DEF Tells, Return, TInv, IInv
<1>1. /\ minted \in Nat /\ minted \in 0 .. Cardinality(Tokens) /\ alive \subseteq 1 .. minted
      /\ owner \in [Tokens -> Users \cup {Nil}] /\ 1 .. minted \subseteq Tokens
  BY TokenCount DEF TInv, Minting, TypeOK
<1>2. Spent \subseteq Spent'
  BY <1>0, Room
<1>3. \/ minted' = minted /\ owner' = owner /\ alive' \subseteq alive /\ r.token = NoToken
      \/ /\ minted + 1 \in Tokens /\ asked[m.req].user \in Users
         /\ minted + 1 <= Cardinality(Users) + Cardinality(Spent')
         /\ minted' = minted + 1 /\ owner' = [owner EXCEPT ![minted + 1] = asked[m.req].user]
         /\ alive' \subseteq alive \cup {minted + 1} /\ r.token = minted + 1
  BY <1>0, Room DEF Tells
<1>4. /\ minted' \in 0 .. Cardinality(Tokens) /\ alive' \subseteq 1 .. minted'
      /\ owner' \in [Tokens -> Users \cup {Nil}]
  <2>1. minted' \in 0 .. Cardinality(Tokens)
    BY <1>1, <1>3, TokenCount
  <2>2. alive' \subseteq 1 .. minted'
    <3>1. CASE minted' = minted /\ alive' \subseteq alive
      BY <1>1, <3>1
    <3>2. CASE minted' = minted + 1 /\ alive' \subseteq alive \cup {minted + 1}
      BY <1>1, <3>2
    <3> QED
      BY <1>3, <3>1, <3>2
  <2>3. owner' \in [Tokens -> Users \cup {Nil}]
    BY <1>1, <1>3
  <2> QED
    BY <2>1, <2>2, <2>3
<1>5. \A t \in 1 .. minted : t \in 1 .. minted' /\ owner'[t] = owner[t]
  BY <1>1, <1>3
<1>6. r.token = NoToken \/ (r.token \in 1 .. minted' /\ owner'[r.token] = asked[m.req].user)
  BY <1>1, <1>3
<1>7. TypeOK'
  <2>1. reply' \in [Requests -> Replies \cup {Nil}]
    BY <1>0 DEF TInv, Minting, TypeOK
  <2>2. /\ step \in [Requests -> 0 .. 4] /\ tries \in [Requests -> 0 .. MaxRetry + 1]
        /\ asked \in [Requests -> [route : Routes, token : Tokens \cup {NoToken},
                          user : Users \cup {NoUser}] \cup {Nil}]
        /\ wire' \subseteq Attempts
        /\ found \in [Requests -> Users \cup {NoUser}] /\ got \in [Requests -> Tokens \cup {NoToken}]
        /\ answer \in [Requests -> {Nil, "ok", "fail", "session"}] /\ barred \subseteq Requests
    BY <1>0 DEF TInv, Minting, TypeOK
  <2>3. /\ accounts' \subseteq Users /\ current' \in [Users -> Tokens \cup {NoToken}]
        /\ sent' \in [Requests -> Seq(Users \cup {NoUser})]
        /\ failed' \subseteq Requests /\ faults' \in 0 .. MaxFault
    BY DEF Tells
  <2> QED
    BY <1>0, <1>4, <2>1, <2>2, <2>3 DEF TypeOK
<1>8. Budget'
  <2>1. CASE minted' = minted
    BY <1>2, <2>1, BudgetKept DEF TInv, Minting
  <2>2. CASE minted' # minted
    BY <1>3, <2>2 DEF Budget
  <2> QED
    BY <2>1, <2>2
<1>9. Owned'
  <2>1. \A t \in 1 .. minted' : t \in 1 .. minted \/ (minted' = minted + 1 /\ t = minted + 1)
    BY <1>1, <1>3
  <2>2. minted' = minted + 1 => owner'[minted + 1] \in Users
    BY <1>1, <1>3
  <2> QED
    BY <1>5, <2>1, <2>2 DEF TInv, Minting, Owned
<1>10. Asking' /\ Attempting'
  BY <1>0 DEF TInv, Minting, Asking, Attempting
<1>11. Tokened'
  <2> SUFFICES ASSUME NEW q \in Requests, reply'[q] # Nil, reply'[q].token # NoToken
               PROVE  reply'[q].token \in 1 .. minted' /\ owner'[reply'[q].token] = asked[q].user
    BY <1>0 DEF Tokened
  <2>1. CASE reply'[q] = reply[q]
    BY <1>5, <2>1 DEF TInv, Minting, Tokened
  <2>2. CASE reply'[q] # reply[q]
    <3>1. q = m.req /\ reply'[q] = r
      BY <1>0, <2>2 DEF TInv, Minting, TypeOK
    <3> QED
      BY <1>6, <3>1
  <2> QED
    BY <2>1, <2>2
<1>12. TokenGiven'
  BY <1>0, <1>5 DEF TInv, Minting, TokenGiven
<1> QED
  BY <1>7, <1>8, <1>9, <1>10, <1>11, <1>12 DEF Minting
-------------------------------------------------------------------------------
(* What the clients and the handlers do, seen from the tokens. *)

\* The type invariant in two: what logic keeps, and what clients and handlers change.
LogicSide ==
  /\ accounts \subseteq Users /\ minted \in 0 .. Cardinality(Tokens) /\ alive \subseteq 1 .. minted
  /\ owner \in [Tokens -> Users \cup {Nil}] /\ current \in [Users -> Tokens \cup {NoToken}]
  /\ sent \in [Requests -> Seq(Users \cup {NoUser})]

FrontSide ==
  /\ asked \in [Requests -> AskedFor \cup {Nil}]
  /\ step \in [Requests -> 0 .. 4] /\ tries \in [Requests -> 0 .. MaxRetry + 1]
  /\ wire \subseteq Attempts /\ reply \in [Requests -> Replies \cup {Nil}]
  /\ found \in [Requests -> Users \cup {NoUser}] /\ got \in [Requests -> Tokens \cup {NoToken}]
  /\ answer \in [Requests -> {Nil, "ok", "fail", "session"}]
  /\ failed \subseteq Requests /\ barred \subseteq Requests /\ faults \in 0 .. MaxFault

LEMMA Halves == TypeOK <=> LogicSide /\ FrontSide
BY DEF TypeOK, LogicSide, FrontSide, AskedFor

LEMMA TypesKept ==
  ASSUME TypeOK, UNCHANGED logicVars, FrontSide'
  PROVE  TypeOK'
<1>1. LogicSide'
  BY Halves DEF LogicSide, logicVars
<1> QED
  BY <1>1 DEF TypeOK, LogicSide, FrontSide, AskedFor

LEMMA ArriveMints ==
  ASSUME TInv, NEW q \in Requests, NEW route \in Routes, NEW t \in Tokens \cup {NoToken},
         NEW u \in Users \cup {NoUser}, Arrive(q, route, t, u)
  PROVE  Minting'
<1> DEFINE a == [route |-> route, token |-> t, user |-> u]
           new == [req |-> q, step |-> 1, try |-> 1]
<1>1. /\ step[q] = 0 /\ asked' = [asked EXCEPT ![q] = a]
      /\ step' = [step EXCEPT ![q] = 1] /\ tries' = [tries EXCEPT ![q] = 1]
      /\ wire' = wire \cup {new} /\ reply' = [reply EXCEPT ![q] = Nil]
      /\ barred' \subseteq barred \cup {q}
      /\ UNCHANGED <<logicVars, minted, owner, found, got, answer, failed, faults>>
      /\ ~Guarded(route) => u \in Users
  BY DEF Arrive, CallOut, logicVars
<1>2. FrontSide /\ a \in AskedFor /\ a.route = route /\ a.user = u /\ MaxRetry \in Nat
  BY Halves, ApiAssumption DEF TInv, Minting, AskedFor, ApiAssumption
<1>3. /\ asked'[q] = a /\ step'[q] = 1 /\ tries'[q] = 1 /\ reply'[q] = Nil
      /\ \A p \in Requests : p # q => /\ asked'[p] = asked[p] /\ step'[p] = step[p]
                                      /\ tries'[p] = tries[p] /\ reply'[p] = reply[p]
  BY <1>1, <1>2 DEF FrontSide
<1>4. \A m \in wire : m.req # q /\ m.req \in Requests
  BY <1>1 DEF TInv, IInv, Progress
<1>5. answer[q] # "ok"
  BY <1>1, ApiAssumption DEF ApiAssumption, TInv, IInv, Progress
<1>6. FrontSide'
  <2>1. new \in Attempts
    BY <1>2 DEF Attempts
  <2>2. /\ asked' \in [Requests -> AskedFor \cup {Nil}] /\ step' \in [Requests -> 0 .. 4]
        /\ tries' \in [Requests -> 0 .. MaxRetry + 1] /\ reply' \in [Requests -> Replies \cup {Nil}]
    BY <1>1, <1>2 DEF FrontSide
  <2> QED
    BY <1>1, <1>2, <2>1, <2>2 DEF FrontSide
<1>7. Spent \subseteq Spent'
  <2> SUFFICES ASSUME NEW x \in Spent PROVE x \in Spent'
    OBVIOUS
  <2>1. x[1] # q /\ x[1] \in Requests
    BY <1>1 DEF Spent
  <2>2. [req |-> x[1], step |-> 1, try |-> x[2]] # new
    BY <2>1
  <2> QED
    BY <1>1, <1>3, <2>1, <2>2 DEF Spent
<1>8. TypeOK' /\ Budget'
  BY <1>1, <1>6, <1>7, TypesKept, BudgetKept DEF TInv, Minting
<1>9. Owned' /\ Asking'
  BY <1>1, <1>2, <1>3 DEF TInv, Minting, Owned, Asking
<1>10. Attempting'
  BY <1>1, <1>3, <1>4 DEF TInv, Minting, Attempting
<1>11. Tokened' /\ TokenGiven'
  BY <1>1, <1>3, <1>5 DEF TInv, Minting, Tokened, TokenGiven
<1> QED
  BY <1>8, <1>9, <1>10, <1>11 DEF Minting

LEMMA BreakMints ==
  ASSUME TInv, NEW q \in Requests, Break(q)
  PROVE  Minting'
<1> DEFINE new == [req |-> q, step |-> step[q], try |-> tries[q] + 1]
<1>1. /\ step[q] > 0 /\ UNCHANGED <<logicVars, minted, owner, step, asked, found, got, answer, barred>>
      /\ faults < MaxFault /\ faults' = faults + 1 /\ failed' \subseteq failed \cup {q}
      /\ reply' = [reply EXCEPT ![q] = Nil] \/ reply' = [reply EXCEPT ![q] = Zero]
      /\ \/ tries' = tries /\ wire' \subseteq wire
         \/ /\ tries[q] <= MaxRetry \/ ~(tries[q] > MaxRetry)
            /\ tries' = [tries EXCEPT ![q] = tries[q] + 1] /\ wire' \subseteq wire \cup {new}
  BY DEF Break, Waiting, Attempt, GivenUp, Exhausted, logicVars
<1>2. FrontSide /\ MaxRetry \in Nat /\ MaxFault \in Nat /\ step[q] \in 1 .. 4 /\ tries[q] \in 0 .. MaxRetry + 1
  BY <1>1, Halves, ApiAssumption DEF TInv, Minting, ApiAssumption, FrontSide
<1>3. \/ tries' = tries /\ wire' \subseteq wire
      \/ /\ tries[q] + 1 \in 1 .. MaxRetry + 1 /\ tries' = [tries EXCEPT ![q] = tries[q] + 1]
         /\ wire' \subseteq wire \cup {new}
  BY <1>1, <1>2
<1>4. /\ \A p \in Requests : tries'[p] \in Int /\ tries[p] \in Int /\ tries[p] <= tries'[p]
      /\ \A p \in Requests : p # q => reply'[p] = reply[p]
  BY <1>1, <1>2, <1>3 DEF FrontSide
<1>5. FrontSide'
  <2>1. new \in Attempts \/ wire' \subseteq wire
    BY <1>2, <1>3 DEF Attempts
  <2>2. tries' \in [Requests -> 0 .. MaxRetry + 1] /\ reply' \in [Requests -> Replies \cup {Nil}]
    BY <1>1, <1>2, <1>3, ReplyTypes DEF FrontSide
  <2>3. wire' \subseteq Attempts
    BY <1>2, <1>3, <2>1 DEF FrontSide
  <2>4. faults' \in 0 .. MaxFault
    BY <1>1, <1>2 DEF FrontSide
  <2> QED
    BY <1>1, <1>2, <2>2, <2>3, <2>4 DEF FrontSide
<1>6. Spent \subseteq Spent'
  <2> SUFFICES ASSUME NEW x \in Spent PROVE x \in Spent'
    OBVIOUS
  <2> DEFINE old == [req |-> x[1], step |-> 1, try |-> x[2]]
  <2>1. x[1] \in Requests /\ x[2] \in 1 .. MaxRetry + 1 /\ x[2] <= tries[x[1]] /\ old \notin wire
    BY DEF Spent
  <2>2. old # new
    <3>1. old.req = x[1] /\ old.try = x[2] /\ new.req = q /\ new.try = tries[q] + 1
      OBVIOUS
    <3>2. x[1] = q => x[2] # tries[q] + 1
      BY <1>2, <2>1
    <3> QED
      BY <3>1, <3>2
  <2>3. old \notin wire'
    BY <1>3, <2>1, <2>2
  <2>4. x[2] <= tries'[x[1]]
    BY <1>2, <1>4, <2>1
  <2> QED
    BY <1>1, <2>3, <2>4 DEF Spent
<1>7. TypeOK' /\ Budget'
  BY <1>1, <1>5, <1>6, TypesKept, BudgetKept DEF TInv, Minting
<1>8. Owned' /\ Asking' /\ TokenGiven'
  BY <1>1 DEF TInv, Minting, Owned, Asking, TokenGiven
<1>9. Attempting'
  <2> SUFFICES ASSUME NEW m \in wire', m.step = step[m.req] PROVE m.try <= tries'[m.req]
    BY <1>1 DEF Attempting
  <2>1. CASE m \in wire
    <3>1. m.req \in Requests /\ m.try \in 1 .. MaxRetry + 1 /\ m.try <= tries[m.req]
      BY <1>2, <2>1 DEF FrontSide, Attempts, TInv, Minting, Attempting
    <3> QED
      BY <1>2, <1>4, <3>1
  <2>2. CASE m \notin wire
    <3>1. m = new /\ tries' = [tries EXCEPT ![q] = tries[q] + 1]
      BY <1>3, <2>2
    <3>2. tries'[m.req] = tries[q] + 1 /\ m.try = tries[q] + 1
      BY <1>2, <3>1 DEF FrontSide
    <3> QED
      BY <1>2, <3>2
  <2> QED
    BY <2>1, <2>2
<1>10. Tokened'
  <2> SUFFICES ASSUME NEW p \in Requests, reply'[p] # Nil, reply'[p].token # NoToken
               PROVE  reply'[p].token \in 1 .. minted /\ owner[reply'[p].token] = asked[p].user
    BY <1>1 DEF Tokened
  <2>1. reply'[p] = reply[p]
    BY <1>1, <1>2, <1>4, ReplyTypes DEF FrontSide
  <2> QED
    BY <2>1 DEF TInv, Minting, Tokened
<1> QED
  BY <1>7, <1>8, <1>9, <1>10 DEF Minting

LEMMA RefuseMints ==
  ASSUME TInv, NEW q \in Requests, Refuse(q)
  PROVE  Minting'
<1>1. /\ UNCHANGED <<logicVars, minted, owner, callVars, asked, found, got, failed, barred, faults>>
      /\ UNCHANGED <<step, tries, wire, reply>>
      /\ answer' \in {[answer EXCEPT ![q] = "session"], [answer EXCEPT ![q] = "fail"]}
  BY DEF Refuse, logicVars, callVars
<1>2. FrontSide'
  BY <1>1, Halves DEF TInv, Minting, FrontSide
<1>3. Spent \subseteq Spent'
  BY <1>1 DEF Spent
<1>4. TypeOK' /\ Budget'
  BY <1>1, <1>2, <1>3, TypesKept, BudgetKept DEF TInv, Minting
<1>5. Owned' /\ Asking' /\ Attempting' /\ Tokened'
  BY <1>1 DEF TInv, Minting, Owned, Asking, Attempting, Tokened
<1>6. TokenGiven'
  BY <1>1, Halves DEF TInv, Minting, TokenGiven, FrontSide
<1> QED
  BY <1>4, <1>5, <1>6 DEF Minting

\* What the handler finds is a user or nothing.
LEMMA FoundType ==
  ASSUME FrontSide, NEW q \in Requests, reply[q] # Nil
  PROVE  Found(q) \in [Requests -> Users \cup {NoUser}] /\ reply[q].token \in Tokens \cup {NoToken}
<1>1. reply[q] \in Replies /\ found \in [Requests -> Users \cup {NoUser}]
  BY DEF FrontSide
<1>2. reply[q].user \in Users \cup {NoUser} /\ reply[q].token \in Tokens \cup {NoToken}
  BY <1>1 DEF Replies
<1> QED
  BY <1>1, <1>2 DEF Found

LEMMA SucceedMints ==
  ASSUME TInv, NEW q \in Requests, Succeed(q)
  PROVE  Minting'
<1>1. /\ UNCHANGED <<logicVars, minted, owner, callVars, asked, failed, barred, faults>>
      /\ UNCHANGED <<step, tries, wire, reply>> /\ found' = Found(q)
      /\ answer' = [answer EXCEPT ![q] = "ok"] /\ got' = [got EXCEPT ![q] = reply[q].token]
      /\ step[q] > 0 /\ reply[q] # Nil /\ Accepted(q)
  BY DEF Succeed, Waiting, logicVars, callVars
<1>2. FrontSide'
  BY <1>1, Halves, FoundType DEF TInv, Minting, FrontSide
<1>3. Spent \subseteq Spent'
  BY <1>1 DEF Spent
<1>4. TypeOK' /\ Budget'
  BY <1>1, <1>2, <1>3, TypesKept, BudgetKept DEF TInv, Minting
<1>5. Owned' /\ Asking' /\ Attempting' /\ Tokened'
  BY <1>1 DEF TInv, Minting, Owned, Asking, Attempting, Tokened
<1>6. TokenGiven'
  <2> SUFFICES ASSUME NEW p \in Requests, answer'[p] = "ok", asked[p].route \in {"login", "register"}
               PROVE  got'[p] \in 1 .. minted /\ owner[got'[p]] = asked[p].user
    BY <1>1 DEF TokenGiven
  <2>1. FrontSide
    BY Halves DEF TInv, Minting
  <2>2. CASE p = q
    <3>1. step[q] \in 1 .. Len(Plan[asked[q].route]) /\ asked[q].route \in Routes
      BY <1>1, Arrived DEF TInv, IInv
    <3>2. step[q] = 1 /\ Plan[asked[q].route][1] \in {"Login", "Register"}
      <4>1. Len(Plan[asked[q].route]) = 1 /\ Plan[asked[q].route][1] \in {"Login", "Register"}
        BY <2>2, <3>1, OneCall
      <4> QED
        BY <3>1, <4>1
    <3>3. HasToken(reply[q])
      BY <1>1, <3>2 DEF Accepted, Now, PlanOf
    <3>4. got'[q] = reply[q].token /\ reply[q].token # NoToken
      BY <1>1, <2>1, <3>3 DEF HasToken, FrontSide
    <3> QED
      BY <1>1, <2>2, <3>4 DEF TInv, Minting, Tokened
  <2>3. CASE p # q
    BY <1>1, <2>1, <2>3 DEF TInv, Minting, TokenGiven, FrontSide
  <2> QED
    BY <2>2, <2>3
<1> QED
  BY <1>4, <1>5, <1>6 DEF Minting

LEMMA ContinueMints ==
  ASSUME TInv, NEW q \in Requests, Continue(q)
  PROVE  Minting'
<1> DEFINE new == [req |-> q, step |-> step[q] + 1, try |-> 1]
<1>1. /\ step[q] > 0 /\ reply[q] # Nil /\ found' = Found(q) /\ step[q] < Len(Plan[asked[q].route])
      /\ step' = [step EXCEPT ![q] = step[q] + 1] /\ tries' = [tries EXCEPT ![q] = 1]
      /\ wire' = wire \cup {new} /\ reply' = [reply EXCEPT ![q] = Nil]
      /\ UNCHANGED <<logicVars, minted, owner, asked, got, answer, failed, barred, faults>>
  BY DEF Continue, CallOut, Waiting, logicVars, PlanOf
<1>2. FrontSide /\ MaxRetry \in Nat
  BY Halves, ApiAssumption DEF TInv, Minting, ApiAssumption
<1>3. step[q] \in Nat /\ step[q] + 1 \in 1 .. 4 /\ Guarded(asked[q].route)
  <2>1. asked[q].route \in Routes /\ step[q] \in Nat
    BY <1>1, Arrived DEF TInv, IInv
  <2>2. PICK n : n = Len(Plan[asked[q].route]) /\ n \in 1 .. 4
                 /\ (~Guarded(asked[q].route) => n = 1)
    BY <2>1, OneCall
  <2>3. step[q] \in Nat /\ n \in 1 .. 4 /\ step[q] > 0 /\ step[q] < n
    BY <1>1, <2>1, <2>2
  <2>4. step[q] + 1 \in 1 .. 4 /\ n # 1
    BY ONLY <2>3, SMT
  <2> QED
    BY <2>1, <2>2, <2>4
<1>4. /\ step'[q] = step[q] + 1 /\ tries'[q] = 1 /\ reply'[q] = Nil
      /\ \A p \in Requests : p # q => /\ step'[p] = step[p] /\ tries'[p] = tries[p]
                                      /\ reply'[p] = reply[p]
  BY <1>1, <1>2 DEF FrontSide
<1>5. FrontSide'
  <2>1. new \in Attempts
    BY <1>2, <1>3 DEF Attempts
  <2>2. /\ step' \in [Requests -> 0 .. 4] /\ tries' \in [Requests -> 0 .. MaxRetry + 1]
        /\ reply' \in [Requests -> Replies \cup {Nil}] /\ found' \in [Requests -> Users \cup {NoUser}]
    BY <1>1, <1>2, <1>3, FoundType DEF FrontSide
  <2> QED
    BY <1>1, <1>2, <2>1, <2>2 DEF FrontSide
<1>6. Spent \subseteq Spent'
  <2> SUFFICES ASSUME NEW x \in Spent PROVE x \in Spent'
    OBVIOUS
  <2>1. x[1] # q /\ x[1] \in Requests
    BY <1>3 DEF Spent
  <2>2. [req |-> x[1], step |-> 1, try |-> x[2]] # new
    BY <2>1
  <2> QED
    BY <1>1, <1>4, <2>1, <2>2 DEF Spent
<1>7. TypeOK' /\ Budget'
  BY <1>1, <1>5, <1>6, TypesKept, BudgetKept DEF TInv, Minting
<1>8. Owned' /\ TokenGiven'
  BY <1>1 DEF TInv, Minting, Owned, TokenGiven
<1>9. Asking'
  BY <1>1, <1>3, <1>4 DEF TInv, Minting, Asking
<1>10. Attempting'
  <2> SUFFICES ASSUME NEW m \in wire', m.step = step'[m.req] PROVE m.try <= tries'[m.req]
    BY <1>1 DEF Attempting
  <2>1. \A n \in wire : n.req \in Requests /\ n.step \in 1 .. step[n.req]
    BY DEF TInv, IInv, Progress
  <2>2. CASE m = new
    BY <1>4, <2>2
  <2>3. CASE m \in wire
    <3>1. m.req # q
      BY <1>3, <1>4, <2>1, <2>3
    <3> QED
      BY <1>4, <2>1, <2>3, <3>1 DEF TInv, Minting, Attempting
  <2> QED
    BY <1>1, <2>2, <2>3
<1>11. Tokened'
  BY <1>1, <1>4 DEF TInv, Minting, Tokened
<1> QED
  BY <1>7, <1>8, <1>9, <1>10, <1>11 DEF Minting
-------------------------------------------------------------------------------
LEMMA MintsInit == Init => Minting
<1> SUFFICES ASSUME Init PROVE Minting
  OBVIOUS
<1>1. /\ minted \in Nat /\ minted = Cardinality(Known) /\ minted <= Cardinality(Users)
      /\ IsFiniteSet(1 .. minted) /\ Cardinality(1 .. minted) = minted
  <2>1. IsFiniteSet(Known) /\ Cardinality(Known) <= Cardinality(Users)
    BY ApiAssumption, FS_Subset DEF ApiAssumption
  <2>2. Cardinality(Known) \in Nat /\ minted = Cardinality(Known)
    BY <2>1, FS_CardinalityType DEF Init
  <2>3. minted \in Nat /\ 1 \in Int
    BY <2>2
  <2>4. IsFiniteSet(1 .. minted) /\ Cardinality(1 .. minted) = IF 1 > minted THEN 0 ELSE minted - 1 + 1
    BY <2>3, FS_Interval
  <2> QED
    BY <2>1, <2>2, <2>3, <2>4
<1>2. Spent = {} /\ Cardinality(Spent) = 0
  <2>1. Spent = {}
    BY DEF Init, Spent
  <2> QED
    BY <2>1, FS_EmptySet
<1>3. minted \in 0 .. Cardinality(Tokens) /\ 1 .. minted \subseteq Tokens
  <2>1. PICK k : k = Cardinality(Requests) * (MaxRetry + 1)
    OBVIOUS
  <2>2. k \in Nat
    <3>1. Cardinality(Requests) \in Nat /\ MaxRetry + 1 \in Nat
      BY ApiAssumption, FS_CardinalityType DEF ApiAssumption
    <3> QED
      BY <2>1, <3>1
  <2>3. minted <= Cardinality(Tokens) /\ Cardinality(Tokens) \in Nat /\ Tokens = 1 .. Cardinality(Tokens)
    BY <1>1, <2>1, <2>2, TokenCount
  <2> QED
    BY <1>1, <2>3
<1>4. PICK f \in [Known -> 1 .. minted] :
        /\ \A v, w \in Known : v # w => f[v] # f[w]
        /\ owner = [t \in Tokens |-> IF t <= minted THEN CHOOSE u \in Known : f[u] = t ELSE Nil]
        /\ current = [u \in Users |-> IF u \in Known THEN f[u] ELSE NoToken]
  BY DEF Init
<1>5. current \in [Users -> Tokens \cup {NoToken}]
  BY <1>3, <1>4
<1>6. \A t \in 1 .. minted : \E u \in Known : f[u] = t
  <2>1. f \in Injection(Known, 1 .. minted)
    BY <1>4 DEF Injection, IsInjective
  <2>2. Cardinality(Known) = Cardinality(1 .. minted)
    BY <1>1
  <2>3. f \in Surjection(Known, 1 .. minted)
    BY <1>1, <2>1, <2>2, FS_Injection
  <2> QED
    BY <2>3 DEF Surjection
<1>7. Owned
  <2> SUFFICES ASSUME NEW t \in 1 .. minted PROVE owner[t] \in Users
    BY DEF Owned
  <2>1. (CHOOSE u \in Known : f[u] = t) \in Known
    BY <1>6
  <2>2. t <= minted /\ t \in Tokens
    BY <1>1, <1>3
  <2> QED
    BY <1>4, <2>1, <2>2, ApiAssumption DEF ApiAssumption
<1>8. owner \in [Tokens -> Users \cup {Nil}]
  <2>1. \A t \in Tokens : t <= minted => t \in 1 .. minted
    BY <1>1, TokenNumbers
  <2>2. \A t \in Tokens : owner[t] \in Users \cup {Nil}
    BY <1>4, <1>7, <2>1 DEF Owned
  <2> QED
    BY <1>4, <2>2
<1>9. LogicSide
  <2>1. sent \in [Requests -> Seq(Users \cup {NoUser})]
    BY EmptySeq DEF Init
  <2>2. accounts \subseteq Users /\ alive = 1 .. minted
    BY ApiAssumption DEF ApiAssumption, Init
  <2> QED
    BY <1>3, <1>5, <1>8, <2>1, <2>2 DEF LogicSide
<1>10. FrontSide
  BY ApiAssumption DEF ApiAssumption, Init, FrontSide, NoToken
<1>11. Budget
  BY <1>1, <1>2, TokenCount DEF Budget
<1>12. Asking /\ Attempting /\ Tokened /\ TokenGiven
  BY ApiAssumption DEF ApiAssumption, Init, Asking, Attempting, Tokened, TokenGiven
<1> QED
  BY <1>7, <1>9, <1>10, <1>11, <1>12, Halves DEF Minting

LEMMA TInvInit == Init => TInv
BY InvariantInit, MintsInit DEF TInv

LEMMA TInvNext == TInv /\ [Next]_vars => TInv'
<1> SUFFICES ASSUME TInv, [Next]_vars PROVE TInv'
  OBVIOUS
<1>1. IInv'
  BY InvariantNext DEF TInv
<1>2. ASSUME NEW m \in wire, Serve(m) \/ \E r \in {Zero, Refusal} : ServeError(m, r)
      PROVE  Minting'
  <2>1. PICK r : Tells(m, r)
    BY <1>2, ServeTells
  <2> QED
    BY <2>1, LogicMints
<1>3. ASSUME UNCHANGED vars
      PROVE  Minting'
  <2>1. /\ UNCHANGED <<logicVars, minted, owner, accounts, alive, current, sent>>
        /\ UNCHANGED <<step, tries, wire, reply, asked, found, got, answer, failed, barred, faults>>
    BY <1>3 DEF vars, logicVars, callVars
  <2>2. TypeOK'
    BY <2>1 DEF TInv, Minting, TypeOK
  <2>3. Spent' = Spent
    BY <2>1 DEF Spent
  <2>4. Budget'
    BY <2>1, <2>3, BudgetKept DEF TInv, Minting
  <2>5. Owned' /\ Asking' /\ Attempting' /\ Tokened' /\ TokenGiven'
    BY <2>1 DEF TInv, Minting, Owned, Asking, Attempting, Tokened, TokenGiven
  <2> QED
    BY <2>2, <2>4, <2>5 DEF Minting
<1>4. ASSUME NEW q \in Requests, Handle(q)
      PROVE  Minting'
  BY <1>4, RefuseMints, SucceedMints, ContinueMints DEF Handle
<1>5. Minting'
  BY <1>2, <1>3, <1>4, ArriveMints, BreakMints DEF Next
<1> QED
  BY <1>1, <1>5 DEF TInv

\* The values the api layer passes around have their types; there are tokens enough for
\* every attempt of every login and register (rpc.go:33, the client's retries).
THEOREM ApiTypes == Spec => []TypeOK
<1>1. TInv => TypeOK
  BY DEF TInv, Minting
<1> QED
  BY <1>1, TInvInit, TInvNext, PTL DEF Spec

\* Who is told that he logged in or registered gets a token logic made for him, for any
\* number of requests, users, retries and failures (handler Login, Register).
THEOREM TokensAreGiven == Spec => []TokenGiven
<1>1. TInv => TokenGiven
  BY DEF TInv, Minting
<1> QED
  BY <1>1, TInvInit, TInvNext, PTL DEF Spec
===============================================================================
