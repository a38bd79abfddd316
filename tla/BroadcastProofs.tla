---------------------------- MODULE BroadcastProofs ----------------------------
(* Theorems about Broadcast, for any room, number of callers and goroutines. *)
EXTENDS Broadcast, SequenceTheorems, TLAPS

\* In sequence q a place of m comes before a place of n.
Before(q, m, n) == \E i, j \in DOMAIN q : i < j /\ q[i] = m /\ q[j] = n

\* No handler still has to give message n to bucket b, or to the connection it is for.
Past(n, b) == \A k \in Callers : hand[k] = n => found[k] = Nil /\ b < at[k]

\* Message n may get to a connection of bucket b after message m.
Follows(m, n, b) ==
  /\ m # n
  /\ log[m] = log[n] /\ log[m].to = Room /\ via[m][b] = via[n][b] => m < n

\* Message n has got to Channel c, or was dropped there.
Met(c) == ToSet(Stream(c)) \cup missed[c]

\* A handler has the latest message of its caller, for the room or for the one it found.
Handing == \A k \in Callers :
  /\ at[k] = 0 => slot[k] = Nil
  /\ hand[k] = 0 => at[k] = 0 /\ found[k] = Nil
  /\ hand[k] # 0 =>
       /\ log[hand[k]].by = k
       /\ \A m \in Ids : log[m].by = k => m <= hand[k]
       /\ found[k] = Nil => at[k] # 0 /\ log[hand[k]].to = Room
       /\ found[k] # Nil => at[k] = 0 /\ log[hand[k]].to = found[k]
  /\ slot[k] # Nil => via[hand[k]][at[k]] = slot[k]

\* The room has the members that stayed, each once; so has what a Room.Push has ahead.
Rooms ==
  /\ \A b \in Buckets : ToSet(room[b]) \subseteq ToSet(Members[b]) /\ IsInjective(room[b])
  /\ \A w \in Routines : /\ ToSet(ahead[w]) \subseteq ToSet(Members[w[1]])
                         /\ IsInjective(ahead[w])
                         /\ pushing[w] = 0 <=> ahead[w] = <<>>

\* What a goroutine has was given to it and is to the room, in the order it was given.
Given(n, w) == log[n].to = Room /\ via[n][w[1]] = w[2] /\ Past(n, w[1])
InQueue(w) ==
  /\ \A n \in ToSet(routines[w]) : Given(n, w)
  /\ \A m, n \in Ids : Before(routines[w], m, n) => Follows(m, n, w[1])
  /\ pushing[w] # 0 => /\ Given(pushing[w], w)
                       /\ \A n \in ToSet(routines[w]) : Follows(pushing[w], n, w[1])
Queues == \A w \in Routines : InQueue(w)

\* What has met a connection is behind everything its goroutines still bring it.
Passed(m, c, b) ==
  /\ Past(m, b)
  /\ \A w \in Routines : w[1] = b =>
       /\ \A n \in ToSet(routines[w]) : Follows(m, n, b)
       /\ c \in ToSet(ahead[w]) => Follows(m, pushing[w], b)
Behind == \A b \in Buckets : \A c \in ToSet(Members[b]) : \A m \in Met(c) : Passed(m, c, b)

\* What a connection gets is in order, and none of it was dropped.
InOrder(c, b) ==
  /\ \A m, n \in Ids : Before(Stream(c), m, n) => Follows(m, n, b)
  /\ ToSet(Stream(c)) \cap missed[c] = {}
Streams == \A b \in Buckets : \A c \in ToSet(Members[b]) : InOrder(c, b)

\* Every room message has met, or is coming to, every connection that stays.
Complete == \A b \in Buckets : \A c \in ToSet(room[b]) : \A n \in Ids :
  pump[c] = "run" /\ log[n].to = Room /\ ~Coming(n, b, c) => n \in Met(c)

IInv == TypeOK /\ Handing /\ Rooms /\ Queues /\ Behind /\ Streams /\ Complete
-------------------------------------------------------------------------------
(* Sequences: what is in them, and in which order. *)

LEMMA Elements ==
  ASSUME NEW S, NEW q \in Seq(S)
  PROVE  /\ Len(q) \in Nat /\ DOMAIN q = 1 .. Len(q)
         /\ \A i \in 1 .. Len(q) : q[i] \in S /\ q[i] \in ToSet(q)
         /\ \A x \in ToSet(q) : \E i \in 1 .. Len(q) : q[i] = x
         /\ ToSet(q) \subseteq S
         /\ q = <<>> <=> ToSet(q) = {}
  <1>1. Len(q) \in Nat /\ DOMAIN q = 1 .. Len(q) /\ q \in [1 .. Len(q) -> S]
    BY LenProperties
  <1>2. \A i \in 1 .. Len(q) : q[i] \in S /\ q[i] \in ToSet(q)
    BY <1>1 DEF ToSet
  <1>3. \A x \in ToSet(q) : \E i \in 1 .. Len(q) : q[i] = x
    BY <1>1 DEF ToSet
  <1>4. q = <<>> => ToSet(q) = {}
    BY <1>1, <1>3
  <1>5. ASSUME q # <<>> PROVE ToSet(q) # {}
    <2>1. Len(q) # 0
      BY <1>5, EmptySeq
    <2>2. 1 \in 1 .. Len(q)
      BY <1>1, <2>1
    <2> QED BY <1>2, <2>2
  <1> QED BY <1>1, <1>2, <1>3, <1>4, <1>5

LEMMA Appended ==
  ASSUME NEW S, NEW q \in Seq(S), NEW x \in S
  PROVE  /\ ToSet(Append(q, x)) = ToSet(q) \cup {x}
         /\ \A m, n : Before(Append(q, x), m, n) => Before(q, m, n) \/ (m \in ToSet(q) /\ n = x)
  <1> DEFINE r == Append(q, x)
  <1>1. r \in Seq(S) /\ Len(r) = Len(q) + 1 /\ r[Len(q) + 1] = x
    BY AppendProperties
  <1>2. \A i \in 1 .. Len(q) : r[i] = q[i]
    BY AppendProperties
  <1>3. Len(q) \in Nat /\ DOMAIN q = 1 .. Len(q) /\ DOMAIN r = 1 .. Len(q) + 1
    BY <1>1, LenProperties
  <1> HIDE DEF r
  <1>4. ToSet(r) = ToSet(q) \cup {x}
    <2>1. ASSUME NEW y \in ToSet(r) PROVE y \in ToSet(q) \cup {x}
      <3>1. PICK i \in 1 .. Len(q) + 1 : r[i] = y
        BY <1>3 DEF ToSet
      <3>2. CASE i = Len(q) + 1
        BY <3>1, <3>2, <1>1
      <3>3. CASE i # Len(q) + 1
        <4>1. i \in 1 .. Len(q)
          BY <1>3, <3>3
        <4>2. q[i] = y
          BY <4>1, <3>1, <1>2
        <4> QED BY <4>1, <4>2, <1>3 DEF ToSet
      <3> QED BY <3>2, <3>3
    <2>2. ASSUME NEW y \in ToSet(q) PROVE y \in ToSet(r)
      <3>1. PICK i \in 1 .. Len(q) : q[i] = y
        BY <1>3 DEF ToSet
      <3>2. i \in 1 .. Len(q) + 1
        BY <1>3
      <3>3. r[i] = y
        BY <3>1, <1>2
      <3> QED BY <3>2, <3>3, <1>3 DEF ToSet
    <2>3. x \in ToSet(r)
      <3>1. Len(q) + 1 \in 1 .. Len(q) + 1
        BY <1>3
      <3> QED BY <3>1, <1>1, <1>3 DEF ToSet
    <2> QED BY <2>1, <2>2, <2>3
  <1>5. ASSUME NEW m, NEW n, Before(r, m, n)
        PROVE  Before(q, m, n) \/ (m \in ToSet(q) /\ n = x)
    <2>1. PICK i, j \in 1 .. Len(q) + 1 : i < j /\ r[i] = m /\ r[j] = n
      BY <1>5, <1>3 DEF Before
    <2>2. i \in 1 .. Len(q)
      BY <2>1, <1>3
    <2>3. q[i] = m
      BY <2>1, <2>2, <1>2
    <2>4. CASE j = Len(q) + 1
      <3>1. n = x
        BY <2>1, <2>4, <1>1
      <3> QED BY <3>1, <2>2, <2>3, <1>3 DEF ToSet
    <2>5. CASE j # Len(q) + 1
      <3>1. j \in 1 .. Len(q)
        BY <2>5, <1>3
      <3>2. q[j] = n
        BY <2>1, <3>1, <1>2
      <3> QED BY <2>1, <2>2, <2>3, <3>1, <3>2, <1>3 DEF Before
    <2> QED BY <2>4, <2>5
  <1> QED BY <1>4, <1>5 DEF r

LEMMA Tailed ==
  ASSUME NEW S, NEW q \in Seq(S), q # <<>>
  PROVE  /\ Head(q) \in ToSet(q)
         /\ ToSet(Tail(q)) \subseteq ToSet(q)
         /\ ToSet(q) \subseteq ToSet(Tail(q)) \cup {Head(q)}
         /\ \A n \in ToSet(Tail(q)) : Before(q, Head(q), n)
         /\ \A m, n : Before(Tail(q), m, n) => Before(q, m, n)
         /\ IsInjective(q) => Head(q) \notin ToSet(Tail(q)) /\ IsInjective(Tail(q))
  <1> DEFINE t == Tail(q)
             h == Head(q)
  <1>1. t \in Seq(S) /\ Len(t) = Len(q) - 1 /\ \A i \in 1 .. Len(t) : t[i] = q[i + 1]
    BY HeadTailProperties
  <1>2. Len(q) \in Nat /\ Len(t) \in Nat /\ DOMAIN q = 1 .. Len(q) /\ DOMAIN t = 1 .. Len(t)
    BY <1>1, LenProperties
  <1>3. h = q[1]
    OBVIOUS
  <1> HIDE DEF t, h
  <1>4. 1 \in 1 .. Len(q)
    <2>1. Len(q) # 0
      BY EmptySeq
    <2> QED BY <2>1, <1>2
  <1>5. h \in ToSet(q)
    BY <1>2, <1>3, <1>4 DEF ToSet
  <1>6. \A i \in 1 .. Len(t) : i + 1 \in 1 .. Len(q) /\ t[i] = q[i + 1] /\ 1 < i + 1
    BY <1>1, <1>2
  <1>7. ToSet(t) \subseteq ToSet(q)
    <2>1. SUFFICES ASSUME NEW i \in 1 .. Len(t) PROVE t[i] \in ToSet(q)
      BY <1>2 DEF ToSet
    <2> QED BY <1>6, <1>2 DEF ToSet
  <1>8. ToSet(q) \subseteq ToSet(t) \cup {h}
    <2>1. SUFFICES ASSUME NEW i \in 1 .. Len(q) PROVE q[i] \in ToSet(t) \cup {h}
      BY <1>2 DEF ToSet
    <2>2. CASE i = 1
      BY <2>2, <1>3
    <2>3. CASE i # 1
      <3>1. i - 1 \in 1 .. Len(t) /\ (i - 1) + 1 = i
        BY <2>3, <1>1, <1>2
      <3>2. t[i - 1] = q[i]
        BY <3>1, <1>6
      <3> QED BY <3>1, <3>2, <1>2 DEF ToSet
    <2> QED BY <2>2, <2>3
  <1>9. ASSUME NEW n \in ToSet(t) PROVE Before(q, h, n)
    <2>1. PICK i \in 1 .. Len(t) : t[i] = n
      BY <1>2 DEF ToSet
    <2>2. i + 1 \in DOMAIN q /\ 1 \in DOMAIN q /\ q[i + 1] = n /\ q[1] = h /\ 1 < i + 1
      BY <2>1, <1>2, <1>3, <1>4, <1>6
    <2> QED BY <2>2 DEF Before
  <1>10. ASSUME NEW m, NEW n, Before(t, m, n) PROVE Before(q, m, n)
    <2>1. PICK i, j \in 1 .. Len(t) : i < j /\ t[i] = m /\ t[j] = n
      BY <1>10, <1>2 DEF Before
    <2>2. i + 1 \in DOMAIN q /\ j + 1 \in DOMAIN q /\ q[i + 1] = m /\ q[j + 1] = n
      BY <2>1, <1>2, <1>6
    <2>3. i + 1 < j + 1
      BY <2>1
    <2> QED BY <2>2, <2>3 DEF Before
  <1>11. ASSUME IsInjective(q) PROVE h \notin ToSet(t) /\ IsInjective(t)
    <2>1. \A i, j \in 1 .. Len(q) : q[i] = q[j] => i = j
      BY <1>11, <1>2 DEF IsInjective
    <2>2. ASSUME NEW i \in 1 .. Len(t), t[i] = h PROVE FALSE
      <3>1. i + 1 \in 1 .. Len(q) /\ q[i + 1] = q[1] /\ 1 < i + 1
        BY <2>2, <1>3, <1>6
      <3>2. i + 1 = 1
        BY <3>1, <2>1, <1>4
      <3> QED BY <3>1, <3>2
    <2>3. ASSUME NEW i \in 1 .. Len(t), NEW j \in 1 .. Len(t), t[i] = t[j] PROVE i = j
      <3>1. i + 1 \in 1 .. Len(q) /\ j + 1 \in 1 .. Len(q) /\ q[i + 1] = q[j + 1]
        BY <2>3, <1>6
      <3>2. i + 1 = j + 1
        BY <3>1, <2>1
      <3> QED BY <3>2
    <2>4. h \notin ToSet(t)
      BY <2>2, <1>2 DEF ToSet
    <2> QED BY <2>3, <2>4, <1>2 DEF IsInjective
  <1> QED BY <1>5, <1>7, <1>8, <1>9, <1>10, <1>11 DEF t, h
LEMMA Dropped ==
  ASSUME NEW S, NEW q \in Seq(S), NEW c, IsInjective(q)
  PROVE  /\ Without(q, c) \in Seq(S)
         /\ ToSet(Without(q, c)) = ToSet(q) \ {c}
         /\ IsInjective(Without(q, c))
  <1>1. CASE c \notin ToSet(q)
    BY <1>1 DEF Without
  <1>2. CASE c \in ToSet(q)
    <2> DEFINE d == CHOOSE i \in DOMAIN q : q[i] = c
               r == Without(q, c)
               at0(i) == IF i < d THEN i ELSE i + 1
    <2>1. Len(q) \in Nat /\ DOMAIN q = 1 .. Len(q) /\ \A i \in 1 .. Len(q) : q[i] \in S
      BY Elements
    <2>2. d \in 1 .. Len(q) /\ q[d] = c
      BY <1>2, <2>1 DEF ToSet
    <2>3. r = SubSeq(q, 1, d - 1) \o SubSeq(q, d + 1, Len(q))
      BY <1>2 DEF Without, RemoveAt
    <2> HIDE DEF d, r
    <2>4. /\ SubSeq(q, 1, d - 1) \in Seq(S) /\ Len(SubSeq(q, 1, d - 1)) = d - 1
          /\ \A i \in 1 .. d - 1 : SubSeq(q, 1, d - 1)[i] = q[i]
      <3>1. \A i \in 1 .. d - 1 : q[i] \in S
        BY <2>1, <2>2
      <3>2. 1 \in Int /\ d - 1 \in Int /\ (d - 1) - 1 + 1 = d - 1
        BY <2>2
      <3>3. \A i \in 1 .. d - 1 : 1 + i - 1 = i
        OBVIOUS
      <3> QED BY <3>1, <3>2, <3>3, <2>2, SubSeqProperties
    <2>5. /\ SubSeq(q, d + 1, Len(q)) \in Seq(S) /\ Len(SubSeq(q, d + 1, Len(q))) = Len(q) - d
          /\ \A i \in 1 .. Len(q) - d : SubSeq(q, d + 1, Len(q))[i] = q[d + i]
      <3>1. \A i \in d + 1 .. Len(q) : q[i] \in S
        BY <2>1, <2>2
      <3>2. d + 1 \in Int /\ Len(q) \in Int /\ Len(q) - (d + 1) + 1 = Len(q) - d
        BY <2>1, <2>2
      <3>3. \A i \in 1 .. Len(q) - d : (d + 1) + i - 1 = d + i
        BY <2>1, <2>2
      <3>4. Len(q) - d = IF d + 1 <= Len(q) THEN Len(q) - (d + 1) + 1 ELSE 0
        <4>1. Len(q) \in Nat /\ d \in Nat /\ d <= Len(q)
          BY <2>1, <2>2
        <4> QED BY ONLY <4>1, SMT
      <3> QED BY <3>1, <3>2, <3>3, <3>4, SubSeqProperties
    <2>6. /\ r \in Seq(S) /\ Len(r) = Len(q) - 1
          /\ \A i \in 1 .. Len(q) - 1 : r[i] = IF i <= d - 1 THEN SubSeq(q, 1, d - 1)[i]
                                               ELSE SubSeq(q, d + 1, Len(q))[i - (d - 1)]
      <3> DEFINE s == SubSeq(q, 1, d - 1)
                 t == SubSeq(q, d + 1, Len(q))
      <3>1. (d - 1) + (Len(q) - d) = Len(q) - 1
        BY <2>1, <2>2
      <3>2. s \in Seq(S) /\ t \in Seq(S) /\ Len(s) = d - 1 /\ Len(t) = Len(q) - d
        BY <2>4, <2>5
      <3> HIDE DEF s, t
      <3>3. /\ s \o t \in Seq(S) /\ Len(s \o t) = Len(s) + Len(t)
            /\ \A i \in 1 .. Len(s) + Len(t) : (s \o t)[i] = IF i <= Len(s) THEN s[i] ELSE t[i - Len(s)]
        BY <3>2, ConcatProperties
      <3>4. r = s \o t
        BY <2>3 DEF s, t
      <3>5. Len(s) + Len(t) = Len(q) - 1
        BY <3>1, <3>2
      <3>6. \A i \in 1 .. Len(q) - 1 : r[i] = IF i <= d - 1 THEN s[i] ELSE t[i - (d - 1)]
        BY <3>2, <3>3, <3>4, <3>5
      <3> QED BY <3>3, <3>4, <3>5, <3>6 DEF s, t
    <2>7. \A i \in 1 .. Len(q) - 1 : at0(i) \in 1 .. Len(q) /\ at0(i) # d /\ r[i] = q[at0(i)]
      <3> TAKE i \in 1 .. Len(q) - 1
      <3>1. at0(i) \in 1 .. Len(q) /\ at0(i) # d
        BY <2>1, <2>2
      <3>2. CASE i < d
        <4>1. i \in 1 .. d - 1 /\ i <= d - 1
          BY <3>2, <2>2
        <4> QED BY <4>1, <3>1, <3>2, <2>4, <2>6
      <3>3. CASE ~(i < d)
        <4>1. i - (d - 1) \in 1 .. Len(q) - d /\ ~(i <= d - 1) /\ d + (i - (d - 1)) = i + 1
          BY <3>3, <2>1, <2>2
        <4> QED BY <4>1, <3>1, <3>3, <2>5, <2>6
      <3> QED BY <3>2, <3>3
    <2>8. \A i \in 1 .. Len(q) : i # d => \E j \in 1 .. Len(q) - 1 : at0(j) = i
      <3> TAKE i \in 1 .. Len(q)
      <3> HAVE i # d
      <3>1. CASE i < d
        <4>1. i \in 1 .. Len(q) - 1 /\ at0(i) = i
          BY <3>1, <2>1, <2>2
        <4> QED BY <4>1
      <3>2. CASE ~(i < d)
        <4>1. i - 1 \in 1 .. Len(q) - 1 /\ at0(i - 1) = i
          BY <3>2, <2>1, <2>2
        <4> QED BY <4>1
      <3> QED BY <3>1, <3>2
    <2>9. \A i, j \in 1 .. Len(q) - 1 : at0(i) = at0(j) => i = j
      BY <2>1, <2>2
    <2>10. \A i, j \in 1 .. Len(q) : q[i] = q[j] => i = j
      BY <2>1 DEF IsInjective
    <2> HIDE DEF at0
    <2>11. DOMAIN r = 1 .. Len(q) - 1
      BY <2>6, LenProperties
    <2>12. ASSUME NEW x \in ToSet(r) PROVE x \in ToSet(q) \ {c}
      <3>1. PICK i \in 1 .. Len(q) - 1 : r[i] = x
        BY <2>11 DEF ToSet
      <3>2. at0(i) \in 1 .. Len(q) /\ at0(i) # d /\ q[at0(i)] = x
        BY <3>1, <2>7
      <3>3. x # c
        BY <3>2, <2>2, <2>10
      <3> QED BY <3>2, <3>3, <2>1 DEF ToSet
    <2>13. ASSUME NEW x \in ToSet(q) \ {c} PROVE x \in ToSet(r)
      <3>1. PICK i \in 1 .. Len(q) : q[i] = x
        BY <2>1 DEF ToSet
      <3>2. PICK j \in 1 .. Len(q) - 1 : at0(j) = i
        BY <3>1, <2>2, <2>8
      <3>3. r[j] = x
        BY <3>1, <3>2, <2>7
      <3> QED BY <3>3, <2>11 DEF ToSet
    <2>14. IsInjective(r)
      <3>1. ASSUME NEW i \in 1 .. Len(q) - 1, NEW j \in 1 .. Len(q) - 1, r[i] = r[j] PROVE i = j
        <4>1. at0(i) \in 1 .. Len(q) /\ at0(j) \in 1 .. Len(q) /\ q[at0(i)] = q[at0(j)]
          BY <3>1, <2>7
        <4>2. at0(i) = at0(j)
          BY <4>1, <2>10
        <4> QED BY <4>2, <2>9
      <3> QED BY <3>1, <2>11 DEF IsInjective
    <2> QED BY <2>6, <2>12, <2>13, <2>14 DEF r
  <1> QED BY <1>1, <1>2

\* A buffer behind what is written: a message more, one written, one lost.
LEMMA Streamed ==
  ASSUME NEW S, NEW p \in Seq(S), NEW q \in Seq(S)
  PROVE  /\ \A x \in S : p \o Append(q, x) = Append(p \o q, x)
         /\ q # <<>> =>
              /\ Append(p, Head(q)) \o Tail(q) = p \o q
              /\ ToSet(p \o Tail(q)) \subseteq ToSet(p \o q)
              /\ \A m, n : Before(p \o Tail(q), m, n) => Before(p \o q, m, n)
  <1>1. ASSUME NEW x \in S PROVE p \o Append(q, x) = Append(p \o q, x)
    <2>1. Append(q, x) = q \o <<x>> /\ Append(p \o q, x) = (p \o q) \o <<x>>
      BY AppendIsConcat, ConcatProperties
    <2>2. <<x>> \in Seq(S)
      OBVIOUS
    <2> QED BY <2>1, <2>2, ConcatAssociative
  <1>2. ASSUME q # <<>>
        PROVE  /\ Append(p, Head(q)) \o Tail(q) = p \o q
               /\ ToSet(p \o Tail(q)) \subseteq ToSet(p \o q)
               /\ \A m, n : Before(p \o Tail(q), m, n) => Before(p \o q, m, n)
    <2> DEFINE t == Tail(q)
               h == Head(q)
               r == p \o q
               u == p \o t
               v == Append(p, h) \o t
    <2>1. /\ h \in S /\ h = q[1] /\ t \in Seq(S) /\ Len(t) = Len(q) - 1
          /\ \A i \in 1 .. Len(t) : t[i] = q[i + 1]
      BY <1>2, HeadTailProperties
    <2>2. Len(p) \in Nat /\ Len(q) \in Nat /\ Len(t) \in Nat
      BY <2>1, LenProperties
    <2>3. /\ r \in Seq(S) /\ Len(r) = Len(p) + Len(q)
          /\ \A i \in 1 .. Len(p) + Len(q) : r[i] = IF i <= Len(p) THEN p[i] ELSE q[i - Len(p)]
      BY ConcatProperties
    <2>4. /\ u \in Seq(S) /\ Len(u) = Len(p) + Len(t)
          /\ \A i \in 1 .. Len(p) + Len(t) : u[i] = IF i <= Len(p) THEN p[i] ELSE t[i - Len(p)]
      <3> HIDE DEF t
      <3> QED BY <2>1, ConcatProperties
    <2>5. /\ Append(p, h) \in Seq(S) /\ Len(Append(p, h)) = Len(p) + 1
          /\ \A i \in 1 .. Len(p) : Append(p, h)[i] = p[i]
          /\ Append(p, h)[Len(p) + 1] = h
      <3> HIDE DEF h
      <3> QED BY <2>1, AppendProperties
    <2>6. /\ v \in Seq(S) /\ Len(v) = Len(p) + 1 + Len(t)
          /\ \A i \in 1 .. Len(p) + 1 + Len(t) : 
               v[i] = IF i <= Len(p) + 1 THEN Append(p, h)[i] ELSE t[i - (Len(p) + 1)]
      <3> DEFINE a == Append(p, h)
      <3>1. a \in Seq(S) /\ t \in Seq(S) /\ Len(a) = Len(p) + 1
        BY <2>1, <2>5
      <3> HIDE DEF t, a
      <3>2. /\ a \o t \in Seq(S) /\ Len(a \o t) = Len(a) + Len(t)
            /\ \A i \in 1 .. Len(a) + Len(t) : (a \o t)[i] = IF i <= Len(a) THEN a[i] ELSE t[i - Len(a)]
        BY <3>1, ConcatProperties
      <3>3. v = a \o t
        BY DEF a
      <3> QED BY <3>1, <3>2, <3>3 DEF a
    <2> HIDE DEF t, h, r, u, v
    <2>7. DOMAIN r = 1 .. Len(p) + Len(q) /\ DOMAIN u = 1 .. Len(p) + Len(t)
      BY <2>3, <2>4, LenProperties
    <2>8. v = r
      <3>1. Len(v) = Len(r)
        BY <2>1, <2>2, <2>3, <2>6
      <3>2. ASSUME NEW i \in 1 .. Len(p) + Len(q) PROVE v[i] = r[i]
        <4>1. i \in 1 .. Len(p) + 1 + Len(t)
          BY <2>1, <2>2
        <4>2. CASE i <= Len(p)
          <5>1. i \in 1 .. Len(p) /\ i <= Len(p) + 1
            BY <4>2, <2>2
          <5> QED BY <5>1, <4>1, <4>2, <2>3, <2>5, <2>6
        <4>3. CASE i = Len(p) + 1
          <5>1. i <= Len(p) + 1 /\ ~(i <= Len(p)) /\ i - Len(p) = 1
            BY <4>3, <2>2
          <5>2. r[i] = q[1]
            BY <5>1, <2>3
          <5>3. v[i] = h
            BY <5>1, <4>1, <4>3, <2>5, <2>6
          <5> QED BY <5>2, <5>3, <2>1
        <4>4. CASE i > Len(p) + 1
          <5>1. /\ ~(i <= Len(p) + 1) /\ ~(i <= Len(p))
                /\ i - (Len(p) + 1) \in 1 .. Len(t) /\ (i - (Len(p) + 1)) + 1 = i - Len(p)
            BY <4>1, <4>4, <2>2
          <5>2. r[i] = q[i - Len(p)]
            BY <5>1, <2>3
          <5>3. v[i] = t[i - (Len(p) + 1)]
            BY <5>1, <4>1, <2>6
          <5> QED BY <5>1, <5>2, <5>3, <2>1
        <4> QED BY <4>2, <4>3, <4>4, <2>2
      <3>3. \A i \in 1 .. Len(v) : v[i] = r[i]
        BY <3>1, <3>2, <2>3
      <3> QED BY <3>1, <3>3, <2>3, <2>6, SeqEqual
    <2> DEFINE to(i) == IF i <= Len(p) THEN i ELSE i + 1
    <2>9. ASSUME NEW i \in 1 .. Len(p) + Len(t)
          PROVE  to(i) \in 1 .. Len(p) + Len(q) /\ r[to(i)] = u[i]
      <3>1. to(i) \in 1 .. Len(p) + Len(q)
        BY <2>1, <2>2
      <3>2. CASE i <= Len(p)
        BY <3>1, <3>2, <2>3, <2>4
      <3>3. CASE ~(i <= Len(p))
        <4>1. ~(i + 1 <= Len(p)) /\ i - Len(p) \in 1 .. Len(t) /\ (i - Len(p)) + 1 = i + 1 - Len(p)
          BY <3>3, <2>2
        <4>2. u[i] = t[i - Len(p)]
          BY <3>3, <2>4
        <4>3. r[i + 1] = q[i + 1 - Len(p)]
          BY <4>1, <3>1, <3>3, <2>3
        <4> QED BY <4>1, <4>2, <4>3, <3>1, <3>3, <2>1
      <3> QED BY <3>2, <3>3
    <2>10. ToSet(u) \subseteq ToSet(r)
      <3> HIDE DEF to
      <3>1. SUFFICES ASSUME NEW i \in 1 .. Len(p) + Len(t) PROVE u[i] \in ToSet(r)
        BY <2>7 DEF ToSet
      <3> QED BY <2>7, <2>9 DEF ToSet
    <2>11. ASSUME NEW m, NEW n, Before(u, m, n) PROVE Before(r, m, n)
      <3>1. PICK i, j \in 1 .. Len(p) + Len(t) : i < j /\ u[i] = m /\ u[j] = n
        BY <2>11, <2>7 DEF Before
      <3>2. to(i) < to(j)
        BY <3>1, <2>2
      <3> HIDE DEF to
      <3>3. to(i) \in DOMAIN r /\ to(j) \in DOMAIN r /\ r[to(i)] = m /\ r[to(j)] = n
        BY <3>1, <2>7, <2>9
      <3> QED BY <3>2, <3>3 DEF Before
    <2> QED BY <2>8, <2>10, <2>11 DEF r, t, h, u, v
  <1> QED BY <1>1, <1>2
-------------------------------------------------------------------------------
(* Types. *)

LEMMA Constants ==
  ASSUME TypeOK
  PROVE  /\ bucketOptions.RoutineAmount \in Nat \ {0} /\ bucketOptions.RoutineSize \in Nat \ {0}
         /\ bucketOptions.MaxMsg \in Nat /\ BroadcastSize \in Nat
         /\ Len(Members) \in Nat /\ Members \in [Buckets -> Seq(Channels)]
         /\ Len(log) \in Nat /\ log \in [Ids -> [by : Callers, to : Channels \cup {Room}]]
         /\ room \in [Buckets -> Seq(Channels)]
  <1>1. bucketOptions \in BucketOptions
    BY BroadcastAssumption DEF TypeOK
  <1>2. Len(Members) \in Nat /\ Members \in [1 .. Len(Members) -> Seq(Channels)]
    BY BroadcastAssumption, LenProperties
  <1>3. Len(log) \in Nat /\ log \in [1 .. Len(log) -> [by : Callers, to : Channels \cup {Room}]]
    BY LenProperties DEF TypeOK
  <1>4. room \in [1 .. Len(room) -> Seq(Channels)] /\ Len(room) = Len(Members)
    BY LenProperties DEF TypeOK
  <1> QED BY <1>1, <1>2, <1>3, <1>4, BroadcastAssumption DEF BucketOptions, Buckets, Ids

LEMMA TypeInit == Init => TypeOK
  <1> SUFFICES ASSUME Init PROVE TypeOK
    OBVIOUS
  <1>1. bucketOptions \in Options /\ bucketOptions \in BucketOptions
    BY BroadcastAssumption DEF Init
  <1>2. bucketOptions.RoutineAmount \in Nat \ {0} /\ bucketOptions.RoutineSize \in Nat /\ bucketOptions.MaxMsg \in Nat
    BY <1>1 DEF BucketOptions
  <1>3. 0 \in 0 .. bucketOptions.RoutineAmount - 1
    BY <1>2
  <1>4. Len(<<>>) = 0 /\ (\A S : <<>> \in Seq(S))
    OBVIOUS
  <1>5. log \in Seq([by : Callers, to : Channels \cup {Room}]) /\ Len(log) <= bucketOptions.MaxMsg
    BY <1>2, <1>4 DEF Init
  <1>6. 0 \in 0 .. Len(log)
    BY <1>4 DEF Init
  <1>7. hand \in [Callers -> 0 .. Len(log)] /\ at \in [Callers -> {0} \cup Buckets]
    BY <1>6 DEF Init
  <1>8. /\ slot \in [Callers -> (0 .. bucketOptions.RoutineAmount - 1) \cup {Nil}]
        /\ found \in [Callers -> Channels \cup {Nil}]
        /\ routinesNum \in [Buckets -> 0 .. bucketOptions.RoutineAmount - 1]
    BY <1>3 DEF Init
  <1>9. routines \in [Routines -> Seq(Ids)] /\ \A w \in Routines : Len(routines[w]) <= bucketOptions.RoutineSize
    BY <1>2, <1>4 DEF Init
  <1>10. pushing \in [Routines -> {0} \cup Ids] /\ ahead \in [Routines -> Seq(Channels)]
    BY <1>4 DEF Init
  <1>11. room \in Seq(Seq(Channels)) /\ Len(room) = Len(Members)
    BY BroadcastAssumption DEF Init
  <1>12. broadcast \in [Channels -> Seq(Ids)] /\ \A c \in Channels : Len(broadcast[c]) <= BroadcastSize
    BY <1>4, BroadcastAssumption DEF Init
  <1>13. /\ pump \in [Channels -> {"run", "ended"}]
         /\ written \in [Channels -> Seq(Ids)] /\ missed \in [Channels -> SUBSET Ids]
    BY <1>4 DEF Init
  <1>14. via \in [1 .. bucketOptions.MaxMsg -> [Buckets -> (0 .. bucketOptions.RoutineAmount - 1) \cup {Nil}]]
    BY DEF Init
  <1> QED BY <1>1, <1>5, <1>7, <1>8, <1>9, <1>10, <1>11, <1>12, <1>13, <1>14 DEF TypeOK

\* What a Push does to the buffers.
LEMMA PushTypes ==
  ASSUME TypeOK, NEW c \in Channels, NEW n \in Ids, Push(c, n)
  PROVE  /\ broadcast' \in [Channels -> Seq(Ids)] /\ \A d \in Channels : Len(broadcast'[d]) <= BroadcastSize
         /\ missed' \in [Channels -> SUBSET Ids]
         /\ pump' = pump /\ written' = written
  <1>1. /\ broadcast \in [Channels -> Seq(Ids)] /\ missed \in [Channels -> SUBSET Ids]
        /\ \A d \in Channels : Len(broadcast[d]) <= BroadcastSize
    BY DEF TypeOK
  <1>2. /\ Append(broadcast[c], n) \in Seq(Ids)
        /\ Len(Append(broadcast[c], n)) = Len(broadcast[c]) + 1 /\ Len(broadcast[c]) \in Nat
    BY <1>1, AppendProperties, LenProperties
  <1>3. BroadcastSize \in Nat
    BY BroadcastAssumption
  <1>4. CASE Fits(c)
    <2>1. broadcast' = [broadcast EXCEPT ![c] = Append(@, n)] /\ UNCHANGED <<missed, pump, written>>
      BY <1>1, <1>4 DEF Push
    <2>2. Len(broadcast[c]) + 1 <= BroadcastSize
      BY <1>2, <1>3, <1>4 DEF Fits
    <2>3. ASSUME NEW d \in Channels PROVE Len(broadcast'[d]) <= BroadcastSize
      <3>1. CASE d = c
        BY <3>1, <2>1, <2>2, <1>1, <1>2
      <3>2. CASE d # c
        BY <3>2, <2>1, <1>1
      <3> QED BY <3>1, <3>2
    <2> QED BY <2>1, <2>3, <1>1, <1>2
  <1>5. CASE ~Fits(c)
    BY <1>1, <1>5 DEF Push
  <1> QED BY <1>4, <1>5

\* A new message: it gets the next index.
LEMMA CallTypes ==
  ASSUME TypeOK, NEW k \in Callers, NEW to \in Channels \cup {Room}, Call(k, to)
  PROVE  /\ TypeOK'
         /\ Len(log') = Len(log) + 1 /\ Ids' = Ids \cup {Len(log) + 1} /\ Len(log) + 1 \notin Ids
         /\ \A n \in Ids : log'[n] = log[n]
         /\ log'[Len(log) + 1] = [by |-> k, to |-> to]
  <1> DEFINE S == [by : Callers, to : Channels \cup {Room}]
             e == [by |-> k, to |-> to]
  <1>1. log \in Seq(S) /\ e \in S /\ log' = Append(log, e)
    BY DEF TypeOK, Call
  <1> HIDE DEF S, e
  <1>2. /\ log' \in Seq(S) /\ Len(log') = Len(log) + 1 /\ log'[Len(log) + 1] = e
        /\ \A i \in 1 .. Len(log) : log'[i] = log[i]
    BY <1>1, AppendProperties
  <1>3. Len(log) \in Nat
    BY Constants
  <1>4. Ids' = Ids \cup {Len(log) + 1} /\ Len(log) + 1 \notin Ids
    BY <1>2, <1>3 DEF Ids
  <1>5. \A q : q \in Seq(Ids) => q \in Seq(Ids')
    BY <1>4, SeqMonotonic
  <1>6. UNCHANGED <<bucketOptions, slot, routineVars, room, chanVars, via>> /\ Routines' = Routines
    BY DEF Call, Routines
  <1>7. Len(log') <= bucketOptions'.MaxMsg
    BY <1>2, <1>6 DEF Call
  <1>8. /\ hand' \in [Callers -> 0 .. Len(log')]
        /\ at' \in [Callers -> {0} \cup Buckets]
        /\ found' \in [Callers -> Channels \cup {Nil}]
    <2>1. 1 \in Buckets
      <3>1. Len(Members) # 0
        BY BroadcastAssumption, EmptySeq
      <3> QED BY <3>1, Constants DEF Buckets
    <2>2. 0 .. Len(log) \subseteq 0 .. Len(log') /\ Len(log) + 1 \in 0 .. Len(log')
      BY <1>2, <1>3
    <2>3. /\ hand \in [Callers -> 0 .. Len(log)] /\ at \in [Callers -> {0} \cup Buckets]
          /\ found \in [Callers -> Channels \cup {Nil}]
      BY DEF TypeOK
    <2>4. \/ hand' = [hand EXCEPT ![k] = Len(log) + 1] /\ at' = [at EXCEPT ![k] = 1] /\ found' = found
          \/ to \in Channels /\ hand' = [hand EXCEPT ![k] = Len(log) + 1] /\ found' = [found EXCEPT ![k] = to] /\ at' = at
          \/ UNCHANGED <<hand, at, found>>
      BY DEF Call
    <2>5. hand \in [Callers -> 0 .. Len(log')]
      BY <2>2, <2>3
    <2>6. hand' \in [Callers -> 0 .. Len(log')]
      BY <2>2, <2>4, <2>5
    <2> QED BY <2>1, <2>3, <2>4, <2>6
  <1>9. /\ routines' \in [Routines' -> Seq(Ids')] 
        /\ \A w \in Routines' : Len(routines'[w]) <= bucketOptions'.RoutineSize
    BY <1>5, <1>6 DEF TypeOK, routineVars
  <1>10. pushing' \in [Routines' -> {0} \cup Ids'] /\ ahead' \in [Routines' -> Seq(Channels)]
    BY <1>4, <1>6 DEF TypeOK, routineVars
  <1>11. /\ broadcast' \in [Channels -> Seq(Ids')] /\ \A c \in Channels : Len(broadcast'[c]) <= BroadcastSize
         /\ pump' \in [Channels -> {"run", "ended"}]
    BY <1>5, <1>6 DEF TypeOK, chanVars
  <1>12. written' \in [Channels -> Seq(Ids')] /\ missed' \in [Channels -> SUBSET Ids']
    BY <1>4, <1>5, <1>6 DEF TypeOK, chanVars
  <1>13. /\ bucketOptions' \in Options
         /\ slot' \in [Callers -> (0 .. bucketOptions'.RoutineAmount - 1) \cup {Nil}]
         /\ routinesNum' \in [Buckets -> 0 .. bucketOptions'.RoutineAmount - 1]
         /\ room' \in Seq(Seq(Channels)) /\ Len(room') = Len(Members)
         /\ via' \in [1 .. bucketOptions'.MaxMsg -> [Buckets -> (0 .. bucketOptions'.RoutineAmount - 1) \cup {Nil}]]
    BY <1>6 DEF TypeOK, routineVars
  <1>14. TypeOK'
    <2>1. log' \in Seq([by : Callers, to : Channels \cup {Room}])
      BY <1>2 DEF S
    <2> QED BY <2>1, <1>7, <1>8, <1>9, <1>10, <1>11, <1>12, <1>13 DEF TypeOK
  <1> QED BY <1>2, <1>4, <1>14 DEF Ids, e
\* A handler that has something to do has a message.
LEMMA Busy ==
  ASSUME TypeOK, Handing, NEW k \in Callers
  PROVE  /\ at[k] # 0 => at[k] \in Buckets /\ found[k] = Nil /\ hand[k] \in Ids
         /\ found[k] # Nil => found[k] \in Channels /\ at[k] = 0 /\ hand[k] \in Ids
         /\ slot[k] # Nil => at[k] # 0 /\ slot[k] \in 0 .. bucketOptions.RoutineAmount - 1
         /\ hand[k] \in Ids => hand[k] # 0 /\ hand[k] \in 1 .. bucketOptions.MaxMsg
         /\ hand[k] # 0 => hand[k] \in Ids
  <1>1. /\ hand[k] \in 0 .. Len(log) /\ at[k] \in {0} \cup Buckets /\ found[k] \in Channels \cup {Nil}
        /\ slot[k] \in (0 .. bucketOptions.RoutineAmount - 1) \cup {Nil}
    BY DEF TypeOK
  <1>2. Len(log) \in Nat /\ bucketOptions.MaxMsg \in Nat /\ Len(log) <= bucketOptions.MaxMsg
    BY Constants DEF TypeOK
  <1>3. (hand[k] # 0 <=> hand[k] \in Ids) /\ (hand[k] \in Ids => hand[k] \in 1 .. bucketOptions.MaxMsg)
    BY <1>1, <1>2 DEF Ids
  <1>4. hand[k] = 0 => at[k] = 0 /\ found[k] = Nil
    BY DEF Handing
  <1>5. at[k] = 0 => slot[k] = Nil
    BY DEF Handing
  <1>6. hand[k] # 0 /\ found[k] # Nil => at[k] = 0
    BY DEF Handing
  <1> QED BY <1>1, <1>3, <1>4, <1>5, <1>6

LEMMA RoutineIndex ==
  ASSUME TypeOK, NEW b \in Buckets, NEW i \in 0 .. bucketOptions.RoutineAmount - 1
  PROVE  <<b, i>> \in Routines /\ <<b, i>>[1] = b /\ <<b, i>>[2] = i
  BY DEF Routines

LEMMA RoutineParts ==
  ASSUME TypeOK, NEW w \in Routines
  PROVE  w[1] \in Buckets /\ w[2] \in 0 .. bucketOptions.RoutineAmount - 1 /\ w = <<w[1], w[2]>>
  BY DEF Routines

\* What a step other than Call leaves of the log and of the names.
LEMMA SameLog ==
  ASSUME UNCHANGED <<bucketOptions, log>>
  PROVE  Ids' = Ids /\ Routines' = Routines
  BY DEF Ids, Routines

LEMMA PushSingleTypes ==
  ASSUME TypeOK, Handing, NEW k \in Callers, PushSingle(k)
  PROVE  TypeOK'
  <1>1. found[k] \in Channels /\ hand[k] \in Ids
    BY Busy DEF PushSingle
  <1>2. /\ broadcast' \in [Channels -> Seq(Ids)] /\ \A d \in Channels : Len(broadcast'[d]) <= BroadcastSize
        /\ missed' \in [Channels -> SUBSET Ids]
        /\ pump' = pump /\ written' = written
    BY <1>1, PushTypes DEF PushSingle
  <1>3. /\ UNCHANGED <<bucketOptions, log, at, slot, routineVars, room, via>>
        /\ hand' = [hand EXCEPT ![k] = 0] /\ found' = [found EXCEPT ![k] = Nil]
    BY DEF PushSingle
  <1>4. Ids' = Ids /\ Routines' = Routines
    BY <1>3, SameLog
  <1>5. hand' \in [Callers -> 0 .. Len(log)] /\ found' \in [Callers -> Channels \cup {Nil}]
    <2>1. 0 \in 0 .. Len(log)
      BY Constants
    <2>2. hand \in [Callers -> 0 .. Len(log)] /\ found \in [Callers -> Channels \cup {Nil}]
      BY DEF TypeOK
    <2> QED BY <2>1, <2>2, <1>3
  <1> QED BY <1>2, <1>3, <1>4, <1>5 DEF TypeOK, routineVars

LEMMA ChooseTypes ==
  ASSUME TypeOK, Handing, NEW k \in Callers, Choose(k)
  PROVE  TypeOK'
  <1> DEFINE num == (routinesNum[at[k]] + 1) % bucketOptions.RoutineAmount
  <1>1. at[k] \in Buckets /\ hand[k] \in 1 .. bucketOptions.MaxMsg
    BY Busy DEF Choose
  <1>2. num \in 0 .. bucketOptions.RoutineAmount - 1
    <2>1. routinesNum[at[k]] \in 0 .. bucketOptions.RoutineAmount - 1
      BY <1>1 DEF TypeOK
    <2>2. bucketOptions.RoutineAmount \in Nat \ {0}
      BY Constants
    <2> QED BY <2>1, <2>2
  <1>3. /\ routinesNum' = [routinesNum EXCEPT ![at[k]] = num]
        /\ slot' = [slot EXCEPT ![k] = num]
        /\ via' = [via EXCEPT ![hand[k]][at[k]] = num]
        /\ UNCHANGED <<bucketOptions, log, hand, at, found, routines, pushing, ahead, room, chanVars>>
    BY DEF Choose
  <1> HIDE DEF num
  <1>4. Ids' = Ids /\ Routines' = Routines
    BY <1>3, SameLog
  <1>5. routinesNum' \in [Buckets -> 0 .. bucketOptions.RoutineAmount - 1]
    BY <1>2, <1>3 DEF TypeOK
  <1>6. slot' \in [Callers -> (0 .. bucketOptions.RoutineAmount - 1) \cup {Nil}]
    BY <1>2, <1>3 DEF TypeOK
  <1>7. via' \in [1 .. bucketOptions.MaxMsg -> [Buckets -> (0 .. bucketOptions.RoutineAmount - 1) \cup {Nil}]]
    BY <1>1, <1>2, <1>3 DEF TypeOK
  <1> QED BY <1>3, <1>4, <1>5, <1>6, <1>7 DEF TypeOK, chanVars

LEMMA SendTypes ==
  ASSUME TypeOK, Handing, NEW k \in Callers, Send(k)
  PROVE  TypeOK'
  <1> DEFINE b == at[k]
             w == <<b, slot[k]>>
             last == Following(b) \notin Buckets
  <1>1. b \in Buckets /\ hand[k] \in Ids /\ slot[k] \in 0 .. bucketOptions.RoutineAmount - 1
    BY Busy DEF Send
  <1>2. w \in Routines
    BY <1>1, RoutineIndex
  <1>3. /\ routines' = [routines EXCEPT ![w] = Append(@, hand[k])] /\ Len(routines[w]) < bucketOptions.RoutineSize
        /\ slot' = [slot EXCEPT ![k] = Nil]
        /\ at' = [at EXCEPT ![k] = IF last THEN 0 ELSE Following(b)]
        /\ hand' = [hand EXCEPT ![k] = IF last THEN 0 ELSE @]
        /\ UNCHANGED <<bucketOptions, log, found, routinesNum, pushing, ahead, room, chanVars, via>>
    BY DEF Send, Queue
  <1>4. Ids' = Ids /\ Routines' = Routines
    BY <1>3, SameLog
  <1> HIDE DEF w
  <1>5. routines' \in [Routines -> Seq(Ids)] /\ \A v \in Routines : Len(routines'[v]) <= bucketOptions.RoutineSize
    <2>1. routines \in [Routines -> Seq(Ids)] /\ \A v \in Routines : Len(routines[v]) <= bucketOptions.RoutineSize
      BY DEF TypeOK
    <2>2. /\ Append(routines[w], hand[k]) \in Seq(Ids)
          /\ Len(Append(routines[w], hand[k])) = Len(routines[w]) + 1 /\ Len(routines[w]) \in Nat
      BY <2>1, <1>1, <1>2, AppendProperties, LenProperties
    <2>3. routines' \in [Routines -> Seq(Ids)]
      BY <2>1, <2>2, <1>3
    <2>4. Len(routines[w]) + 1 <= bucketOptions.RoutineSize
      BY <2>2, <1>3, Constants
    <2>5. ASSUME NEW v \in Routines PROVE Len(routines'[v]) <= bucketOptions.RoutineSize
      <3>1. CASE v = w
        BY <3>1, <2>1, <2>2, <2>4, <1>3
      <3>2. CASE v # w
        BY <3>2, <2>1, <1>3
      <3> QED BY <3>1, <3>2
    <2> QED BY <2>3, <2>5
  <1>6. slot' \in [Callers -> (0 .. bucketOptions.RoutineAmount - 1) \cup {Nil}]
    BY <1>3 DEF TypeOK
  <1>7. at' \in [Callers -> {0} \cup Buckets]
    BY <1>3 DEF TypeOK
  <1>8. hand' \in [Callers -> 0 .. Len(log)]
    <2>1. 0 \in 0 .. Len(log)
      BY Constants
    <2> QED BY <2>1, <1>3 DEF TypeOK
  <1> HIDE DEF last
  <1> QED BY <1>3, <1>4, <1>5, <1>6, <1>7, <1>8 DEF TypeOK, chanVars

LEMMA TakeTypes ==
  ASSUME TypeOK, NEW w \in Routines, Take(w)
  PROVE  TypeOK'
  <1>1. /\ routines[w] # <<>> 
        /\ pushing' = [pushing EXCEPT ![w] = IF room[w[1]] = <<>> THEN 0 ELSE Head(routines[w])]
        /\ routines' = [routines EXCEPT ![w] = Tail(@)]
        /\ ahead' = [ahead EXCEPT ![w] = room[w[1]]]
        /\ UNCHANGED <<bucketOptions, log, callVars, routinesNum, room, chanVars, via>>
    BY DEF Take
  <1>2. Ids' = Ids /\ Routines' = Routines
    BY <1>1, SameLog
  <1>3. routines \in [Routines -> Seq(Ids)] /\ \A v \in Routines : Len(routines[v]) <= bucketOptions.RoutineSize
    BY DEF TypeOK
  <1>4. /\ Head(routines[w]) \in Ids /\ Tail(routines[w]) \in Seq(Ids)
        /\ Len(Tail(routines[w])) = Len(routines[w]) - 1 /\ Len(routines[w]) \in Nat
    BY <1>1, <1>3, HeadTailProperties, LenProperties
  <1>5. routines' \in [Routines -> Seq(Ids)]
    BY <1>1, <1>3, <1>4
  <1>6. ASSUME NEW v \in Routines PROVE Len(routines'[v]) <= bucketOptions.RoutineSize
    <2>1. CASE v = w
      <3>1. Len(routines[w]) - 1 <= bucketOptions.RoutineSize
        BY <1>3, <1>4, Constants
      <3> QED BY <2>1, <3>1, <1>1, <1>3, <1>4
    <2>2. CASE v # w
      BY <2>2, <1>1, <1>3
    <2> QED BY <2>1, <2>2
  <1>7. pushing' \in [Routines -> {0} \cup Ids]
    BY <1>1, <1>4 DEF TypeOK
  <1>8. ahead' \in [Routines -> Seq(Channels)]
    <2>1. room[w[1]] \in Seq(Channels)
      BY Constants, RoutineParts
    <2> QED BY <2>1, <1>1 DEF TypeOK
  <1> QED BY <1>1, <1>2, <1>5, <1>6, <1>7, <1>8 DEF TypeOK, chanVars, callVars

\* A goroutine that pushes has a Channel ahead, of the room of its bucket.
LEMMA Heading ==
  ASSUME TypeOK, Rooms, NEW w \in Routines, pushing[w] # 0
  PROVE  /\ pushing[w] \in Ids /\ ahead[w] \in Seq(Channels) /\ ahead[w] # <<>>
         /\ Head(ahead[w]) \in Channels /\ Head(ahead[w]) \in ToSet(ahead[w])
         /\ Head(ahead[w]) \in ToSet(Members[w[1]])
  <1>1. pushing[w] \in {0} \cup Ids /\ ahead[w] \in Seq(Channels)
    BY DEF TypeOK
  <1>2. ahead[w] # <<>> /\ ToSet(ahead[w]) \subseteq ToSet(Members[w[1]])
    BY DEF Rooms
  <1> QED BY <1>1, <1>2, Tailed, HeadTailProperties

LEMMA PushNextTypes ==
  ASSUME TypeOK, Rooms, NEW w \in Routines, PushNext(w)
  PROVE  TypeOK'
  <1>1. /\ pushing[w] # 0 /\ Push(Head(ahead[w]), pushing[w])
        /\ ahead' = [ahead EXCEPT ![w] = Tail(@)]
        /\ pushing' = [pushing EXCEPT ![w] = IF ahead'[w] = <<>> THEN 0 ELSE @]
        /\ UNCHANGED <<bucketOptions, log, callVars, routinesNum, routines, room, via>>
    BY DEF PushNext
  <1>2. Ids' = Ids /\ Routines' = Routines
    BY <1>1, SameLog
  <1>3. pushing[w] \in Ids /\ ahead[w] \in Seq(Channels) /\ ahead[w] # <<>> /\ Head(ahead[w]) \in Channels
    BY <1>1, Heading
  <1>4. /\ broadcast' \in [Channels -> Seq(Ids)] /\ \A d \in Channels : Len(broadcast'[d]) <= BroadcastSize
        /\ missed' \in [Channels -> SUBSET Ids]
        /\ pump' = pump /\ written' = written
    BY <1>1, <1>3, PushTypes
  <1>5. ahead' \in [Routines -> Seq(Channels)]
    <2>1. Tail(ahead[w]) \in Seq(Channels)
      BY <1>3, HeadTailProperties
    <2> QED BY <2>1, <1>1 DEF TypeOK
  <1>6. pushing' \in [Routines -> {0} \cup Ids]
    BY <1>1 DEF TypeOK
  <1> QED BY <1>1, <1>2, <1>4, <1>5, <1>6 DEF TypeOK, callVars

LEMMA WriteTypes ==
  ASSUME TypeOK, NEW c \in Channels, Write(c)
  PROVE  TypeOK'
  <1>1. /\ broadcast[c] # <<>>
        /\ written' = [written EXCEPT ![c] = Append(@, Head(broadcast[c]))]
        /\ broadcast' = [broadcast EXCEPT ![c] = Tail(@)]
        /\ UNCHANGED <<bucketOptions, log, callVars, routineVars, room, pump, missed, via>>
    BY DEF Write
  <1>2. Ids' = Ids /\ Routines' = Routines
    BY <1>1, SameLog
  <1>3. /\ broadcast \in [Channels -> Seq(Ids)] /\ written \in [Channels -> Seq(Ids)]
        /\ \A d \in Channels : Len(broadcast[d]) <= BroadcastSize
    BY DEF TypeOK
  <1>4. /\ Head(broadcast[c]) \in Ids /\ Tail(broadcast[c]) \in Seq(Ids)
        /\ Len(Tail(broadcast[c])) = Len(broadcast[c]) - 1 /\ Len(broadcast[c]) \in Nat
    BY <1>1, <1>3, HeadTailProperties, LenProperties
  <1>5. Append(written[c], Head(broadcast[c])) \in Seq(Ids)
    BY <1>3, <1>4, AppendProperties
  <1>6. broadcast' \in [Channels -> Seq(Ids)] /\ written' \in [Channels -> Seq(Ids)]
    BY <1>1, <1>3, <1>4, <1>5
  <1>7. ASSUME NEW d \in Channels PROVE Len(broadcast'[d]) <= BroadcastSize
    <2>1. CASE d = c
      <3>1. Len(broadcast[c]) - 1 <= BroadcastSize
        BY <1>3, <1>4, BroadcastAssumption
      <3> QED BY <2>1, <3>1, <1>1, <1>3, <1>4
    <2>2. CASE d # c
      BY <2>2, <1>1, <1>3
    <2> QED BY <2>1, <2>2
  <1> QED BY <1>1, <1>2, <1>6, <1>7 DEF TypeOK, callVars, routineVars

LEMMA BreakTypes ==
  ASSUME TypeOK, NEW c \in Channels, Break(c)
  PROVE  TypeOK'
  <1>1. /\ pump' = [pump EXCEPT ![c] = "ended"]
        /\ \/ broadcast' = broadcast
           \/ broadcast[c] # <<>> /\ broadcast' = [broadcast EXCEPT ![c] = Tail(@)]
        /\ UNCHANGED <<bucketOptions, log, callVars, routineVars, room, written, missed, via>>
    <2>1. broadcast \in [Channels -> Seq(Ids)]
      BY DEF TypeOK
    <2> QED BY <2>1 DEF Break
  <1>2. Ids' = Ids /\ Routines' = Routines
    BY <1>1, SameLog
  <1>3. /\ broadcast \in [Channels -> Seq(Ids)]
        /\ \A d \in Channels : Len(broadcast[d]) <= BroadcastSize
    BY DEF TypeOK
  <1>4. broadcast' \in [Channels -> Seq(Ids)] /\ \A d \in Channels : Len(broadcast'[d]) <= BroadcastSize
    <2>1. CASE broadcast' = broadcast
      BY <2>1, <1>3
    <2>2. CASE broadcast[c] # <<>> /\ broadcast' = [broadcast EXCEPT ![c] = Tail(@)]
      <3>1. /\ Tail(broadcast[c]) \in Seq(Ids)
            /\ Len(Tail(broadcast[c])) = Len(broadcast[c]) - 1 /\ Len(broadcast[c]) \in Nat
        BY <2>2, <1>3, HeadTailProperties, LenProperties
      <3>2. ASSUME NEW d \in Channels PROVE Len(broadcast'[d]) <= BroadcastSize
        <4>1. CASE d = c
          <5>1. Len(broadcast[c]) - 1 <= BroadcastSize
            BY <1>3, <3>1, BroadcastAssumption
          <5> QED BY <4>1, <5>1, <2>2, <1>3, <3>1
        <4>2. CASE d # c
          BY <4>2, <2>2, <1>3
        <4> QED BY <4>1, <4>2
      <3> QED BY <2>2, <3>1, <3>2, <1>3
    <2> QED BY <2>1, <2>2, <1>1
  <1>5. pump' \in [Channels -> {"run", "ended"}]
    BY <1>1 DEF TypeOK
  <1> QED BY <1>1, <1>2, <1>4, <1>5 DEF TypeOK, callVars, routineVars

\* What a leaving Channel changes: the lists it is in.
LEMMA Leaving ==
  ASSUME TypeOK, Rooms, NEW c \in Channels, Leave(c)
  PROVE  /\ \A b \in Buckets : /\ room'[b] \in Seq(Channels) /\ IsInjective(room'[b])
                               /\ ToSet(room'[b]) = ToSet(room[b]) \ {c}
         /\ room' \in Seq(Seq(Channels)) /\ Len(room') = Len(Members)
         /\ ahead' \in [Routines -> Seq(Channels)]
         /\ \A w \in Routines : /\ IsInjective(ahead'[w])
                                /\ ToSet(ahead'[w]) \subseteq ToSet(ahead[w])
                                /\ ToSet(ahead[w]) \subseteq ToSet(ahead'[w]) \cup {c}
                                /\ pushing'[w] = IF ahead'[w] = <<>> THEN 0 ELSE pushing[w]
         /\ pushing' = [w \in Routines |-> IF ahead'[w] = <<>> THEN 0 ELSE pushing[w]]
         /\ UNCHANGED <<bucketOptions, log, callVars, routinesNum, routines, chanVars, via>>
  <1>1. /\ room' = [b \in Buckets |-> Without(room[b], c)]
        /\ ahead' \in {ahead, [w \in Routines |-> Without(ahead[w], c)]}
        /\ pushing' = [w \in Routines |-> IF ahead'[w] = <<>> THEN 0 ELSE pushing[w]]
        /\ UNCHANGED <<bucketOptions, log, callVars, routinesNum, routines, chanVars, via>>
    BY DEF Leave
  <1>2. ASSUME NEW b \in Buckets
        PROVE  /\ room'[b] \in Seq(Channels) /\ IsInjective(room'[b])
               /\ ToSet(room'[b]) = ToSet(room[b]) \ {c}
    <2>1. room[b] \in Seq(Channels) /\ IsInjective(room[b])
      BY Constants DEF Rooms
    <2> QED BY <2>1, <1>1, Dropped
  <1>3. room' \in Seq(Seq(Channels)) /\ Len(room') = Len(Members)
    <2>1. room' \in [1 .. Len(Members) -> Seq(Channels)] /\ Len(Members) \in Nat
      BY <1>1, <1>2, Constants DEF Buckets
    <2>2. room' \in Seq(Seq(Channels))
      BY <2>1, SeqDef
    <2>3. DOMAIN room' = 1 .. Len(room') /\ DOMAIN room' = 1 .. Len(Members) /\ Len(room') \in Nat
      BY <2>1, <2>2, LenProperties
    <2>4. Len(room') = Len(Members)
      BY <2>1, <2>3
    <2> QED BY <2>2, <2>4
  <1>4. ASSUME NEW w \in Routines
        PROVE  /\ ahead'[w] \in Seq(Channels)
               /\ IsInjective(ahead'[w])
               /\ ToSet(ahead'[w]) \subseteq ToSet(ahead[w])
               /\ ToSet(ahead[w]) \subseteq ToSet(ahead'[w]) \cup {c}
    <2>1. ahead[w] \in Seq(Channels) /\ IsInjective(ahead[w])
      BY DEF TypeOK, Rooms
    <2>2. CASE ahead' = ahead
      BY <2>1, <2>2
    <2>3. CASE ahead' = [v \in Routines |-> Without(ahead[v], c)]
      <3>1. ahead'[w] = Without(ahead[w], c)
        BY <2>3
      <3> QED BY <2>1, <3>1, Dropped
    <2> QED BY <1>1, <2>2, <2>3
  <1>5. ahead' \in [Routines -> Seq(Channels)]
    <2>1. ahead \in [Routines -> Seq(Channels)]
      BY DEF TypeOK
    <2> QED BY <2>1, <1>1, <1>4
  <1> QED BY <1>1, <1>2, <1>3, <1>4, <1>5

LEMMA LeaveTypes ==
  ASSUME TypeOK, Rooms, NEW c \in Channels, Leave(c)
  PROVE  TypeOK'
  <1>1. Ids' = Ids /\ Routines' = Routines
    BY Leaving, SameLog
  <1>2. pushing' \in [Routines -> {0} \cup Ids]
    BY Leaving DEF TypeOK
  <1> QED BY <1>1, <1>2, Leaving DEF TypeOK, callVars, chanVars

\* The steps of the system, one by one.
LEMMA Steps ==
  ASSUME [Next]_vars
  PROVE  \/ \E k \in Callers, to \in Channels \cup {Room} : Call(k, to)
         \/ \E k \in Callers : PushSingle(k) \/ Choose(k) \/ Send(k)
         \/ \E w \in Routines : Take(w) \/ PushNext(w)
         \/ \E c \in Channels : Write(c) \/ Break(c) \/ Leave(c)
         \/ UNCHANGED vars
  BY DEF Next, Handler, Routine

LEMMA TypeNext ==
  ASSUME TypeOK, Handing, Rooms, [Next]_vars
  PROVE  TypeOK'
  <1>1. ASSUME UNCHANGED vars PROVE TypeOK'
    <2>1. Ids' = Ids /\ Routines' = Routines
      BY <1>1, SameLog DEF vars
    <2> QED BY <1>1, <2>1 DEF TypeOK, vars, callVars, routineVars, chanVars
  <1> QED BY <1>1, Steps, CallTypes, PushSingleTypes, ChooseTypes, SendTypes, TakeTypes, PushNextTypes,
             WriteTypes, BreakTypes, LeaveTypes
-------------------------------------------------------------------------------
(* The handlers. *)

\* Two handlers never have the same message.
LEMMA OwnMessage ==
  ASSUME Handing, NEW j \in Callers, NEW k \in Callers, hand[j] # 0, hand[j] = hand[k]
  PROVE  j = k
  BY DEF Handing

\* Where a step can take a handler.
LEMMA Handed ==
  ASSUME TypeOK, Handing, [Next]_vars, NEW j \in Callers
  PROVE  \/ hand'[j] = hand[j] /\ at'[j] = at[j] /\ found'[j] = found[j]
         \/ hand'[j] = 0
         \/ hand'[j] = Len(log) + 1
         \/ hand'[j] = hand[j] /\ at[j] \in Buckets /\ at'[j] = at[j] + 1 /\ found'[j] = found[j]
  <1> DEFINE Goal == \/ hand'[j] = hand[j] /\ at'[j] = at[j] /\ found'[j] = found[j]
                     \/ hand'[j] = 0
                     \/ hand'[j] = Len(log) + 1
                     \/ hand'[j] = hand[j] /\ at[j] \in Buckets /\ at'[j] = at[j] + 1 /\ found'[j] = found[j]
  <1> SUFFICES Goal
    OBVIOUS
  <1>0. hand \in [Callers -> 0 .. Len(log)] /\ at \in [Callers -> {0} \cup Buckets] /\ found \in [Callers -> Channels \cup {Nil}]
    BY DEF TypeOK
  <1>1. ASSUME NEW k \in Callers, NEW to \in Channels \cup {Room}, Call(k, to) PROVE Goal
    BY <1>0, <1>1 DEF Call
  <1>2. ASSUME NEW k \in Callers, PushSingle(k) PROVE Goal
    BY <1>0, <1>2 DEF PushSingle
  <1>3. ASSUME NEW k \in Callers, Choose(k) PROVE Goal
    BY <1>3 DEF Choose
  <1>4. ASSUME NEW k \in Callers, Send(k) PROVE Goal
    <2>1. at[k] \in Buckets
      BY <1>4, Busy DEF Send
    <2>2. /\ found' = found
          /\ at' = [at EXCEPT ![k] = IF Following(at[k]) \notin Buckets THEN 0 ELSE Following(at[k])]
          /\ hand' = [hand EXCEPT ![k] = IF Following(at[k]) \notin Buckets THEN 0 ELSE @]
      BY <1>4 DEF Send
    <2>3. CASE j = k
      BY <2>1, <2>2, <2>3, <1>0 DEF Following
    <2>4. CASE j # k
      BY <2>2, <2>4, <1>0
    <2> QED BY <2>3, <2>4
  <1>5. ASSUME UNCHANGED callVars PROVE Goal
    BY <1>5 DEF callVars
  <1>6. ASSUME NEW w \in Routines, Take(w) \/ PushNext(w) PROVE UNCHANGED callVars
    BY <1>6 DEF Take, PushNext
  <1>7. ASSUME NEW c \in Channels, Write(c) \/ Break(c) \/ Leave(c) PROVE UNCHANGED callVars
    BY <1>7 DEF Write, Break, Leave
  <1>8. ASSUME UNCHANGED vars PROVE UNCHANGED callVars
    BY <1>8 DEF vars
  <1> HIDE DEF Goal
  <1> QED BY <1>1, <1>2, <1>3, <1>4, <1>5, <1>6, <1>7, <1>8, Steps

LEMMA StillPast ==
  ASSUME TypeOK, Handing, [Next]_vars, NEW n \in Ids, NEW b \in Buckets, Past(n, b)
  PROVE  Past(n, b)'
  <1>1. n # 0 /\ n # Len(log) + 1 /\ b \in Nat /\ Buckets \subseteq Nat
    BY Constants DEF Ids, Buckets
  <1>2. ASSUME NEW j \in Callers, hand'[j] = n PROVE found'[j] = Nil /\ b < at'[j]
    <2>1. CASE hand'[j] = hand[j] /\ at'[j] = at[j] /\ found'[j] = found[j]
      BY <1>2, <2>1 DEF Past
    <2>2. CASE hand'[j] = hand[j] /\ at[j] \in Buckets /\ at'[j] = at[j] + 1 /\ found'[j] = found[j]
      <3>1. found[j] = Nil /\ b < at[j]
        BY <1>2, <2>2 DEF Past
      <3>2. b < at[j] + 1
        <4>1. at[j] \in Nat /\ b \in Nat
          BY <2>2, <1>1
        <4> QED BY <4>1, <3>1
      <3> QED BY <3>1, <3>2, <2>2
    <2> QED BY <1>1, <1>2, <2>1, <2>2, Handed
  <1> QED BY <1>2 DEF Past

\* Nothing a step does changes what was said of a message already, nor who was chosen
\* for one that is past its bucket.
LEMMA StillSaid ==
  ASSUME TypeOK, Handing, [Next]_vars
  PROVE  /\ bucketOptions' = bucketOptions /\ Routines' = Routines
         /\ Ids \subseteq Ids' /\ \A n \in Ids : log'[n] = log[n]
         /\ \A n \in Ids, b \in Buckets : Past(n, b) => via'[n][b] = via[n][b]
  <1> DEFINE Goal == /\ bucketOptions' = bucketOptions /\ Routines' = Routines
                     /\ Ids \subseteq Ids' /\ \A n \in Ids : log'[n] = log[n]
                     /\ \A n \in Ids, b \in Buckets : Past(n, b) => via'[n][b] = via[n][b]
  <1> SUFFICES Goal
    OBVIOUS
  <1>1. ASSUME NEW k \in Callers, NEW to \in Channels \cup {Room}, Call(k, to) PROVE Goal
    <2>1. bucketOptions' = bucketOptions /\ via' = via
      BY <1>1 DEF Call
    <2>2. Routines' = Routines
      BY <2>1 DEF Routines
    <2> QED BY <1>1, <2>1, <2>2, CallTypes
  <1>2. ASSUME NEW k \in Callers, Choose(k) PROVE Goal
    <2>1. UNCHANGED <<bucketOptions, log>>
      BY <1>2 DEF Choose
    <2>2. at[k] \in Buckets /\ hand[k] \in 1 .. bucketOptions.MaxMsg
      BY <1>2, Busy DEF Choose
    <2>3. via' = [via EXCEPT ![hand[k]][at[k]] = (routinesNum[at[k]] + 1) % bucketOptions.RoutineAmount]
      BY <1>2 DEF Choose
    <2>4. ASSUME NEW n \in Ids, NEW b \in Buckets, Past(n, b) PROVE via'[n][b] = via[n][b]
      <3>1. n # hand[k] \/ b # at[k]
        <4>1. SUFFICES ASSUME hand[k] = n PROVE b # at[k]
          OBVIOUS
        <4>2. b < at[k] /\ b \in Nat
          BY <4>1, <2>4 DEF Past, Buckets
        <4> QED BY <4>2
      <3>2. /\ via \in [1 .. bucketOptions.MaxMsg -> [Buckets -> (0 .. bucketOptions.RoutineAmount - 1) \cup {Nil}]]
            /\ n \in 1 .. bucketOptions.MaxMsg
        <4>1. Len(log) <= bucketOptions.MaxMsg /\ Len(log) \in Nat /\ bucketOptions.MaxMsg \in Nat
          BY Constants DEF TypeOK
        <4> QED BY <4>1 DEF TypeOK, Ids
      <3> QED BY <3>1, <3>2, <2>3
    <2> QED BY <2>1, <2>4, SameLog
  <1>3. ASSUME UNCHANGED <<bucketOptions, log, via>> PROVE Goal
    BY <1>3, SameLog
  <1>4. ASSUME NEW k \in Callers, PushSingle(k) \/ Send(k) PROVE UNCHANGED <<bucketOptions, log, via>>
    BY <1>4 DEF PushSingle, Send
  <1>5. ASSUME NEW w \in Routines, Take(w) \/ PushNext(w) PROVE UNCHANGED <<bucketOptions, log, via>>
    BY <1>5 DEF Take, PushNext
  <1>6. ASSUME NEW c \in Channels, Write(c) \/ Break(c) \/ Leave(c) PROVE UNCHANGED <<bucketOptions, log, via>>
    BY <1>6 DEF Write, Break, Leave
  <1>7. ASSUME UNCHANGED vars PROVE UNCHANGED <<bucketOptions, log, via>>
    BY <1>7 DEF vars
  <1> HIDE DEF Goal
  <1> QED BY <1>1, <1>2, <1>3, <1>4, <1>5, <1>6, <1>7, Steps

LEMMA StillFollows ==
  ASSUME TypeOK, Handing, [Next]_vars, NEW b \in Buckets, NEW m \in Ids, NEW n \in Ids,
         Past(m, b), Past(n, b), Follows(m, n, b)
  PROVE  Follows(m, n, b)'
  <1>1. log'[m] = log[m] /\ log'[n] = log[n] /\ via'[m][b] = via[m][b] /\ via'[n][b] = via[n][b]
    BY StillSaid
  <1> QED BY <1>1 DEF Follows

LEMMA StillGiven ==
  ASSUME TypeOK, Handing, [Next]_vars, NEW w \in Routines, NEW n \in Ids, Given(n, w)
  PROVE  Given(n, w)'
  <1>1. w[1] \in Buckets
    BY RoutineParts
  <1>2. log'[n] = log[n] /\ via'[n][w[1]] = via[n][w[1]]
    BY <1>1, StillSaid DEF Given
  <1>3. Past(n, w[1])'
    BY <1>1, StillPast DEF Given
  <1> QED BY <1>2, <1>3 DEF Given

LEMMA HandingNext ==
  ASSUME TypeOK, Handing, [Next]_vars
  PROVE  Handing'
  <1> DEFINE Fine(j) ==
        /\ at[j] = 0 => slot[j] = Nil
        /\ hand[j] = 0 => at[j] = 0 /\ found[j] = Nil
        /\ hand[j] # 0 => /\ log[hand[j]].by = j
                          /\ \A m \in Ids : log[m].by = j => m <= hand[j]
                          /\ found[j] = Nil => at[j] # 0 /\ log[hand[j]].to = Room
                          /\ found[j] # Nil => at[j] = 0 /\ log[hand[j]].to = found[j]
        /\ slot[j] # Nil => via[hand[j]][at[j]] = slot[j]
  <1>0. /\ hand \in [Callers -> 0 .. Len(log)] /\ at \in [Callers -> {0} \cup Buckets] /\ found \in [Callers -> Channels \cup {Nil}]
        /\ slot \in [Callers -> (0 .. bucketOptions.RoutineAmount - 1) \cup {Nil}]
    BY DEF TypeOK
  <1>00. \A j \in Callers : Fine(j)
    BY DEF Handing
  <1>1. ASSUME NEW k \in Callers, NEW to \in Channels \cup {Room}, Call(k, to) PROVE Handing'
    <2> DEFINE n == Len(log) + 1
    <2>1. /\ Ids' = Ids \cup {n} /\ n \notin Ids /\ (\A i \in Ids : log'[i] = log[i])
          /\ log'[n] = [by |-> k, to |-> to]
      BY <1>1, CallTypes
    <2>2. hand[k] = 0 /\ at[k] = 0 /\ found[k] = Nil /\ slot[k] = Nil /\ slot' = slot /\ via' = via
      BY <1>1, <1>00 DEF Call
    <2>3. Len(log) \in Nat /\ Room \notin Channels /\ Nil \notin Channels
      BY Constants, BroadcastAssumption
    <2>4. \/ to = Room /\ hand' = [hand EXCEPT ![k] = n] /\ at' = [at EXCEPT ![k] = 1] /\ found' = found
          \/ to # Room /\ hand' = [hand EXCEPT ![k] = n] /\ found' = [found EXCEPT ![k] = to] /\ at' = at
          \/ UNCHANGED <<hand, at, found>>
      BY <1>1 DEF Call
    <2>5. n # 0 /\ \A i \in Ids' : i <= n
      BY <2>1, <2>3 DEF Ids
    <2> HIDE DEF n
    <2>6. ASSUME NEW j \in Callers PROVE Fine(j)'
      <3>1. CASE j # k
        <4>1. hand'[j] = hand[j] /\ at'[j] = at[j] /\ found'[j] = found[j] /\ slot'[j] = slot[j]
          BY <3>1, <2>2, <2>4, <1>0
        <4>2. hand[j] # 0 => hand[j] \in Ids
          BY Busy
        <4>3. log'[n].by = k
          BY <2>1
        <4>4. hand[j] # 0 => \A m \in Ids' : log'[m].by = j => m <= hand[j]
          BY <3>1, <4>3, <2>1, <1>00
        <4> QED BY <4>1, <4>2, <4>4, <2>1, <2>2, <1>00
      <3>2. CASE j = k /\ hand' = [hand EXCEPT ![k] = n]
        <4>1. hand'[k] = n /\ slot'[k] = Nil /\ log'[n].by = k /\ log'[n].to = to
          BY <3>2, <2>1, <2>2, <1>0
        <4>2. \/ to = Room /\ at'[k] = 1 /\ found'[k] = Nil
              \/ to # Room /\ found'[k] = to /\ at'[k] = 0
          BY <2>2, <2>4, <2>5, <4>1, <1>0
        <4>3. to # Nil \/ to = Room
          BY <2>3
        <4> QED BY <3>2, <4>1, <4>2, <4>3, <2>5
      <3>3. CASE j = k /\ UNCHANGED <<hand, at, found>>
        BY <3>3, <2>2
      <3> QED BY <3>1, <3>2, <3>3, <2>4
    <2> QED BY <2>6 DEF Handing
  <1>2. ASSUME UNCHANGED <<bucketOptions, log>>, \A j \in Callers : Fine(j)' PROVE Handing'
    BY <1>2 DEF Handing
  <1>3. ASSUME NEW k \in Callers, PushSingle(k) PROVE Handing'
    <2>1. /\ UNCHANGED <<bucketOptions, log, at, slot, via>> /\ hand' = [hand EXCEPT ![k] = 0]
          /\ found' = [found EXCEPT ![k] = Nil]
      BY <1>3 DEF PushSingle
    <2>2. at[k] = 0 /\ slot[k] = Nil
      BY <1>3, Busy DEF PushSingle
    <2>3. Ids' = Ids
      BY <2>1, SameLog
    <2>4. ASSUME NEW j \in Callers PROVE Fine(j)'
      <3>1. CASE j = k
        BY <3>1, <2>1, <2>2, <1>0
      <3>2. CASE j # k
        <4>1. hand'[j] = hand[j] /\ found'[j] = found[j]
          BY <3>2, <2>1, <1>0
        <4> QED BY <4>1, <2>1, <2>3, <1>00
      <3> QED BY <3>1, <3>2
    <2> QED BY <2>1, <2>4 DEF Handing
  <1>4. ASSUME NEW k \in Callers, Choose(k) PROVE Handing'
    <2> DEFINE num == (routinesNum[at[k]] + 1) % bucketOptions.RoutineAmount
    <2>1. /\ slot' = [slot EXCEPT ![k] = num]
          /\ via' = [via EXCEPT ![hand[k]][at[k]] = num]
          /\ UNCHANGED <<bucketOptions, log, hand, at, found>>
      BY <1>4 DEF Choose
    <2> HIDE DEF num
    <2>2. at[k] \in Buckets /\ hand[k] \in 1 .. bucketOptions.MaxMsg /\ at[k] # 0 /\ hand[k] # 0
      BY <1>4, Busy DEF Choose
    <2>3. Ids' = Ids
      BY <2>1, SameLog
    <2>4. via \in [1 .. bucketOptions.MaxMsg -> [Buckets -> (0 .. bucketOptions.RoutineAmount - 1) \cup {Nil}]]
      BY DEF TypeOK
    <2>5. ASSUME NEW j \in Callers PROVE Fine(j)'
      <3>1. CASE j = k
        <4>1. slot'[k] = num /\ via'[hand[k]][at[k]] = num
          BY <2>1, <2>2, <2>4, <1>0
        <4> QED BY <3>1, <4>1, <2>1, <2>2, <2>3, <1>00
      <3>2. CASE j # k
        <4>1. slot'[j] = slot[j]
          BY <3>2, <2>1, <1>0
        <4>2. slot[j] # Nil => hand[j] # hand[k] /\ hand[j] \in 1 .. bucketOptions.MaxMsg
          BY <3>2, <2>2, Busy, OwnMessage
        <4>3. slot[j] # Nil => via'[hand[j]][at[j]] = via[hand[j]][at[j]]
          BY <4>2, <2>1, <2>4
        <4> QED BY <4>1, <4>3, <2>1, <2>3, <1>00
      <3> QED BY <3>1, <3>2
    <2> QED BY <2>1, <2>5 DEF Handing
  <1>5. ASSUME NEW k \in Callers, Send(k) PROVE Handing'
    <2> DEFINE last == Following(at[k]) \notin Buckets
    <2>1. /\ slot' = [slot EXCEPT ![k] = Nil]
          /\ at' = [at EXCEPT ![k] = IF last THEN 0 ELSE Following(at[k])]
          /\ hand' = [hand EXCEPT ![k] = IF last THEN 0 ELSE @]
          /\ UNCHANGED <<bucketOptions, log, found, via>>
      BY <1>5 DEF Send
    <2> HIDE DEF last
    <2>2. at[k] \in Buckets /\ hand[k] # 0 /\ found[k] = Nil
      BY <1>5, Busy DEF Send
    <2>3. Following(at[k]) # 0
      BY <2>2 DEF Following, Buckets
    <2>4. Ids' = Ids
      BY <2>1, SameLog
    <2>5. ASSUME NEW j \in Callers PROVE Fine(j)'
      <3>1. CASE j = k /\ last
        <4>1. slot'[k] = Nil /\ at'[k] = 0 /\ hand'[k] = 0 /\ found'[k] = Nil
          BY <3>1, <2>1, <2>2, <1>0
        <4> QED BY <3>1, <4>1
      <3>2. CASE j = k /\ ~last
        <4>1. slot'[k] = Nil /\ at'[k] = Following(at[k]) /\ hand'[k] = hand[k] /\ found'[k] = Nil
          BY <3>2, <2>1, <2>2, <1>0
        <4> QED BY <3>2, <4>1, <2>1, <2>2, <2>3, <2>4, <1>00
      <3>3. CASE j # k
        <4>1. slot'[j] = slot[j] /\ at'[j] = at[j] /\ hand'[j] = hand[j]
          BY <3>3, <2>1, <1>0
        <4> QED BY <4>1, <2>1, <2>4, <1>00
      <3> QED BY <3>1, <3>2, <3>3
    <2> QED BY <2>1, <2>5 DEF Handing
  <1>6. ASSUME UNCHANGED <<bucketOptions, log, callVars, via>> PROVE Handing'
    BY <1>6, SameLog DEF Handing, callVars
  <1>7. ASSUME NEW w \in Routines, Take(w) \/ PushNext(w) PROVE UNCHANGED <<bucketOptions, log, callVars, via>>
    BY <1>7 DEF Take, PushNext
  <1>8. ASSUME NEW c \in Channels, Write(c) \/ Break(c) \/ Leave(c) PROVE UNCHANGED <<bucketOptions, log, callVars, via>>
    BY <1>8 DEF Write, Break, Leave
  <1>9. ASSUME UNCHANGED vars PROVE UNCHANGED <<bucketOptions, log, callVars, via>>
    BY <1>9 DEF vars
  <1> QED BY <1>1, <1>3, <1>4, <1>5, <1>6, <1>7, <1>8, <1>9, Steps
-------------------------------------------------------------------------------
(* The room. *)

LEMMA RoomsNext ==
  ASSUME TypeOK, Rooms, [Next]_vars
  PROVE  Rooms'
  <1> DEFINE Roomy(b) == ToSet(room[b]) \subseteq ToSet(Members[b]) /\ IsInjective(room[b])
             Moving(w) == /\ ToSet(ahead[w]) \subseteq ToSet(Members[w[1]])
                          /\ IsInjective(ahead[w])
                          /\ pushing[w] = 0 <=> ahead[w] = <<>>
  <1>0. (\A b \in Buckets : Roomy(b)) /\ (\A w \in Routines : Moving(w))
    BY DEF Rooms
  <1>1. ASSUME UNCHANGED <<bucketOptions, room, ahead, pushing>> PROVE Rooms'
    BY <1>1 DEF Rooms, Routines
  <1>2. ASSUME NEW k \in Callers, NEW to \in Channels \cup {Room}, Call(k, to)
        PROVE  UNCHANGED <<bucketOptions, room, ahead, pushing>>
    BY <1>2 DEF Call, routineVars
  <1>3. ASSUME NEW k \in Callers, PushSingle(k) \/ Choose(k) \/ Send(k)
        PROVE  UNCHANGED <<bucketOptions, room, ahead, pushing>>
    BY <1>3 DEF PushSingle, Choose, Send, routineVars
  <1>4. ASSUME NEW w \in Routines, Take(w) PROVE Rooms'
    <2>1. /\ UNCHANGED <<bucketOptions, room>> /\ routines[w] # <<>>
          /\ pushing' = [pushing EXCEPT ![w] = IF room[w[1]] = <<>> THEN 0 ELSE Head(routines[w])]
          /\ ahead' = [ahead EXCEPT ![w] = room[w[1]]]
      BY <1>4 DEF Take
    <2>2. pushing \in [Routines -> {0} \cup Ids] /\ ahead \in [Routines -> Seq(Channels)] /\ routines[w] \in Seq(Ids)
      BY DEF TypeOK
    <2>3. Head(routines[w]) \in Ids /\ 0 \notin Ids
      BY <2>1, <2>2, HeadTailProperties DEF Ids
    <2>4. Routines' = Routines
      BY <2>1 DEF Routines
    <2>5. ASSUME NEW v \in Routines PROVE Moving(v)'
      <3>1. CASE v = w
        <4>1. ahead'[w] = room[w[1]] /\ pushing'[w] = IF room[w[1]] = <<>> THEN 0 ELSE Head(routines[w])
          BY <2>1, <2>2
        <4>2. Roomy(w[1])
          BY <1>0, RoutineParts
        <4> QED BY <3>1, <4>1, <4>2, <2>3
      <3>2. CASE v # w
        <4>1. ahead'[v] = ahead[v] /\ pushing'[v] = pushing[v]
          BY <3>2, <2>1, <2>2
        <4> QED BY <4>1, <1>0
      <3> QED BY <3>1, <3>2
    <2> HIDE DEF Moving
    <2>6. \A v \in Routines' : Moving(v)'
      BY <2>4, <2>5
    <2>7. \A b \in Buckets : Roomy(b)'
      BY <2>1, <1>0
    <2> QED BY <2>6, <2>7 DEF Rooms, Moving
  <1>5. ASSUME NEW w \in Routines, PushNext(w) PROVE Rooms'
    <2>1. /\ UNCHANGED <<bucketOptions, room>> /\ pushing[w] # 0
          /\ ahead' = [ahead EXCEPT ![w] = Tail(@)]
          /\ pushing' = [pushing EXCEPT ![w] = IF ahead'[w] = <<>> THEN 0 ELSE @]
      BY <1>5 DEF PushNext
    <2>2. pushing \in [Routines -> {0} \cup Ids] /\ ahead \in [Routines -> Seq(Channels)]
      BY DEF TypeOK
    <2>3. ahead[w] # <<>>
      BY <2>1, Heading
    <2>4. Routines' = Routines
      BY <2>1 DEF Routines
    <2>5. ASSUME NEW v \in Routines PROVE Moving(v)'
      <3>1. CASE v = w
        <4>1. ahead'[w] = Tail(ahead[w]) /\ pushing'[w] = IF ahead'[w] = <<>> THEN 0 ELSE pushing[w]
          BY <2>1, <2>2
        <4>2. IsInjective(Tail(ahead[w])) /\ ToSet(Tail(ahead[w])) \subseteq ToSet(ahead[w])
          BY <2>2, <2>3, <1>0, Tailed
        <4>3. ToSet(ahead[w]) \subseteq ToSet(Members[w[1]])
          BY <1>0
        <4>4. pushing'[w] = 0 <=> ahead'[w] = <<>>
          BY <4>1, <2>1
        <4> QED BY <3>1, <4>1, <4>2, <4>3, <4>4
      <3>2. CASE v # w
        <4>1. ahead'[v] = ahead[v] /\ pushing'[v] = pushing[v]
          BY <3>2, <2>1, <2>2
        <4> QED BY <4>1, <1>0
      <3> QED BY <3>1, <3>2
    <2> HIDE DEF Moving
    <2>6. \A v \in Routines' : Moving(v)'
      BY <2>4, <2>5
    <2>7. \A b \in Buckets : Roomy(b)'
      BY <2>1, <1>0
    <2> QED BY <2>6, <2>7 DEF Rooms, Moving
  <1>6. ASSUME NEW c \in Channels, Write(c) \/ Break(c)
        PROVE  UNCHANGED <<bucketOptions, room, ahead, pushing>>
    BY <1>6 DEF Write, Break, routineVars
  <1>7. ASSUME NEW c \in Channels, Leave(c) PROVE Rooms'
    <2>1. Routines' = Routines
      BY <1>7, Leaving DEF Routines
    <2>2. ASSUME NEW v \in Routines PROVE Moving(v)'
      <3>1. /\ ToSet(ahead'[v]) \subseteq ToSet(ahead[v]) /\ IsInjective(ahead'[v])
            /\ pushing'[v] = IF ahead'[v] = <<>> THEN 0 ELSE pushing[v]
            /\ ahead'[v] \in Seq(Channels)
        BY <1>7, Leaving
      <3>2. ahead[v] \in Seq(Channels)
        BY DEF TypeOK
      <3>3. ahead'[v] # <<>> => ahead[v] # <<>>
        BY <3>1, <3>2, Elements
      <3> QED BY <3>1, <3>3, <1>0
    <2> HIDE DEF Moving
    <2>3. \A v \in Routines' : Moving(v)'
      BY <2>1, <2>2
    <2>4. \A b \in Buckets : Roomy(b)'
      BY <1>7, <1>0, Leaving
    <2> QED BY <2>3, <2>4 DEF Rooms, Moving
  <1>8. ASSUME UNCHANGED vars PROVE UNCHANGED <<bucketOptions, room, ahead, pushing>>
    BY <1>8 DEF vars, routineVars
  <1> QED BY <1>1, <1>2, <1>3, <1>4, <1>5, <1>6, <1>7, <1>8, Steps
-------------------------------------------------------------------------------
(* The goroutines. *)

\* A message a handler still has to give a bucket may follow every message past it.
LEMMA Fresh ==
  ASSUME TypeOK, Handing, NEW k \in Callers, NEW b \in Buckets, at[k] = b \/ found[k] # Nil,
         NEW m \in Ids, Past(m, b)
  PROVE  Follows(m, hand[k], b)
  <1>1. hand[k] \in Ids /\ hand[k] # 0
    BY Busy DEF Buckets
  <1>2. m # hand[k]
    <2>1. SUFFICES ASSUME hand[k] = m PROVE FALSE
      OBVIOUS
    <2>2. found[k] = Nil /\ b < at[k]
      BY <2>1 DEF Past
    <2>3. b \in Nat
      BY DEF Buckets
    <2> QED BY <2>2, <2>3
  <1>3. log[m] = log[hand[k]] => m <= hand[k]
    BY <1>1 DEF Handing
  <1>4. m \in Nat /\ hand[k] \in Nat
    BY <1>1 DEF Ids
  <1>5. m <= hand[k] => m < hand[k]
    BY <1>2, <1>4
  <1> QED BY <1>2, <1>3, <1>5 DEF Follows

\* A goroutine that got nothing keeps its order.
LEMMA QueueKept ==
  ASSUME TypeOK, Handing, Queues, [Next]_vars, TypeOK', NEW w \in Routines,
         ToSet(routines'[w]) \subseteq ToSet(routines[w]),
         \A m, n : Before(routines'[w], m, n) => Before(routines[w], m, n),
         pushing'[w] \in {0, pushing[w]}
  PROVE  InQueue(w)'
  <1>1. InQueue(w) /\ w[1] \in Buckets
    BY RoutineParts DEF Queues
  <1>2. routines[w] \in Seq(Ids) /\ pushing[w] \in {0} \cup Ids
    BY DEF TypeOK
  <1>3. ToSet(routines[w]) \subseteq Ids
    BY <1>2, Elements
  <1>4. \A n \in ToSet(routines'[w]) : Given(n, w)'
    BY <1>1, <1>3, StillGiven DEF InQueue
  <1>5. ASSUME NEW m \in Ids', NEW n \in Ids', Before(routines'[w], m, n) PROVE Follows(m, n, w[1])'
    <2>1. Before(routines[w], m, n)
      BY <1>5
    <2>2. m \in ToSet(routines[w]) /\ n \in ToSet(routines[w])
      BY <2>1 DEF Before, ToSet
    <2>3. m \in Ids /\ n \in Ids /\ Past(m, w[1]) /\ Past(n, w[1])
      BY <2>2, <1>1, <1>3 DEF InQueue, Given
    <2>4. Follows(m, n, w[1])
      BY <2>1, <2>3, <1>1 DEF InQueue
    <2> QED BY <2>3, <2>4, <1>1, StillFollows
  <1>6. ASSUME pushing'[w] # 0
        PROVE  Given(pushing[w], w)' /\ \A n \in ToSet(routines'[w]) : Follows(pushing[w], n, w[1])'
    <2>1. pushing[w] \in Ids /\ Given(pushing[w], w)
      BY <1>1, <1>2, <1>6 DEF InQueue
    <2>2. \A n \in Ids : Given(n, w) => Given(n, w)'
      BY StillGiven
    <2>3. pushing'[w] = pushing[w]
      BY <1>6
    <2>4. \A m, n \in Ids : Past(m, w[1]) /\ Past(n, w[1]) /\ Follows(m, n, w[1]) => Follows(m, n, w[1])'
      BY <1>1, StillFollows
    <2>5. ASSUME NEW n \in ToSet(routines'[w]) PROVE Follows(pushing[w], n, w[1])'
      <3>1. n \in Ids /\ Past(n, w[1]) /\ Past(pushing[w], w[1]) /\ Follows(pushing[w], n, w[1])
        BY <1>1, <1>3, <1>6, <2>1 DEF InQueue, Given
      <3> QED BY <3>1, <2>1, <2>3, <2>4
    <2> QED BY <2>1, <2>2, <2>3, <2>5
  <1> QED BY <1>4, <1>5, <1>6 DEF InQueue
\* Send puts message n, of goroutine i, at the end of the queue.
LEMMA SendQueues ==
  ASSUME TypeOK, Handing, Queues, NEW k \in Callers, Send(k), NEW v \in Routines,
         NEW b \in Buckets, b = at[k], NEW n \in Ids, n = hand[k],
         NEW i \in 0 .. bucketOptions.RoutineAmount - 1, i = slot[k]
  PROVE  /\ InQueue(v)'
         /\ routines'[v] = IF v = <<b, i>> THEN Append(routines[v], n) ELSE routines[v]
  <1> DEFINE w == <<b, i>>
  <1>1. n # 0 /\ found[k] = Nil /\ slot[k] # Nil
    BY Busy DEF Send
  <1>2. w \in Routines /\ w[1] = b /\ w[2] = i
    BY RoutineIndex
  <1>3. /\ routines' = [routines EXCEPT ![w] = Append(@, n)]
        /\ at' = [at EXCEPT ![k] = IF Following(b) \notin Buckets THEN 0 ELSE Following(b)]
        /\ hand' = [hand EXCEPT ![k] = IF Following(b) \notin Buckets THEN 0 ELSE @]
        /\ UNCHANGED <<bucketOptions, log, found, pushing, via>>
    BY DEF Send, Queue
  <1>4. [Next]_vars
    BY DEF Next, Handler
  <1>5. TypeOK'
    BY SendTypes
  <1>6. routines \in [Routines -> Seq(Ids)] /\ hand \in [Callers -> 0 .. Len(log)] /\ at \in [Callers -> {0} \cup Buckets]
    BY DEF TypeOK
  <1> HIDE DEF w
  <1>7. CASE v # w
    <2>1. routines'[v] = routines[v] /\ pushing'[v] = pushing[v]
      BY <1>3, <1>6, <1>7
    <2>2. InQueue(v)'
      BY <2>1, <1>4, <1>5, QueueKept
    <2> QED BY <2>1, <2>2, <1>7 DEF w
  <1>8. CASE v = w
    <2>1. routines'[w] = Append(routines[w], n) /\ routines[w] \in Seq(Ids)
      BY <1>2, <1>3, <1>6
    <2>2. /\ ToSet(routines'[w]) = ToSet(routines[w]) \cup {n}
          /\ \A x, y : Before(routines'[w], x, y) => Before(routines[w], x, y) \/ (x \in ToSet(routines[w]) /\ y = n)
      BY <2>1, Appended
    <2>3. log[n].to = Room /\ via[n][b] = i
      BY <1>1 DEF Handing
    <2>4. ASSUME NEW j \in Callers, hand'[j] = n PROVE found'[j] = Nil /\ b < at'[j]
      <3>1. j = k
        <4>1. SUFFICES ASSUME j # k PROVE FALSE
          OBVIOUS
        <4>2. hand[j] = n
          BY <4>1, <2>4, <1>3, <1>6
        <4> QED BY <4>1, <4>2, <1>1, OwnMessage
      <3>2. at'[k] = Following(b)
        BY <3>1, <2>4, <1>1, <1>3, <1>6
      <3>3. b < b + 1
        BY DEF Buckets
      <3> QED BY <3>1, <3>2, <3>3, <1>1, <1>3 DEF Following
    <2>5. Given(n, w)'
      BY <2>3, <2>4, <1>2, <1>3 DEF Given, Past
    <2>6. \A x, y \in Ids : Follows(x, y, b) => Follows(x, y, b)'
      BY <1>3 DEF Follows
    <2>7. ASSUME NEW m \in Ids, Given(m, w) PROVE Given(m, w)' /\ Follows(m, n, b)
      <3>1. Given(m, w)'
        BY <2>7, <1>2, <1>4, StillGiven
      <3>2. Past(m, b)
        BY <2>7, <1>2 DEF Given
      <3>3. \A c \in Buckets : c = at[k] /\ Past(m, c) => Follows(m, hand[k], c)
        BY Fresh
      <3> QED BY <3>1, <3>2, <3>3
    <2>8. InQueue(w) /\ Ids' = Ids
      BY <1>2, <1>3, SameLog DEF Queues
    <2>9. ToSet(routines[w]) \subseteq Ids
      BY <2>1, Elements
    <2>10. \A m \in ToSet(routines'[w]) : Given(m, w)'
      BY <2>2, <2>5, <2>7, <2>8, <2>9 DEF InQueue
    <2>11. ASSUME NEW x \in Ids, NEW y \in Ids, Before(routines'[w], x, y) PROVE Follows(x, y, b)'
      <3>1. CASE Before(routines[w], x, y)
        BY <3>1, <2>6, <2>8, <1>2 DEF InQueue
      <3>2. CASE x \in ToSet(routines[w]) /\ y = n
        BY <3>2, <2>6, <2>7, <2>8 DEF InQueue
      <3> QED BY <3>1, <3>2, <2>2, <2>11
    <2>12. ASSUME NEW p \in Ids, p = pushing[w]
           PROVE  Given(p, w)' /\ \A m \in ToSet(routines'[w]) : Follows(p, m, b)'
      <3>1. p # 0
        BY DEF Ids
      <3>2. Given(p, w)
        BY <3>1, <2>8, <2>12 DEF InQueue
      <3>3. \A m \in ToSet(routines'[w]) : m \in Ids /\ Follows(p, m, b)
        BY <3>1, <3>2, <2>2, <2>7, <2>8, <2>9, <2>12, <1>2 DEF InQueue
      <3> QED BY <3>2, <3>3, <2>6, <2>7
    <2>13. InQueue(w)'
      <3>1. pushing'[w] # 0 => pushing'[w] \in Ids /\ pushing'[w] = pushing[w]
        BY <1>2, <1>3 DEF TypeOK
      <3> QED BY <3>1, <2>8, <2>10, <2>11, <2>12, <1>2 DEF InQueue
    <2> QED BY <2>1, <2>13, <1>8 DEF w
  <1> QED BY <1>7, <1>8

\* Take has the goroutine push the first of its queue.
LEMMA TakeQueues ==
  ASSUME TypeOK, Handing, Queues, NEW w \in Routines, Take(w), NEW v \in Routines
  PROVE  /\ InQueue(v)'
         /\ v # w => UNCHANGED <<routines[v], pushing[v], ahead[v]>>
         /\ v = w => /\ ToSet(routines'[w]) \subseteq ToSet(routines[w])
                     /\ ToSet(routines[w]) \subseteq ToSet(routines'[w]) \cup {Head(routines[w])}
                     /\ pushing[w] = 0 /\ ahead'[w] = room[w[1]]
                     /\ pushing'[w] = IF room[w[1]] = <<>> THEN 0 ELSE Head(routines[w])
                     /\ Head(routines[w]) \in ToSet(routines[w])
  <1>1. /\ routines[w] # <<>> /\ pushing[w] = 0
        /\ pushing' = [pushing EXCEPT ![w] = IF room[w[1]] = <<>> THEN 0 ELSE Head(routines[w])]
        /\ routines' = [routines EXCEPT ![w] = Tail(@)]
        /\ ahead' = [ahead EXCEPT ![w] = room[w[1]]]
        /\ UNCHANGED <<bucketOptions, log, callVars, room, via>>
    BY DEF Take
  <1>2. /\ routines \in [Routines -> Seq(Ids)] /\ pushing \in [Routines -> {0} \cup Ids]
        /\ ahead \in [Routines -> Seq(Channels)]
    BY DEF TypeOK
  <1>3. [Next]_vars
    BY DEF Next, Routine
  <1>4. TypeOK'
    BY TakeTypes
  <1>5. CASE v # w
    <2>1. UNCHANGED <<routines[v], pushing[v], ahead[v]>>
      BY <1>1, <1>2, <1>5
    <2>2. InQueue(v)'
      BY <2>1, <1>3, <1>4, QueueKept
    <2> QED BY <2>1, <2>2, <1>5
  <1>6. CASE v = w
    <2> DEFINE q == routines[w]
    <2>1. /\ routines'[w] = Tail(q) /\ q \in Seq(Ids) /\ q # <<>> /\ ahead'[w] = room[w[1]]
          /\ pushing'[w] = IF room[w[1]] = <<>> THEN 0 ELSE Head(q)
      BY <1>1, <1>2
    <2>2. /\ Head(q) \in ToSet(q) /\ ToSet(Tail(q)) \subseteq ToSet(q) /\ ToSet(q) \subseteq ToSet(Tail(q)) \cup {Head(q)}
          /\ \A n \in ToSet(Tail(q)) : Before(q, Head(q), n)
          /\ \A m, n : Before(Tail(q), m, n) => Before(q, m, n)
      BY <2>1, Tailed
    <2>3. InQueue(w) /\ Ids' = Ids
      BY <1>1, SameLog DEF Queues
    <2>4. ToSet(q) \subseteq Ids
      BY <2>1, Elements
    <2> HIDE DEF q
    <2>5. \A x, y \in Ids : Follows(x, y, w[1]) => Follows(x, y, w[1])'
      BY <1>1 DEF Follows
    <2>6. \A n \in ToSet(q) : Given(n, w) /\ Given(n, w)'
      <3>1. \A n \in Ids : Given(n, w) => Given(n, w)'
        BY <1>3, StillGiven
      <3> QED BY <3>1, <2>3, <2>4 DEF InQueue, q
    <2>7. \A n \in ToSet(routines'[w]) : Given(n, w)'
      BY <2>1, <2>2, <2>6
    <2>8. \A m, n \in Ids : Before(q, m, n) => Follows(m, n, w[1])
      BY <2>3 DEF InQueue, q
    <2>9. \A m, n \in Ids' : Before(routines'[w], m, n) => Follows(m, n, w[1])'
      BY <2>1, <2>2, <2>3, <2>5, <2>8
    <2>10. PICK h \in Ids : h = Head(q)
      BY <2>2, <2>4
    <2>11. ASSUME pushing'[w] # 0
           PROVE  pushing'[w] = h /\ Given(h, w)' /\ \A n \in ToSet(routines'[w]) : Follows(h, n, w[1])'
      <3>1. pushing'[w] = h
        BY <2>1, <2>10, <2>11
      <3>2. Given(h, w)'
        BY <2>2, <2>6, <2>10
      <3>3. ASSUME NEW n \in ToSet(routines'[w]) PROVE Follows(h, n, w[1])'
        <4>1. n \in Ids /\ Before(q, h, n)
          BY <2>1, <2>2, <2>4, <2>10
        <4> QED BY <4>1, <2>5, <2>8
      <3> QED BY <3>1, <3>2, <3>3
    <2>12. InQueue(w)'
      BY <2>7, <2>9, <2>11 DEF InQueue
    <2> QED BY <2>1, <2>2, <2>12, <1>1, <1>6 DEF q
  <1> QED BY <1>5, <1>6

LEMMA QueuesNext ==
  ASSUME TypeOK, Handing, Rooms, Queues, [Next]_vars
  PROVE  Queues'
  <1>1. Routines' = Routines /\ TypeOK'
    BY StillSaid, TypeNext
  <1>2. ASSUME NEW v \in Routines PROVE InQueue(v)'
    <2>1. ASSUME UNCHANGED routines[v], pushing'[v] \in {0, pushing[v]} PROVE InQueue(v)'
      BY <2>1, <1>1, QueueKept
    <2>2. ASSUME NEW k \in Callers, NEW to \in Channels \cup {Room}, Call(k, to) PROVE UNCHANGED <<routines, pushing>>
      BY <2>2 DEF Call, routineVars
    <2>3. ASSUME NEW k \in Callers, PushSingle(k) \/ Choose(k) PROVE UNCHANGED <<routines, pushing>>
      BY <2>3 DEF PushSingle, Choose, routineVars
    <2>4. ASSUME NEW k \in Callers, Send(k) PROVE InQueue(v)'
      <3>1. /\ at[k] \in Buckets /\ hand[k] \in Ids
            /\ slot[k] \in 0 .. bucketOptions.RoutineAmount - 1
        BY <2>4, Busy DEF Send
      <3> QED BY <2>4, <3>1, SendQueues
    <2>5. ASSUME NEW w \in Routines, Take(w) PROVE InQueue(v)'
      BY <2>5, TakeQueues
    <2>6. ASSUME NEW w \in Routines, PushNext(w) PROVE UNCHANGED routines[v] /\ pushing'[v] \in {0, pushing[v]}
      <3>1. routines' = routines /\ pushing' = [pushing EXCEPT ![w] = IF ahead'[w] = <<>> THEN 0 ELSE @]
        BY <2>6 DEF PushNext
      <3> QED BY <3>1 DEF TypeOK
    <2>7. ASSUME NEW c \in Channels, Write(c) \/ Break(c) PROVE UNCHANGED <<routines, pushing>>
      BY <2>7 DEF Write, Break, routineVars
    <2>8. ASSUME NEW c \in Channels, Leave(c) PROVE UNCHANGED routines[v] /\ pushing'[v] \in {0, pushing[v]}
      BY <2>8, Leaving
    <2>9. ASSUME UNCHANGED vars PROVE UNCHANGED <<routines, pushing>>
      BY <2>9 DEF vars, routineVars
    <2> QED BY <2>1, <2>2, <2>3, <2>4, <2>5, <2>6, <2>7, <2>8, <2>9, Steps
  <1> QED BY <1>1, <1>2 DEF Queues
-------------------------------------------------------------------------------
(* The connections. *)

\* A Channel is of one bucket.
LEMMA Home ==
  ASSUME TypeOK
  PROVE  /\ \A b \in Buckets : Members[b] \in Seq(Channels) /\ ToSet(Members[b]) \subseteq Channels
         /\ \A c \in Channels : \E b \in Buckets : c \in ToSet(Members[b])
         /\ \A b, d \in Buckets : \A c : c \in ToSet(Members[b]) /\ c \in ToSet(Members[d]) => b = d
  <1>1. \A b \in Buckets : Members[b] \in Seq(Channels)
    BY Constants
  <1>2. \A b \in Buckets : ToSet(Members[b]) \subseteq Channels
    BY DEF Channels
  <1>3. \A c \in Channels : \E b \in Buckets : \A d \in Buckets : c \in ToSet(Members[d]) <=> d = b
    BY BroadcastAssumption
  <1> QED BY <1>1, <1>2, <1>3

LEMMA StreamType ==
  ASSUME TypeOK, NEW c \in Channels
  PROVE  /\ written[c] \in Seq(Ids) /\ broadcast[c] \in Seq(Ids) /\ missed[c] \subseteq Ids
         /\ Stream(c) \in Seq(Ids) /\ ToSet(Stream(c)) \subseteq Ids /\ Met(c) \subseteq Ids
  <1>1. written[c] \in Seq(Ids) /\ broadcast[c] \in Seq(Ids) /\ missed[c] \subseteq Ids
    BY DEF TypeOK
  <1>2. Stream(c) \in Seq(Ids)
    BY <1>1, ConcatProperties DEF Stream
  <1>3. ToSet(Stream(c)) \subseteq Ids
    BY <1>2, Elements
  <1> QED BY <1>1, <1>2, <1>3 DEF Met

\* What a Push does to what a connection has met.
LEMMA Pushed ==
  ASSUME TypeOK, NEW d \in Channels, NEW n \in Ids, Push(d, n), NEW c \in Channels
  PROVE  \/ c # d /\ Stream(c)' = Stream(c) /\ missed'[c] = missed[c]
         \/ c = d /\ Stream(c)' = Append(Stream(c), n) /\ missed'[c] = missed[c]
         \/ c = d /\ Stream(c)' = Stream(c) /\ missed'[c] = missed[c] \cup {n}
  <1>1. broadcast \in [Channels -> Seq(Ids)] /\ missed \in [Channels -> SUBSET Ids] /\ written' = written
    BY DEF TypeOK, Push
  <1>2. CASE c # d
    <2>1. broadcast'[c] = broadcast[c] /\ missed'[c] = missed[c]
      BY <1>1, <1>2 DEF Push
    <2> QED BY <2>1, <1>1, <1>2 DEF Stream
  <1>3. CASE c = d /\ Fits(d)
    <2>1. broadcast'[c] = Append(broadcast[c], n) /\ missed'[c] = missed[c]
      BY <1>1, <1>3 DEF Push
    <2>2. written[c] \o Append(broadcast[c], n) = Append(written[c] \o broadcast[c], n)
      <3>1. \A p, q \in Seq(Ids) : \A x \in Ids : p \o Append(q, x) = Append(p \o q, x)
        BY Streamed
      <3> QED BY <3>1, StreamType
    <2>3. Stream(c)' = Append(Stream(c), n)
      <3>1. Stream(c)' = written[c] \o broadcast'[c]
        BY <1>1 DEF Stream
      <3> QED BY <3>1, <2>1, <2>2 DEF Stream
    <2> QED BY <2>1, <2>3, <1>3
  <1>4. CASE c = d /\ ~Fits(d)
    <2>1. broadcast'[c] = broadcast[c] /\ missed'[c] = missed[c] \cup {n}
      BY <1>1, <1>4 DEF Push
    <2> QED BY <2>1, <1>1, <1>4 DEF Stream
  <1> QED BY <1>2, <1>3, <1>4

LEMMA PushMeets ==
  ASSUME TypeOK, NEW d \in Channels, NEW n \in Ids, Push(d, n), NEW c \in Channels
  PROVE  Met(c)' = IF c = d THEN Met(c) \cup {n} ELSE Met(c)
  <1>1. CASE Stream(c)' = Append(Stream(c), n)
    <2>1. ToSet(Append(Stream(c), n)) = ToSet(Stream(c)) \cup {n}
      BY StreamType, Appended
    <2>2. \/ c # d /\ Stream(c)' = Stream(c) /\ missed'[c] = missed[c]
          \/ c = d /\ missed'[c] = missed[c]
          \/ c = d /\ Stream(c)' = Stream(c) /\ missed'[c] = missed[c] \cup {n}
      BY Pushed
    <2> QED BY <2>1, <2>2, <1>1 DEF Met
  <1>2. CASE Stream(c)' # Append(Stream(c), n)
    BY <1>2, Pushed DEF Met
  <1> QED BY <1>1, <1>2

\* What a step that pushes nothing leaves of a connection.
Quiet(c) ==
  /\ missed'[c] = missed[c]
  /\ ToSet(Stream(c)') \subseteq ToSet(Stream(c))
  /\ \A m, n : Before(Stream(c)', m, n) => Before(Stream(c), m, n)
  /\ pump'[c] = "run" => pump[c] = "run" /\ ToSet(Stream(c)') = ToSet(Stream(c))

LEMMA Quietly ==
  ASSUME TypeOK, [Next]_vars
  PROVE  \/ \E k \in Callers : PushSingle(k)
         \/ \E w \in Routines : PushNext(w)
         \/ \A c \in Channels : Quiet(c)
  <1>1. ASSUME UNCHANGED chanVars PROVE \A c \in Channels : Quiet(c)
    BY <1>1 DEF chanVars, Quiet, Stream
  <1>2. ASSUME NEW k \in Callers, NEW to \in Channels \cup {Room}, Call(k, to) PROVE UNCHANGED chanVars
    BY <1>2 DEF Call
  <1>3. ASSUME NEW k \in Callers, Choose(k) \/ Send(k) PROVE UNCHANGED chanVars
    BY <1>3 DEF Choose, Send
  <1>4. ASSUME NEW w \in Routines, Take(w) PROVE UNCHANGED chanVars
    BY <1>4 DEF Take
  <1>5. ASSUME NEW d \in Channels, Write(d) PROVE \A c \in Channels : Quiet(c)
    <2> TAKE c \in Channels
    <2>1. /\ broadcast[d] # <<>> /\ UNCHANGED <<pump, missed>>
          /\ written' = [written EXCEPT ![d] = Append(@, Head(broadcast[d]))]
          /\ broadcast' = [broadcast EXCEPT ![d] = Tail(@)]
      BY <1>5 DEF Write
    <2>2. written \in [Channels -> Seq(Ids)] /\ broadcast \in [Channels -> Seq(Ids)]
      BY DEF TypeOK
    <2>3. CASE c # d
      <3>1. written'[c] = written[c] /\ broadcast'[c] = broadcast[c]
        BY <2>1, <2>2, <2>3
      <3> QED BY <3>1, <2>1 DEF Quiet, Stream
    <2>4. CASE c = d
      <3>1. written'[c] = Append(written[c], Head(broadcast[c])) /\ broadcast'[c] = Tail(broadcast[c])
        BY <2>1, <2>2, <2>4
      <3>2. Append(written[c], Head(broadcast[c])) \o Tail(broadcast[c]) = written[c] \o broadcast[c]
        BY <2>1, <2>4, StreamType, Streamed
      <3>3. Stream(c)' = Stream(c)
        BY <3>1, <3>2 DEF Stream
      <3> QED BY <3>3, <2>1 DEF Quiet
    <2> QED BY <2>3, <2>4
  <1>6. ASSUME NEW d \in Channels, Break(d) PROVE \A c \in Channels : Quiet(c)
    <2> TAKE c \in Channels
    <2>1. /\ UNCHANGED <<written, missed>>
          /\ pump' = [pump EXCEPT ![d] = "ended"]
          /\ broadcast' \in {broadcast, [broadcast EXCEPT ![d] = IF @ = <<>> THEN @ ELSE Tail(@)]}
      BY <1>6 DEF Break
    <2>2. broadcast \in [Channels -> Seq(Ids)] /\ pump \in [Channels -> {"run", "ended"}]
      BY DEF TypeOK
    <2>3. CASE broadcast'[c] = broadcast[c]
      <3>1. Stream(c)' = Stream(c)
        BY <2>1, <2>3 DEF Stream
      <3>2. pump'[c] = "run" => pump[c] = "run"
        BY <2>1, <2>2
      <3> QED BY <3>1, <3>2, <2>1 DEF Quiet
    <2>4. CASE broadcast'[c] # broadcast[c]
      <3>1. c = d /\ broadcast[c] # <<>> /\ broadcast'[c] = Tail(broadcast[c]) /\ pump'[c] = "ended"
        BY <2>1, <2>2, <2>4
      <3>2. /\ ToSet(written[c] \o Tail(broadcast[c])) \subseteq ToSet(written[c] \o broadcast[c])
            /\ \A m, n : Before(written[c] \o Tail(broadcast[c]), m, n) => Before(written[c] \o broadcast[c], m, n)
        BY <3>1, StreamType, Streamed
      <3>3. Stream(c)' = written[c] \o Tail(broadcast[c])
        BY <3>1, <2>1 DEF Stream
      <3> QED BY <3>1, <3>2, <3>3, <2>1 DEF Quiet, Stream
    <2> QED BY <2>3, <2>4
  <1>7. ASSUME NEW d \in Channels, Leave(d) PROVE UNCHANGED chanVars
    BY <1>7 DEF Leave
  <1>8. ASSUME UNCHANGED vars PROVE UNCHANGED chanVars
    BY <1>8 DEF vars
  <1> QED BY <1>1, <1>2, <1>3, <1>4, <1>5, <1>6, <1>7, <1>8, Steps

\* Where what a goroutine has comes from.
LEMMA Brought ==
  ASSUME TypeOK, Handing, Rooms, Queues, [Next]_vars, NEW v \in Routines
  PROVE  /\ \A n \in ToSet(routines'[v]) :
              n \in ToSet(routines[v]) \/ \E k \in Callers : Send(k) /\ hand[k] = n /\ at[k] = v[1]
         /\ \A c \in ToSet(ahead'[v]) : \/ c \in ToSet(ahead[v]) /\ pushing'[v] = pushing[v]
                                        \/ pushing'[v] \in ToSet(routines[v])
  <1> DEFINE Goal ==
         /\ \A n \in ToSet(routines'[v]) :
              n \in ToSet(routines[v]) \/ \E k \in Callers : Send(k) /\ hand[k] = n /\ at[k] = v[1]
         /\ \A c \in ToSet(ahead'[v]) : \/ c \in ToSet(ahead[v]) /\ pushing'[v] = pushing[v]
                                        \/ pushing'[v] \in ToSet(routines[v])
  <1> SUFFICES Goal
    OBVIOUS
  <1>0. /\ routines \in [Routines -> Seq(Ids)] /\ pushing \in [Routines -> {0} \cup Ids]
        /\ ahead \in [Routines -> Seq(Channels)]
    BY DEF TypeOK
  <1>1. ASSUME UNCHANGED <<routines, pushing, ahead>> PROVE Goal
    BY <1>1
  <1>2. ASSUME NEW k \in Callers, NEW to \in Channels \cup {Room}, Call(k, to)
        PROVE  UNCHANGED <<routines, pushing, ahead>>
    BY <1>2 DEF Call, routineVars
  <1>3. ASSUME NEW k \in Callers, PushSingle(k) \/ Choose(k) PROVE UNCHANGED <<routines, pushing, ahead>>
    BY <1>3 DEF PushSingle, Choose, routineVars
  <1>4. ASSUME NEW k \in Callers, Send(k) PROVE Goal
    <2>1. /\ at[k] \in Buckets /\ hand[k] \in Ids
          /\ slot[k] \in 0 .. bucketOptions.RoutineAmount - 1
      BY <1>4, Busy DEF Send
    <2>2. routines'[v] = IF v = <<at[k], slot[k]>> THEN Append(routines[v], hand[k]) ELSE routines[v]
      BY <1>4, <2>1, SendQueues
    <2>3. UNCHANGED <<pushing, ahead>>
      BY <1>4 DEF Send
    <2>4. ToSet(Append(routines[v], hand[k])) = ToSet(routines[v]) \cup {hand[k]}
      BY <2>1, <1>0, Appended
    <2>5. CASE v = <<at[k], slot[k]>>
      <3>1. v[1] = at[k]
        BY <2>5
      <3> QED BY <1>4, <2>2, <2>3, <2>4, <2>5, <3>1
    <2>6. CASE v # <<at[k], slot[k]>>
      BY <2>2, <2>3, <2>6
    <2> QED BY <2>5, <2>6
  <1>5. ASSUME NEW w \in Routines, Take(w) PROVE Goal
    <2>1. CASE v # w
      BY <2>1, <1>5, TakeQueues
    <2>2. CASE v = w
      <3>1. /\ ToSet(routines'[w]) \subseteq ToSet(routines[w]) /\ ahead'[w] = room[w[1]]
            /\ pushing'[w] = IF room[w[1]] = <<>> THEN 0 ELSE Head(routines[w])
            /\ Head(routines[w]) \in ToSet(routines[w])
        BY <1>5, TakeQueues
      <3>2. ASSUME NEW c \in ToSet(ahead'[w]) PROVE room[w[1]] # <<>>
        <4>1. room[w[1]] \in Seq(Channels)
          BY RoutineParts, Constants
        <4> QED BY <3>1, <3>2, <4>1, Elements
      <3> QED BY <2>2, <3>1, <3>2
    <2> QED BY <2>1, <2>2
  <1>6. ASSUME NEW w \in Routines, PushNext(w) PROVE Goal
    <2>1. /\ routines' = routines /\ pushing[w] # 0
          /\ ahead' = [ahead EXCEPT ![w] = Tail(@)]
          /\ pushing' = [pushing EXCEPT ![w] = IF ahead'[w] = <<>> THEN 0 ELSE @]
      BY <1>6 DEF PushNext
    <2>2. CASE v # w
      BY <2>1, <2>2, <1>0
    <2>3. CASE v = w
      <3>1. ahead[w] # <<>> /\ ahead[w] \in Seq(Channels)
        BY <2>1, Heading
      <3>2. ahead'[w] = Tail(ahead[w]) /\ pushing'[w] = IF ahead'[w] = <<>> THEN 0 ELSE pushing[w]
        BY <2>1, <1>0
      <3>3. ToSet(Tail(ahead[w])) \subseteq ToSet(ahead[w]) /\ Tail(ahead[w]) \in Seq(Channels)
        BY <3>1, Tailed, HeadTailProperties
      <3>4. ASSUME NEW c \in ToSet(ahead'[w]) PROVE ahead'[w] # <<>>
        BY <3>2, <3>3, <3>4, Elements
      <3> QED BY <2>1, <2>3, <3>2, <3>3, <3>4
    <2> QED BY <2>2, <2>3
  <1>7. ASSUME NEW d \in Channels, Write(d) \/ Break(d) PROVE UNCHANGED <<routines, pushing, ahead>>
    BY <1>7 DEF Write, Break, routineVars
  <1>8. ASSUME NEW d \in Channels, Leave(d) PROVE Goal
    <2>1. /\ routines' = routines /\ ToSet(ahead'[v]) \subseteq ToSet(ahead[v]) /\ ahead'[v] \in Seq(Channels)
          /\ pushing'[v] = IF ahead'[v] = <<>> THEN 0 ELSE pushing[v]
      BY <1>8, Leaving
    <2>2. ASSUME NEW c \in ToSet(ahead'[v]) PROVE ahead'[v] # <<>>
      BY <2>1, <2>2, Elements
    <2> QED BY <2>1, <2>2
  <1>9. ASSUME UNCHANGED vars PROVE UNCHANGED <<routines, pushing, ahead>>
    BY <1>9 DEF vars, routineVars
  <1> HIDE DEF Goal
  <1> QED BY <1>1, <1>2, <1>3, <1>4, <1>5, <1>6, <1>7, <1>8, <1>9, Steps
\* What has met a connection stays behind what comes.
LEMMA StillPassed ==
  ASSUME TypeOK, Handing, Rooms, Queues, [Next]_vars,
         NEW b \in Buckets, NEW c \in ToSet(Members[b]), NEW m \in Ids, Passed(m, c, b)
  PROVE  Passed(m, c, b)'
  <1>1. Past(m, b) /\ Past(m, b)'
    BY StillPast DEF Passed
  <1>2. \A n \in Ids : Past(n, b) /\ Follows(m, n, b) => Follows(m, n, b)'
    BY <1>1, StillFollows
  <1>3. ASSUME NEW v \in Routines, v[1] = b
        PROVE  /\ \A n \in ToSet(routines'[v]) : Follows(m, n, b)'
               /\ c \in ToSet(ahead'[v]) => Follows(m, pushing[v], b)'
    <2>1. /\ routines[v] \in Seq(Ids) /\ ahead[v] \in Seq(Channels) /\ pushing[v] \in {0} \cup Ids
          /\ ToSet(routines[v]) \subseteq Ids
      <3>1. routines[v] \in Seq(Ids) /\ ahead[v] \in Seq(Channels) /\ pushing[v] \in {0} \cup Ids
        BY DEF TypeOK
      <3> QED BY <3>1, Elements
    <2>2. InQueue(v) /\ (pushing[v] = 0 <=> ahead[v] = <<>>)
      BY DEF Queues, Rooms
    <2>3. \A n \in ToSet(routines[v]) : n \in Ids /\ Follows(m, n, b) /\ Follows(m, n, b)'
      BY <2>1, <2>2, <1>2, <1>3 DEF Passed, InQueue, Given
    <2>4. ASSUME NEW n \in ToSet(routines'[v]) PROVE Follows(m, n, b)'
      <3>1. CASE n \in ToSet(routines[v])
        BY <3>1, <2>3
      <3>2. ASSUME NEW k \in Callers, Send(k), hand[k] = n, at[k] = v[1] PROVE Follows(m, n, b)'
        <4>1. Follows(m, hand[k], b)
          BY <3>2, <1>1, <1>3, Fresh
        <4>2. UNCHANGED <<log, via>>
          BY <3>2 DEF Send
        <4> QED BY <4>1, <4>2, <3>2 DEF Follows
      <3> QED BY <3>1, <3>2, Brought
    <2>5. ASSUME c \in ToSet(ahead'[v]), NEW p, p = pushing'[v] PROVE Follows(m, p, b)'
      <3>1. CASE c \in ToSet(ahead[v]) /\ p = pushing[v]
        <4>1. ahead[v] # <<>>
          BY <3>1, <2>1, Elements
        <4>2. p \in Ids /\ Given(p, v) /\ Follows(m, p, b)
          BY <4>1, <3>1, <2>1, <2>2, <1>3 DEF InQueue, Passed
        <4> QED BY <4>2, <1>2, <1>3 DEF Given
      <3>2. CASE p \in ToSet(routines[v])
        BY <3>2, <2>3
      <3> QED BY <2>5, <3>1, <3>2, Brought
    <2> QED BY <2>4, <2>5
  <1>4. Routines' = Routines
    BY StillSaid
  <1> QED BY <1>1, <1>3, <1>4 DEF Passed

\* The message that meets a connection is behind what else comes to it.
LEMMA SinglePassed ==
  ASSUME TypeOK, Handing, Rooms, Queues, NEW k \in Callers, PushSingle(k), NEW n \in Ids, n = hand[k],
         NEW b \in Buckets, NEW c
  PROVE  Passed(n, c, b)'
  <1>1. /\ hand' = [hand EXCEPT ![k] = 0] /\ UNCHANGED <<bucketOptions, log, routines, ahead, pushing, via>>
        /\ found[k] # Nil
    BY DEF PushSingle, routineVars
  <1>2. n # 0 /\ hand \in [Callers -> 0 .. Len(log)]
    BY DEF TypeOK, Ids
  <1>3. log[n].to = found[k] /\ log[n].to # Room
    <2>1. log[n].to = found[k]
      BY <1>1, <1>2 DEF Handing
    <2>2. found[k] \in Channels
      BY <1>1, Busy
    <2> QED BY <2>1, <2>2, BroadcastAssumption
  <1>4. Past(n, b)'
    <2>1. ASSUME NEW j \in Callers, hand'[j] = n PROVE FALSE
      <3>1. j # k /\ hand[j] = n
        BY <2>1, <1>1, <1>2
      <3> QED BY <3>1, <1>2, OwnMessage
    <2> QED BY <2>1 DEF Past
  <1>5. ~Past(n, b)
    BY <1>1 DEF Past
  <1>6. \A p : Past(p, b) => Follows(n, p, b)'
    BY <1>1, <1>3, <1>5 DEF Follows
  <1>7. ASSUME NEW v \in Routines, v[1] = b
        PROVE  /\ \A p \in ToSet(routines[v]) : Past(p, b)
               /\ c \in ToSet(ahead[v]) => Past(pushing[v], b)
    <2>1. InQueue(v) /\ (pushing[v] = 0 <=> ahead[v] = <<>>) /\ ahead[v] \in Seq(Channels)
      BY DEF Queues, Rooms, TypeOK
    <2>2. c \in ToSet(ahead[v]) => ahead[v] # <<>>
      BY <2>1, Elements
    <2> QED BY <2>1, <2>2, <1>7 DEF InQueue, Given
  <1>8. Routines' = Routines
    BY <1>1 DEF Routines
  <1> QED BY <1>1, <1>4, <1>6, <1>7, <1>8 DEF Passed

LEMMA NextPassed ==
  ASSUME TypeOK, Handing, Rooms, Queues, [Next]_vars, NEW w \in Routines, PushNext(w),
         NEW n \in Ids, n = pushing[w], NEW c, c = Head(ahead[w])
  PROVE  Passed(n, c, w[1])'
  <1>1. /\ pushing[w] # 0 /\ UNCHANGED <<bucketOptions, log, callVars, routines, via>>
        /\ ahead' = [ahead EXCEPT ![w] = Tail(@)]
        /\ pushing' = [pushing EXCEPT ![w] = IF ahead'[w] = <<>> THEN 0 ELSE @]
    BY DEF PushNext
  <1>2. /\ ahead \in [Routines -> Seq(Channels)] /\ pushing \in [Routines -> {0} \cup Ids]
        /\ ahead[w] # <<>> /\ IsInjective(ahead[w])
    BY <1>1 DEF TypeOK, Rooms
  <1>3. Given(n, w) /\ \A p \in ToSet(routines[w]) : Follows(n, p, w[1])
    BY <1>1 DEF Queues, InQueue
  <1>4. Past(n, w[1])'
    BY <1>3, StillPast, RoutineParts DEF Given
  <1>5. \A p : Follows(n, p, w[1]) => Follows(n, p, w[1])'
    BY <1>1 DEF Follows
  <1>6. ASSUME NEW v \in Routines, v # w, v[1] = w[1], NEW p, Given(p, v) PROVE Follows(n, p, w[1])
    <2>1. v[2] # w[2]
      BY <1>6, RoutineParts
    <2>2. via[p][w[1]] = v[2] /\ via[n][w[1]] = w[2]
      BY <1>3, <1>6 DEF Given
    <2> QED BY <2>1, <2>2 DEF Follows
  <1>7. ASSUME NEW v \in Routines, v[1] = w[1]
        PROVE  /\ \A p \in ToSet(routines'[v]) : Follows(n, p, w[1])'
               /\ c \in ToSet(ahead'[v]) => Follows(n, pushing[v], w[1])'
    <2>1. CASE v = w
      <3>1. ahead'[w] = Tail(ahead[w])
        BY <1>1, <1>2
      <3>2. c \notin ToSet(ahead'[w])
        BY <3>1, <1>2, Tailed
      <3> QED BY <2>1, <3>2, <1>1, <1>3, <1>5
    <2>2. CASE v # w
      <3>1. ahead'[v] = ahead[v] /\ pushing'[v] = pushing[v]
        BY <2>2, <1>1, <1>2
      <3>2. InQueue(v) /\ (pushing[v] = 0 <=> ahead[v] = <<>>) /\ ahead[v] \in Seq(Channels)
        BY DEF Queues, Rooms, TypeOK
      <3>3. c \in ToSet(ahead[v]) => ahead[v] # <<>>
        BY <3>2, Elements
      <3>4. \A p \in ToSet(routines[v]) : Follows(n, p, w[1])
        BY <3>2, <1>6, <1>7, <2>2 DEF InQueue
      <3>5. ASSUME NEW p, p = pushing[v], c \in ToSet(ahead[v]) PROVE Follows(n, p, w[1])
        BY <3>2, <3>3, <3>5, <1>6, <1>7, <2>2 DEF InQueue
      <3>6. ASSUME NEW p, p = pushing'[v], c \in ToSet(ahead'[v]) PROVE Follows(n, p, w[1])'
        BY <3>1, <3>5, <3>6, <1>5
      <3> QED BY <3>4, <3>6, <1>1, <1>5
    <2> QED BY <2>1, <2>2
  <1>8. Routines' = Routines
    BY <1>1 DEF Routines
  <1> QED BY <1>4, <1>7, <1>8 DEF Passed

LEMMA BehindNext ==
  ASSUME TypeOK, Handing, Rooms, Queues, Behind, [Next]_vars
  PROVE  Behind'
  <1>1. SUFFICES ASSUME NEW b \in Buckets, NEW c \in ToSet(Members[b]), NEW m \in Met(c)'
                 PROVE  Passed(m, c, b)'
    BY DEF Behind
  <1>2. c \in Channels
    BY Home
  <1>3. ASSUME m \in Met(c) PROVE Passed(m, c, b)'
    <2>1. m \in Ids /\ Passed(m, c, b)
      BY <1>2, <1>3, StreamType DEF Behind
    <2> QED BY <2>1, StillPassed
  <1>4. ASSUME NEW k \in Callers, PushSingle(k), m \notin Met(c) PROVE Passed(m, c, b)'
    <2>1. found[k] \in Channels /\ hand[k] \in Ids /\ Push(found[k], hand[k])
      BY <1>4, Busy DEF PushSingle
    <2>2. m = hand[k]
      BY <2>1, <1>2, <1>4, PushMeets
    <2> QED BY <2>1, <2>2, <1>4, SinglePassed
  <1>5. ASSUME NEW w \in Routines, PushNext(w), m \notin Met(c) PROVE Passed(m, c, b)'
    <2>1. pushing[w] # 0 /\ Push(Head(ahead[w]), pushing[w])
      BY <1>5 DEF PushNext
    <2>2. Head(ahead[w]) \in Channels /\ pushing[w] \in Ids /\ Head(ahead[w]) \in ToSet(Members[w[1]])
      BY <2>1, Heading
    <2>3. m = pushing[w] /\ c = Head(ahead[w])
      BY <2>1, <2>2, <1>2, <1>5, PushMeets
    <2>4. b = w[1]
      BY <2>2, <2>3, Home, RoutineParts
    <2> QED BY <2>2, <2>3, <2>4, <1>5, NextPassed
  <1>6. ASSUME Quiet(c) PROVE m \in Met(c)
    BY <1>6 DEF Quiet, Met
  <1> QED BY <1>2, <1>3, <1>4, <1>5, <1>6, Quietly
-------------------------------------------------------------------------------
(* What the connections get. *)

\* A message that follows all a connection has met keeps its stream in order.
LEMMA Received ==
  ASSUME TypeOK, Streams, NEW d \in Channels, NEW n \in Ids, Push(d, n), UNCHANGED <<log, via>>,
         NEW b \in Buckets, NEW c \in ToSet(Members[b]),
         c = d => \A m \in Met(d) : Follows(m, n, b)
  PROVE  InOrder(c, b)'
  <1>1. c \in Channels /\ InOrder(c, b) /\ Ids' = Ids
    BY Home DEF Streams, Ids
  <1>2. \A x, y : Follows(x, y, b) => Follows(x, y, b)'
    BY DEF Follows
  <1>3. CASE c # d /\ Stream(c)' = Stream(c) /\ missed'[c] = missed[c]
    BY <1>1, <1>2, <1>3 DEF InOrder
  <1>4. CASE c = d /\ Stream(c)' = Append(Stream(c), n) /\ missed'[c] = missed[c]
    <2>1. /\ ToSet(Stream(c)') = ToSet(Stream(c)) \cup {n}
          /\ \A x, y : Before(Stream(c)', x, y) => Before(Stream(c), x, y) \/ (x \in ToSet(Stream(c)) /\ y = n)
      BY <1>1, <1>4, StreamType, Appended
    <2>2. n \notin Met(d)
      BY <1>4 DEF Follows
    <2>3. ToSet(Stream(c)') \cap missed'[c] = {}
      BY <2>1, <2>2, <1>1, <1>4 DEF InOrder, Met
    <2>4. ASSUME NEW x \in Ids, NEW y \in Ids, Before(Stream(c)', x, y) PROVE Follows(x, y, b)'
      <3>1. CASE Before(Stream(c), x, y)
        BY <3>1, <1>1, <1>2 DEF InOrder
      <3>2. CASE x \in ToSet(Stream(c)) /\ y = n
        BY <3>2, <1>2, <1>4 DEF Met
      <3> QED BY <3>1, <3>2, <2>1, <2>4
    <2> QED BY <2>3, <2>4, <1>1 DEF InOrder
  <1>5. CASE c = d /\ Stream(c)' = Stream(c) /\ missed'[c] = missed[c] \cup {n}
    <2>1. n \notin ToSet(Stream(c))
      BY <1>5 DEF Follows, Met
    <2> QED BY <2>1, <1>1, <1>2, <1>5 DEF InOrder
  <1> QED BY <1>1, <1>3, <1>4, <1>5, Pushed

LEMMA StreamsNext ==
  ASSUME TypeOK, Handing, Rooms, Queues, Behind, Streams, [Next]_vars
  PROVE  Streams'
  <1>1. SUFFICES ASSUME NEW b \in Buckets, NEW c \in ToSet(Members[b]) PROVE InOrder(c, b)'
    BY DEF Streams
  <1>2. c \in Channels /\ InOrder(c, b) /\ (\A m \in Met(c) : m \in Ids /\ Passed(m, c, b))
    BY Home, StreamType DEF Streams, Behind
  <1>3. ASSUME NEW k \in Callers, PushSingle(k) PROVE InOrder(c, b)'
    <2>1. /\ found[k] \in Channels /\ hand[k] \in Ids /\ Push(found[k], hand[k]) /\ found[k] # Nil
          /\ UNCHANGED <<log, via>>
      BY <1>3, Busy DEF PushSingle
    <2>2. ASSUME NEW m \in Met(c) PROVE Follows(m, hand[k], b)
      <3>1. m \in Ids /\ Past(m, b)
        BY <1>2 DEF Passed
      <3> QED BY <3>1, <2>1, Fresh
    <2>3. \A d \in Channels, n \in Ids :
            Push(d, n) /\ (c = d => \A m \in Met(d) : Follows(m, n, b)) => InOrder(c, b)'
      BY <2>1, Received
    <2> QED BY <2>1, <2>2, <2>3
  <1>4. ASSUME NEW w \in Routines, PushNext(w) PROVE InOrder(c, b)'
    <2>1. pushing[w] # 0 /\ Push(Head(ahead[w]), pushing[w]) /\ UNCHANGED <<log, via>>
      BY <1>4 DEF PushNext
    <2>2. /\ Head(ahead[w]) \in Channels /\ pushing[w] \in Ids /\ Head(ahead[w]) \in ToSet(Members[w[1]])
          /\ Head(ahead[w]) \in ToSet(ahead[w])
      BY <2>1, Heading
    <2>3. ASSUME c = Head(ahead[w]), NEW m \in Met(c) PROVE Follows(m, pushing[w], b)
      <3>1. b = w[1]
        BY <2>2, <2>3, Home, RoutineParts
      <3> QED BY <3>1, <2>2, <2>3, <1>2 DEF Passed
    <2>4. \A d \in Channels, n \in Ids :
            Push(d, n) /\ (c = d => \A m \in Met(d) : Follows(m, n, b)) => InOrder(c, b)'
      BY <2>1, Received
    <2> QED BY <2>1, <2>2, <2>3, <2>4
  <1>5. ASSUME Quiet(c) PROVE InOrder(c, b)'
    <2>1. ASSUME NEW x \in Ids', NEW y \in Ids', Before(Stream(c)', x, y) PROVE Follows(x, y, b)'
      <3>1. Before(Stream(c), x, y)
        BY <2>1, <1>5 DEF Quiet
      <3>2. x \in ToSet(Stream(c)) /\ y \in ToSet(Stream(c))
        BY <3>1 DEF Before, ToSet
      <3>3. x \in Ids /\ y \in Ids /\ Past(x, b) /\ Past(y, b)
        BY <3>2, <1>2 DEF Met, Passed
      <3> QED BY <3>1, <3>3, <1>2, StillFollows DEF InOrder
    <2>2. ToSet(Stream(c)') \cap missed'[c] = {}
      BY <1>2, <1>5 DEF Quiet, InOrder
    <2> QED BY <2>1, <2>2 DEF InOrder
  <1> QED BY <1>2, <1>3, <1>4, <1>5, Quietly
-------------------------------------------------------------------------------
(* Nothing is lost on the way. *)

\* Of a message that comes by a handler, the handler is before, or at, the bucket.
LEMMA HandlerComing ==
  ASSUME TypeOK, Handing, [Next]_vars, NEW n \in Ids, log[n].to = Room,
         NEW b \in Buckets, NEW c, NEW k \in Callers, hand[k] = n, found[k] # Nil \/ at[k] <= b
  PROVE  Coming(n, b, c)'
  <1>1. n # 0 /\ found[k] = Nil /\ at[k] # 0 /\ at[k] \in Buckets /\ at[k] <= b
    <2>1. n # 0 /\ found[k] = Nil
      <3>1. n # 0
        BY DEF Ids
      <3>2. found[k] # Nil => found[k] \in Channels /\ log[n].to = found[k]
        BY <3>1, Busy DEF Handing
      <3> QED BY <3>1, <3>2, BroadcastAssumption
    <2>2. at[k] # 0
      BY <2>1 DEF Handing
    <2> QED BY <2>1, <2>2, Busy
  <1>2. CASE hand'[k] = n /\ at'[k] = at[k] /\ found'[k] = found[k]
    BY <1>1, <1>2 DEF Coming
  <1>3. hand \in [Callers -> 0 .. Len(log)] /\ at \in [Callers -> {0} \cup Buckets] /\ found \in [Callers -> Channels \cup {Nil}]
    BY DEF TypeOK
  <1>4. ASSUME NEW j \in Callers, NEW to \in Channels \cup {Room}, Call(j, to)
        PROVE  hand'[k] = n /\ at'[k] = at[k] /\ found'[k] = found[k]
    <2>1. hand[j] = 0 /\ j # k
      BY <1>1, <1>4 DEF Call
    <2> QED BY <2>1, <1>3, <1>4 DEF Call
  <1>5. ASSUME NEW j \in Callers, PushSingle(j)
        PROVE  hand'[k] = n /\ at'[k] = at[k] /\ found'[k] = found[k]
    <2>1. j # k
      BY <1>1, <1>5 DEF PushSingle
    <2> QED BY <2>1, <1>3, <1>5 DEF PushSingle
  <1>6. ASSUME NEW j \in Callers, Choose(j)
        PROVE  hand'[k] = n /\ at'[k] = at[k] /\ found'[k] = found[k]
    BY <1>6 DEF Choose
  <1>7. ASSUME NEW j \in Callers, Send(j), j # k
        PROVE  hand'[k] = n /\ at'[k] = at[k] /\ found'[k] = found[k]
    BY <1>3, <1>7 DEF Send
  <1>8. ASSUME Send(k) PROVE Coming(n, b, c)'
    <2>1. slot[k] \in 0 .. bucketOptions.RoutineAmount - 1
      BY <1>8, Busy DEF Send
    <2>2. CASE at[k] = b
      <3>1. PICK i \in 0 .. bucketOptions.RoutineAmount - 1 : i = slot[k]
        BY <2>1
      <3>2. <<b, i>> \in Routines /\ <<b, i>>[1] = b
        BY RoutineIndex
      <3>3. UNCHANGED <<bucketOptions, log>> /\ routines' = [routines EXCEPT ![<<b, i>>] = Append(@, n)]
        BY <3>1, <2>2, <1>8 DEF Send, Queue
      <3>4. ToSet(Append(routines[<<b, i>>], n)) = ToSet(routines[<<b, i>>]) \cup {n}
        BY <3>2, Appended DEF TypeOK
      <3>5. n \in ToSet(routines'[<<b, i>>])
        BY <3>2, <3>3, <3>4 DEF TypeOK
      <3>6. <<b, i>> \in Routines'
        BY <3>2, <3>3, SameLog
      <3> QED BY <3>2, <3>5, <3>6 DEF Coming
    <2>3. CASE at[k] # b
      <3>1. at[k] + 1 <= b /\ at[k] + 1 \in Buckets
        <4>1. at[k] \in Nat /\ b \in Nat /\ 1 <= at[k] /\ b <= Len(Members) /\ Len(Members) \in Nat
          BY <1>1, Constants DEF Buckets
        <4>2. at[k] + 1 <= b
          BY <4>1, <1>1, <2>3
        <4> QED BY <4>1, <4>2 DEF Buckets
      <3>2. hand'[k] = n /\ at'[k] = at[k] + 1 /\ found'[k] = found[k]
        BY <3>1, <1>3, <1>8 DEF Send, Following
      <3> QED BY <3>1, <3>2 DEF Coming
    <2> QED BY <2>2, <2>3
  <1>9. ASSUME UNCHANGED callVars PROVE hand'[k] = n /\ at'[k] = at[k] /\ found'[k] = found[k]
    BY <1>9 DEF callVars
  <1>10. ASSUME NEW w \in Routines, Take(w) \/ PushNext(w) PROVE UNCHANGED callVars
    BY <1>10 DEF Take, PushNext
  <1>11. ASSUME NEW d \in Channels, Write(d) \/ Break(d) \/ Leave(d) PROVE UNCHANGED callVars
    BY <1>11 DEF Write, Break, Leave
  <1>12. ASSUME UNCHANGED vars PROVE UNCHANGED callVars
    BY <1>12 DEF vars
  <1> QED BY <1>2, <1>4, <1>5, <1>6, <1>7, <1>8, <1>9, <1>10, <1>11, <1>12, Steps

\* Of a message a goroutine has for a member that stays, it gets there or is still coming.
LEMMA RoutineComing ==
  ASSUME TypeOK, Handing, Rooms, Queues, [Next]_vars, NEW n \in Ids,
         NEW b \in Buckets, NEW c \in Channels, c \in ToSet(room[b]), c \in ToSet(room'[b]),
         NEW w \in Routines, w[1] = b,
         n \in ToSet(routines[w]) \/ (pushing[w] = n /\ c \in ToSet(ahead[w]))
  PROVE  Coming(n, b, c)' \/ n \in Met(c)'
  <1> DEFINE Goal == Coming(n, b, c)' \/ n \in Met(c)'
  <1>0. /\ routines \in [Routines -> Seq(Ids)] /\ pushing \in [Routines -> {0} \cup Ids]
        /\ ahead \in [Routines -> Seq(Channels)]
    BY DEF TypeOK
  <1>1. Routines' = Routines /\ n # 0
    BY StillSaid DEF Ids
  <1>2. ASSUME n \in ToSet(routines'[w]) \/ (pushing'[w] = n /\ c \in ToSet(ahead'[w])) PROVE Goal
    BY <1>1, <1>2 DEF Coming
  <1>3. ASSUME UNCHANGED <<routines, pushing, ahead>> PROVE Goal
    BY <1>2, <1>3
  <1>4. ASSUME NEW k \in Callers, NEW to \in Channels \cup {Room}, Call(k, to)
        PROVE  UNCHANGED <<routines, pushing, ahead>>
    BY <1>4 DEF Call, routineVars
  <1>5. ASSUME NEW k \in Callers, PushSingle(k) \/ Choose(k) PROVE UNCHANGED <<routines, pushing, ahead>>
    BY <1>5 DEF PushSingle, Choose, routineVars
  <1>6. ASSUME NEW k \in Callers, Send(k) PROVE Goal
    <2>1. /\ at[k] \in Buckets /\ hand[k] \in Ids
          /\ slot[k] \in 0 .. bucketOptions.RoutineAmount - 1
      BY <1>6, Busy DEF Send
    <2>2. routines'[w] = IF w = <<at[k], slot[k]>> THEN Append(routines[w], hand[k]) ELSE routines[w]
      BY <1>6, <2>1, SendQueues
    <2>3. UNCHANGED <<pushing, ahead>>
      BY <1>6 DEF Send
    <2>4. ToSet(Append(routines[w], hand[k])) = ToSet(routines[w]) \cup {hand[k]}
      BY <2>1, <1>0, Appended
    <2> QED BY <2>2, <2>3, <2>4, <1>2
  <1>7. ASSUME NEW v \in Routines, Take(v) PROVE Goal
    <2>1. CASE v # w
      <3>1. UNCHANGED <<routines[w], pushing[w], ahead[w]>>
        BY <2>1, <1>7, TakeQueues
      <3> QED BY <3>1, <1>2
    <2>2. CASE v = w
      <3>1. /\ ToSet(routines[w]) \subseteq ToSet(routines'[w]) \cup {Head(routines[w])}
            /\ pushing[w] = 0 /\ ahead'[w] = room[w[1]]
            /\ pushing'[w] = IF room[w[1]] = <<>> THEN 0 ELSE Head(routines[w])
        BY <2>2, <1>7, TakeQueues
      <3>2. room[b] # <<>>
        BY Constants, Elements
      <3> QED BY <3>1, <3>2, <1>1, <1>2
    <2> QED BY <2>1, <2>2
  <1>8. ASSUME NEW v \in Routines, PushNext(v) PROVE Goal
    <2>1. /\ routines' = routines /\ pushing[v] # 0 /\ Push(Head(ahead[v]), pushing[v])
          /\ ahead' = [ahead EXCEPT ![v] = Tail(@)]
          /\ pushing' = [pushing EXCEPT ![v] = IF ahead'[v] = <<>> THEN 0 ELSE @]
      BY <1>8 DEF PushNext
    <2>2. CASE n \in ToSet(routines[w])
      BY <2>1, <2>2, <1>2
    <2>3. CASE v # w
      <3>1. ahead'[w] = ahead[w] /\ pushing'[w] = pushing[w]
        BY <2>1, <2>3, <1>0
      <3> QED BY <3>1, <2>1, <1>2
    <2>4. CASE v = w /\ pushing[w] = n /\ c \in ToSet(ahead[w])
      <3>1. /\ ahead[w] # <<>> /\ ahead[w] \in Seq(Channels) /\ Head(ahead[w]) \in Channels
        BY <2>1, <2>4, Heading
      <3>2. ToSet(ahead[w]) \subseteq ToSet(Tail(ahead[w])) \cup {Head(ahead[w])} /\ Tail(ahead[w]) \in Seq(Channels)
        BY <3>1, Tailed, HeadTailProperties
      <3>3. CASE c = Head(ahead[w])
        <4>1. Push(c, n)
          BY <3>3, <2>1, <2>4
        <4>2. Met(c)' = Met(c) \cup {n}
          BY <4>1, PushMeets
        <4> QED BY <4>2
      <3>4. CASE c # Head(ahead[w])
        <4>1. ahead'[w] = Tail(ahead[w]) /\ pushing'[w] = IF ahead'[w] = <<>> THEN 0 ELSE pushing[w]
          BY <2>1, <2>4, <1>0
        <4>2. c \in ToSet(Tail(ahead[w]))
          BY <3>2, <3>4, <2>4
        <4>3. Tail(ahead[w]) # <<>>
          BY <4>2, <3>2, Elements
        <4> QED BY <4>1, <4>2, <4>3, <2>4, <1>2
      <3> QED BY <3>3, <3>4
    <2> QED BY <2>2, <2>3, <2>4
  <1>9. ASSUME NEW d \in Channels, Write(d) \/ Break(d) PROVE UNCHANGED <<routines, pushing, ahead>>
    BY <1>9 DEF Write, Break, routineVars
  <1>10. ASSUME NEW d \in Channels, Leave(d) PROVE Goal
    <2>1. /\ routines' = routines /\ ToSet(ahead[w]) \subseteq ToSet(ahead'[w]) \cup {d}
          /\ pushing'[w] = IF ahead'[w] = <<>> THEN 0 ELSE pushing[w]
          /\ ToSet(room'[b]) = ToSet(room[b]) \ {d} /\ ahead'[w] \in Seq(Channels)
      BY <1>10, Leaving
    <2>2. c # d
      BY <2>1
    <2>3. c \in ToSet(ahead[w]) => c \in ToSet(ahead'[w]) /\ ahead'[w] # <<>>
      BY <2>1, <2>2, Elements
    <2> QED BY <2>1, <2>3, <1>2
  <1>11. ASSUME UNCHANGED vars PROVE UNCHANGED <<routines, pushing, ahead>>
    BY <1>11 DEF vars, routineVars
  <1> HIDE DEF Goal
  <1>12. Goal
    BY <1>3, <1>4, <1>5, <1>6, <1>7, <1>8, <1>9, <1>10, <1>11, Steps
  <1> QED BY <1>12 DEF Goal

LEMMA RoomStays ==
  ASSUME TypeOK, Rooms, [Next]_vars, NEW b \in Buckets
  PROVE  ToSet(room'[b]) \subseteq ToSet(room[b])
  <1>1. ASSUME NEW k \in Callers, NEW to \in Channels \cup {Room}, Call(k, to) PROVE room' = room
    BY <1>1 DEF Call
  <1>2. ASSUME NEW k \in Callers, PushSingle(k) \/ Choose(k) \/ Send(k) PROVE room' = room
    BY <1>2 DEF PushSingle, Choose, Send
  <1>3. ASSUME NEW w \in Routines, Take(w) \/ PushNext(w) PROVE room' = room
    BY <1>3 DEF Take, PushNext
  <1>4. ASSUME NEW d \in Channels, Write(d) \/ Break(d) PROVE room' = room
    BY <1>4 DEF Write, Break
  <1>5. ASSUME NEW d \in Channels, Leave(d) PROVE ToSet(room'[b]) \subseteq ToSet(room[b])
    BY <1>5, Leaving
  <1>6. ASSUME UNCHANGED vars PROVE room' = room
    BY <1>6 DEF vars
  <1> QED BY <1>1, <1>2, <1>3, <1>4, <1>5, <1>6, Steps

\* What has met a connection that reads stays met.
LEMMA MetStays ==
  ASSUME TypeOK, Handing, Rooms, [Next]_vars, NEW c \in Channels, pump'[c] = "run"
  PROVE  pump[c] = "run" /\ Met(c) \subseteq Met(c)'
  <1>1. ASSUME Quiet(c) PROVE pump[c] = "run" /\ Met(c) \subseteq Met(c)'
    BY <1>1 DEF Quiet, Met
  <1>2. ASSUME NEW d \in Channels, NEW n \in Ids, Push(d, n) PROVE pump[c] = "run" /\ Met(c) \subseteq Met(c)'
    <2>1. Met(c)' = IF c = d THEN Met(c) \cup {n} ELSE Met(c)
      BY <1>2, PushMeets
    <2>2. pump' = pump
      BY <1>2 DEF Push
    <2> QED BY <2>1, <2>2
  <1>3. ASSUME NEW k \in Callers, PushSingle(k) PROVE found[k] \in Channels /\ hand[k] \in Ids /\ Push(found[k], hand[k])
    BY <1>3, Busy DEF PushSingle
  <1>4. ASSUME NEW w \in Routines, PushNext(w)
        PROVE  Head(ahead[w]) \in Channels /\ pushing[w] \in Ids /\ Push(Head(ahead[w]), pushing[w])
    BY <1>4, Heading DEF PushNext
  <1> QED BY <1>1, <1>2, <1>3, <1>4, Quietly

\* A new message to the room comes to every bucket.
LEMMA NewComing ==
  ASSUME TypeOK, Handing, [Next]_vars, NEW n \in Ids', n \notin Ids, log'[n].to = Room,
         NEW b \in Buckets, NEW c
  PROVE  Coming(n, b, c)'
  <1>1. ASSUME NEW k \in Callers, NEW to \in Channels \cup {Room}, Call(k, to) PROVE Coming(n, b, c)'
    <2>1. n = Len(log) + 1 /\ log'[n].to = to
      <3>1. Ids' = Ids \cup {Len(log) + 1} /\ log'[Len(log) + 1] = [by |-> k, to |-> to]
        BY <1>1, CallTypes
      <3>2. n = Len(log) + 1
        BY <3>1
      <3> QED BY <3>1, <3>2
    <2>2. hand' = [hand EXCEPT ![k] = n] /\ at' = [at EXCEPT ![k] = 1]
      BY <1>1, <2>1 DEF Call
    <2>3. hand'[k] = n /\ at'[k] = 1
      BY <2>2 DEF TypeOK
    <2>4. 1 <= b
      BY DEF Buckets
    <2> QED BY <2>3, <2>4 DEF Coming
  <1>2. ASSUME UNCHANGED log PROVE FALSE
    BY <1>2 DEF Ids
  <1>3. ASSUME NEW k \in Callers, PushSingle(k) \/ Choose(k) \/ Send(k) PROVE UNCHANGED log
    BY <1>3 DEF PushSingle, Choose, Send
  <1>4. ASSUME NEW w \in Routines, Take(w) \/ PushNext(w) PROVE UNCHANGED log
    BY <1>4 DEF Take, PushNext
  <1>5. ASSUME NEW d \in Channels, Write(d) \/ Break(d) \/ Leave(d) PROVE UNCHANGED log
    BY <1>5 DEF Write, Break, Leave
  <1>6. ASSUME UNCHANGED vars PROVE UNCHANGED log
    BY <1>6 DEF vars
  <1> QED BY <1>1, <1>2, <1>3, <1>4, <1>5, <1>6, Steps

LEMMA CompleteNext ==
  ASSUME TypeOK, Handing, Rooms, Queues, Complete, [Next]_vars
  PROVE  Complete'
  <1>1. SUFFICES ASSUME NEW b \in Buckets, NEW c \in ToSet(room'[b]), NEW n \in Ids',
                        pump'[c] = "run", log'[n].to = Room, ~Coming(n, b, c)'
                 PROVE  n \in Met(c)'
    BY DEF Complete
  <1>2. c \in ToSet(room[b]) /\ c \in Channels
    <2>1. c \in ToSet(room[b])
      BY RoomStays
    <2>2. room[b] \in Seq(Channels)
      BY Constants
    <2> QED BY <2>1, <2>2, Elements
  <1>3. n \in Ids
    BY <1>1, NewComing
  <1>4. log[n].to = Room
    BY <1>1, <1>3, StillSaid
  <1>5. pump[c] = "run" /\ Met(c) \subseteq Met(c)'
    BY <1>1, <1>2, MetStays
  <1>6. CASE ~Coming(n, b, c)
    BY <1>2, <1>3, <1>4, <1>5, <1>6 DEF Complete
  <1>7. CASE \E k \in Callers : hand[k] = n /\ (found[k] # Nil \/ at[k] <= b)
    BY <1>1, <1>3, <1>4, <1>7, HandlerComing
  <1>8. CASE \E w \in Routines : w[1] = b /\ (n \in ToSet(routines[w]) \/ (pushing[w] = n /\ c \in ToSet(ahead[w])))
    BY <1>1, <1>2, <1>3, <1>8, RoutineComing
  <1> QED BY <1>6, <1>7, <1>8 DEF Coming
-------------------------------------------------------------------------------
(* The theorems. *)

LEMMA InitInv == Init => IInv
  <1> SUFFICES ASSUME Init PROVE IInv
    OBVIOUS
  <1>1. TypeOK
    BY TypeInit
  <1>2. Ids = {} /\ Len(<<>>) = 0 /\ ToSet(<<>>) = {}
    BY DEF Init, Ids, ToSet
  <1>3. Handing
    BY DEF Init, Handing
  <1>4. \A w \in Routines : routines[w] = <<>> /\ pushing[w] = 0 /\ ahead[w] = <<>>
    BY DEF Init
  <1>5. IsInjective(<<>>) /\ \A m, n : ~Before(<<>>, m, n)
    BY DEF IsInjective, Before
  <1>6. Rooms
    <2>1. \A b \in Buckets : room[b] = Members[b] /\ IsInjective(Members[b])
      BY BroadcastAssumption DEF Init
    <2> QED BY <2>1, <1>2, <1>4, <1>5 DEF Rooms
  <1>7. Queues
    BY <1>2, <1>4, <1>5 DEF Queues, InQueue
  <1>8. \A c \in Channels : Stream(c) = <<>> /\ missed[c] = {}
    <2>1. \A c \in Channels : written[c] = <<>> /\ broadcast[c] = <<>> /\ missed[c] = {}
      BY DEF Init
    <2>2. <<>> \o <<>> = <<>>
      BY ConcatEmptySeq, EmptySeq
    <2> QED BY <2>1, <2>2 DEF Stream
  <1>9. \A b \in Buckets : \A c \in ToSet(Members[b]) : c \in Channels
    BY <1>1, Home
  <1>10. Behind
    BY <1>2, <1>8, <1>9 DEF Behind, Met
  <1>11. Streams
    BY <1>2, <1>8, <1>9 DEF Streams, InOrder
  <1>12. Complete
    BY <1>2 DEF Complete
  <1> QED BY <1>1, <1>3, <1>6, <1>7, <1>10, <1>11, <1>12 DEF IInv

LEMMA NextInv == IInv /\ [Next]_vars => IInv'
  BY TypeNext, HandingNext, RoomsNext, QueuesNext, BehindNext, StreamsNext, CompleteNext DEF IInv

LEMMA Invariance == Spec => []IInv
  BY InitInv, NextInv, PTL DEF Spec

\* Every queue and buffer of a connect server keeps its type and its bound: RoutineSize
\* requests for a goroutine, BroadcastSize messages for a Channel.
THEOREM BroadcastTypes == Spec => []TypeOK
  <1>1. IInv => TypeOK
    BY DEF IInv
  <1> QED BY <1>1, Invariance, PTL

\* A room message gets to every connection that stays in the room, or is dropped at its
\* full buffer, and no connection gets a message twice (PushRoomMsg to Channel.Push).
THEOREM RoomMessagesOnce == Spec => []ExactlyOnce
  <1>1. IInv => ExactlyOnce
    <2> SUFFICES ASSUME IInv PROVE ExactlyOnce
      OBVIOUS
    <2>1. ASSUME NEW c \in Channels PROVE IsInjective(Stream(c)) /\ ToSet(Stream(c)) \cap missed[c] = {}
      <3>1. PICK b \in Buckets : c \in ToSet(Members[b])
        BY Home DEF IInv
      <3>2. InOrder(c, b) /\ Stream(c) \in Seq(Ids)
        BY <3>1, StreamType DEF IInv, Streams
      <3>3. ASSUME NEW i \in DOMAIN Stream(c), NEW j \in DOMAIN Stream(c), Stream(c)[i] = Stream(c)[j], i < j
            PROVE  FALSE
        <4>1. Stream(c)[i] \in Ids
          BY <3>2, Elements
        <4>2. Before(Stream(c), Stream(c)[i], Stream(c)[i])
          BY <3>3 DEF Before
        <4>3. Follows(Stream(c)[i], Stream(c)[i], b)
          BY <4>1, <4>2, <3>2 DEF InOrder
        <4> QED BY <4>3 DEF Follows
      <3>4. \A i, j \in DOMAIN Stream(c) : i # j => i < j \/ j < i
        <4>1. DOMAIN Stream(c) = 1 .. Len(Stream(c)) /\ Len(Stream(c)) \in Nat
          BY <3>2, Elements
        <4> QED BY <4>1
      <3>5. IsInjective(Stream(c))
        BY <3>3, <3>4 DEF IsInjective
      <3> QED BY <3>2, <3>5 DEF InOrder
    <2> QED BY <2>1 DEF ExactlyOnce, IInv, Complete, Met
  <1> QED BY <1>1, Invariance, PTL

\* Messages of one caller that went to one goroutine of a bucket get to a connection in
\* the order of their calls (BroadcastRoom, Bucket.PushRoom).
THEOREM RoutinesKeepOrder == Spec => []SameRoutineOrder
  <1>1. IInv => SameRoutineOrder
    <2> SUFFICES ASSUME IInv, NEW b \in Buckets, NEW c \in ToSet(Members[b]),
                        NEW i \in DOMAIN Stream(c), NEW j \in DOMAIN Stream(c), i < j,
                        log[Stream(c)[i]] = log[Stream(c)[j]], log[Stream(c)[i]].to = Room,
                        via[Stream(c)[i]][b] = via[Stream(c)[j]][b]
                 PROVE  Stream(c)[i] < Stream(c)[j]
      BY DEF SameRoutineOrder
    <2>1. InOrder(c, b) /\ Stream(c) \in Seq(Ids)
      BY Home, StreamType DEF IInv, Streams
    <2>2. Stream(c)[i] \in Ids /\ Stream(c)[j] \in Ids
      BY <2>1, Elements
    <2>3. Before(Stream(c), Stream(c)[i], Stream(c)[j])
      BY DEF Before
    <2>4. Follows(Stream(c)[i], Stream(c)[j], b)
      BY <2>1, <2>2, <2>3 DEF InOrder
    <2> QED BY <2>4 DEF Follows
  <1> QED BY <1>1, Invariance, PTL
===============================================================================
