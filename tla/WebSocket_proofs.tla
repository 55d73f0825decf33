--------------------------- MODULE WebSocket_proofs ---------------------------
(***************************************************************************)
(* Theorems about WebSocket, for any number of sockets, messages and       *)
(* fragments and with or without EarlyClose: the events of a socket come   *)
(* in their order, nothing is left of a socket that was deleted, and its   *)
(* messages go over its connection in the order they were sent.            *)
(***************************************************************************)
EXTENDS WebSocket, SequenceTheorems, NaturalsInduction, WellFoundedInduction, TLAPS

LEMMA NoneIsNone == None \notin Sockets
BY DEF None, Sockets

------------------------------------------------------------------------------
(* Sequences.                                                              *)

LEMMA SeqFacts ==
  ASSUME NEW S, NEW s \in Seq(S)
  PROVE  /\ Len(s) \in Nat /\ DOMAIN s = 1..Len(s)
         /\ \A i \in 1..Len(s) : s[i] \in S
         /\ Range(s) \subseteq S
         /\ \A x : x \in Range(s) <=> \E i \in 1..Len(s) : s[i] = x
BY LenProperties DEF Range

LEMMA Appended ==
  ASSUME NEW S, NEW s \in Seq(S), NEW x \in S
  PROVE  /\ Append(s, x) \in Seq(S) /\ Len(Append(s, x)) = Len(s) + 1
         /\ \A i \in 1..Len(s) : Append(s, x)[i] = s[i]
         /\ Append(s, x)[Len(s) + 1] = x
         /\ Range(Append(s, x)) = Range(s) \cup {x}
<1> DEFINE n == Len(s)
           t == Append(s, x)
<1>1. /\ n \in Nat /\ t \in Seq(S) /\ Len(t) = n + 1
      /\ \A i \in 1..n : t[i] = s[i]
      /\ t[n + 1] = x
  BY AppendProperties, LenProperties
<1>2. /\ \A y : y \in Range(s) <=> \E i \in 1..n : s[i] = y
      /\ \A y : y \in Range(t) <=> \E i \in 1..(n + 1) : t[i] = y
  <2>1. \A y : y \in Range(s) <=> \E i \in 1..n : s[i] = y
    BY SeqFacts
  <2> HIDE DEF n, t
  <2>2. \A y : y \in Range(t) <=> \E i \in 1..Len(t) : t[i] = y
    BY <1>1, SeqFacts
  <2>3. QED
    BY <1>1, <2>1, <2>2
<1> HIDE DEF n, t
<1>3. \A i : i \in 1..(n + 1) <=> i \in 1..n \/ i = n + 1
  BY <1>1
<1>4. Range(t) = Range(s) \cup {x}
  BY <1>1, <1>2, <1>3
<1>5. QED
  BY <1>1, <1>4 DEF n, t

LEMMA Taken ==
  ASSUME NEW S, NEW s \in Seq(S), s # <<>>
  PROVE  /\ Len(s) >= 1 /\ Head(s) = s[1] /\ Head(s) \in S
         /\ Tail(s) \in Seq(S) /\ Len(Tail(s)) = Len(s) - 1
         /\ \A i \in 1..(Len(s) - 1) : Tail(s)[i] = s[i + 1]
         /\ Range(s) = Range(Tail(s)) \cup {Head(s)}
<1> DEFINE n == Len(s)
           t == Tail(s)
<1>1. n \in Nat \ {0} /\ Head(s) = s[1]
  BY EmptySeq
<1>2. /\ t \in Seq(S) /\ Head(s) \in S /\ Len(t) = n - 1
      /\ \A i \in 1..(n - 1) : t[i] = s[i + 1]
  BY HeadTailProperties
<1>3. /\ \A y : y \in Range(s) <=> \E i \in 1..n : s[i] = y
      /\ \A y : y \in Range(t) <=> \E i \in 1..(n - 1) : t[i] = y
  BY <1>2, SeqFacts
<1> HIDE DEF n, t
<1>4. /\ \A i \in 1..n : i = 1 \/ (i - 1 \in 1..(n - 1) /\ (i - 1) + 1 = i)
      /\ \A i \in 1..(n - 1) : i + 1 \in 1..n
      /\ 1 \in 1..n
  BY <1>1
<1>5. Range(s) = Range(t) \cup {Head(s)}
  <2>1. ASSUME NEW y \in Range(s) PROVE y \in Range(t) \/ y = s[1]
    <3>1. PICK i \in 1..n : s[i] = y
      BY <1>3
    <3>2. CASE i # 1
      <4>1. i - 1 \in 1..(n - 1) /\ t[i - 1] = s[i]
        BY <1>2, <1>4, <3>2
      <4>2. QED
        BY <1>3, <3>1, <4>1
    <3>3. QED
      BY <3>1, <3>2
  <2>2. ASSUME NEW y \in Range(t) PROVE y \in Range(s)
    BY <1>2, <1>3, <1>4
  <2>3. s[1] \in Range(s)
    BY <1>3, <1>4
  <2>4. QED
    BY <1>1, <2>1, <2>2, <2>3
<1>6. QED
  BY <1>1, <1>2, <1>5 DEF n, t

LEMMA Nothing == \A S : <<>> \in Seq(S) /\ Len(<<>>) = 0 /\ DOMAIN <<>> = {} /\ Range(<<>>) = {}
<1>1. \A S : <<>> \in Seq(S) /\ Len(<<>>) = 0
  BY EmptySeq
<1>2. DOMAIN <<>> = {}
  OBVIOUS
<1>3. QED
  BY <1>1, <1>2 DEF Range

LEMMA Removed ==
  ASSUME NEW S, NEW s \in Seq(S), NEW i \in 1..Len(s)
  PROVE  /\ RemoveAt(s, i) \in Seq(S) /\ Len(RemoveAt(s, i)) = Len(s) - 1
         /\ \A j \in 1..(Len(s) - 1) :
              RemoveAt(s, i)[j] = IF j < i THEN s[j] ELSE s[j + 1]
<1> DEFINE a == SubSeq(s, 1, i - 1)
           b == SubSeq(s, i + 1, Len(s))
<1>1. i \in 1..Len(s) /\ Len(s) \in Nat /\ \A j \in 1..Len(s) : s[j] \in S
  BY LenProperties
<1>2. /\ a \in Seq(S) /\ Len(a) = i - 1
      /\ \A j \in 1..(i - 1) : a[j] = s[j]
  BY <1>1, SubSeqProperties
<1>3. /\ b \in Seq(S) /\ Len(b) = Len(s) - i
      /\ \A j \in 1..(Len(s) - i) : b[j] = s[i + j]
  BY <1>1, SubSeqProperties
<1> HIDE DEF a, b
<1>4. /\ a \o b \in Seq(S) /\ Len(a \o b) = Len(s) - 1
      /\ \A j \in 1..(Len(s) - 1) :
           (a \o b)[j] = IF j <= i - 1 THEN a[j] ELSE b[j - (i - 1)]
  <2>1. /\ a \o b \in Seq(S) /\ Len(a \o b) = Len(a) + Len(b)
        /\ \A j \in 1..(Len(a) + Len(b)) :
             (a \o b)[j] = IF j <= Len(a) THEN a[j] ELSE b[j - Len(a)]
    BY <1>2, <1>3, ConcatProperties
  <2>2. Len(a) + Len(b) = Len(s) - 1
    BY <1>1, <1>2, <1>3
  <2>3. QED
    BY <1>2, <2>1, <2>2
<1>5. ASSUME NEW j \in 1..(Len(s) - 1)
      PROVE  (a \o b)[j] = IF j < i THEN s[j] ELSE s[j + 1]
  <2>1. CASE j < i
    BY <1>1, <1>2, <1>4, <2>1
  <2>2. CASE ~(j < i)
    <3>1. /\ j - (i - 1) \in 1..(Len(s) - i)
          /\ i + (j - (i - 1)) = j + 1 /\ ~(j <= i - 1)
      BY <1>1, <2>2
    <3>2. (a \o b)[j] = b[j - (i - 1)]
      BY <1>4, <3>1
    <3>3. QED
      BY <1>3, <2>2, <3>1, <3>2
  <2>3. QED
    BY <2>1, <2>2
<1>6. RemoveAt(s, i) = a \o b
  BY DEF RemoveAt, a, b
<1>7. QED
  BY <1>4, <1>5, <1>6

------------------------------------------------------------------------------
(* The methods of the delegate, called and posted.                         *)

Posts == Methods \X Sockets

Called(e, f, s) == {m \in Methods : m \in Range(e) \/ <<m, s>> \in Range(f)}

(* What EventsInOrder says of the socket s, whose methods called are e,    *)
(* with the functions f.                                                   *)
Ordered(e, f, s) ==
  /\ \A i, j \in DOMAIN e : i < j => MayFollow(e[i], e[j])
  /\ \A i, j \in DOMAIN f : i < j /\ f[i][2] = s /\ f[j][2] = s => MayFollow(f[i][1], f[j][1])
  /\ \A i \in DOMAIN e, j \in DOMAIN f : f[j][2] = s => MayFollow(e[i], f[j][1])

LEMMA EventsOrdered == EventsInOrder <=> \A s \in Sockets : Ordered(events[s], functions, s)
BY DEF EventsInOrder, Ordered

LEMMA PostFacts ==
  ASSUME NEW p \in Posts
  PROVE  /\ p[1] \in Methods /\ p[2] \in Sockets /\ p = <<p[1], p[2]>>
         /\ \A m, s : p = <<m, s>> <=> p[1] = m /\ p[2] = s
BY DEF Posts

LEMMA PostOrdered ==
  ASSUME NEW e \in Seq(Methods), NEW f \in Seq(Posts), NEW s \in Sockets, NEW t \in Sockets,
         NEW m \in Methods, Ordered(e, f, t), t = s => \A c \in Called(e, f, s) : MayFollow(c, m)
  PROVE  /\ Ordered(e, Append(f, <<m, s>>), t)
         /\ Called(e, Append(f, <<m, s>>), t) = Called(e, f, t) \cup (IF t = s THEN {m} ELSE {})
<1> DEFINE p == <<m, s>>
           g == Append(f, p)
<1>1. p \in Posts /\ p[1] = m /\ p[2] = s
  BY DEF Posts
<1>2. PICK n \in Nat : n = Len(f)
  BY LenProperties
<1> HIDE DEF p
<1>3. /\ g \in Seq(Posts) /\ DOMAIN g = 1..(n + 1) /\ DOMAIN f = 1..n
      /\ \A i \in 1..n : g[i] = f[i]
      /\ g[n + 1] = p
      /\ Range(g) = Range(f) \cup {p}
  BY <1>1, <1>2, Appended, LenProperties
<1>4. \A i \in 1..n : f[i] \in Posts /\ f[i] \in Range(f)
  BY <1>2, SeqFacts
<1>5. \A i \in DOMAIN e : e[i] \in Methods /\ e[i] \in Range(e)
  BY SeqFacts
<1> HIDE DEF g
<1>6. \A i \in 1..(n + 1) : i \in 1..n \/ i = n + 1
  OBVIOUS
<1>7. \A i \in DOMAIN e : t = s => MayFollow(e[i], m)
  BY <1>5 DEF Called
<1>8. \A i \in 1..n : t = s /\ f[i][2] = s => MayFollow(f[i][1], m)
  <2>1. ASSUME NEW i \in 1..n, t = s, f[i][2] = s PROVE MayFollow(f[i][1], m)
    <3>1. f[i][1] \in Methods /\ f[i] = <<f[i][1], s>> /\ f[i] \in Range(f)
      BY <1>4, <2>1, PostFacts
    <3>2. f[i][1] \in Called(e, f, s)
      BY <3>1 DEF Called
    <3>3. QED
      BY <2>1, <3>2
  <2>2. QED
    BY <2>1
<1>9. \A i, j \in DOMAIN g : i < j /\ g[i][2] = t /\ g[j][2] = t => MayFollow(g[i][1], g[j][1])
  <2>1. ASSUME NEW i \in 1..(n + 1), NEW j \in 1..(n + 1), i < j, g[i][2] = t, g[j][2] = t
        PROVE  MayFollow(g[i][1], g[j][1])
    <3>1. i \in 1..n /\ g[i] = f[i]
      BY <1>3, <1>6, <2>1
    <3>2. CASE j \in 1..n
      BY <1>3, <2>1, <3>1, <3>2 DEF Ordered
    <3>3. CASE j = n + 1
      BY <1>1, <1>3, <1>8, <2>1, <3>1, <3>3
    <3>4. QED
      BY <1>6, <3>2, <3>3
  <2>2. QED
    BY <1>3, <2>1
<1>10. \A i \in DOMAIN e, j \in DOMAIN g : g[j][2] = t => MayFollow(e[i], g[j][1])
  BY <1>1, <1>3, <1>6, <1>7 DEF Ordered
<1>11. Ordered(e, g, t)
  BY <1>9, <1>10 DEF Ordered
<1>12. Called(e, g, t) = Called(e, f, t) \cup (IF t = s THEN {m} ELSE {})
  <2>1. \A c : <<c, t>> = p <=> c = m /\ t = s
    BY DEF p
  <2>2. QED
    BY <1>3, <2>1 DEF Called
<1>13. QED
  BY <1>11, <1>12 DEF g, p

(* The first function goes.                                                *)
LEMMA TailOrdered ==
  ASSUME NEW e \in Seq(Methods), NEW f \in Seq(Posts), f # <<>>, NEW t \in Sockets, Ordered(e, f, t)
  PROVE  Ordered(e, Tail(f), t) /\ Called(e, Tail(f), t) \subseteq Called(e, f, t)
<1>1. PICK n \in Nat : n = Len(f) /\ n >= 1
  BY Taken, LenProperties
<1> DEFINE g == Tail(f)
<1>2. /\ DOMAIN g = 1..(n - 1) /\ DOMAIN f = 1..n
      /\ \A i \in 1..(n - 1) : g[i] = f[i + 1]
      /\ Range(g) \subseteq Range(f)
  BY <1>1, Taken, LenProperties
<1> HIDE DEF g
<1>3. /\ \A i \in 1..(n - 1) : i + 1 \in 1..n
      /\ \A i, j \in 1..(n - 1) : i < j => i + 1 < j + 1
  OBVIOUS
<1>4. \A i, j \in DOMAIN g : i < j /\ g[i][2] = t /\ g[j][2] = t => MayFollow(g[i][1], g[j][1])
  <2>1. ASSUME NEW i \in 1..(n - 1), NEW j \in 1..(n - 1), i < j, g[i][2] = t, g[j][2] = t
        PROVE  MayFollow(g[i][1], g[j][1])
    <3>1. /\ i + 1 \in DOMAIN f /\ j + 1 \in DOMAIN f /\ i + 1 < j + 1
          /\ g[i] = f[i + 1] /\ g[j] = f[j + 1]
      BY <1>2, <1>3, <2>1
    <3>2. QED
      BY <2>1, <3>1 DEF Ordered
  <2>2. QED
    BY <1>2, <2>1
<1>5. \A i \in DOMAIN e, j \in DOMAIN g : g[j][2] = t => MayFollow(e[i], g[j][1])
  BY <1>2, <1>3 DEF Ordered
<1>6. Called(e, g, t) \subseteq Called(e, f, t)
  BY <1>2 DEF Called
<1>7. QED
  BY <1>4, <1>5, <1>6 DEF Ordered, g

(* The first function calls its method.                                    *)
LEMMA RunOrdered ==
  ASSUME NEW e \in Seq(Methods), NEW f \in Seq(Posts), f # <<>>, NEW t \in Sockets, Ordered(e, f, t),
         Head(f)[2] = t
  PROVE  /\ Append(e, Head(f)[1]) \in Seq(Methods)
         /\ Ordered(Append(e, Head(f)[1]), Tail(f), t)
         /\ Called(Append(e, Head(f)[1]), Tail(f), t) = Called(e, f, t)
         /\ Range(Append(e, Head(f)[1])) = Range(e) \cup {Head(f)[1]}
<1>1. PICK n \in Nat : n = Len(f) /\ n >= 1
  BY Taken, LenProperties
<1>2. PICK k \in Nat : k = Len(e)
  BY LenProperties
<1>3. PICK m \in Methods : m = Head(f)[1] /\ Head(f) = <<m, t>> /\ Head(f) = f[1]
  BY Taken, PostFacts
<1> DEFINE g == Tail(f)
           d == Append(e, m)
<1>4. /\ DOMAIN g = 1..(n - 1) /\ DOMAIN f = 1..n
      /\ \A i \in 1..(n - 1) : g[i] = f[i + 1]
      /\ Range(f) = Range(g) \cup {<<m, t>>}
  BY <1>1, <1>3, Taken, LenProperties
<1>5. /\ d \in Seq(Methods) /\ DOMAIN d = 1..(k + 1) /\ DOMAIN e = 1..k
      /\ \A i \in 1..k : d[i] = e[i]
      /\ d[k + 1] = m
      /\ Range(d) = Range(e) \cup {m}
  BY <1>2, Appended, LenProperties
<1> HIDE DEF d, g
<1>6. /\ \A i \in 1..(n - 1) : i + 1 \in 1..n /\ 1 < i + 1
      /\ \A i, j \in 1..(n - 1) : i < j => i + 1 < j + 1
      /\ \A i \in 1..(k + 1) : i \in 1..k \/ i = k + 1
      /\ 1 \in 1..n
  BY <1>1
<1>7. f[1][1] = m /\ f[1][2] = t
  BY <1>3
<1>8. \A i, j \in DOMAIN d : i < j => MayFollow(d[i], d[j])
  <2>1. ASSUME NEW i \in 1..(k + 1), NEW j \in 1..(k + 1), i < j PROVE MayFollow(d[i], d[j])
    <3>1. i \in 1..k /\ d[i] = e[i]
      BY <1>5, <1>6, <2>1
    <3>2. CASE j \in 1..k
      BY <1>5, <2>1, <3>1, <3>2 DEF Ordered
    <3>3. CASE j = k + 1
      BY <1>4, <1>5, <1>6, <1>7, <3>1, <3>3 DEF Ordered
    <3>4. QED
      BY <1>6, <3>2, <3>3
  <2>2. QED
    BY <1>5, <2>1
<1>9. \A i, j \in DOMAIN g : i < j /\ g[i][2] = t /\ g[j][2] = t => MayFollow(g[i][1], g[j][1])
  <2>1. ASSUME NEW i \in 1..(n - 1), NEW j \in 1..(n - 1), i < j, g[i][2] = t, g[j][2] = t
        PROVE  MayFollow(g[i][1], g[j][1])
    <3>1. /\ i + 1 \in DOMAIN f /\ j + 1 \in DOMAIN f /\ i + 1 < j + 1
          /\ g[i] = f[i + 1] /\ g[j] = f[j + 1]
      BY <1>4, <1>6, <2>1
    <3>2. QED
      BY <2>1, <3>1 DEF Ordered
  <2>2. QED
    BY <1>4, <2>1
<1>10. \A i \in DOMAIN d, j \in DOMAIN g : g[j][2] = t => MayFollow(d[i], g[j][1])
  <2>1. ASSUME NEW i \in 1..(k + 1), NEW j \in 1..(n - 1), g[j][2] = t PROVE MayFollow(d[i], g[j][1])
    <3>0. j + 1 \in DOMAIN f /\ 1 \in DOMAIN f /\ 1 < j + 1 /\ g[j] = f[j + 1] /\ f[j + 1][2] = t
      BY <1>4, <1>6, <2>1
    <3>1. CASE i \in 1..k
      BY <1>5, <3>0, <3>1 DEF Ordered
    <3>2. CASE i = k + 1
      BY <1>5, <1>7, <3>0, <3>2 DEF Ordered
    <3>3. QED
      BY <1>6, <3>1, <3>2
  <2>2. QED
    BY <1>4, <1>5, <2>1
<1>11. Called(d, g, t) = Called(e, f, t)
  <2>1. \A c : <<c, t>> = <<m, t>> <=> c = m
    OBVIOUS
  <2>2. QED
    BY <1>4, <1>5, <2>1 DEF Called
<1>12. QED
  BY <1>3, <1>5, <1>8, <1>9, <1>10, <1>11 DEF Ordered, d, g

------------------------------------------------------------------------------
(* The helper's queue.                                                     *)

OnceIn(q, x) == \A i, j \in DOMAIN q : q[i] = x /\ q[j] = x => i = j

LEMMA RemovedOnce ==
  ASSUME NEW S, NEW q \in Seq(S), NEW i \in 1..Len(q)
  PROVE  /\ RemoveAt(q, i) \in Seq(S)
         /\ Range(RemoveAt(q, i)) \subseteq Range(q)
         /\ \A x : OnceIn(q, x) => /\ OnceIn(RemoveAt(q, i), x)
                                   /\ q[i] = x => x \notin Range(RemoveAt(q, i))
<1>1. PICK n \in Nat : n = Len(q)
  BY LenProperties
<1> DEFINE r == RemoveAt(q, i)
<1>2. /\ r \in Seq(S) /\ Len(r) = n - 1
      /\ \A j \in 1..(n - 1) : r[j] = IF j < i THEN q[j] ELSE q[j + 1]
  BY <1>1, Removed
<1>3. DOMAIN q = 1..n /\ \A x : x \in Range(q) <=> \E j \in 1..n : q[j] = x
  BY <1>1, SeqFacts
<1> HIDE DEF r
<1>4. DOMAIN r = 1..(n - 1) /\ \A x : x \in Range(r) <=> \E j \in 1..(n - 1) : r[j] = x
  <2>1. DOMAIN r = 1..Len(r) /\ \A x : x \in Range(r) <=> \E j \in 1..Len(r) : r[j] = x
    BY <1>2, SeqFacts
  <2>2. QED
    BY <1>2, <2>1
<1> DEFINE old(j) == IF j < i THEN j ELSE j + 1
<1>5. \A j \in 1..(n - 1) : old(j) \in 1..n /\ old(j) # i /\ r[j] = q[old(j)]
  BY <1>1, <1>2
<1>6. \A j, k \in 1..(n - 1) : old(j) = old(k) => j = k
  OBVIOUS
<1> HIDE DEF old
<1>7. Range(r) \subseteq Range(q)
  BY <1>3, <1>4, <1>5
<1>8. ASSUME NEW x, OnceIn(q, x) PROVE OnceIn(r, x) /\ (q[i] = x => x \notin Range(r))
  <2>1. \A j, k \in 1..n : q[j] = x /\ q[k] = x => j = k
    BY <1>3, <1>8 DEF OnceIn
  <2>2. ASSUME NEW j \in 1..(n - 1), NEW k \in 1..(n - 1), r[j] = x, r[k] = x PROVE j = k
    <3>1. old(j) = old(k)
      BY <1>5, <2>1, <2>2
    <3>2. QED
      BY <1>6, <3>1
  <2>3. ASSUME q[i] = x, x \in Range(r) PROVE FALSE
    <3>1. PICK j \in 1..(n - 1) : r[j] = x
      BY <1>4, <2>3
    <3>2. old(j) = i /\ old(j) # i
      BY <1>1, <1>5, <2>1, <2>3, <3>1
    <3>3. QED
      BY <3>2
  <2>4. QED
    BY <1>4, <2>2, <2>3 DEF OnceIn
<1>9. QED
  BY <1>2, <1>7, <1>8 DEF r

LEMMA AppendedOnce ==
  ASSUME NEW S, NEW q \in Seq(S), NEW y \in S
  PROVE  \A x : OnceIn(q, x) /\ (x = y => x \notin Range(q)) => OnceIn(Append(q, y), x)
<1>1. PICK n \in Nat : n = Len(q)
  BY LenProperties
<1> DEFINE r == Append(q, y)
<1>2. /\ DOMAIN r = 1..(n + 1) /\ DOMAIN q = 1..n
      /\ \A i \in 1..n : r[i] = q[i] /\ q[i] \in Range(q)
      /\ r[n + 1] = y
  BY <1>1, Appended, SeqFacts, LenProperties
<1> HIDE DEF r
<1>3. \A i \in 1..(n + 1) : i \in 1..n \/ i = n + 1
  OBVIOUS
<1>4. ASSUME NEW x, OnceIn(q, x), x = y => x \notin Range(q) PROVE OnceIn(r, x)
  BY <1>2, <1>3, <1>4 DEF OnceIn
<1>5. QED
  BY <1>4 DEF r

LEMMA EntryFacts ==
  /\ \A s \in Sockets : Request(s) \in Entries /\ Request(s).user = s /\ Request(s).what = "create"
  /\ \A s \in Sockets, m \in Messages :
       /\ Message(s, m) \in Entries /\ Message(s, m).user = s /\ Message(s, m).data = m
       /\ Message(s, m).what = "send"
  /\ \A e \in Entries : e.user \in Sockets
  /\ \A e \in Entries : e # Request(e.user) => e.data \in Messages /\ e = Message(e.user, e.data)
<1>1. \A s, t : Request(s).user = s /\ Request(s).what = "create"
  BY DEF Request
<1>2. \A s, m : Message(s, m).user = s /\ Message(s, m).data = m /\ Message(s, m).what = "send"
  BY DEF Message
<1>3. \A e \in Entries : \/ \E s \in Sockets : e = Request(s)
                         \/ \E s \in Sockets, m \in Messages : e = Message(s, m)
  BY DEF Entries
<1>4. /\ \A s \in Sockets : Request(s) \in Entries
      /\ \A s \in Sockets, m \in Messages : Message(s, m) \in Entries
  BY DEF Entries
<1>5. QED
  BY <1>1, <1>2, <1>3, <1>4

LEMMA Least == ASSUME NEW T, T \subseteq Nat, T # {} PROVE \E n \in T : \A m \in T : n <= m
<1> DEFINE less == {ss \in Nat \X Nat : ss[1] < ss[2]}
<1>1. IsWellFoundedOn(less, Nat)
  BY NatLessThanWellFounded DEF OpToRel
<1>2. PICK n \in T : \A m \in T : ~(<<m, n>> \in less)
  <2> HIDE DEF less
  <2>1. QED
    BY <1>1, WFMin
<1>3. ASSUME NEW m \in T PROVE n <= m
  <2>1. ~(<<m, n>> \in less) /\ m \in Nat /\ n \in Nat
    BY <1>2
  <2>2. QED
    BY <2>1
<1>4. QED
  BY <1>3

LEMMA FirstFacts ==
  ASSUME queue \in Seq(Entries), NEW s \in Sockets, First(s) # 0
  PROVE  /\ First(s) \in 1..Len(queue) /\ queue[First(s)].user = s
         /\ \A j \in 1..Len(queue) : queue[j].user = s => First(s) <= j
<1> DEFINE I == {i \in 1..Len(queue) : queue[i].user = s}
<1>1. First(s) = IF I # {} THEN Min(I) ELSE 0
  BY DEF First, SelectInSeq
<1>2. I # {} /\ First(s) = CHOOSE x \in I : \A y \in I : x <= y
  BY <1>1 DEF Min
<1>3. \E n \in I : \A m \in I : n <= m
  <2>1. I \subseteq Nat
    OBVIOUS
  <2> HIDE DEF I
  <2>2. QED
    BY <1>2, <2>1, Least
<1>4. First(s) \in I /\ \A y \in I : First(s) <= y
  <2> HIDE DEF I
  <2>1. QED
    BY <1>2, <1>3
<1>5. QED
  BY <1>4

------------------------------------------------------------------------------
(* The life of a socket.                                                   *)

Count(b) == IF b THEN 1 ELSE 0

Heard(s) == Called(events[s], functions, s)
Closed(s) == "close" \in Range(events[s])

Places == {"idle", "closing", "closing to finalize", "release", "join"}
JsStates == {"none", "rooted", "loose", "finalized"}
ReadyStates == {"connecting", "open", "closing", "closed"}
Connections == {"none", "handshake", "up", "broken", "failing", "ending", "gone"}

(* TypeOK but for what is counted, and what is sent.                       *)
Typed ==
  /\ instances \subseteq Sockets /\ deleted \subseteq Sockets
  /\ refs \in [Sockets -> Int] /\ pooled \subseteq Sockets
  /\ js \in [Sockets -> JsStates]
  /\ attached \subseteq Sockets
  /\ readyState \in [Sockets -> ReadyStates]
  /\ closeState \in [Sockets -> {"none", "async"}]
  /\ conn \in [Sockets -> Connections]
  /\ helper \in {"none", "running", "quitting", "ended"}
  /\ queue \in Seq(Entries)
  /\ failing \in Sockets \cup {None}
  /\ functions \in Seq(Posts)
  /\ main \in Places
  /\ thiz \in Sockets \cup {None}
  /\ restart \in {"not yet", "running", "done"}
  /\ events \in [Sockets -> Seq(Methods)]
  /\ lost \subseteq Sockets

(* There are two references: the finalizer's, which the pool may hold, and *)
(* that of onClose.  A socket is there as long as one is left.             *)
Life(s) ==
  /\ refs[s] = Count(Usable(s) \/ s \in pooled) + Count(js[s] # "none" /\ ~Closed(s))
  /\ s \in instances <=> refs[s] > 0
  /\ s \in pooled => js[s] = "finalized" /\ Closed(s)

(* What was called and posted tells how far the connection is.             *)
Trace(s) ==
  /\ js[s] = "none" => conn[s] = "none" /\ Request(s) \notin Range(queue)
  /\ conn[s] \in {"none", "handshake"} =>
       /\ Heard(s) = {} /\ failing # s /\ readyState[s] \notin {"open", "closed"}
  /\ Heard(s) \cap {"error", "close"} # {} => conn[s] \in {"failing", "gone"}
  /\ "close" \in Heard(s) => readyState[s] = "closed"
  /\ readyState[s] = "closed" => conn[s] \in {"failing", "gone"}
  /\ failing = s => conn[s] \in {"failing", "gone"}
  /\ Request(s) \in Range(queue) => conn[s] = "none"
  /\ OnceIn(queue, Request(s))

MainInv ==
  /\ main # "idle" => thiz \in Sockets
  /\ main \in {"release", "closing to finalize"} => Usable(thiz)
  /\ helper \in {"none", "ended"} => \A s \in Sockets : conn[s] \in {"none", "gone"}

IInv ==
  /\ Typed
  /\ EventsInOrder
  /\ \A s \in Sockets : Life(s) /\ Trace(s)
  /\ MainInv

LEMMA ClosedHeard == ASSUME NEW s \in Sockets, Closed(s) PROVE "close" \in Heard(s)
BY DEF Closed, Heard, Called, Methods

LEMMA HeardMethods == \A s : Heard(s) \subseteq Methods
BY DEF Heard, Called

(* What a function posted adds.                                            *)
LEMMA PostStep ==
  ASSUME IInv, NEW s \in Sockets, NEW m \in Methods, Post(m, s), events' = events,
         \A c \in Heard(s) : MayFollow(c, m)
  PROVE  /\ functions' \in Seq(Posts) /\ EventsInOrder'
         /\ \A t \in Sockets : Heard(t)' = Heard(t) \cup (IF t = s THEN {m} ELSE {})
<1>1. <<m, s>> \in Posts /\ functions \in Seq(Posts) /\ events \in [Sockets -> Seq(Methods)]
  BY DEF Posts, IInv, Typed
<1>2. functions' = Append(functions, <<m, s>>) /\ functions' \in Seq(Posts)
  BY <1>1, AppendProperties DEF Post
<1>3. ASSUME NEW t \in Sockets
      PROVE  /\ Ordered(events[t], functions', t)
             /\ Called(events[t], functions', t)
                  = Called(events[t], functions, t) \cup (IF t = s THEN {m} ELSE {})
  <2>1. Ordered(events[t], functions, t) /\ events[t] \in Seq(Methods)
    BY <1>1, EventsOrdered DEF IInv
  <2>2. t = s => \A c \in Called(events[t], functions, s) : MayFollow(c, m)
    BY DEF Heard
  <2>3. QED
    BY <1>1, <1>2, <2>1, <2>2, PostOrdered
<1>4. EventsOrdered'
  BY EventsOrdered, PTL
<1>5. QED
  BY <1>2, <1>3, <1>4 DEF Heard

(* A step of the helper thread for the socket s does not touch the others. *)
LEMMA HelperStep ==
  ASSUME IInv, NEW s \in Sockets, Typed', EventsInOrder', Trace(s)',
         UNCHANGED <<instances, refs, pooled, js, main, thiz, events, helper>>,
         helper = "running" \/ conn' = conn,
         \A t \in Sockets : t # s =>
           /\ conn'[t] = conn[t] /\ readyState'[t] = readyState[t]
           /\ Heard(t)' = Heard(t) /\ (failing' = t => failing = t),
         Range(queue') \subseteq Range(queue),
         \A x : OnceIn(queue, x) => OnceIn(queue', x)
  PROVE  IInv'
<1>1. \A t \in Sockets : Usable(t)' = Usable(t) /\ Closed(t)' = Closed(t)
  BY DEF Usable, Closed
<1>2. ASSUME NEW t \in Sockets PROVE Life(t)'
  <2>1. Life(t)
    BY DEF IInv
  <2>2. QED
    BY <1>1, <2>1 DEF Life
<1>3. ASSUME NEW t \in Sockets, t # s PROVE Trace(t)'
  <2>1. Trace(t)
    BY DEF IInv
  <2>2. /\ conn'[t] = conn[t] /\ readyState'[t] = readyState[t] /\ js'[t] = js[t]
        /\ Heard(t)' = Heard(t) /\ (failing' = t => failing = t)
    BY <1>3
  <2>3. /\ Request(t) \in Range(queue') => Request(t) \in Range(queue)
        /\ OnceIn(queue, Request(t)) => OnceIn(queue', Request(t))
    OBVIOUS
  <2>4. QED
    BY <2>1, <2>2, <2>3 DEF Trace
<1>4. MainInv'
  BY <1>1 DEF IInv, MainInv
<1>5. QED
  BY <1>2, <1>3, <1>4 DEF IInv

LEMMA QueueSame ==
  ASSUME queue' = queue
  PROVE  Range(queue') \subseteq Range(queue) /\ \A x : OnceIn(queue, x) => OnceIn(queue', x)
OBVIOUS

LEMMA PostsSame ==
  ASSUME IInv, UNCHANGED <<functions, events>>
  PROVE  EventsInOrder' /\ functions' \in Seq(Posts) /\ \A t \in Sockets : Heard(t)' = Heard(t)
BY DEF IInv, Typed, EventsInOrder, Heard

(* The first method posted for a socket.                                   *)
LEMMA PostFirst ==
  ASSUME IInv, NEW s \in Sockets, NEW m \in Methods, Post(m, s), events' = events, Heard(s) = {}
  PROVE  /\ functions' \in Seq(Posts) /\ EventsInOrder'
         /\ \A t \in Sockets : t # s => Heard(t)' = Heard(t)
         /\ Heard(s)' = {m}
<1>1. \A c \in Heard(s) : MayFollow(c, m)
  OBVIOUS
<1>2. /\ functions' \in Seq(Posts) /\ EventsInOrder'
      /\ \A t \in Sockets : Heard(t)' = Heard(t) \cup (IF t = s THEN {m} ELSE {})
  BY <1>1, PostStep
<1>3. QED
  BY <1>2

LEMMA MethodNames == {"open", "message", "error", "close"} = Methods
BY DEF Methods

LEMMA OpenConnectionInv == ASSUME IInv, NEW s \in Sockets, OpenConnection(s) PROVE IInv'
<1>1. PICK i \in DOMAIN queue : queue[i] = Request(s) /\ queue' = RemoveAt(queue, i)
  BY DEF OpenConnection
<1>2. queue \in Seq(Entries) /\ i \in 1..Len(queue) /\ Request(s) \in Range(queue)
  BY <1>1, LenProperties DEF IInv, Typed, Range
<1>3. /\ queue' \in Seq(Entries) /\ Range(queue') \subseteq Range(queue)
      /\ \A x : OnceIn(queue, x) => OnceIn(queue', x) /\ (queue[i] = x => x \notin Range(queue'))
  BY <1>1, <1>2, RemovedOnce
<1>4. /\ conn[s] = "none" /\ js[s] # "none" /\ Heard(s) = {} /\ Request(s) \notin Range(queue')
      /\ OnceIn(queue', Request(s))
  BY <1>1, <1>2, <1>3 DEF IInv, Trace
<1>5. UNCHANGED <<instances, deleted, refs, pooled, js, attached, closeState, helper, main, thiz,
                  restart, events, lost>> /\ helper = "running" /\ failing = None
  BY DEF OpenConnection, Running, objects, mainThread, history
<1>6. PICK c \in {"handshake", "gone"}, v \in {"connecting", "closing"} :
        /\ conn' = [conn EXCEPT ![s] = c] /\ conn'[s] = c
        /\ readyState' = [readyState EXCEPT ![s] = v] /\ readyState'[s] = v
        /\ failing' \in {None, s} /\ (failing' = s => conn'[s] = "gone")
  BY <1>5, NoneIsNone DEF OpenConnection, Become, OnConnectionError, IInv, Typed
<1>7. /\ functions' \in Seq(Posts) /\ EventsInOrder'
      /\ \A t \in Sockets : t # s => Heard(t)' = Heard(t)
      /\ Heard(s)' = {} \/ (Heard(s)' = {"error"} /\ conn'[s] = "gone")
  <2>1. CASE functions' = functions
    BY <1>4, <1>5, <2>1, PostsSame
  <2>2. CASE Post("error", s) /\ conn'[s] = "gone"
    BY <1>4, <1>5, <2>2, PostFirst, MethodNames
  <2>3. QED
    BY <2>1, <2>2, <1>5 DEF OpenConnection, OnConnectionError, Become, IInv, Typed
<1>8. Typed'
  <2>1. conn' \in [Sockets -> Connections] /\ readyState' \in [Sockets -> ReadyStates]
    BY <1>6 DEF IInv, Typed, ReadyStates, Connections
  <2>2. failing' \in Sockets \cup {None}
    BY <1>6
  <2>3. QED
    BY <1>3, <1>5, <1>7, <2>1, <2>2 DEF IInv, Typed
<1>9. Trace(s)'
  BY <1>4, <1>5, <1>6, <1>7, NoneIsNone DEF Trace
<1>10. \A t \in Sockets : t # s =>
           /\ conn'[t] = conn[t] /\ readyState'[t] = readyState[t]
           /\ Heard(t)' = Heard(t) /\ (failing' = t => failing = t)
  BY <1>6, <1>7, NoneIsNone DEF IInv, Typed
<1>11. QED
  BY <1>3, <1>5, <1>7, <1>8, <1>9, <1>10, HelperStep

LEMMA ConnectionOpenedInv == ASSUME IInv, NEW s \in Sockets, ConnectionOpened(s) PROVE IInv'
<1>1. UNCHANGED <<instances, deleted, refs, pooled, js, attached, closeState, helper, queue, failing,
                  main, thiz, restart, events, lost>> /\ helper = "running" /\ failing = None
  BY DEF ConnectionOpened, Running, objects, mainThread, history
<1>2. /\ js[s] # "none" /\ Heard(s) = {} /\ readyState[s] # "closed"
      /\ Request(s) \notin Range(queue) /\ OnceIn(queue, Request(s))
  BY DEF ConnectionOpened, IInv, Trace
<1>3. /\ conn' = [conn EXCEPT ![s] = "up"] /\ conn'[s] = "up"
      /\ \/ readyState' = readyState /\ functions' = functions
         \/ readyState' = [readyState EXCEPT ![s] = "open"] /\ Post("open", s)
      /\ readyState'[s] # "closed"
  BY <1>2 DEF ConnectionOpened, Become, IInv, Typed
<1>4. /\ functions' \in Seq(Posts) /\ EventsInOrder'
      /\ \A t \in Sockets : t # s => Heard(t)' = Heard(t)
      /\ Heard(s)' \subseteq {"open"}
  <2>1. CASE functions' = functions
    BY <1>1, <1>2, <2>1, PostsSame
  <2>2. CASE Post("open", s)
    BY <1>1, <1>2, <2>2, PostFirst, MethodNames
  <2>3. QED
    BY <1>3, <2>1, <2>2
<1>5. Typed'
  BY <1>1, <1>3, <1>4 DEF IInv, Typed, ReadyStates, Connections
<1>6. Trace(s)'
  BY <1>1, <1>2, <1>3, <1>4, NoneIsNone DEF Trace
<1>7. \A t \in Sockets : t # s =>
           /\ conn'[t] = conn[t] /\ readyState'[t] = readyState[t]
           /\ Heard(t)' = Heard(t) /\ (failing' = t => failing = t)
  BY <1>1, <1>3, <1>4 DEF IInv, Typed
<1>8. QED
  BY <1>1, <1>4, <1>5, <1>6, <1>7, HelperStep, QueueSame

LEMMA ConnectionErrorInv == ASSUME IInv, NEW s \in Sockets, ConnectionError(s) PROVE IInv'
<1>1. UNCHANGED <<instances, deleted, refs, pooled, js, attached, closeState, helper, queue,
                  main, thiz, restart, events, lost>> /\ helper = "running" /\ failing = None
  BY DEF ConnectionError, Running, objects, mainThread, history
<1>2. /\ js[s] # "none" /\ Heard(s) = {} /\ Request(s) \notin Range(queue)
      /\ OnceIn(queue, Request(s))
  BY DEF ConnectionError, IInv, Trace
<1>3. /\ conn' = [conn EXCEPT ![s] = "failing"] /\ conn'[s] = "failing"
      /\ \/ readyState' = readyState /\ functions' = functions /\ failing' = failing
         \/ readyState' = [readyState EXCEPT ![s] = "closing"] /\ Post("error", s) /\ failing' = s
  BY DEF ConnectionError, OnConnectionError, Become, IInv, Typed
<1>4. /\ functions' \in Seq(Posts) /\ EventsInOrder'
      /\ \A t \in Sockets : t # s => Heard(t)' = Heard(t)
      /\ Heard(s)' \subseteq {"error"}
  <2>1. CASE functions' = functions
    BY <1>1, <1>2, <2>1, PostsSame
  <2>2. CASE Post("error", s)
    BY <1>1, <1>2, <2>2, PostFirst, MethodNames
  <2>3. QED
    BY <1>3, <2>1, <2>2
<1>5. Typed'
  BY <1>1, <1>3, <1>4 DEF IInv, Typed, ReadyStates, Connections
<1>6. Trace(s)'
  BY <1>1, <1>2, <1>3, <1>4, NoneIsNone DEF Trace
<1>7. \A t \in Sockets : t # s =>
           /\ conn'[t] = conn[t] /\ readyState'[t] = readyState[t]
           /\ Heard(t)' = Heard(t) /\ (failing' = t => failing = t)
  BY <1>1, <1>3, <1>4 DEF IInv, Typed
<1>8. QED
  BY <1>1, <1>4, <1>5, <1>6, <1>7, HelperStep, QueueSame

(* onConnectionClosed posts onClose, unless it has.                        *)
LEMMA ClosedStep ==
  ASSUME IInv, NEW s \in Sockets, OnConnectionClosed(s), events' = events
  PROVE  /\ functions' \in Seq(Posts) /\ EventsInOrder'
         /\ readyState' \in [Sockets -> ReadyStates]
         /\ \A t \in Sockets : t # s => Heard(t)' = Heard(t) /\ readyState'[t] = readyState[t]
         /\ \/ Heard(s)' = Heard(s) /\ readyState'[s] = readyState[s]
            \/ Heard(s)' = Heard(s) \cup {"close"} /\ readyState'[s] = "closed"
<1>1. readyState \in [Sockets -> ReadyStates]
  BY DEF IInv, Typed
<1>2. CASE UNCHANGED <<readyState, functions>>
  BY <1>1, <1>2, PostsSame
<1>3. CASE readyState[s] # "closed" /\ Become(readyState, s, "closed") /\ Post("close", s)
  <2>1. "close" \notin Heard(s)
    BY <1>3 DEF IInv, Trace
  <2>2. \A c \in Heard(s) : MayFollow(c, "close")
    BY <2>1 DEF MayFollow
  <2>3. PICK m \in Methods : m = "close"
    BY MethodNames
  <2>4. /\ functions' \in Seq(Posts) /\ EventsInOrder'
        /\ \A t \in Sockets : Heard(t)' = Heard(t) \cup (IF t = s THEN {m} ELSE {})
    BY <1>3, <2>2, <2>3, PostStep
  <2>5. /\ readyState' \in [Sockets -> ReadyStates] /\ readyState'[s] = "closed"
        /\ \A t \in Sockets : t # s => readyState'[t] = readyState[t]
    BY <1>1, <1>3 DEF Become, ReadyStates
  <2>6. QED
    BY <2>3, <2>4, <2>5
<1>4. QED
  BY <1>2, <1>3 DEF OnConnectionClosed

LEMMA ConnectionClosedInv == ASSUME IInv, ConnectionClosed PROVE IInv'
<1>1. PICK s \in Sockets : s = failing
  BY DEF ConnectionClosed, IInv, Typed
<1>2. /\ UNCHANGED <<instances, deleted, refs, pooled, js, attached, closeState, conn, helper, queue,
                     main, thiz, restart, events, lost>>
      /\ OnConnectionClosed(s) /\ failing' = None
  BY <1>1 DEF ConnectionClosed, objects, mainThread, history
<1>3. /\ functions' \in Seq(Posts) /\ EventsInOrder'
      /\ readyState' \in [Sockets -> ReadyStates]
      /\ \A t \in Sockets : t # s => Heard(t)' = Heard(t) /\ readyState'[t] = readyState[t]
      /\ \/ Heard(s)' = Heard(s) /\ readyState'[s] = readyState[s]
         \/ Heard(s)' = Heard(s) \cup {"close"} /\ readyState'[s] = "closed"
  BY <1>2, ClosedStep
<1>4. Trace(s) /\ conn[s] \in {"failing", "gone"}
  BY <1>1 DEF IInv, Trace
<1>5. Typed'
  BY <1>2, <1>3 DEF IInv, Typed
<1>6. Trace(s)'
  BY <1>2, <1>3, <1>4, NoneIsNone DEF Trace
<1>7. \A t \in Sockets : t # s =>
           /\ conn'[t] = conn[t] /\ readyState'[t] = readyState[t]
           /\ Heard(t)' = Heard(t) /\ (failing' = t => failing = t)
  BY <1>2, <1>3, NoneIsNone
<1>8. QED
  BY <1>2, <1>3, <1>5, <1>6, <1>7, HelperStep, QueueSame

LEMMA WsiDestroyInv == ASSUME IInv, NEW s \in Sockets, WsiDestroy(s) PROVE IInv'
<1>1. /\ UNCHANGED <<instances, deleted, refs, pooled, js, attached, closeState, helper, queue, failing,
                     main, thiz, restart, events, lost>>
      /\ OnConnectionClosed(s) /\ helper = "running" /\ failing = None
      /\ conn[s] \in {"failing", "ending"} /\ conn' = [conn EXCEPT ![s] = "gone"]
  BY DEF WsiDestroy, Running, Become, objects, mainThread, history
<1>2. /\ functions' \in Seq(Posts) /\ EventsInOrder'
      /\ readyState' \in [Sockets -> ReadyStates]
      /\ \A t \in Sockets : t # s => Heard(t)' = Heard(t) /\ readyState'[t] = readyState[t]
      /\ \/ Heard(s)' = Heard(s) /\ readyState'[s] = readyState[s]
         \/ Heard(s)' = Heard(s) \cup {"close"} /\ readyState'[s] = "closed"
  BY <1>1, ClosedStep
<1>3. /\ conn' \in [Sockets -> Connections] /\ conn'[s] = "gone"
      /\ \A t \in Sockets : t # s => conn'[t] = conn[t]
  BY <1>1 DEF IInv, Typed, Connections
<1>4. Trace(s)
  BY DEF IInv
<1>5. Typed'
  BY <1>1, <1>2, <1>3 DEF IInv, Typed
<1>6. Trace(s)'
  BY <1>1, <1>2, <1>3, <1>4 DEF Trace
<1>7. \A t \in Sockets : t # s =>
           /\ conn'[t] = conn[t] /\ readyState'[t] = readyState[t]
           /\ Heard(t)' = Heard(t) /\ (failing' = t => failing = t)
  BY <1>1, <1>2, <1>3
<1>8. QED
  BY <1>1, <1>2, <1>5, <1>6, <1>7, HelperStep, QueueSame

(* Writing: the queue gets shorter.                                        *)
LEMMA WriteShrinks ==
  ASSUME IInv, NEW s \in Sockets, First(s) # 0,
         queue' = queue \/ queue' = RemoveAt(queue, First(s))
  PROVE  /\ queue' \in Seq(Entries) /\ Range(queue') \subseteq Range(queue)
         /\ \A x : OnceIn(queue, x) => OnceIn(queue', x)
<1>1. queue \in Seq(Entries) /\ First(s) \in 1..Len(queue)
  BY FirstFacts DEF IInv, Typed
<1>2. CASE queue' = queue
  BY <1>1, <1>2
<1>3. CASE queue' = RemoveAt(queue, First(s))
  BY <1>1, <1>3, RemovedOnce
<1>4. QED
  BY <1>2, <1>3

LEMMA ClientWritableInv == ASSUME IInv, NEW s \in Sockets, ClientWritable(s) PROVE IInv'
<1>1. /\ UNCHANGED <<instances, deleted, refs, pooled, js, attached, helper, failing, functions,
                     main, thiz, restart, events, lost>>
      /\ helper = "running" /\ failing = None /\ conn[s] \in {"up", "broken"}
  BY DEF ClientWritable, Running, objects, mainThread
<1>2. /\ \/ queue' = queue
         \/ First(s) # 0 /\ (queue' = queue \/ queue' = RemoveAt(queue, First(s)))
      /\ \/ conn' = conn
         \/ conn' = [conn EXCEPT ![s] = "ending"]
         \/ conn' = [conn EXCEPT ![s] = "broken"]
      /\ readyState' = readyState \/ readyState' = [readyState EXCEPT ![s] = Closing(s)]
      /\ closeState' = closeState \/ closeState' = [closeState EXCEPT ![s] = "async"]
  BY DEF ClientWritable, WriteFragment, WriteFails, Become, states
<1>3. /\ queue' \in Seq(Entries) /\ Range(queue') \subseteq Range(queue)
      /\ \A x : OnceIn(queue, x) => OnceIn(queue', x)
  BY <1>2, WriteShrinks, QueueSame DEF IInv, Typed
<1>4. EventsInOrder' /\ functions' \in Seq(Posts) /\ \A t \in Sockets : Heard(t)' = Heard(t)
  BY <1>1, PostsSame
<1>5. Trace(s) /\ conn[s] \in Connections /\ readyState[s] \in ReadyStates
  BY DEF IInv, Typed
<1>6. /\ conn' \in [Sockets -> Connections] /\ conn'[s] \in {"up", "broken", "ending"}
      /\ \A t \in Sockets : t # s => conn'[t] = conn[t]
  BY <1>1, <1>2 DEF IInv, Typed, Connections
<1>7. /\ readyState' \in [Sockets -> ReadyStates] /\ (readyState'[s] = "closed" => readyState[s] = "closed")
      /\ \A t \in Sockets : t # s => readyState'[t] = readyState[t]
  BY <1>2 DEF IInv, Typed, ReadyStates, Closing
<1>8. closeState' \in [Sockets -> {"none", "async"}]
  BY <1>2 DEF IInv, Typed
<1>9. Typed'
  BY <1>1, <1>3, <1>4, <1>6, <1>7, <1>8 DEF IInv, Typed
<1>10. Trace(s)'
  BY <1>1, <1>3, <1>4, <1>5, <1>6, <1>7 DEF Trace
<1>11. \A t \in Sockets : t # s =>
           /\ conn'[t] = conn[t] /\ readyState'[t] = readyState[t]
           /\ Heard(t)' = Heard(t) /\ (failing' = t => failing = t)
  BY <1>1, <1>4, <1>6, <1>7
<1>12. QED
  BY <1>1, <1>3, <1>4, <1>9, <1>10, <1>11, HelperStep

LEMMA ClientReceivedDataInv == ASSUME IInv, NEW s \in Sockets, ClientReceivedData(s) PROVE IInv'
<1>1. /\ UNCHANGED <<instances, deleted, refs, pooled, js, attached, readyState, closeState, conn,
                     helper, queue, failing, main, thiz, restart, events, lost>>
      /\ Post("message", s) /\ conn[s] = "up"
  BY DEF ClientReceivedData, objects, states, thread, mainThread, history
<1>2. Trace(s) /\ Heard(s) \cap {"error", "close"} = {}
  BY <1>1 DEF IInv, Trace
<1>3. \A c \in Heard(s) : MayFollow(c, "message")
  BY <1>2 DEF MayFollow
<1>4. PICK m \in Methods : m = "message"
  BY MethodNames
<1>5. /\ functions' \in Seq(Posts) /\ EventsInOrder'
      /\ \A t \in Sockets : Heard(t)' = Heard(t) \cup (IF t = s THEN {m} ELSE {})
  BY <1>1, <1>3, <1>4, PostStep
<1>6. Heard(s)' = Heard(s) \cup {"message"} /\ \A t \in Sockets : t # s => Heard(t)' = Heard(t)
  BY <1>4, <1>5
<1>7. Typed'
  BY <1>1, <1>5 DEF IInv, Typed
<1>8. Trace(s)'
  BY <1>1, <1>2, <1>6 DEF Trace
<1>9. \A t \in Sockets : t # s =>
           /\ conn'[t] = conn[t] /\ readyState'[t] = readyState[t]
           /\ Heard(t)' = Heard(t) /\ (failing' = t => failing = t)
  BY <1>1, <1>6
<1>10. QED
  BY <1>1, <1>5, <1>7, <1>8, <1>9, HelperStep, QueueSame

LEMMA PeerClosesInv == ASSUME IInv, NEW s \in Sockets, PeerCloses(s) PROVE IInv'
<1>1. /\ UNCHANGED <<instances, deleted, refs, pooled, js, attached, readyState, closeState,
                     helper, queue, failing, functions, main, thiz, restart, events, lost>>
      /\ helper = "running" /\ conn[s] \in {"up", "broken"} /\ conn' = [conn EXCEPT ![s] = "ending"]
  BY DEF PeerCloses, Running, Become, objects, states, mainThread, history
<1>2. EventsInOrder' /\ functions' \in Seq(Posts) /\ \A t \in Sockets : Heard(t)' = Heard(t)
  BY <1>1, PostsSame
<1>3. /\ conn' \in [Sockets -> Connections] /\ conn'[s] = "ending"
      /\ \A t \in Sockets : t # s => conn'[t] = conn[t]
  BY <1>1 DEF IInv, Typed, Connections
<1>4. Trace(s)
  BY DEF IInv
<1>5. Typed'
  BY <1>1, <1>2, <1>3 DEF IInv, Typed
<1>6. Trace(s)'
  BY <1>1, <1>2, <1>3, <1>4 DEF Trace
<1>7. \A t \in Sockets : t # s =>
           /\ conn'[t] = conn[t] /\ readyState'[t] = readyState[t]
           /\ Heard(t)' = Heard(t) /\ (failing' = t => failing = t)
  BY <1>1, <1>2, <1>3
<1>8. QED
  BY <1>1, <1>2, <1>5, <1>6, <1>7, HelperStep, QueueSame

LEMMA SubThreadEndedInv == ASSUME IInv, SubThreadEnded PROVE IInv'
<1>1. /\ UNCHANGED <<instances, deleted, refs, pooled, js, attached, readyState, closeState,
                     queue, failing, functions, main, thiz, restart, events, lost>>
      /\ helper' = "ended" /\ failing = None
      /\ conn' = [s \in Sockets |-> IF conn[s] = "none" THEN "none" ELSE "gone"]
  BY DEF SubThreadEnded, objects, states, mainThread, history
<1>2. EventsInOrder' /\ functions' \in Seq(Posts) /\ \A t \in Sockets : Heard(t)' = Heard(t)
  BY <1>1, PostsSame
<1>3. \A s \in Sockets : Usable(s)' = Usable(s) /\ Closed(s)' = Closed(s)
  BY <1>1 DEF Usable, Closed
<1>4. Typed'
  BY <1>1, <1>2 DEF IInv, Typed, Connections
<1>5. ASSUME NEW s \in Sockets PROVE Life(s)' /\ Trace(s)'
  <2>1. Life(s) /\ Trace(s)
    BY DEF IInv
  <2>2. Life(s)'
    BY <1>1, <1>3, <2>1 DEF Life
  <2>3. conn'[s] = IF conn[s] = "none" THEN "none" ELSE "gone"
    BY <1>1
  <2>4. Trace(s)'
    BY <1>1, <1>2, <2>1, <2>3, NoneIsNone DEF Trace
  <2>5. QED
    BY <2>2, <2>4
<1>6. MainInv'
  BY <1>1, <1>3 DEF IInv, MainInv
<1>7. QED
  BY <1>2, <1>4, <1>5, <1>6 DEF IInv

------------------------------------------------------------------------------
(* The main thread.                                                        *)

(* A step of the main thread leaves the connection of a socket as it is.   *)
LEMMA TraceKept ==
  ASSUME IInv, NEW t \in Sockets, UNCHANGED <<conn, queue, failing>>,
         Heard(t)' \subseteq Heard(t), js'[t] = "none" => js[t] = "none",
         readyState'[t] = readyState[t] \/ readyState'[t] = Closing(t)
  PROVE  Trace(t)'
<1>1. Trace(t)
  BY DEF IInv
<1>2. readyState'[t] = "closed" => readyState[t] = "closed"
  BY DEF Closing
<1>3. readyState[t] = "closed" => readyState'[t] = "closed"
  BY DEF Closing
<1>4. readyState'[t] = "open" => readyState[t] = "open"
  BY DEF Closing
<1>5. QED
  BY <1>1, <1>2, <1>3, <1>4 DEF Trace

(* A socket that was not made yet has heard nothing.                       *)
LEMMA NotMade ==
  ASSUME IInv, NEW s \in Sockets, Heard(s) # {} \/ Closed(s) \/ Usable(s)
  PROVE  js[s] # "none"
<1>1. Trace(s)
  BY DEF IInv
<1>2. QED
  BY <1>1, ClosedHeard DEF Trace, Usable

LEMMA ReleaseFacts ==
  ASSUME IInv, NEW s \in Sockets, Release(s), refs[s] > 0
  PROVE  /\ refs' \in [Sockets -> Int] /\ refs'[s] = refs[s] - 1
         /\ \A t \in Sockets : t # s => refs'[t] = refs[t]
         /\ instances' \subseteq Sockets /\ deleted' \subseteq Sockets
         /\ \A t \in Sockets : t # s => (t \in instances' <=> t \in instances)
         /\ s \in instances' <=> refs'[s] > 0
         /\ main' \in {"idle", "join"} /\ thiz' \in Sockets \cup {None}
         /\ main' # "idle" => thiz' \in Sockets
         /\ helper' = helper \/ helper' = "quitting"
<1>1. /\ refs \in [Sockets -> Int] /\ instances \subseteq Sockets /\ deleted \subseteq Sockets
      /\ (s \in instances <=> refs[s] > 0)
  BY DEF IInv, Typed, Life
<1>2. /\ refs' \in [Sockets -> Int] /\ refs'[s] = refs[s] - 1
      /\ \A t \in Sockets : t # s => refs'[t] = refs[t]
  BY <1>1 DEF Release, Become
<1>3. CASE refs[s] = 1
  BY <1>1, <1>2, <1>3 DEF Release, Destroy
<1>4. CASE refs[s] # 1
  BY <1>1, <1>2, <1>4 DEF Release
<1>5. QED
  BY <1>2, <1>3, <1>4

LEMMA ConstructInv == ASSUME IInv, NEW s \in Sockets, Construct(s) PROVE IInv'
<1>1. /\ UNCHANGED <<deleted, pooled, attached, readyState, closeState, conn, failing, functions,
                     main, thiz, restart, events, lost>>
      /\ js[s] = "none" /\ instances' = instances \cup {s}
      /\ refs' = [refs EXCEPT ![s] = 2] /\ js' = [js EXCEPT ![s] = "rooted"]
      /\ queue' = Append(queue, Request(s)) /\ main = "idle"
      /\ helper' = IF helper = "none" THEN "running" ELSE helper
  BY DEF Construct, Free, Become, states, mainThread, history
<1>2. EventsInOrder' /\ functions' \in Seq(Posts) /\ \A t \in Sockets : Heard(t)' = Heard(t)
  BY <1>1, PostsSame
<1>3. queue \in Seq(Entries) /\ Request(s) \in Entries
  BY EntryFacts DEF IInv, Typed
<1>4. /\ queue' \in Seq(Entries) /\ Range(queue') = Range(queue) \cup {Request(s)}
      /\ \A x : OnceIn(queue, x) /\ (x = Request(s) => x \notin Range(queue)) => OnceIn(queue', x)
  BY <1>1, <1>3, Appended, AppendedOnce
<1>5. \A t \in Sockets : t # s => Request(t) # Request(s)
  BY EntryFacts
<1>6. Trace(s) /\ Life(s) /\ ~Closed(s)
  BY <1>1, NotMade DEF IInv
<1>7. Typed'
  <2>1. js' \in [Sockets -> JsStates]
    BY <1>1 DEF IInv, Typed, JsStates
  <2>2. refs \in [Sockets -> Int]
    BY DEF IInv, Typed
  <2>3. refs' \in [Sockets -> Int]
    BY <1>1, <2>2
  <2>4. helper' \in {"none", "running", "quitting", "ended"} /\ instances' \subseteq Sockets
    BY <1>1 DEF IInv, Typed
  <2>5. QED
    BY <1>1, <1>2, <1>4, <2>1, <2>3, <2>4 DEF IInv, Typed
<1>8. \A t \in Sockets : t # s => js'[t] = js[t] /\ refs'[t] = refs[t]
  BY <1>1 DEF IInv, Typed
<1>9. js'[s] = "rooted" /\ refs'[s] = 2
  BY <1>1 DEF IInv, Typed
<1>10. \A t \in Sockets : Closed(t)' = Closed(t) /\ (t # s => Usable(t)' = Usable(t))
  BY <1>1, <1>8 DEF Closed, Usable
<1>11. Life(s)'
  BY <1>1, <1>6, <1>9, <1>10 DEF Life, Usable, Count
<1>12. ASSUME NEW t \in Sockets, t # s PROVE Life(t)'
  BY <1>1, <1>8, <1>10, <1>12 DEF Life, IInv
<1>13. Trace(s)'
  BY <1>1, <1>2, <1>4, <1>6, <1>9 DEF Trace
<1>14. ASSUME NEW t \in Sockets, t # s PROVE Trace(t)'
  <2>1. Trace(t)
    BY DEF IInv
  <2>2. (Request(t) \in Range(queue') <=> Request(t) \in Range(queue)) /\ Request(t) # Request(s)
    BY <1>4, <1>5, <1>14
  <2>3. OnceIn(queue', Request(t))
    BY <1>4, <2>1, <2>2 DEF Trace
  <2>4. QED
    BY <1>1, <1>2, <1>8, <1>14, <2>1, <2>2, <2>3 DEF Trace
<1>15. MainInv'
  BY <1>1 DEF IInv, MainInv
<1>16. QED
  BY <1>2, <1>7, <1>11, <1>12, <1>13, <1>14, <1>15 DEF IInv

(* A message joins the queue.                                              *)
LEMMA SendInv == ASSUME IInv, NEW s \in Sockets, NEW m \in Messages, Send(s, m) PROVE IInv'
<1>1. /\ UNCHANGED <<instances, deleted, refs, pooled, js, attached, readyState, closeState, conn,
                     helper, failing, functions, main, thiz, restart, events, lost>>
      /\ queue' = Append(queue, Message(s, m))
  BY DEF Send, objects, states, mainThread
<1>2. EventsInOrder' /\ functions' \in Seq(Posts) /\ \A t \in Sockets : Heard(t)' = Heard(t)
  BY <1>1, PostsSame
<1>3. queue \in Seq(Entries) /\ Message(s, m) \in Entries
  BY EntryFacts DEF IInv, Typed
<1>4. /\ queue' \in Seq(Entries) /\ Range(queue') = Range(queue) \cup {Message(s, m)}
      /\ \A x : OnceIn(queue, x) /\ (x = Message(s, m) => x \notin Range(queue)) => OnceIn(queue', x)
  BY <1>1, <1>3, Appended, AppendedOnce
<1>5. \A t \in Sockets : Request(t) # Message(s, m)
  BY EntryFacts
<1>6. Typed'
  BY <1>1, <1>2, <1>4 DEF IInv, Typed
<1>7. \A t \in Sockets : Closed(t)' = Closed(t) /\ Usable(t)' = Usable(t)
  BY <1>1 DEF Closed, Usable
<1>8. ASSUME NEW t \in Sockets PROVE Life(t)'
  BY <1>1, <1>7 DEF Life, IInv
<1>9. ASSUME NEW t \in Sockets PROVE Trace(t)'
  <2>1. Trace(t)
    BY DEF IInv
  <2>2. Request(t) \in Range(queue') <=> Request(t) \in Range(queue)
    BY <1>4, <1>5
  <2>3. OnceIn(queue', Request(t))
    BY <1>4, <1>5, <2>1 DEF Trace
  <2>4. QED
    BY <1>1, <1>2, <2>1, <2>2, <2>3 DEF Trace
<1>10. MainInv'
  BY <1>1, <1>7 DEF IInv, MainInv
<1>11. QED
  BY <1>2, <1>6, <1>8, <1>9, <1>10 DEF IInv

LEMMA CloseAsyncInv == ASSUME IInv, NEW s \in Sockets, CloseAsync(s) PROVE IInv'
<1>1. /\ UNCHANGED <<instances, deleted, refs, pooled, js, readyState, conn, helper, queue, failing,
                     functions, restart, events, lost>>
      /\ attached' = attached \cup {s} /\ main = "idle"
      /\ \/ UNCHANGED <<closeState, main, thiz>>
         \/ closeState' = [closeState EXCEPT ![s] = "async"] /\ main' = "closing" /\ thiz' = s
  BY DEF CloseAsync, Free, Become, thread, history
<1>2. EventsInOrder' /\ functions' \in Seq(Posts) /\ \A t \in Sockets : Heard(t)' = Heard(t)
  BY <1>1, PostsSame
<1>3. Typed'
  BY <1>1, <1>2 DEF IInv, Typed, Places
<1>4. \A t \in Sockets : Closed(t)' = Closed(t) /\ Usable(t)' = Usable(t)
  BY <1>1 DEF Closed, Usable
<1>5. ASSUME NEW t \in Sockets PROVE Life(t)'
  BY <1>1, <1>4 DEF Life, IInv
<1>6. ASSUME NEW t \in Sockets PROVE Trace(t)'
  BY <1>1, <1>2, TraceKept
<1>7. MainInv'
  BY <1>1, <1>4 DEF IInv, MainInv
<1>8. QED
  BY <1>2, <1>3, <1>5, <1>6, <1>7 DEF IInv

LEMMA MarkClosingInv == ASSUME IInv, MarkClosing PROVE IInv'
<1>1. PICK s \in Sockets : s = thiz
  BY DEF MarkClosing, IInv, MainInv
<1>2. /\ UNCHANGED <<instances, deleted, refs, pooled, js, attached, closeState, conn, helper, queue,
                     failing, functions, restart, events, lost>>
      /\ readyState' = [readyState EXCEPT ![s] = Closing(s)]
      /\ \/ main' = "idle" /\ thiz' = None
         \/ main = "closing to finalize" /\ main' = "release" /\ thiz' = thiz
  BY <1>1 DEF MarkClosing, Become, objects, thread, history
<1>3. EventsInOrder' /\ functions' \in Seq(Posts) /\ \A t \in Sockets : Heard(t)' = Heard(t)
  BY <1>2, PostsSame
<1>4. Closing(s) \in ReadyStates /\ readyState \in [Sockets -> ReadyStates]
  BY DEF Closing, ReadyStates, IInv, Typed
<1>5. /\ readyState' \in [Sockets -> ReadyStates] /\ readyState'[s] = Closing(s)
      /\ \A t \in Sockets : t # s => readyState'[t] = readyState[t]
  BY <1>2, <1>4
<1>6. Typed'
  BY <1>2, <1>3, <1>5 DEF IInv, Typed, Places
<1>7. \A t \in Sockets : Closed(t)' = Closed(t) /\ Usable(t)' = Usable(t)
  BY <1>2 DEF Closed, Usable
<1>8. ASSUME NEW t \in Sockets PROVE Life(t)'
  BY <1>2, <1>7 DEF Life, IInv
<1>9. ASSUME NEW t \in Sockets PROVE Trace(t)'
  BY <1>2, <1>3, <1>5, TraceKept
<1>10. MainInv'
  BY <1>2, <1>7, <1>1 DEF IInv, MainInv
<1>11. QED
  BY <1>3, <1>6, <1>8, <1>9, <1>10 DEF IInv

LEMMA JoinInv == ASSUME IInv, Join PROVE IInv'
<1>1. PICK s \in Sockets : s = thiz
  BY DEF Join, IInv, MainInv
<1>2. /\ UNCHANGED <<instances, refs, pooled, js, attached, readyState, closeState, conn, failing,
                     functions, restart, events, lost>>
      /\ helper = "ended" /\ helper' = "none" /\ queue' = <<>> /\ deleted' = deleted \cup {s}
      /\ main' = "idle" /\ thiz' = None
  BY <1>1 DEF Join, states, history
<1>3. EventsInOrder' /\ functions' \in Seq(Posts) /\ \A t \in Sockets : Heard(t)' = Heard(t)
  BY <1>2, PostsSame
<1>4. queue' \in Seq(Entries) /\ DOMAIN queue' = {} /\ Range(queue') = {}
  BY <1>2, Nothing
<1>5. Typed'
  BY <1>2, <1>3, <1>4 DEF IInv, Typed, Places
<1>6. \A t \in Sockets : Closed(t)' = Closed(t) /\ Usable(t)' = Usable(t)
  BY <1>2 DEF Closed, Usable
<1>7. ASSUME NEW t \in Sockets PROVE Life(t)'
  BY <1>2, <1>6 DEF Life, IInv
<1>8. ASSUME NEW t \in Sockets PROVE Trace(t)'
  <2>1. Trace(t)
    BY DEF IInv
  <2>2. OnceIn(queue', Request(t)) /\ Request(t) \notin Range(queue')
    BY <1>4 DEF OnceIn
  <2>3. QED
    BY <1>2, <1>3, <2>1, <2>2 DEF Trace
<1>9. MainInv'
  BY <1>2 DEF IInv, MainInv
<1>10. QED
  BY <1>3, <1>5, <1>7, <1>8, <1>9 DEF IInv

LEMMA FinalizeInv == ASSUME IInv, NEW s \in Sockets, Finalize(s) PROVE IInv'
<1>1. /\ UNCHANGED <<instances, deleted, refs, pooled, js, attached, readyState, conn, helper, queue,
                     failing, functions, restart, events, lost>>
      /\ Usable(s) /\ thiz' = s
      /\ \/ closeState' = [closeState EXCEPT ![s] = "async"] /\ main' = "closing to finalize"
         \/ closeState' = closeState /\ main' = "release"
  BY DEF Finalize, Become, objects, thread, history
<1>2. EventsInOrder' /\ functions' \in Seq(Posts) /\ \A t \in Sockets : Heard(t)' = Heard(t)
  BY <1>1, PostsSame
<1>3. Typed'
  BY <1>1, <1>2 DEF IInv, Typed, Places
<1>4. \A t \in Sockets : Closed(t)' = Closed(t) /\ Usable(t)' = Usable(t)
  BY <1>1 DEF Closed, Usable
<1>5. ASSUME NEW t \in Sockets PROVE Life(t)'
  BY <1>1, <1>4 DEF Life, IInv
<1>6. ASSUME NEW t \in Sockets PROVE Trace(t)'
  BY <1>1, <1>2, TraceKept
<1>7. MainInv'
  BY <1>1, <1>4 DEF IInv, MainInv
<1>8. QED
  BY <1>2, <1>3, <1>5, <1>6, <1>7 DEF IInv

(* The finalizer gives up its reference, or hands it to the pool.          *)
LEMMA FinalizeReleaseInv == ASSUME IInv, FinalizeRelease PROVE IInv'
<1>1. PICK s \in Sockets : s = thiz /\ Usable(s)
  BY DEF FinalizeRelease, IInv, MainInv
<1>2. /\ UNCHANGED <<attached, readyState, closeState, conn, queue, failing, functions, restart,
                     events, lost>>
      /\ js' = [js EXCEPT ![s] = "finalized"]
      /\ \/ /\ refs[s] = 1 /\ pooled' = pooled \cup {s} /\ main' = "idle" /\ thiz' = None
            /\ UNCHANGED <<instances, deleted, refs, helper>>
         \/ refs[s] # 1 /\ Release(s) /\ pooled' = pooled
  BY <1>1 DEF FinalizeRelease, Become, states, history
<1>3. EventsInOrder' /\ functions' \in Seq(Posts) /\ \A t \in Sockets : Heard(t)' = Heard(t)
  BY <1>2, PostsSame
<1>4. /\ js' \in [Sockets -> JsStates] /\ js'[s] = "finalized"
      /\ \A t \in Sockets : t # s => js'[t] = js[t]
  BY <1>2 DEF IInv, Typed, JsStates
<1>5. \A t \in Sockets : Closed(t)' = Closed(t) /\ (t # s => Usable(t)' = Usable(t))
  BY <1>2, <1>4 DEF Closed, Usable
<1>6. ~Usable(s)' /\ js[s] # "none" /\ s \notin pooled /\ js[s] # "finalized"
  BY <1>1, <1>4 DEF Usable, IInv, Life
<1>7. refs[s] = 1 + Count(~Closed(s)) /\ (s \in instances <=> refs[s] > 0)
  BY <1>1, <1>6 DEF Life, IInv, Count
<1>8. refs[s] > 0 /\ (refs[s] = 1 <=> Closed(s))
  BY <1>7 DEF Count
<1>9. ASSUME NEW t \in Sockets PROVE Trace(t)'
  BY <1>2, <1>3, <1>4, <1>6, TraceKept
<1>10. CASE refs[s] = 1
  <2>1. /\ pooled' = pooled \cup {s} /\ main' = "idle" /\ thiz' = None
        /\ UNCHANGED <<instances, deleted, refs, helper>>
    BY <1>2, <1>10
  <2>2. Typed'
    BY <1>2, <1>3, <1>4, <2>1 DEF IInv, Typed, Places
  <2>3. Life(s)'
    BY <1>4, <1>5, <1>7, <1>8, <1>10, <2>1 DEF Life, Count
  <2>4. ASSUME NEW t \in Sockets, t # s PROVE Life(t)'
    BY <1>4, <1>5, <2>1, <2>4 DEF Life, IInv
  <2>5. MainInv'
    BY <1>2, <2>1 DEF IInv, MainInv
  <2>6. QED
    BY <1>3, <1>9, <2>2, <2>3, <2>4, <2>5 DEF IInv
<1>11. CASE refs[s] # 1
  <2>1. Release(s) /\ pooled' = pooled
    BY <1>2, <1>11
  <2>2. /\ refs' \in [Sockets -> Int] /\ refs'[s] = refs[s] - 1
        /\ \A t \in Sockets : t # s => refs'[t] = refs[t]
        /\ instances' \subseteq Sockets /\ deleted' \subseteq Sockets
        /\ \A t \in Sockets : t # s => (t \in instances' <=> t \in instances)
        /\ s \in instances' <=> refs'[s] > 0
        /\ main' \in {"idle", "join"} /\ thiz' \in Sockets \cup {None}
        /\ main' # "idle" => thiz' \in Sockets
        /\ helper' = helper \/ helper' = "quitting"
    BY <1>8, <2>1, ReleaseFacts
  <2>3. Typed'
    BY <1>2, <1>3, <1>4, <2>1, <2>2 DEF IInv, Typed, Places
  <2>4. Life(s)'
    BY <1>4, <1>5, <1>6, <1>7, <1>8, <1>11, <2>1, <2>2 DEF Life, Count
  <2>5. ASSUME NEW t \in Sockets, t # s PROVE Life(t)'
    BY <1>4, <1>5, <2>1, <2>2, <2>5 DEF Life, IInv
  <2>6. MainInv'
    BY <1>2, <2>2 DEF IInv, MainInv
  <2>7. QED
    BY <1>3, <1>9, <2>3, <2>4, <2>5, <2>6 DEF IInv
<1>12. QED
  BY <1>10, <1>11

(* The pool gives up the finalizer's.                                      *)
LEMMA ClearPoolInv == ASSUME IInv, NEW s \in Sockets, ClearPool(s) PROVE IInv'
<1>1. /\ UNCHANGED <<js, attached, readyState, closeState, conn, queue, failing, functions, restart,
                     events, lost>>
      /\ s \in pooled /\ pooled' = pooled \ {s} /\ Release(s)
  BY DEF ClearPool, states, history
<1>2. js[s] = "finalized" /\ Closed(s) /\ refs[s] = 1
  BY <1>1 DEF IInv, Life, Count
<1>3. EventsInOrder' /\ functions' \in Seq(Posts) /\ \A t \in Sockets : Heard(t)' = Heard(t)
  BY <1>1, PostsSame
<1>4. /\ refs' \in [Sockets -> Int] /\ refs'[s] = refs[s] - 1
      /\ \A t \in Sockets : t # s => refs'[t] = refs[t]
      /\ instances' \subseteq Sockets /\ deleted' \subseteq Sockets
      /\ \A t \in Sockets : t # s => (t \in instances' <=> t \in instances)
      /\ s \in instances' <=> refs'[s] > 0
      /\ main' \in {"idle", "join"} /\ thiz' \in Sockets \cup {None}
      /\ main' # "idle" => thiz' \in Sockets
      /\ helper' = helper \/ helper' = "quitting"
  BY <1>1, <1>2, ReleaseFacts
<1>5. Typed'
  BY <1>1, <1>3, <1>4 DEF IInv, Typed, Places
<1>6. \A t \in Sockets : Closed(t)' = Closed(t) /\ Usable(t)' = Usable(t)
  BY <1>1 DEF Closed, Usable
<1>7. Life(s)'
  BY <1>1, <1>2, <1>4, <1>6 DEF Life, Count, Usable
<1>8. ASSUME NEW t \in Sockets, t # s PROVE Life(t)'
  BY <1>1, <1>4, <1>6, <1>8 DEF Life, IInv
<1>9. ASSUME NEW t \in Sockets PROVE Trace(t)'
  BY <1>1, <1>3, TraceKept
<1>10. MainInv'
  BY <1>1, <1>4 DEF IInv, MainInv
<1>11. QED
  BY <1>3, <1>5, <1>7, <1>8, <1>9, <1>10 DEF IInv

(* The restart removes the functions.                                      *)
LEMMA RestartVMInv == ASSUME IInv, RestartVM PROVE IInv'
<1>1. /\ UNCHANGED <<instances, deleted, refs, pooled, js, attached, readyState, closeState, conn,
                     helper, queue, failing, main, thiz, events>>
      /\ functions' = <<>> /\ restart' = "running" /\ lost' \subseteq Sockets
  BY DEF RestartVM, objects, states, thread
<1>2. functions' \in Seq(Posts) /\ DOMAIN functions' = {} /\ Range(functions') = {}
  BY <1>1, Nothing
<1>3. EventsInOrder'
  BY <1>1, <1>2 DEF EventsInOrder, IInv
<1>4. \A t \in Sockets : Heard(t)' \subseteq Heard(t)
  BY <1>1, <1>2 DEF Heard, Called
<1>5. Typed'
  BY <1>1, <1>2 DEF IInv, Typed
<1>6. \A t \in Sockets : Closed(t)' = Closed(t) /\ Usable(t)' = Usable(t)
  BY <1>1 DEF Closed, Usable
<1>7. ASSUME NEW t \in Sockets PROVE Life(t)'
  BY <1>1, <1>6 DEF Life, IInv
<1>8. ASSUME NEW t \in Sockets PROVE Trace(t)'
  BY <1>1, <1>4, TraceKept
<1>9. MainInv'
  BY <1>1, <1>6 DEF IInv, MainInv
<1>10. QED
  BY <1>3, <1>5, <1>7, <1>8, <1>9 DEF IInv

LEMMA EndRestartInv == ASSUME IInv, EndRestart PROVE IInv'
<1>1. /\ UNCHANGED <<instances, deleted, refs, pooled, js, attached, readyState, closeState, conn,
                     helper, queue, failing, functions, main, thiz, events, lost>>
      /\ restart' = "done"
  BY DEF EndRestart, objects, states, thread, history
<1>2. EventsInOrder' /\ functions' \in Seq(Posts) /\ \A t \in Sockets : Heard(t)' = Heard(t)
  BY <1>1, PostsSame
<1>3. Typed'
  BY <1>1, <1>2 DEF IInv, Typed
<1>4. \A t \in Sockets : Closed(t)' = Closed(t) /\ Usable(t)' = Usable(t)
  BY <1>1 DEF Closed, Usable
<1>5. ASSUME NEW t \in Sockets PROVE Life(t)'
  BY <1>1, <1>4 DEF Life, IInv
<1>6. ASSUME NEW t \in Sockets PROVE Trace(t)'
  BY <1>1, <1>2, TraceKept
<1>7. MainInv'
  BY <1>1, <1>4 DEF IInv, MainInv
<1>8. QED
  BY <1>2, <1>3, <1>5, <1>6, <1>7 DEF IInv

(* The function of a socket that was destroyed is dropped.                 *)
LEMMA DroppedInv ==
  ASSUME IInv, functions # <<>>, functions' = Tail(functions), RunFunction,
         Head(functions)[2] \in deleted
  PROVE  IInv'
<1>1. UNCHANGED <<instances, deleted, refs, pooled, js, attached, readyState, closeState, conn,
                  helper, queue, failing, main, thiz, restart, events, lost>>
  BY DEF RunFunction, states
<1>2. functions \in Seq(Posts) /\ functions' \in Seq(Posts) /\ events \in [Sockets -> Seq(Methods)]
  BY Taken DEF IInv, Typed
<1>3. ASSUME NEW t \in Sockets
      PROVE  /\ Ordered(events'[t], functions', t)
             /\ Called(events'[t], functions', t) \subseteq Called(events[t], functions, t)
  <2>1. Ordered(events[t], functions, t) /\ events[t] \in Seq(Methods)
    BY <1>2, EventsOrdered DEF IInv
  <2>2. QED
    BY <1>1, <1>2, <2>1, TailOrdered
<1>4. EventsOrdered'
  BY EventsOrdered, PTL
<1>5. EventsInOrder' /\ \A t \in Sockets : Heard(t)' \subseteq Heard(t)
  BY <1>3, <1>4 DEF Heard
<1>6. Typed'
  BY <1>1, <1>2 DEF IInv, Typed
<1>7. \A t \in Sockets : Closed(t)' = Closed(t) /\ Usable(t)' = Usable(t)
  BY <1>1 DEF Closed, Usable
<1>8. ASSUME NEW t \in Sockets PROVE Life(t)'
  BY <1>1, <1>7 DEF Life, IInv
<1>9. ASSUME NEW t \in Sockets PROVE Trace(t)'
  BY <1>1, <1>5, TraceKept
<1>10. MainInv'
  BY <1>1, <1>7 DEF IInv, MainInv
<1>11. QED
  BY <1>5, <1>6, <1>8, <1>9, <1>10 DEF IInv

(* The function of a socket that is there calls the delegate.              *)
LEMMA DeliveredInv ==
  ASSUME IInv, functions # <<>>, functions' = Tail(functions), RunFunction,
         Head(functions)[2] \notin deleted
  PROVE  IInv'
<1>1. /\ functions \in Seq(Posts) /\ functions' \in Seq(Posts) /\ Head(functions) \in Posts
      /\ Head(functions) \in Range(functions) /\ events \in [Sockets -> Seq(Methods)]
  <2>1. functions \in Seq(Posts) /\ events \in [Sockets -> Seq(Methods)]
    BY DEF IInv, Typed
  <2>2. /\ Head(functions) \in Posts /\ Tail(functions) \in Seq(Posts)
        /\ Range(functions) = Range(Tail(functions)) \cup {Head(functions)}
    BY <2>1, Taken
  <2>3. QED
    BY <2>1, <2>2
<1>2. PICK m \in Methods, s \in Sockets : Head(functions)[1] = m /\ Head(functions)[2] = s
  BY <1>1, PostFacts
<1>3. Head(functions) = <<m, s>> /\ m \in Heard(s)
  BY <1>1, <1>2, PostFacts DEF Heard, Called
<1>4. /\ UNCHANGED <<pooled, readyState, closeState, conn, queue, failing, restart, lost>>
      /\ events' = [events EXCEPT ![s] = Append(events[s], m)]
      /\ js' = IF m \in {"error", "close"} /\ Usable(s) THEN [js EXCEPT ![s] = "loose"] ELSE js
      /\ IF m = "close"
         THEN attached' = attached \ {s} /\ Release(s)
         ELSE UNCHANGED <<attached, refs, instances, deleted, helper, main, thiz>>
  BY <1>2 DEF RunFunction, Become, states
<1>5. /\ Ordered(events[s], functions, s) /\ events[s] \in Seq(Methods)
  BY <1>1, EventsOrdered DEF IInv
<1>6. /\ Append(events[s], m) \in Seq(Methods)
      /\ Ordered(Append(events[s], m), functions', s)
      /\ Called(Append(events[s], m), functions', s) = Called(events[s], functions, s)
      /\ Range(Append(events[s], m)) = Range(events[s]) \cup {m}
  BY <1>1, <1>2, <1>5, RunOrdered
<1>7. PICK e \in Seq(Methods) : e = Append(events[s], m)
  BY <1>6
<1>8. /\ events' \in [Sockets -> Seq(Methods)] /\ events'[s] = e
      /\ \A t \in Sockets : t # s => events'[t] = events[t]
  <2>1. events' = [events EXCEPT ![s] = e]
    BY <1>4, <1>7
  <2>2. QED
    BY <1>1, <2>1
<1>9. ASSUME NEW t \in Sockets
      PROVE  /\ Ordered(events'[t], functions', t)
             /\ Called(events'[t], functions', t) \subseteq Called(events[t], functions, t)
  <2>1. CASE t = s
    BY <1>6, <1>7, <1>8, <2>1
  <2>2. CASE t # s
    <3>1. Ordered(events[t], functions, t) /\ events[t] \in Seq(Methods) /\ events'[t] = events[t]
      BY <1>1, <1>8, <2>2, EventsOrdered DEF IInv
    <3>2. QED
      BY <1>1, <3>1, TailOrdered
  <2>3. QED
    BY <2>1, <2>2
<1>10. EventsOrdered'
  BY EventsOrdered, PTL
<1>11. EventsInOrder' /\ \A t \in Sockets : Heard(t)' \subseteq Heard(t)
  BY <1>9, <1>10 DEF Heard
<1>12. /\ js' \in [Sockets -> JsStates] /\ \A t \in Sockets : Usable(t)' = Usable(t)
       /\ \A t \in Sockets : (js'[t] = "none" <=> js[t] = "none")
       /\ \A t \in Sockets : (js'[t] = "finalized" <=> js[t] = "finalized")
  <2>1. js \in [Sockets -> JsStates] /\ "loose" \in JsStates
    BY DEF IInv, Typed, JsStates
  <2>2. CASE js' = js
    BY <2>1, <2>2 DEF Usable
  <2>3. CASE js' = [js EXCEPT ![s] = "loose"] /\ Usable(s)
    <3>1. /\ js' \in [Sockets -> JsStates] /\ js'[s] = "loose"
          /\ \A t \in Sockets : t # s => js'[t] = js[t]
      BY <2>1, <2>3
    <3>2. QED
      BY <2>3, <3>1 DEF Usable
  <2>4. QED
    BY <1>4, <2>2, <2>3
<1>13. /\ Closed(s)' <=> Closed(s) \/ m = "close"
       /\ \A t \in Sockets : t # s => Closed(t)' = Closed(t)
  BY <1>6, <1>7, <1>8 DEF Closed
<1>14. ASSUME NEW t \in Sockets PROVE Trace(t)'
  BY <1>4, <1>11, <1>12, TraceKept
<1>15. CASE m # "close"
  <2>1. UNCHANGED <<attached, refs, instances, deleted, helper, main, thiz>>
    BY <1>4, <1>15
  <2>2. Typed'
    BY <1>1, <1>4, <1>8, <1>12, <2>1 DEF IInv, Typed
  <2>3. ASSUME NEW t \in Sockets PROVE Life(t)'
    BY <1>4, <1>12, <1>13, <1>15, <2>1 DEF Life, IInv
  <2>4. MainInv'
    BY <1>4, <1>12, <2>1 DEF IInv, MainInv
  <2>5. QED
    BY <1>11, <1>14, <2>2, <2>3, <2>4 DEF IInv
<1>16. CASE m = "close"
  <2>1. attached' = attached \ {s} /\ Release(s)
    BY <1>4, <1>16
  (* It is called once: another would have come before this one.           *)
  <2>2. ~Closed(s)
    <3>1. 1 \in DOMAIN functions /\ functions[1] = <<m, s>>
      BY <1>1, <1>3, Taken, LenProperties
    <3>2. ASSUME NEW i \in DOMAIN events[s] PROVE events[s][i] # "close"
      BY <1>5, <3>1 DEF Ordered, MayFollow
    <3>3. QED
      BY <1>5, <3>2, SeqFacts DEF Closed
  <2>3. js[s] # "none"
    BY <1>3, NotMade
  <2>4. /\ s \notin pooled /\ refs[s] = Count(Usable(s)) + 1
    BY <2>2, <2>3 DEF IInv, Life, Count
  <2>5. refs[s] > 0
    BY <2>4 DEF Count
  <2>6. /\ refs' \in [Sockets -> Int] /\ refs'[s] = refs[s] - 1
        /\ \A t \in Sockets : t # s => refs'[t] = refs[t]
        /\ instances' \subseteq Sockets /\ deleted' \subseteq Sockets
        /\ \A t \in Sockets : t # s => (t \in instances' <=> t \in instances)
        /\ s \in instances' <=> refs'[s] > 0
        /\ main' \in {"idle", "join"} /\ thiz' \in Sockets \cup {None}
        /\ main' # "idle" => thiz' \in Sockets
        /\ helper' = helper \/ helper' = "quitting"
    BY <2>1, <2>5, ReleaseFacts
  <2>7. Typed'
    BY <1>1, <1>4, <1>8, <1>12, <2>1, <2>6 DEF IInv, Typed, Places
  <2>8. Life(s)'
    BY <1>4, <1>12, <1>13, <1>16, <2>2, <2>3, <2>4, <2>6 DEF Life, Count
  <2>9. ASSUME NEW t \in Sockets, t # s PROVE Life(t)'
    BY <1>4, <1>12, <1>13, <2>6, <2>9 DEF Life, IInv
  <2>10. MainInv'
    BY <1>4, <2>6 DEF IInv, MainInv
  <2>11. QED
    BY <1>11, <1>14, <2>7, <2>8, <2>9, <2>10 DEF IInv
<1>17. QED
  BY <1>15, <1>16

LEMMA RunFunctionInv == ASSUME IInv, RunFunction PROVE IInv'
<1>1. functions # <<>> /\ functions' = Tail(functions)
  BY DEF RunFunction
<1>2. QED
  BY <1>1, DroppedInv, DeliveredInv

------------------------------------------------------------------------------
(* Every step keeps the invariant.                                         *)

LEMMA InitInv == Init => IInv
<1> SUFFICES ASSUME Init PROVE IInv
  OBVIOUS
<1>1. /\ queue \in Seq(Entries) /\ DOMAIN queue = {} /\ Range(queue) = {}
      /\ functions \in Seq(Posts) /\ DOMAIN functions = {} /\ Range(functions) = {}
  BY Nothing DEF Init
<1>2. \A s \in Sockets : events[s] \in Seq(Methods) /\ DOMAIN events[s] = {} /\ Range(events[s]) = {}
  BY Nothing DEF Init
<1>3. Typed
  <2>1. <<>> \in Seq(Methods)
    BY Nothing
  <2>2. events \in [Sockets -> Seq(Methods)]
    BY <2>1 DEF Init
  <2>3. refs = [s \in Sockets |-> 0]
    BY DEF Init
  <2>4. refs \in [Sockets -> Int]
    BY <2>3
  <2>5. closeState \in [Sockets -> {"none", "async"}]
    BY DEF Init
  <2>6. js \in [Sockets -> JsStates] /\ conn \in [Sockets -> Connections]
    BY DEF Init, JsStates, Connections
  <2>7. readyState \in [Sockets -> ReadyStates]
    BY DEF Init, ReadyStates
  <2>8. QED
    BY <1>1, <2>2, <2>4, <2>5, <2>6, <2>7 DEF Init, Typed, Places
<1>4. EventsInOrder
  BY <1>1, <1>2 DEF EventsInOrder
<1>5. ASSUME NEW s \in Sockets PROVE Life(s) /\ Trace(s)
  <2>1. /\ js[s] = "none" /\ refs[s] = 0 /\ instances = {} /\ pooled = {} /\ conn[s] = "none"
        /\ readyState[s] = "connecting" /\ failing = None
    BY DEF Init
  <2>2. Heard(s) = {} /\ ~Closed(s)
    BY <1>1, <1>2 DEF Heard, Called, Closed
  <2>3. OnceIn(queue, Request(s))
    BY <1>1 DEF OnceIn
  <2>4. Life(s)
    BY <2>1, <2>2 DEF Life, Count, Usable
  <2>5. QED
    BY <1>1, <2>1, <2>2, <2>3, <2>4, NoneIsNone DEF Trace
<1>6. MainInv
  BY DEF Init, MainInv
<1>7. QED
  BY <1>3, <1>4, <1>5, <1>6 DEF IInv

LEMMA NextInv == IInv /\ [Next]_vars => IInv'
<1> SUFFICES ASSUME IInv, [Next]_vars PROVE IInv'
  OBVIOUS
<1>1. ASSUME NEW s \in Sockets, Construct(s) \/ CloseAsync(s) \/ Finalize(s) PROVE IInv'
  BY <1>1, ConstructInv, CloseAsyncInv, FinalizeInv
<1>2. ASSUME NEW s \in Sockets, NEW m \in Messages, Send(s, m) PROVE IInv'
  BY <1>2, SendInv
<1>3. ASSUME NEW s \in Sockets, HelperThread(s) PROVE IInv'
  BY <1>3, OpenConnectionInv, ConnectionOpenedInv, ConnectionErrorInv, ClientWritableInv, WsiDestroyInv
     DEF HelperThread
<1>4. ASSUME NEW s \in Sockets, ClientReceivedData(s) \/ PeerCloses(s) PROVE IInv'
  BY <1>4, ClientReceivedDataInv, PeerClosesInv
<1>5. ASSUME MainThread PROVE IInv'
  BY <1>5, MarkClosingInv, JoinInv, FinalizeReleaseInv, ClearPoolInv, RunFunctionInv, EndRestartInv,
     FinalizeInv DEF MainThread
<1>6. CASE UNCHANGED vars
  <2>1. UNCHANGED <<instances, deleted, refs, pooled, js, attached, readyState, closeState, conn,
                    helper, queue, failing, functions, main, thiz, restart, events, lost>>
    BY <1>6 DEF vars, objects, states, thread, mainThread, history
  <2>2. EventsInOrder' /\ \A t \in Sockets : Heard(t)' = Heard(t)
    BY <2>1, PostsSame
  <2>3. \A t \in Sockets : Closed(t)' = Closed(t) /\ Usable(t)' = Usable(t)
    BY <2>1 DEF Closed, Usable
  <2>4. \A t \in Sockets : Life(t)' = Life(t)
    BY <2>1, <2>3 DEF Life
  <2>5. ASSUME NEW t \in Sockets PROVE Trace(t)'
    BY <2>1, <2>2, TraceKept
  <2>6. Typed' /\ MainInv'
    BY <2>1, <2>3 DEF IInv, Typed, MainInv
  <2>7. QED
    BY <2>2, <2>4, <2>5, <2>6 DEF IInv
<1>7. QED
  BY <1>1, <1>2, <1>3, <1>4, <1>5, <1>6, RestartVMInv, ConnectionClosedInv, SubThreadEndedInv DEF Next

(* IInv, with its counting of the references and its account of how far a  *)
(* connection is, holds of every state of the sockets.                     *)
THEOREM Invariance == Spec => []IInv
<1>1. Init => IInv
  BY InitInv
<1>2. IInv /\ [Next]_vars => IInv'
  BY NextInv
<1>3. QED
  BY <1>1, <1>2, PTL DEF Spec

(* The delegate of a socket is called in the order of its life, onClose    *)
(* last and once: sendMessageToCocosThread posts the functions under the   *)
(* conditions of _readyState, and Scheduler::update runs them.             *)
THEOREM EventsOrderly == Spec => []EventsInOrder
<1>1. IInv => EventsInOrder
  BY DEF IInv
<1>2. QED
  BY <1>1, Invariance, PTL

(* Nothing is left of a socket that the destructor has removed from        *)
(* websocketInstances: no function, no connection that is served, and no   *)
(* request in the helper's queue.                                          *)
THEOREM DeletedIsSilent == Spec => []DeletedSilent
<1>1. IInv => DeletedSilent
  <2> SUFFICES ASSUME IInv, NEW s \in Sockets, s \notin instances, js[s] # "none"
               PROVE  /\ \A i \in DOMAIN functions : functions[i][2] # s
                      /\ conn[s] \in {"failing", "gone"}
                      /\ Request(s) \notin Range(queue)
    BY DEF DeletedSilent
  <2>1. /\ functions \in Seq(Posts) /\ events[s] \in Seq(Methods) /\ Trace(s)
    BY DEF IInv, Typed
  <2>2. Closed(s)
    BY DEF IInv, Life, Count
  <2>3. PICK i \in DOMAIN events[s] : events[s][i] = "close"
    BY <2>1, <2>2, SeqFacts DEF Closed
  <2>4. ASSUME NEW j \in DOMAIN functions, functions[j][2] = s PROVE FALSE
    BY <2>3, <2>4, EventsOrdered DEF IInv, Ordered, MayFollow
  <2>5. conn[s] \in {"failing", "gone"}
    BY <2>1, <2>2, ClosedHeard DEF Trace
  <2>6. QED
    BY <2>1, <2>4, <2>5 DEF Trace
<1>2. QED
  BY <1>1, Invariance, PTL

------------------------------------------------------------------------------
(* The fragments of the messages sent.                                     *)

LEMMA Product ==
  ASSUME NEW F \in Nat, NEW a \in Int, NEW b \in Int, a < b
  PROVE  F * a + F <= F * b
<1>1. F * (b - a - 1) >= 0
  OBVIOUS
<1>2. F * (b - a - 1) = F * b - F * a - F
  OBVIOUS
<1>3. QED
  BY <1>1, <1>2

LEMMA Divided ==
  ASSUME NEW F \in Nat \ {0}, NEW x \in Nat
  PROVE  x \div F \in Nat /\ x % F \in 0..(F - 1) /\ x = F * (x \div F) + (x % F)
OBVIOUS

LEMMA DividedOnce ==
  ASSUME NEW F \in Nat \ {0}, NEW d \in Nat, NEW p \in 0..(F - 1)
  PROVE  /\ F * d + p \in Nat
         /\ (F * d + p) \div F = d /\ (F * d + p) % F = p
<1> DEFINE x == F * d + p
<1>1. x \in Nat
  OBVIOUS
<1> HIDE DEF x
<1>2. PICK a \in Nat, r \in 0..(F - 1) : a = x \div F /\ r = x % F /\ x = F * a + r
  BY <1>1, Divided
<1>3. F * a + r = F * d + p
  BY <1>2 DEF x
<1>4. ~(a < d)
  <2>1. ASSUME a < d PROVE F * a + F <= F * d
    BY <2>1, Product
  <2>2. QED
    BY <1>3, <2>1
<1>5. ~(d < a)
  <2>1. ASSUME d < a PROVE F * d + F <= F * a
    BY <2>1, Product
  <2>2. QED
    BY <1>3, <2>1
<1>6. a = d /\ r = p
  BY <1>3, <1>4, <1>5
<1>7. QED
  BY <1>1, <1>2, <1>6 DEF x

(* The fragment number i of the messages q.                                *)
Piece(q, i) == <<q[1 + ((i - 1) \div Fragments)], 1 + ((i - 1) % Fragments)>>

LEMMA PieceAt ==
  ASSUME NEW q, NEW d \in Nat, NEW p \in 0..(Fragments - 1)
  PROVE  Piece(q, Fragments * d + p + 1) = <<q[d + 1], p + 1>>
<1>1. Fragments \in Nat \ {0}
  BY WebSocketAssumption
<1>2. PICK x \in Nat : x = Fragments * d + p /\ x \div Fragments = d /\ x % Fragments = p
  BY <1>1, DividedOnce
<1>3. (Fragments * d + p + 1) - 1 = x
  BY <1>1, <1>2
<1>4. QED
  BY <1>2, <1>3 DEF Piece

LEMMA PieceOf ==
  ASSUME NEW n \in Nat, NEW i \in 1..(Fragments * n)
  PROVE  1 + ((i - 1) \div Fragments) \in 1..n
<1>1. Fragments \in Nat \ {0} /\ i - 1 \in Nat
  BY WebSocketAssumption
<1>2. PICK x \in Nat : x = i - 1
  BY <1>1
<1>3. PICK a \in Nat, r \in 0..(Fragments - 1) : a = x \div Fragments /\ x = Fragments * a + r
  BY <1>1, Divided
<1>4. a < n
  <2>1. CASE n < a
    <3>1. Fragments * n + Fragments <= Fragments * a
      BY <1>1, <2>1, Product
    <3>2. QED
      BY <1>1, <1>2, <1>3, <3>1
  <2>2. CASE n = a
    BY <1>1, <1>2, <1>3, <2>2
  <2>3. QED
    BY <2>1, <2>2
<1>5. QED
  BY <1>2, <1>3, <1>4

(* The fragments w are the first of those of the messages q.               *)
Begins(w, q) ==
  /\ Len(w) <= Fragments * Len(q)
  /\ \A i \in 1..Len(w) : w[i] = Piece(q, i)

LEMMA BeginsPrefix ==
  ASSUME NEW w \in Seq(Messages \X (1..Fragments)), NEW q \in Seq(Messages), Begins(w, q)
  PROVE  IsPrefix(w, Wire(q))
<1>1. PICK n \in Nat : n = Len(q)
  BY LenProperties
<1>2. PICK k \in Nat : k = Len(w) /\ k <= Fragments * n /\ DOMAIN w = 1..k
  BY <1>1, LenProperties DEF Begins
<1>3. PICK f \in Nat : f = Fragments * n
  BY <1>1, WebSocketAssumption
<1> DEFINE v == Wire(q)
<1>4. v = [i \in 1..f |-> Piece(q, i)]
  BY <1>1, <1>3 DEF Wire, Piece
<1> HIDE DEF v
<1>5. /\ v \in Seq(Messages \X Nat) /\ Len(v) = f
      /\ \A i \in 1..f : v[i] = Piece(q, i)
  <2>1. ASSUME NEW i \in 1..f PROVE Piece(q, i) \in Messages \X Nat
    <3>1. 1 + ((i - 1) \div Fragments) \in 1..n
      BY <1>3, <2>1, PieceOf
    <3>2. i - 1 \in Nat /\ Fragments \in Nat \ {0}
      BY WebSocketAssumption
    <3>3. (i - 1) % Fragments \in Nat
      BY <3>2, Divided
    <3>4. q[1 + ((i - 1) \div Fragments)] \in Messages
      BY <1>1, <3>1, LenProperties
    <3>5. QED
      BY <3>3, <3>4 DEF Piece
  <2>2. v \in [1..f -> Messages \X Nat]
    BY <1>4, <2>1
  <2>3. v \in Seq(Messages \X Nat)
    BY <2>2, SeqDef
  <2>4. Len(v) = f
    BY <2>2, <2>3, LenProperties
  <2>5. QED
    BY <1>4, <2>3, <2>4
<1>6. /\ SubSeq(v, 1, k) \in Seq(Messages \X Nat) /\ Len(SubSeq(v, 1, k)) = k
      /\ \A i \in 1..k : SubSeq(v, 1, k)[i] = v[i]
  BY <1>2, <1>3, <1>5, SubSeqProperties
<1>7. /\ SubSeq(w, 1, k) \in Seq(Messages \X (1..Fragments)) /\ Len(SubSeq(w, 1, k)) = k
      /\ \A i \in 1..k : SubSeq(w, 1, k)[i] = w[i]
  BY <1>2, SubSeqProperties
<1>8. \A i \in 1..k : w[i] = v[i]
  BY <1>2, <1>3, <1>5 DEF Begins
<1>9. SubSeq(w, 1, k) = SubSeq(v, 1, k)
  BY <1>6, <1>7, <1>8, SeqEqual
<1>10. QED
  BY <1>2, <1>3, <1>5, <1>9 DEF IsPrefix, v

------------------------------------------------------------------------------
(* The messages of the queue.                                              *)

Increasing(q) ==
  \A i, j \in DOMAIN q :
    i < j /\ q[i].what = "send" /\ q[j].what = "send" => q[i].data < q[j].data

DataIn(q, s) == {m \in Messages : Message(s, m) \in Range(q)}

LEMMA MessageNumbers == \A m \in Messages : m \in Nat /\ m >= 1
BY WebSocketAssumption DEF Messages

LEMMA MessageIs ==
  /\ \A s \in Sockets, t \in Sockets, m \in Messages : Request(t) # Message(s, m)
  /\ \A s \in Sockets, t \in Sockets, m \in Messages, k \in Messages :
       Message(s, m) = Message(t, k) <=> s = t /\ m = k
BY EntryFacts

(* A request changes nothing of them.                                      *)
LEMMA RequestIncreasing ==
  ASSUME NEW q \in Seq(Entries), NEW s \in Sockets, Increasing(q)
  PROVE  /\ Increasing(Append(q, Request(s)))
         /\ \A t \in Sockets : DataIn(Append(q, Request(s)), t) = DataIn(q, t)
<1>1. PICK n \in Nat : n = Len(q)
  BY LenProperties
<1> DEFINE r == Append(q, Request(s))
<1>2. /\ DOMAIN q = 1..n /\ DOMAIN r = 1..(n + 1)
      /\ \A i \in 1..n : r[i] = q[i]
      /\ r[n + 1] = Request(s)
      /\ Range(r) = Range(q) \cup {Request(s)}
  BY <1>1, EntryFacts, Appended, LenProperties
<1> HIDE DEF r
<1>3. r[n + 1].what # "send"
  BY <1>2, EntryFacts
<1>4. \A i \in 1..(n + 1) : i \in 1..n \/ i = n + 1
  OBVIOUS
<1>5. Increasing(r)
  BY <1>2, <1>3, <1>4 DEF Increasing
<1>6. \A t \in Sockets : DataIn(r, t) = DataIn(q, t)
  BY <1>2, MessageIs DEF DataIn
<1>7. QED
  BY <1>5, <1>6 DEF r

LEMMA MessageIncreasing ==
  ASSUME NEW q \in Seq(Entries), NEW s \in Sockets, NEW m \in Messages, Increasing(q),
         \A i \in DOMAIN q : q[i].what = "send" => q[i].data < m
  PROVE  /\ Increasing(Append(q, Message(s, m)))
         /\ \A t \in Sockets :
              DataIn(Append(q, Message(s, m)), t) = DataIn(q, t) \cup (IF t = s THEN {m} ELSE {})
<1>1. PICK n \in Nat : n = Len(q)
  BY LenProperties
<1> DEFINE r == Append(q, Message(s, m))
<1>2. /\ DOMAIN q = 1..n /\ DOMAIN r = 1..(n + 1)
      /\ \A i \in 1..n : r[i] = q[i]
      /\ r[n + 1] = Message(s, m)
      /\ Range(r) = Range(q) \cup {Message(s, m)}
  BY <1>1, EntryFacts, Appended, LenProperties
<1> HIDE DEF r
<1>3. r[n + 1].data = m
  BY <1>2, EntryFacts
<1>4. \A i \in 1..(n + 1) : i \in 1..n \/ i = n + 1
  OBVIOUS
<1>5. Increasing(r)
  <2>1. ASSUME NEW i \in 1..(n + 1), NEW j \in 1..(n + 1), i < j,
               r[i].what = "send", r[j].what = "send"
        PROVE  r[i].data < r[j].data
    <3>1. i \in 1..n /\ r[i] = q[i]
      BY <1>2, <1>4, <2>1
    <3>2. CASE j \in 1..n
      BY <1>2, <2>1, <3>1, <3>2 DEF Increasing
    <3>3. CASE j = n + 1
      BY <1>2, <1>3, <2>1, <3>1, <3>3
    <3>4. QED
      BY <1>4, <3>2, <3>3
  <2>2. QED
    BY <1>2, <2>1 DEF Increasing
<1>6. \A t \in Sockets : DataIn(r, t) = DataIn(q, t) \cup (IF t = s THEN {m} ELSE {})
  BY <1>2, MessageIs DEF DataIn
<1>7. QED
  BY <1>5, <1>6 DEF r

LEMMA RemovedIncreasing ==
  ASSUME NEW q \in Seq(Entries), NEW i \in 1..Len(q), Increasing(q)
  PROVE  /\ Increasing(RemoveAt(q, i))
         /\ Range(q) \ {q[i]} \subseteq Range(RemoveAt(q, i))
         /\ q[i].what = "send" => q[i] \notin Range(RemoveAt(q, i))
<1>1. PICK n \in Nat : n = Len(q)
  BY LenProperties
<1> DEFINE r == RemoveAt(q, i)
<1>2. /\ r \in Seq(Entries) /\ Len(r) = n - 1
      /\ \A j \in 1..(n - 1) : r[j] = IF j < i THEN q[j] ELSE q[j + 1]
  BY <1>1, Removed
<1>3. DOMAIN q = 1..n /\ \A x : x \in Range(q) <=> \E j \in 1..n : q[j] = x
  BY <1>1, SeqFacts
<1> HIDE DEF r
<1>4. DOMAIN r = 1..(n - 1) /\ \A x : x \in Range(r) <=> \E j \in 1..(n - 1) : r[j] = x
  <2>1. DOMAIN r = 1..Len(r) /\ \A x : x \in Range(r) <=> \E j \in 1..Len(r) : r[j] = x
    BY <1>2, SeqFacts
  <2>2. QED
    BY <1>2, <2>1
<1> DEFINE old(j) == IF j < i THEN j ELSE j + 1
           new(j) == IF j < i THEN j ELSE j - 1
<1>5. \A j \in 1..(n - 1) : old(j) \in 1..n /\ old(j) # i /\ r[j] = q[old(j)]
  BY <1>1, <1>2
<1>6. \A j, k \in 1..(n - 1) : j < k => old(j) < old(k)
  OBVIOUS
<1>7. \A j \in 1..n : j # i => new(j) \in 1..(n - 1) /\ old(new(j)) = j
  BY <1>1
<1> HIDE DEF old, new
<1>8. Increasing(r)
  BY <1>3, <1>4, <1>5, <1>6 DEF Increasing
<1>9. ASSUME NEW x \in Range(q), x # q[i] PROVE x \in Range(r)
  <2>1. PICK j \in 1..n : q[j] = x
    BY <1>3
  <2>2. j # i
    BY <1>9, <2>1
  <2>3. new(j) \in 1..(n - 1) /\ r[new(j)] = x
    BY <1>5, <1>7, <2>1, <2>2
  <2>4. QED
    BY <1>4, <2>3
<1>10. ASSUME q[i].what = "send", q[i] \in Range(r) PROVE FALSE
  <2>1. PICK j \in 1..(n - 1) : r[j] = q[i]
    BY <1>4, <1>10
  <2>2. PICK k \in 1..n : k # i /\ q[k] = q[i]
    BY <1>5, <2>1
  <2>3. q[i] \in Entries /\ i \in 1..n
    BY <1>1, SeqFacts
  <2>4. q[i].data \in Messages
    BY <1>10, <2>3, EntryFacts
  <2>5. k < i \/ i < k
    BY <2>2
  <2>6. q[i].data < q[i].data
    BY <1>3, <1>10, <2>2, <2>3, <2>5 DEF Increasing
  <2>7. QED
    BY <2>4, <2>6, MessageNumbers
<1>11. QED
  BY <1>8, <1>9, <1>10 DEF r

------------------------------------------------------------------------------
(* How far the messages of a socket are.                                   *)

(* A message is numbered when it is sent.                                  *)
Numbered ==
  /\ \A s \in Sockets : \A i, j \in DOMAIN sent[s] : i < j => sent[s][i] < sent[s][j]
  /\ \A s, t \in Sockets : s # t => Range(sent[s]) \cap Range(sent[t]) = {}
  /\ \A m \in Messages : (\A s \in Sockets : m \notin Range(sent[s])) => issued[m] = 0

(* The first d of them are over, and the next is being written.            *)
Going(s, d) ==
  LET n == Len(sent[s])
  IN  /\ DataIn(queue, s) = {sent[s][i] : i \in (d + 1)..n}
      /\ \A i \in (d + 2)..n : issued[sent[s][i]] = 0
      /\ d < n => issued[sent[s][d + 1]] < Fragments
      /\ Len(wire[s]) = Fragments * d + (IF d < n THEN issued[sent[s][d + 1]] ELSE 0)

Carried(s) ==
  /\ conn[s] \in {"none", "handshake"} => wire[s] = <<>> /\ sent[s] = <<>>
  /\ DataIn(queue, s) \subseteq Range(sent[s])
  /\ Begins(wire[s], sent[s])
  /\ conn[s] = "up" => \E d \in 0..Len(sent[s]) : Going(s, d)

MInv ==
  /\ issued \in [Messages -> 0..Fragments]
  /\ sent \in [Sockets -> Seq(Messages)]
  /\ wire \in [Sockets -> Seq(Messages \X (1..Fragments))]
  /\ Numbered
  /\ Increasing(queue)
  /\ \A s \in Sockets : Carried(s)

(* A step that neither sends a message nor writes one.                     *)
LEMMA MessagesKept ==
  ASSUME MInv, UNCHANGED <<issued, sent, wire>>, Increasing(queue'),
         \A t \in Sockets :
           /\ DataIn(queue', t) \subseteq DataIn(queue, t)
           /\ conn'[t] \in {"none", "handshake"} => conn[t] \in {"none", "handshake"}
           /\ conn'[t] = "up" =>
                conn[t] \in {"up", "handshake"} /\ DataIn(queue', t) = DataIn(queue, t)
  PROVE  MInv'
<1>1. ASSUME NEW t \in Sockets PROVE Carried(t)'
  <2>1. Carried(t)
    BY DEF MInv
  <2>2. ASSUME conn'[t] = "up" PROVE \E d \in 0..Len(sent'[t]) : Going(t, d)'
    <3>1. CASE conn[t] = "up"
      <4>1. PICK d \in 0..Len(sent[t]) : Going(t, d)
        BY <2>1, <3>1 DEF Carried
      <4>2. DataIn(queue', t) = DataIn(queue, t)
        BY <2>2
      <4>3. Going(t, d)'
        BY <4>1, <4>2 DEF Going
      <4>4. QED
        BY <4>1, <4>3
    <3>2. CASE conn[t] = "handshake"
      <4>1. /\ sent[t] = <<>> /\ wire[t] = <<>> /\ sent'[t] = sent[t] /\ wire'[t] = wire[t]
            /\ DataIn(queue', t) \subseteq Range(sent[t])
        BY <2>1, <3>2 DEF Carried
      <4>2. DataIn(queue', t) = {} /\ Len(sent'[t]) = 0 /\ Len(wire'[t]) = 0
        BY <4>1, Nothing
      <4>3. {sent'[t][i] : i \in (0 + 1)..0} = {} /\ (0 + 2)..0 = {}
        OBVIOUS
      <4>4. Fragments * 0 = 0
        BY WebSocketAssumption
      <4>5. Going(t, 0)'
        BY <4>2, <4>3, <4>4 DEF Going
      <4>6. 0 \in 0..Len(sent'[t])
        BY <4>2
      <4>7. QED
        BY <4>5, <4>6
    <3>3. QED
      BY <2>2, <3>1, <3>2
  <2>3. /\ conn'[t] \in {"none", "handshake"} => wire'[t] = <<>> /\ sent'[t] = <<>>
        /\ DataIn(queue', t) \subseteq Range(sent'[t])
        /\ Begins(wire'[t], sent'[t])
    BY <2>1 DEF Carried
  <2>4. QED
    BY <2>2, <2>3 DEF Carried
<1>2. QED
  BY <1>1 DEF MInv, Numbered

(* One that leaves the queue and does not make connections.                *)
LEMMA QueueKept ==
  ASSUME MInv, UNCHANGED <<queue, issued, sent, wire>>,
         \A t \in Sockets :
           /\ conn'[t] \in {"none", "handshake"} => conn[t] \in {"none", "handshake"}
           /\ conn'[t] = "up" => conn[t] \in {"up", "handshake"}
  PROVE  MInv'
BY MessagesKept DEF MInv

(* The message that onClientWritable takes.                                *)
LEMMA FirstMessage ==
  ASSUME IInv, MInv, NEW s \in Sockets, First(s) # 0, conn[s] \in {"up", "broken"}
  PROVE  \E m \in Messages :
           /\ queue[First(s)] = Message(s, m) /\ queue[First(s)].data = m
           /\ m \in DataIn(queue, s) /\ \A k \in DataIn(queue, s) : m <= k
           /\ Increasing(RemoveAt(queue, First(s)))
           /\ DataIn(RemoveAt(queue, First(s)), s) = DataIn(queue, s) \ {m}
           /\ \A t \in Sockets : t # s =>
                DataIn(RemoveAt(queue, First(s)), t) = DataIn(queue, t)
<1>1. /\ queue \in Seq(Entries) /\ Request(s) \notin Range(queue) /\ Increasing(queue)
      /\ First(s) \in 1..Len(queue) /\ queue[First(s)].user = s
      /\ \A j \in 1..Len(queue) : queue[j].user = s => First(s) <= j
  BY FirstFacts DEF IInv, Typed, Trace, MInv
<1>2. PICK f \in 1..Len(queue) : f = First(s)
  BY <1>1
<1>3. queue[f] \in Entries /\ queue[f] \in Range(queue) /\ Len(queue) \in Nat /\ DOMAIN queue = 1..Len(queue)
  BY <1>1, SeqFacts
<1>4. PICK m \in Messages : m = queue[f].data /\ queue[f] = Message(s, m) /\ queue[f].what = "send"
  BY <1>1, <1>2, <1>3, EntryFacts
<1>5. m \in DataIn(queue, s)
  BY <1>3, <1>4 DEF DataIn
<1>6. ASSUME NEW k \in DataIn(queue, s) PROVE m <= k
  <2>1. k \in Messages /\ Message(s, k) \in Range(queue)
    BY DEF DataIn
  <2>2. PICK j \in 1..Len(queue) : queue[j] = Message(s, k)
    BY <1>1, <2>1, SeqFacts
  <2>3. queue[j].user = s /\ queue[j].data = k /\ queue[j].what = "send"
    BY <2>1, <2>2, EntryFacts
  <2>4. f <= j
    BY <1>1, <1>2, <2>3
  <2>5. CASE f = j
    <3>1. m = k
      BY <1>4, <2>3, <2>5
    <3>2. k \in Nat
      BY <2>1, MessageNumbers
    <3>3. QED
      BY <3>1, <3>2
  <2>6. CASE f < j
    <3>1. m < k
      BY <1>1, <1>3, <1>4, <2>2, <2>3, <2>6 DEF Increasing
    <3>2. QED
      BY <2>1, <3>1, MessageNumbers
  <2>7. QED
    BY <2>4, <2>5, <2>6
<1>7. /\ Increasing(RemoveAt(queue, f))
      /\ Range(queue) \ {queue[f]} \subseteq Range(RemoveAt(queue, f))
      /\ queue[f] \notin Range(RemoveAt(queue, f))
      /\ Range(RemoveAt(queue, f)) \subseteq Range(queue)
  BY <1>1, <1>4, RemovedIncreasing, RemovedOnce
<1>8. DataIn(RemoveAt(queue, f), s) = DataIn(queue, s) \ {m}
  BY <1>4, <1>7, MessageIs DEF DataIn
<1>9. \A t \in Sockets : t # s => DataIn(RemoveAt(queue, f), t) = DataIn(queue, t)
  BY <1>4, <1>7, MessageIs DEF DataIn
<1>10. QED
  BY <1>2, <1>4, <1>5, <1>6, <1>7, <1>8, <1>9

LEMMA SendMessage ==
  ASSUME IInv, MInv, NEW s \in Sockets, NEW m \in Messages, Send(s, m)
  PROVE  MInv'
<1>1. /\ UNCHANGED <<conn, issued, wire>> /\ readyState[s] = "open"
      /\ 1..(m - 1) = UNION {Range(sent[t]) : t \in Sockets}
      /\ queue' = Append(queue, Message(s, m))
      /\ sent' = [sent EXCEPT ![s] = Append(sent[s], m)]
  BY DEF Send, Become
<1>2. /\ queue \in Seq(Entries) /\ Increasing(queue) /\ Trace(s)
      /\ conn[s] \notin {"none", "handshake"}
  BY <1>1 DEF IInv, Typed, MInv, Trace
<1>3. PICK n \in Nat : n = Len(sent[s])
  BY LenProperties DEF MInv
<1>4. PICK r \in Seq(Messages) : r = Append(sent[s], m)
  BY AppendProperties DEF MInv
<1>5. /\ sent[s] \in Seq(Messages) /\ DOMAIN sent[s] = 1..n /\ DOMAIN r = 1..(n + 1)
      /\ Len(r) = n + 1
      /\ \A i \in 1..n : r[i] = sent[s][i]
      /\ r[n + 1] = m
      /\ Range(r) = Range(sent[s]) \cup {m}
  <2>1. sent[s] \in Seq(Messages)
    BY DEF MInv
  <2>2. QED
    BY <1>3, <1>4, <2>1, Appended, LenProperties
<1>6. /\ sent' \in [Sockets -> Seq(Messages)] /\ sent'[s] = r
      /\ \A t \in Sockets : t # s => sent'[t] = sent[t]
  <2>1. sent' = [sent EXCEPT ![s] = r]
    BY <1>1, <1>4
  <2>2. QED
    BY <2>1 DEF MInv
(* Every message sent so far has a smaller number.                         *)
<1>7. \A t \in Sockets : \A k \in Range(sent[t]) : k \in 1..(m - 1)
  BY <1>1
<1>8. \A t \in Sockets : m \notin Range(sent[t])
  BY <1>7, MessageNumbers
<1>9. issued[m] = 0
  BY <1>8 DEF MInv, Numbered
<1>10. ASSUME NEW i \in DOMAIN queue, queue[i].what = "send" PROVE queue[i].data < m
  <2>1. queue[i] \in Entries /\ queue[i] \in Range(queue)
    BY <1>2, SeqFacts
  <2>2. PICK t \in Sockets, k \in Messages : queue[i] = Message(t, k) /\ queue[i].data = k
    BY <1>10, <2>1, EntryFacts
  <2>3. k \in DataIn(queue, t)
    BY <2>1, <2>2 DEF DataIn
  <2>4. k \in Range(sent[t])
    BY <2>3 DEF MInv, Carried
  <2>5. QED
    BY <1>7, <2>2, <2>4, MessageNumbers
<1>11. /\ Increasing(queue')
       /\ \A t \in Sockets : DataIn(queue', t) = DataIn(queue, t) \cup (IF t = s THEN {m} ELSE {})
  BY <1>1, <1>2, <1>10, MessageIncreasing
<1>12. Numbered'
  <2>1. ASSUME NEW i \in 1..(n + 1), NEW j \in 1..(n + 1), i < j PROVE r[i] < r[j]
    <3>1. i \in 1..n /\ r[i] = sent[s][i] /\ sent[s][i] \in Range(sent[s])
      BY <1>5, <2>1, SeqFacts
    <3>2. CASE j \in 1..n
      <4>1. \A k \in DOMAIN sent[s] : \A l \in DOMAIN sent[s] : k < l => sent[s][k] < sent[s][l]
        BY DEF MInv, Numbered
      <4>2. r[j] = sent[s][j] /\ i \in DOMAIN sent[s] /\ j \in DOMAIN sent[s]
        BY <1>5, <3>1, <3>2
      <4>3. QED
        BY <2>1, <3>1, <4>1, <4>2
    <3>3. CASE j = n + 1
      BY <1>5, <1>7, <3>1, <3>3, MessageNumbers
    <3>4. QED
      BY <2>1, <3>2, <3>3
  <2>2. \A t \in Sockets : \A i, j \in DOMAIN sent'[t] : i < j => sent'[t][i] < sent'[t][j]
    BY <1>5, <1>6, <2>1 DEF MInv, Numbered
  <2>3. ASSUME NEW t \in Sockets, NEW u \in Sockets, t # u,
               NEW k \in Range(sent'[t]), k \in Range(sent'[u])
        PROVE  FALSE
    <3>1. \A v \in Sockets : v # s => m \notin Range(sent'[v])
      BY <1>6, <1>8
    <3>2. k # m
      BY <2>3, <3>1
    <3>3. \A v \in Sockets : k \in Range(sent'[v]) => k \in Range(sent[v])
      BY <1>5, <1>6, <3>2
    <3>4. QED
      BY <2>3, <3>3 DEF MInv, Numbered
  <2>4. \A k \in Messages : (\A t \in Sockets : k \notin Range(sent'[t])) => issued'[k] = 0
    BY <1>1, <1>5, <1>6 DEF MInv, Numbered
  <2>5. QED
    BY <2>2, <2>3, <2>4 DEF Numbered
<1>13. Carried(s)'
  <2>1. Carried(s)
    BY DEF MInv
  <2>2. DataIn(queue', s) \subseteq Range(sent'[s])
    BY <1>5, <1>6, <1>11, <2>1 DEF Carried
  <2>3. Begins(wire'[s], sent'[s])
    <3>1. PICK k \in Nat : k = Len(wire[s])
      BY LenProperties DEF MInv
    <3>2. k <= Fragments * n /\ \A i \in 1..k : wire[s][i] = Piece(sent[s], i)
      BY <1>3, <2>1, <3>1 DEF Carried, Begins
    <3>3. k <= Fragments * (n + 1)
      BY <3>2, WebSocketAssumption
    <3>4. ASSUME NEW i \in 1..k PROVE Piece(r, i) = Piece(sent[s], i)
      <4>1. i \in 1..(Fragments * n)
        BY <3>2, WebSocketAssumption
      <4>2. 1 + ((i - 1) \div Fragments) \in 1..n
        BY <4>1, PieceOf
      <4>3. QED
        BY <1>5, <4>2 DEF Piece
    <3>5. QED
      BY <1>1, <1>5, <1>6, <3>1, <3>2, <3>3, <3>4 DEF Begins
  <2>4. ASSUME conn'[s] = "up" PROVE \E d \in 0..Len(sent'[s]) : Going(s, d)'
    <3>1. PICK d \in 0..n : Going(s, d)
      BY <1>1, <1>3, <2>1, <2>4 DEF Carried
    <3>2. DataIn(queue', s) = {r[i] : i \in (d + 1)..(n + 1)}
      <4>1. DataIn(queue, s) = {sent[s][i] : i \in (d + 1)..n}
        BY <1>3, <3>1 DEF Going
      <4>2. \A i \in (d + 1)..(n + 1) : i \in (d + 1)..n \/ i = n + 1
        OBVIOUS
      <4>3. \A i \in (d + 1)..n : i \in 1..n /\ i \in (d + 1)..(n + 1)
        OBVIOUS
      <4>4. n + 1 \in (d + 1)..(n + 1)
        OBVIOUS
      <4>5. QED
        BY <1>5, <1>11, <4>1, <4>2, <4>3, <4>4
    <3>3. \A i \in (d + 2)..(n + 1) : issued'[r[i]] = 0
      <4>1. \A i \in (d + 2)..(n + 1) : (i \in (d + 2)..n /\ i \in 1..n) \/ i = n + 1
        OBVIOUS
      <4>2. QED
        BY <1>1, <1>3, <1>5, <1>9, <3>1, <4>1 DEF Going
    <3>4. ASSUME issued'[r[d + 1]] < Fragments,
                 Len(wire'[s]) = Fragments * d + issued'[r[d + 1]]
          PROVE  \E e \in 0..Len(sent'[s]) : Going(s, e)'
      <4>1. Len(sent'[s]) = n + 1 /\ d < n + 1 /\ d \in 0..(n + 1)
        BY <1>5, <1>6
      <4>2. Going(s, d)'
        BY <1>6, <3>2, <3>3, <3>4, <4>1 DEF Going
      <4>3. QED
        BY <4>1, <4>2
    <3>5. CASE d < n
      <4>1. d + 1 \in 1..n
        BY <3>5
      <4>2. r[d + 1] = sent[s][d + 1]
        BY <1>5, <4>1
      <4>3. /\ issued'[r[d + 1]] < Fragments
            /\ Len(wire'[s]) = Fragments * d + issued'[r[d + 1]]
        BY <1>1, <1>3, <3>1, <3>5, <4>2 DEF Going
      <4>4. QED
        BY <3>2, <3>3, <3>5, <3>4, <4>3
    <3>6. CASE d = n
      <4>1. issued'[r[d + 1]] = 0 /\ 0 < Fragments
        BY <1>1, <1>5, <1>9, <3>6, WebSocketAssumption
      <4>2. Len(wire'[s]) = Fragments * d + 0
        BY <1>1, <1>3, <3>1, <3>6 DEF Going
      <4>3. QED
        BY <3>2, <3>3, <3>4, <4>1, <4>2
    <3>7. QED
      BY <3>5, <3>6
  <2>5. QED
    BY <1>1, <1>2, <2>2, <2>3, <2>4 DEF Carried
<1>14. ASSUME NEW t \in Sockets, t # s PROVE Carried(t)'
  <2>1. Carried(t) /\ sent'[t] = sent[t] /\ DataIn(queue', t) = DataIn(queue, t)
    BY <1>6, <1>11, <1>14 DEF MInv
  <2>2. UNCHANGED <<issued, wire, conn>>
    BY <1>1
  <2>3. ASSUME NEW d \in 0..Len(sent[t]), Going(t, d) PROVE Going(t, d)'
    BY <2>1, <2>2, <2>3 DEF Going
  <2>4. QED
    BY <2>1, <2>2, <2>3 DEF Carried
<1>15. QED
  BY <1>1, <1>6, <1>11, <1>12, <1>13, <1>14 DEF MInv

(* A fragment goes: the next of the message after those that are over.     *)
LEMMA WriteMessage ==
  ASSUME IInv, MInv, NEW s \in Sockets, WriteFragment(s), sent' = sent
  PROVE  MInv'
<1>1. First(s) # 0 /\ conn[s] = "up" /\ conn' = conn
  BY DEF WriteFragment
<1>2. PICK m \in Messages :
           /\ queue[First(s)] = Message(s, m) /\ queue[First(s)].data = m
           /\ m \in DataIn(queue, s) /\ \A k \in DataIn(queue, s) : m <= k
           /\ Increasing(RemoveAt(queue, First(s)))
           /\ DataIn(RemoveAt(queue, First(s)), s) = DataIn(queue, s) \ {m}
           /\ \A t \in Sockets : t # s =>
                DataIn(RemoveAt(queue, First(s)), t) = DataIn(queue, t)
  BY <1>1, FirstMessage
<1>3. PICK q \in Seq(Messages), n \in Nat : q = sent[s] /\ n = Len(q) /\ DOMAIN q = 1..n
  BY LenProperties DEF MInv
<1>4. PICK d \in 0..n : Going(s, d)
  BY <1>1, <1>3 DEF MInv, Carried
<1>5. /\ Begins(wire[s], q) /\ DataIn(queue, s) = {q[i] : i \in (d + 1)..n}
      /\ \A i \in (d + 2)..n : issued[q[i]] = 0
      /\ \A i, j \in 1..n : i < j => q[i] < q[j]
      /\ \A i \in 1..n : q[i] \in Messages /\ q[i] \in Nat
  <2>1. Begins(wire[s], q)
    BY <1>3 DEF MInv, Carried
  <2>2. DataIn(queue, s) = {q[i] : i \in (d + 1)..n} /\ \A i \in (d + 2)..n : issued[q[i]] = 0
    BY <1>3, <1>4 DEF Going
  <2>3. \A i, j \in 1..n : i < j => q[i] < q[j]
    BY <1>3 DEF MInv, Numbered
  <2>4. \A i \in 1..n : q[i] \in Messages /\ q[i] \in Nat
    BY <1>3, SeqFacts, MessageNumbers
  <2>5. QED
    BY <2>1, <2>2, <2>3, <2>4
<1>6. d < n /\ m = q[d + 1]
  <2>1. PICK i \in (d + 1)..n : m = q[i]
    BY <1>2, <1>5
  <2>2. d < n /\ d + 1 \in 1..n /\ i \in 1..n /\ d + 1 \in (d + 1)..n
    OBVIOUS
  <2>3. q[d + 1] \in DataIn(queue, s)
    BY <1>5, <2>2
  <2>4. m <= q[d + 1]
    BY <1>2, <2>3
  <2>5. ~(d + 1 < i)
    BY <1>5, <2>1, <2>2, <2>4
  <2>6. QED
    BY <2>1, <2>2, <2>5
<1>7. PICK p \in 0..(Fragments - 1) : p = issued[m]
  <2>1. issued[m] < Fragments /\ issued[m] \in 0..Fragments
    BY <1>3, <1>4, <1>6 DEF Going, MInv
  <2>2. QED
    BY <2>1, WebSocketAssumption
<1>8. Len(wire[s]) = Fragments * d + p
  BY <1>3, <1>4, <1>6, <1>7 DEF Going
<1>9. /\ issued' = [issued EXCEPT ![m] = p + 1] /\ p + 1 \in 1..Fragments
      /\ issued' \in [Messages -> 0..Fragments] /\ issued'[m] = p + 1
      /\ \A k \in Messages : k # m => issued'[k] = issued[k]
  <2>1. issued' = [issued EXCEPT ![m] = p + 1]
    BY <1>2, <1>7 DEF WriteFragment, Become
  <2>2. p + 1 \in 1..Fragments /\ p + 1 \in 0..Fragments
    BY WebSocketAssumption
  <2>3. QED
    BY <2>1, <2>2 DEF MInv
<1>10. /\ wire' = [wire EXCEPT ![s] = Append(wire[s], <<m, p + 1>>)]
       /\ queue' = IF p + 1 = Fragments THEN RemoveAt(queue, First(s)) ELSE queue
  BY <1>2, <1>9 DEF WriteFragment, Become
<1>11. PICK w \in Seq(Messages \X (1..Fragments)) : w = Append(wire[s], <<m, p + 1>>)
  <2>1. wire[s] \in Seq(Messages \X (1..Fragments)) /\ <<m, p + 1>> \in Messages \X (1..Fragments)
    BY <1>9 DEF MInv
  <2>2. QED
    BY <2>1, AppendProperties
<1>12. PICK k \in Nat : k = Len(wire[s]) /\ k = Fragments * d + p
  BY <1>8, LenProperties DEF MInv
<1>13. /\ Len(w) = k + 1 /\ w[k + 1] = <<m, p + 1>>
       /\ \A i \in 1..k : w[i] = wire[s][i]
  <2>1. wire[s] \in Seq(Messages \X (1..Fragments)) /\ <<m, p + 1>> \in Messages \X (1..Fragments)
    BY <1>9 DEF MInv
  <2>2. /\ Len(Append(wire[s], <<m, p + 1>>)) = Len(wire[s]) + 1
        /\ Append(wire[s], <<m, p + 1>>)[Len(wire[s]) + 1] = <<m, p + 1>>
        /\ \A i \in 1..Len(wire[s]) : Append(wire[s], <<m, p + 1>>)[i] = wire[s][i]
    BY <2>1, Appended
  <2>3. QED
    BY <1>11, <1>12, <2>2
<1>14. /\ wire' \in [Sockets -> Seq(Messages \X (1..Fragments))] /\ wire'[s] = w
       /\ \A t \in Sockets : t # s => wire'[t] = wire[t]
  <2>1. wire' = [wire EXCEPT ![s] = w]
    BY <1>10, <1>11
  <2>2. QED
    BY <2>1 DEF MInv
<1>15. Begins(w, q)
  <2>1. k + 1 <= Fragments * n
    <3>1. Fragments * d + Fragments <= Fragments * n
      BY <1>6, Product, WebSocketAssumption
    <3>2. QED
      BY <1>12, <3>1, WebSocketAssumption
  <2>2. Piece(q, k + 1) = <<m, p + 1>>
    BY <1>6, <1>12, PieceAt
  <2>3. \A i \in 1..k : wire[s][i] = Piece(q, i)
    BY <1>5, <1>12 DEF Begins
  <2>4. \A i \in 1..(k + 1) : i \in 1..k \/ i = k + 1
    OBVIOUS
  <2>5. QED
    BY <1>3, <1>13, <2>1, <2>2, <2>3, <2>4 DEF Begins
<1>16. Numbered'
  <2>1. m \in Range(sent[s])
    BY <1>2 DEF MInv, Carried
  <2>2. \A j \in Messages : (\A t \in Sockets : j \notin Range(sent[t])) => issued'[j] = 0
    BY <1>9, <2>1 DEF MInv, Numbered
  <2>3. QED
    BY <2>2 DEF MInv, Numbered
<1>17. /\ Increasing(queue')
       /\ \A t \in Sockets : t # s => DataIn(queue', t) = DataIn(queue, t)
       /\ DataIn(queue', s) = IF p + 1 = Fragments THEN DataIn(queue, s) \ {m} ELSE DataIn(queue, s)
  BY <1>2, <1>10 DEF MInv
<1>18. ASSUME NEW i \in (d + 2)..n PROVE q[i] # m /\ i \in 1..n
  <2>1. i \in 1..n /\ d + 1 \in 1..n /\ d + 1 < i
    BY <1>6
  <2>2. q[d + 1] < q[i] /\ q[i] \in Nat /\ q[d + 1] \in Nat
    BY <1>5, <2>1
  <2>3. QED
    BY <1>6, <2>1, <2>2
<1>19. \A i \in (d + 2)..n : issued'[q[i]] = 0
  BY <1>5, <1>9, <1>18
<1>20. \E e \in 0..n : Going(s, e)'
  <2>1. CASE p + 1 = Fragments
    <3>1. d + 1 \in 0..n /\ Fragments * d + p + 1 = Fragments * (d + 1) + 0
      BY <1>6, <2>1, WebSocketAssumption
    <3>2. DataIn(queue', s) = {q[i] : i \in (d + 1 + 1)..n}
      <4>1. DataIn(queue', s) = {q[i] : i \in (d + 1)..n} \ {q[d + 1]}
        BY <1>5, <1>6, <1>17, <2>1
      <4>2. \A i \in (d + 1)..n : i = d + 1 \/ i \in (d + 1 + 1)..n
        OBVIOUS
      <4>3. \A i \in (d + 1 + 1)..n : i \in (d + 1)..n /\ q[i] # q[d + 1]
        BY <1>6, <1>18
      <4>4. QED
        BY <4>1, <4>2, <4>3
    <3>3. \A i \in (d + 1 + 2)..n : i \in (d + 2)..n
      OBVIOUS
    <3>4. d + 1 < n => d + 2 \in (d + 2)..n /\ d + 1 + 1 = d + 2
      BY <1>6
    <3>5. d + 1 < n => issued'[q[d + 1 + 1]] = 0 /\ 0 < Fragments
      BY <1>19, <3>4, WebSocketAssumption
    <3>6. Len(wire'[s]) = Fragments * (d + 1) + 0
      BY <1>12, <1>13, <1>14, <3>1
    <3>7. Going(s, d + 1)'
      BY <1>3, <1>19, <3>1, <3>2, <3>3, <3>5, <3>6 DEF Going
    <3>8. QED
      BY <3>1, <3>7
  <2>2. CASE p + 1 # Fragments
    <3>1. p + 1 < Fragments /\ Len(wire'[s]) = Fragments * d + (p + 1)
      BY <1>9, <1>12, <1>13, <1>14, <2>2, WebSocketAssumption
    <3>2. DataIn(queue', s) = {q[i] : i \in (d + 1)..n}
      BY <1>5, <1>17, <2>2
    <3>3. Going(s, d)'
      BY <1>3, <1>6, <1>9, <1>19, <3>1, <3>2 DEF Going
    <3>4. QED
      BY <3>3
  <2>3. QED
    BY <2>1, <2>2
<1>21. Carried(s)'
  <2>1. DataIn(queue', s) \subseteq Range(sent'[s])
    BY <1>17 DEF MInv, Carried
  <2>2. QED
    BY <1>1, <1>3, <1>14, <1>15, <1>20, <2>1 DEF Carried
<1>22. ASSUME NEW t \in Sockets, t # s PROVE Carried(t)'
  <2>1. /\ Carried(t) /\ DataIn(queue', t) = DataIn(queue, t) /\ wire'[t] = wire[t]
        /\ Range(sent[t]) \cap Range(sent[s]) = {} /\ m \in Range(sent[s])
    BY <1>2, <1>14, <1>17, <1>22 DEF MInv, Carried, Numbered
  <2>2. \A i \in 1..Len(sent[t]) : sent[t][i] # m /\ sent[t][i] \in Messages
    BY <2>1, SeqFacts DEF MInv
  <2>3. \A i \in 1..Len(sent[t]) : issued'[sent[t][i]] = issued[sent[t][i]]
    BY <1>9, <2>2
  <2>4. ASSUME NEW e \in 0..Len(sent[t]), Going(t, e) PROVE Going(t, e)'
    <3>1. PICK l \in Nat : l = Len(sent[t])
      BY LenProperties DEF MInv
    <3>2. /\ \A i \in (e + 2)..l : i \in 1..l
          /\ e < l => e + 1 \in 1..l
      BY <3>1
    <3>3. /\ \A i \in (e + 2)..l : issued'[sent[t][i]] = issued[sent[t][i]]
          /\ e < l => issued'[sent[t][e + 1]] = issued[sent[t][e + 1]]
      BY <2>3, <3>1, <3>2
    <3>4. /\ DataIn(queue', t) = {sent'[t][i] : i \in (e + 1)..l}
          /\ \A i \in (e + 2)..l : issued'[sent'[t][i]] = 0
          /\ e < l => issued'[sent'[t][e + 1]] < Fragments
      BY <2>1, <2>4, <3>1, <3>3 DEF Going
    <3>5. Len(wire'[t]) = Fragments * e + (IF e < l THEN issued'[sent'[t][e + 1]] ELSE 0)
      <4>1. CASE e < l
        BY <2>1, <2>4, <3>1, <3>3, <4>1 DEF Going
      <4>2. CASE ~(e < l)
        BY <2>1, <2>4, <3>1, <4>2 DEF Going
      <4>3. QED
        BY <4>1, <4>2
    <3>6. QED
      BY <3>1, <3>4, <3>5 DEF Going
  <2>5. QED
    BY <1>1, <2>1, <2>4 DEF Carried
<1>23. QED
  BY <1>9, <1>14, <1>16, <1>17, <1>21, <1>22 DEF MInv

(* A step that leaves the queue and the connections.                       *)
LEMMA NothingMoves ==
  ASSUME MInv, UNCHANGED <<conn, queue, issued, sent, wire>>
  PROVE  MInv'
BY QueueKept

(* What comes of a connection.                                             *)
LEMMA ConnectionMoves ==
  ASSUME IInv, MInv, NEW s \in Sockets, NEW c \in {"up", "failing", "ending", "gone"},
         UNCHANGED <<queue, issued, sent, wire>>, Become(conn, s, c),
         c = "up" => conn[s] = "handshake"
  PROVE  MInv'
<1>1. conn'[s] = c /\ \A t \in Sockets : t # s => conn'[t] = conn[t]
  BY DEF Become, IInv, Typed
<1>2. QED
  BY <1>1, QueueKept

LEMMA ConstructMessages == ASSUME IInv, MInv, NEW s \in Sockets, Construct(s) PROVE MInv'
<1>1. UNCHANGED <<conn, issued, sent, wire>> /\ queue' = Append(queue, Request(s))
  BY DEF Construct, history
<1>2. queue \in Seq(Entries) /\ Increasing(queue)
  BY DEF IInv, Typed, MInv
<1>3. Increasing(queue') /\ \A t \in Sockets : DataIn(queue', t) = DataIn(queue, t)
  BY <1>1, <1>2, RequestIncreasing
<1>4. QED
  BY <1>1, <1>3, MessagesKept

LEMMA JoinMessages == ASSUME IInv, MInv, Join PROVE MInv'
<1>1. UNCHANGED <<conn, issued, sent, wire>> /\ queue' = <<>> /\ helper = "ended"
  BY DEF Join, history
<1>2. \A t \in Sockets : conn[t] \in {"none", "gone"}
  BY <1>1 DEF IInv, MainInv
<1>3. Increasing(queue') /\ \A t \in Sockets : DataIn(queue', t) = {}
  BY <1>1, Nothing DEF Increasing, DataIn
<1>4. QED
  BY <1>1, <1>2, <1>3, MessagesKept

LEMMA OpenConnectionMessages ==
  ASSUME IInv, MInv, NEW s \in Sockets, OpenConnection(s)
  PROVE  MInv'
<1>1. PICK i \in DOMAIN queue : queue[i] = Request(s) /\ queue' = RemoveAt(queue, i)
  BY DEF OpenConnection
<1>2. queue \in Seq(Entries) /\ i \in 1..Len(queue) /\ Request(s) \in Range(queue) /\ Increasing(queue)
  BY <1>1, LenProperties DEF IInv, Typed, Range, MInv
<1>3. /\ Increasing(queue') /\ Range(queue) \ {Request(s)} \subseteq Range(queue')
      /\ Range(queue') \subseteq Range(queue)
  BY <1>1, <1>2, RemovedIncreasing, RemovedOnce
<1>4. \A t \in Sockets : DataIn(queue', t) = DataIn(queue, t)
  BY <1>3, MessageIs DEF DataIn
<1>5. conn[s] = "none"
  BY <1>2 DEF IInv, Trace
<1>6. /\ conn'[s] \in {"handshake", "gone"}
      /\ \A t \in Sockets : t # s => conn'[t] = conn[t]
      /\ UNCHANGED <<issued, sent, wire>>
  BY DEF OpenConnection, OnConnectionError, Become, IInv, Typed, history
<1>7. QED
  BY <1>3, <1>4, <1>5, <1>6, MessagesKept

(* A write fails: its message goes from the queue, and the connection is   *)
(* never up again.                                                         *)
LEMMA ClientWritableMessages ==
  ASSUME IInv, MInv, NEW s \in Sockets, ClientWritable(s)
  PROVE  MInv'
<1>1. sent' = sent /\ conn[s] \in {"up", "broken"}
  BY DEF ClientWritable
<1>2. CASE Become(conn, s, "ending") /\ UNCHANGED <<states, queue, issued, wire>>
  BY <1>1, <1>2, ConnectionMoves
<1>3. CASE WriteFragment(s)
  BY <1>1, <1>3, WriteMessage
<1>4. CASE WriteFails(s)
  <2>1. /\ First(s) # 0 /\ queue' = RemoveAt(queue, First(s)) /\ UNCHANGED <<issued, wire>>
        /\ conn'[s] = "broken" /\ \A t \in Sockets : t # s => conn'[t] = conn[t]
    BY <1>4 DEF WriteFails, Become, IInv, Typed
  <2>2. PICK m \in Messages :
             /\ queue[First(s)] = Message(s, m) /\ queue[First(s)].data = m
             /\ m \in DataIn(queue, s) /\ \A k \in DataIn(queue, s) : m <= k
             /\ Increasing(RemoveAt(queue, First(s)))
             /\ DataIn(RemoveAt(queue, First(s)), s) = DataIn(queue, s) \ {m}
             /\ \A t \in Sockets : t # s =>
                  DataIn(RemoveAt(queue, First(s)), t) = DataIn(queue, t)
    BY <1>1, <2>1, FirstMessage
  <2>3. /\ Increasing(queue')
        /\ \A t \in Sockets : /\ DataIn(queue', t) \subseteq DataIn(queue, t)
                              /\ t # s => DataIn(queue', t) = DataIn(queue, t)
    BY <2>1, <2>2
  <2>4. QED
    BY <1>1, <2>1, <2>3, MessagesKept
<1>5. QED
  BY <1>2, <1>3, <1>4 DEF ClientWritable

LEMMA SubThreadEndedMessages == ASSUME IInv, MInv, SubThreadEnded PROVE MInv'
<1>1. UNCHANGED <<queue, issued, sent, wire>>
  BY DEF SubThreadEnded, history
<1>2. \A t \in Sockets : conn'[t] = IF conn[t] = "none" THEN "none" ELSE "gone"
  BY DEF SubThreadEnded
<1>3. QED
  BY <1>1, <1>2, QueueKept

LEMMA InitMessages == Init => MInv
<1> SUFFICES ASSUME Init PROVE MInv
  OBVIOUS
<1>1. /\ DOMAIN queue = {} /\ Range(queue) = {}
      /\ \A S : <<>> \in Seq(S) /\ Len(<<>>) = 0 /\ DOMAIN <<>> = {} /\ Range(<<>>) = {}
  BY Nothing DEF Init
<1>2. 0 \in 0..Fragments /\ Fragments * 0 = 0
  BY WebSocketAssumption
<1>3. issued = [m \in Messages |-> 0]
  BY DEF Init
<1>4. issued \in [Messages -> 0..Fragments] /\ \A m \in Messages : issued[m] = 0
  BY <1>2, <1>3
<1>5. <<>> \in Seq(Messages) /\ <<>> \in Seq(Messages \X (1..Fragments))
  BY <1>1
<1>6. sent \in [Sockets -> Seq(Messages)] /\ \A s \in Sockets : sent[s] = <<>>
  BY <1>5 DEF Init
<1>7. wire \in [Sockets -> Seq(Messages \X (1..Fragments))] /\ \A s \in Sockets : wire[s] = <<>>
  BY <1>5 DEF Init
<1>8. Numbered
  BY <1>1, <1>4, <1>6 DEF Numbered
<1>9. Increasing(queue) /\ \A s \in Sockets : DataIn(queue, s) = {}
  BY <1>1 DEF Increasing, DataIn
<1>10. ASSUME NEW s \in Sockets PROVE Carried(s)
  <2>1. conn[s] = "none" /\ sent[s] = <<>> /\ wire[s] = <<>>
    BY <1>6, <1>7 DEF Init
  <2>2. Begins(wire[s], sent[s])
    BY <1>1, <1>2, <2>1 DEF Begins
  <2>3. QED
    BY <1>9, <2>1, <2>2 DEF Carried
<1>11. QED
  BY <1>4, <1>6, <1>7, <1>8, <1>9, <1>10 DEF MInv

LEMMA NextMessages == IInv /\ MInv /\ [Next]_vars => MInv'
<1> SUFFICES ASSUME IInv, MInv, [Next]_vars PROVE MInv'
  OBVIOUS
<1>1. ASSUME NEW s \in Sockets, CloseAsync(s) \/ Finalize(s) \/ ClearPool(s) \/ ClientReceivedData(s)
      PROVE  MInv'
  <2>1. UNCHANGED <<conn, queue, issued, sent, wire>>
    BY <1>1 DEF CloseAsync, Finalize, ClearPool, ClientReceivedData, thread, history
  <2>2. QED
    BY <2>1, NothingMoves
<1>2. ASSUME MarkClosing \/ FinalizeRelease \/ RunFunction \/ EndRestart \/ RestartVM
             \/ ConnectionClosed \/ UNCHANGED vars
      PROVE  MInv'
  <2>1. UNCHANGED <<conn, queue, issued, sent, wire>>
    BY <1>2 DEF MarkClosing, FinalizeRelease, RunFunction, EndRestart, RestartVM, ConnectionClosed,
                thread, history, vars
  <2>2. QED
    BY <2>1, NothingMoves
<1>3. ASSUME NEW s \in Sockets, ConnectionOpened(s) \/ ConnectionError(s) \/ WsiDestroy(s) \/ PeerCloses(s)
      PROVE  MInv'
  <2>1. PICK c \in {"up", "failing", "ending", "gone"} :
          Become(conn, s, c) /\ (c = "up" => conn[s] = "handshake")
    BY <1>3 DEF ConnectionOpened, ConnectionError, WsiDestroy, PeerCloses
  <2>2. UNCHANGED <<queue, issued, sent, wire>>
    BY <1>3 DEF ConnectionOpened, ConnectionError, WsiDestroy, PeerCloses, history
  <2>3. QED
    BY <2>1, <2>2, ConnectionMoves
<1>4. QED
  BY <1>1, <1>2, <1>3, ConstructMessages, SendMessage, OpenConnectionMessages, ClientWritableMessages,
     JoinMessages, SubThreadEndedMessages DEF Next, MainThread, HelperThread

THEOREM MessagesInvariance == Spec => [](IInv /\ MInv)
<1>1. Init => IInv /\ MInv
  BY InitInv, InitMessages
<1>2. IInv /\ MInv /\ [Next]_vars => IInv' /\ MInv'
  BY NextInv, NextMessages
<1>3. QED
  BY <1>1, <1>2, PTL DEF Spec

(* What a connection carries is what send was given for its socket, cut    *)
(* off where the connection ends: onClientWritable takes the first message *)
(* of the socket from the queue that all of them share, and the next one   *)
(* only when its last fragment was written.                                *)
THEOREM MessagesInOrder == Spec => []SentInOrder
<1>1. MInv => SentInOrder
  BY BeginsPrefix DEF MInv, Carried, SentInOrder
<1>2. QED
  BY <1>1, MessagesInvariance, PTL

(* The types: in particular a socket has two references at most, and no    *)
(* message is written beyond its last fragment.                            *)
THEOREM TypeCorrect == Spec => []TypeOK
<1>1. IInv /\ MInv => TypeOK
  <2> SUFFICES ASSUME IInv, MInv PROVE TypeOK
    OBVIOUS
  <2>1. ASSUME NEW s \in Sockets PROVE refs[s] \in 0..2
    BY DEF IInv, Life, Count
  <2>2. refs \in [Sockets -> 0..2]
    BY <2>1 DEF IInv, Typed
  <2>3. QED
    BY <2>2 DEF IInv, MInv, Typed, TypeOK, Posts, JsStates, ReadyStates, Connections, Places
<1>2. QED
  BY <1>1, MessagesInvariance, PTL
================================================================================
