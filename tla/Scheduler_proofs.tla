--------------------------- MODULE Scheduler_proofs ---------------------------
(***************************************************************************)
(* Theorems about Scheduler: for any targets, keys and timers, whatever    *)
(* calls the callbacks make, the references of the timers are exact, a     *)
(* list holds a timer and a key once, no empty entry is left behind, the   *)
(* walk skips nothing, and no timer is triggered too often.                *)
(*                                                                         *)
(* The first depend on one another: that a free timer is in no list is     *)
(* what keeps the lists disjoint (ListInv); that a target with timers has  *)
(* an entry and that the iterator is at an entry is what the removal of an *)
(* entry needs (HashInv); where update() is says whether there is a timer  *)
(* being updated (WalkInv), and its fields (TimerInv).                     *)
(*                                                                         *)
(* And, at the end, about CocosThreadQueue, for any number of threads and  *)
(* of functions: each function handed over is in one place and they keep   *)
(* their order.                                                            *)
(***************************************************************************)
EXTENDS Scheduler, CocosThreadQueue, SequenceTheorems, TLAPS

(* What RemoveAt and InsertAt do to the elements of a sequence.            *)
LEMMA RemoveAtFacts ==
  ASSUME NEW S, NEW s \in Seq(S), NEW i \in DOMAIN s
  PROVE  /\ RemoveAt(s, i) \in Seq(S)
         /\ Len(RemoveAt(s, i)) = Len(s) - 1
         /\ \A j \in 1 .. Len(s) - 1 :
              RemoveAt(s, i)[j] = IF j < i THEN s[j] ELSE s[j + 1]
<1> DEFINE a == SubSeq(s, 1, i - 1)
           b == SubSeq(s, i + 1, Len(s))
<1>1. i \in 1 .. Len(s) /\ Len(s) \in Nat /\ \A j \in 1 .. Len(s) : s[j] \in S
  OBVIOUS
<1>2. /\ a \in Seq(S) /\ Len(a) = i - 1
      /\ \A j \in 1 .. i - 1 : a[j] = s[j]
  BY <1>1, SubSeqProperties
<1>3. /\ b \in Seq(S) /\ Len(b) = Len(s) - i
      /\ \A j \in 1 .. Len(s) - i : b[j] = s[i + j]
  BY <1>1, SubSeqProperties
<1> HIDE DEF a, b
<1>4. /\ a \o b \in Seq(S) /\ Len(a \o b) = Len(s) - 1
      /\ \A j \in 1 .. Len(s) - 1 :
           (a \o b)[j] = IF j <= i - 1 THEN a[j] ELSE b[j - (i - 1)]
  <2>1. /\ a \o b \in Seq(S) /\ Len(a \o b) = Len(a) + Len(b)
        /\ \A j \in 1 .. Len(a) + Len(b) :
             (a \o b)[j] = IF j <= Len(a) THEN a[j] ELSE b[j - Len(a)]
    BY <1>2, <1>3, ConcatProperties
  <2>2. Len(a) + Len(b) = Len(s) - 1
    BY <1>1, <1>2, <1>3
  <2>3. QED
    BY <1>2, <2>1, <2>2
<1>5. ASSUME NEW j \in 1 .. Len(s) - 1
      PROVE  (a \o b)[j] = IF j < i THEN s[j] ELSE s[j + 1]
  <2>1. CASE j < i
    BY <1>1, <1>2, <1>4, <2>1
  <2>2. CASE ~(j < i)
    <3>1. /\ j - (i - 1) \in 1 .. Len(s) - i
          /\ i + (j - (i - 1)) = j + 1 /\ ~(j <= i - 1)
      BY <1>1, <2>2
    <3>2. (a \o b)[j] = b[j - (i - 1)]
      BY <1>4, <3>1
    <3>3. QED
      BY <1>3, <2>2, <3>1, <3>2
  <2>3. QED
    BY <2>1, <2>2
<1>6. RemoveAt(s, i) = a \o b
  BY DEF RemoveAt, a, b
<1>7. QED
  BY <1>4, <1>5, <1>6

(* r is s with x inserted at i.                                            *)
Inserted(r, s, i, x) ==
  /\ Len(r) = Len(s) + 1
  /\ \A j \in 1 .. Len(s) + 1 :
       r[j] = IF j < i THEN s[j] ELSE IF j = i THEN x ELSE s[j - 1]

LEMMA InsertAtFacts ==
  ASSUME NEW S, NEW s \in Seq(S), NEW i \in 1 .. Len(s) + 1, NEW x \in S
  PROVE  /\ InsertAt(s, i, x) \in Seq(S)
         /\ Inserted(InsertAt(s, i, x), s, i, x)
<1> DEFINE a == SubSeq(s, 1, i - 1)
           b == SubSeq(s, i, Len(s))
           c == a \o <<x>>
<1>1. i \in Nat /\ Len(s) \in Nat /\ \A j \in 1 .. Len(s) : s[j] \in S
  OBVIOUS
<1>2. /\ a \in Seq(S) /\ Len(a) = i - 1
      /\ \A j \in 1 .. i - 1 : a[j] = s[j]
  BY <1>1, SubSeqProperties
<1>3. /\ b \in Seq(S) /\ Len(b) = Len(s) - i + 1
      /\ \A j \in 1 .. Len(s) - i + 1 : b[j] = s[i + j - 1]
  BY <1>1, SubSeqProperties
<1>4. <<x>> \in Seq(S) /\ Len(<<x>>) = 1 /\ <<x>>[1] = x
  OBVIOUS
<1> HIDE DEF a, b
<1>5. /\ c \in Seq(S) /\ Len(c) = i
      /\ \A j \in 1 .. i : c[j] = IF j <= i - 1 THEN a[j] ELSE <<x>>[j - (i - 1)]
  BY <1>1, <1>2, <1>4, ConcatProperties
<1> HIDE DEF c
<1>6. /\ c \o b \in Seq(S) /\ Len(c \o b) = Len(s) + 1
      /\ \A j \in 1 .. Len(s) + 1 :
           (c \o b)[j] = IF j <= i THEN c[j] ELSE b[j - i]
  BY <1>1, <1>3, <1>5, ConcatProperties
<1>7. ASSUME NEW j \in 1 .. Len(s) + 1
      PROVE  (c \o b)[j] =
               IF j < i THEN s[j] ELSE IF j = i THEN x ELSE s[j - 1]
  <2>1. CASE j < i
    <3>1. j \in 1 .. i - 1 /\ j \in 1 .. i
      BY <1>1, <2>1
    <3>2. QED
      BY <1>1, <1>2, <1>5, <1>6, <2>1, <3>1
  <2>2. CASE j = i
    <3>1. i \in 1 .. i /\ ~(i <= i - 1) /\ i - (i - 1) = 1
      BY <1>1, <2>2
    <3>2. c[i] = x
      BY <1>4, <1>5, <3>1
    <3>3. QED
      BY <1>1, <1>6, <2>2, <3>2
  <2>3. CASE j > i
    <3>1. /\ j - i \in 1 .. Len(s) - i + 1
          /\ i + (j - i) - 1 = j - 1 /\ ~(j <= i) /\ ~(j < i) /\ j # i
      BY <1>1, <2>3
    <3>2. (c \o b)[j] = b[j - i]
      BY <1>6, <3>1
    <3>3. QED
      BY <1>3, <3>1, <3>2
  <2>4. j \in Int /\ i \in Int
    BY <1>1
  <2>5. j < i \/ j = i \/ j > i
    BY <2>4
  <2>6. QED
    BY <2>1, <2>2, <2>3, <2>5
<1>8. InsertAt(s, i, x) = c \o b
  BY DEF InsertAt, a, b, c
<1>9. Inserted(c \o b, s, i, x)
  BY <1>6, <1>7 DEF Inserted
<1>10. QED
  BY <1>6, <1>8, <1>9

------------------------------------------------------------------------------
(* The lists of timers, their references, and the timer being updated.     *)

DistinctIn(ts) ==
  \A t, u \in Targets : \A i \in DOMAIN ts[t], j \in DOMAIN ts[u] :
    ts[t][i] = ts[u][j] => t = u /\ i = j

ListInv ==
  /\ timers \in [Targets -> Seq(Timers)]
  /\ refs \in [Timers -> {0, 1}]
  /\ currentTimer \in Timers \cup {None}
  /\ timerSalvaged \in BOOLEAN
  /\ DistinctIn(timers)
  /\ timerSalvaged => currentTimer # None /\ currentTimer \notin Listed
  /\ RefsExact

LEMMA InLists ==
  ASSUME NEW ts, NEW x
  PROVE  x \in UNION {Range(ts[t]) : t \in Targets} <=>
           \E t \in Targets : \E i \in DOMAIN ts[t] : ts[t][i] = x
BY DEF Range

LEMMA ListInvSame ==
  ASSUME ListInv,
         UNCHANGED <<timers, refs, currentTimer, timerSalvaged>>
  PROVE  ListInv'
BY DEF ListInv, DistinctIn, Listed, RefsExact

(* The timers in X leave the lists; nothing else is asked of the new ones. *)
LEMMA ListInvDrop ==
  ASSUME ListInv, NEW X \in SUBSET Listed,
         NEW left \in [Targets -> Seq(Timers)],
         DropTimers(X, left), UNCHANGED currentTimer,
         DistinctIn(left),
         UNION {Range(left[t]) : t \in Targets} = Listed \ X
  PROVE  ListInv'
<1>1. timers' = left /\ Listed' = Listed \ X
  BY DEF DropTimers, Listed
<1>2. ASSUME NEW x \in Listed
      PROVE  x \in Timers
  <2>1. PICK t \in Targets : \E i \in DOMAIN timers[t] : timers[t][i] = x
    BY InLists DEF Listed
  <2>2. timers[t] \in Seq(Timers)
    BY DEF ListInv
  <2>3. QED
    BY <2>1, <2>2
<1>3. timerSalvaged' = (timerSalvaged \/ currentTimer \in X)
  BY DEF DropTimers
<1>4. timerSalvaged' => currentTimer' # None /\ currentTimer' \notin Listed'
  <2>1. None \notin Timers
    BY SchedulerAssumption
  <2>2. CASE timerSalvaged
    BY <1>1, <2>2 DEF ListInv
  <2>3. CASE currentTimer \in X
    BY <1>1, <1>2, <2>1, <2>3
  <2>4. QED
    BY <1>3, <2>2, <2>3
<1>5. refs' = [x \in Timers |->
                IF x \in X /\ (x # currentTimer \/ timerSalvaged)
                THEN refs[x] - 1 ELSE refs[x]]
  BY DEF DropTimers, Released
<1>6. ASSUME NEW x \in Timers
      PROVE  refs'[x] = IF x \in Listed' \/ (x = currentTimer' /\ timerSalvaged')
                        THEN 1 ELSE 0
  <2>1. CASE x \in X
    <3>1. refs[x] = 1 /\ x \in Listed /\ x \notin Listed'
      BY <1>1, <2>1 DEF ListInv, RefsExact
    <3>2. CASE x = currentTimer
      BY <1>3, <1>5, <2>1, <3>1, <3>2 DEF ListInv
    <3>3. CASE x # currentTimer
      BY <1>3, <1>5, <2>1, <3>1, <3>3
    <3>4. QED
      BY <3>2, <3>3
  <2>2. CASE x \notin X
    <3>1. refs'[x] = refs[x] /\ (x \in Listed' <=> x \in Listed)
      BY <1>1, <1>5, <2>2
    <3>2. (x = currentTimer' /\ timerSalvaged') <=> (x = currentTimer /\ timerSalvaged)
      BY <1>3, <2>2
    <3>3. QED
      BY <3>1, <3>2 DEF ListInv, RefsExact
  <2>3. QED
    BY <2>1, <2>2
<1>7. refs' \in [Timers -> {0, 1}]
  BY <1>5, <1>6
<1>8. currentTimer' # None => refs'[currentTimer'] = 1
  <2>1. SUFFICES ASSUME currentTimer # None PROVE refs'[currentTimer] = 1
    OBVIOUS
  <2>2. currentTimer \in Timers /\ refs[currentTimer] = 1
    BY <2>1 DEF ListInv, RefsExact
  <2>3. currentTimer \in Listed \/ timerSalvaged
    BY <2>2 DEF ListInv, RefsExact
  <2>4. QED
    BY <1>1, <1>3, <1>6, <2>2, <2>3
<1>9. RefsExact'
  BY <1>6, <1>8 DEF RefsExact
<1>10. QED
  BY <1>1, <1>3, <1>4, <1>7, <1>9 DEF ListInv, DistinctIn

(* One timer leaves its list.                                              *)
LEMMA ListInvRemove ==
  ASSUME ListInv, NEW t \in Targets, NEW i \in DOMAIN timers[t],
         RemoveTimer(t, i)
  PROVE  ListInv'
<1> DEFINE x == timers[t][i]
           left == [timers EXCEPT ![t] = RemoveAt(@, i)]
<1>1. /\ timers[t] \in Seq(Timers) /\ i \in 1 .. Len(timers[t])
      /\ Len(timers[t]) \in Nat
  BY DEF ListInv
<1>2. /\ RemoveAt(timers[t], i) \in Seq(Timers)
      /\ DOMAIN RemoveAt(timers[t], i) = 1 .. Len(timers[t]) - 1
      /\ \A j \in 1 .. Len(timers[t]) - 1 :
           RemoveAt(timers[t], i)[j] =
             IF j < i THEN timers[t][j] ELSE timers[t][j + 1]
  BY <1>1, RemoveAtFacts
<1>3. left \in [Targets -> Seq(Timers)]
  BY <1>2 DEF ListInv
<1>4. /\ left[t] = RemoveAt(timers[t], i)
      /\ \A u \in Targets \ {t} : left[u] = timers[u]
  BY DEF ListInv
(* Where an element of the new lists was in the old ones.                  *)
<1> DEFINE Old(u, j) == IF u = t /\ j >= i THEN j + 1 ELSE j
<1>5. ASSUME NEW u \in Targets, NEW j \in DOMAIN left[u]
      PROVE  /\ Old(u, j) \in DOMAIN timers[u]
             /\ left[u][j] = timers[u][Old(u, j)]
             /\ ~(u = t /\ Old(u, j) = i)
  <2>1. CASE u = t
    <3>1. j \in 1 .. Len(timers[t]) - 1
      BY <1>2, <1>4, <2>1
    <3>2. left[t][j] = IF j < i THEN timers[t][j] ELSE timers[t][j + 1]
      BY <1>2, <1>4, <3>1
    <3>3. CASE j < i
      BY <1>1, <2>1, <3>1, <3>2, <3>3
    <3>4. CASE ~(j < i)
      BY <1>1, <2>1, <3>1, <3>2, <3>4
    <3>5. QED
      BY <3>3, <3>4
  <2>2. CASE u # t
    BY <1>4, <2>2
  <2>3. QED
    BY <2>1, <2>2
<1>6. ASSUME NEW u \in Targets, NEW j \in DOMAIN timers[u], ~(u = t /\ j = i)
      PROVE  \E k \in DOMAIN left[u] : left[u][k] = timers[u][j]
  <2>1. CASE u = t /\ j < i
    <3>1. j \in 1 .. Len(timers[t]) - 1
      BY <1>1, <2>1
    <3>2. left[t][j] = timers[t][j] /\ j \in DOMAIN left[t]
      BY <1>2, <1>4, <2>1, <3>1
    <3>3. QED
      BY <2>1, <3>2
  <2>2. CASE u = t /\ j > i
    <3>1. j - 1 \in 1 .. Len(timers[t]) - 1 /\ ~(j - 1 < i) /\ (j - 1) + 1 = j
      BY <1>1, <2>2
    <3>2. left[t][j - 1] = timers[t][j] /\ j - 1 \in DOMAIN left[t]
      BY <1>2, <1>4, <3>1
    <3>3. QED
      BY <2>2, <3>2
  <2>3. CASE u # t
    BY <1>4, <2>3
  <2>4. u = t => j < i \/ j > i
    BY <1>1, <1>6
  <2>5. QED
    BY <2>1, <2>2, <2>3, <2>4
<1>7. DistinctIn(left)
  <2>1. SUFFICES ASSUME NEW u \in Targets, NEW v \in Targets,
                        NEW j \in DOMAIN left[u], NEW k \in DOMAIN left[v],
                        left[u][j] = left[v][k]
                 PROVE  u = v /\ j = k
    BY DEF DistinctIn
  <2>2. timers[u][Old(u, j)] = timers[v][Old(v, k)]
    BY <1>5, <2>1
  <2>3. u = v /\ Old(u, j) = Old(v, k)
    BY <1>5, <2>2 DEF ListInv, DistinctIn
  <2>4. j \in Int /\ k \in Int /\ i \in Int
    BY <1>1, <1>3
  <2>5. QED
    BY <2>3, <2>4
<1>8. x \in Listed
  BY InLists DEF Listed
<1>9. UNION {Range(left[u]) : u \in Targets} = Listed \ {x}
  <2>1. ASSUME NEW y
        PROVE  y \in UNION {Range(left[u]) : u \in Targets} <=>
                 y \in Listed \ {x}
    <3>1. ASSUME NEW u \in Targets, NEW j \in DOMAIN left[u], left[u][j] = y
          PROVE  y \in Listed \ {x}
      <4>1. Old(u, j) \in DOMAIN timers[u] /\ timers[u][Old(u, j)] = y
        BY <1>5, <3>1
      <4>2. y # x
        BY <1>5, <4>1 DEF ListInv, DistinctIn
      <4>3. QED
        BY <4>1, <4>2, InLists DEF Listed
    <3>2. ASSUME NEW u \in Targets, NEW j \in DOMAIN timers[u],
                 timers[u][j] = y, y # x
          PROVE  \E v \in Targets : \E k \in DOMAIN left[v] : left[v][k] = y
      BY <1>6, <3>2
    <3>3. y \in UNION {Range(left[u]) : u \in Targets} => y \in Listed \ {x}
      BY <3>1, InLists
    <3>4. ASSUME y \in Listed, y # x
          PROVE  y \in UNION {Range(left[u]) : u \in Targets}
      <4>1. \E u \in Targets : \E j \in DOMAIN timers[u] : timers[u][j] = y
        BY <3>4, InLists DEF Listed
      <4>2. \E v \in Targets : \E k \in DOMAIN left[v] : left[v][k] = y
        BY <3>2, <3>4, <4>1
      <4>3. QED
        BY <4>2, InLists
    <3>5. QED
      BY <3>3, <3>4
  <2>2. QED
    BY <2>1
<1>10. DropTimers({x}, left) /\ UNCHANGED currentTimer
  BY DEF RemoveTimer
<1> HIDE DEF x, left
<1>11. QED
  BY <1>3, <1>7, <1>8, <1>9, <1>10, ListInvDrop

(* All timers of the targets in U leave their lists.                       *)
LEMMA ListInvEmpty ==
  ASSUME ListInv, NEW U \in SUBSET Targets, UNCHANGED currentTimer,
         DropTimers(UNION {Range(timers[t]) : t \in U},
                    [t \in Targets |-> IF t \in U THEN <<>> ELSE timers[t]])
  PROVE  ListInv'
<1> DEFINE X == UNION {Range(timers[t]) : t \in U}
           left == [t \in Targets |-> IF t \in U THEN <<>> ELSE timers[t]]
<1>1. left \in [Targets -> Seq(Timers)]
  BY DEF ListInv
<1>2. X \in SUBSET Listed
  BY DEF Listed
<1>3. DistinctIn(left)
  BY DEF ListInv, DistinctIn
<1>4. ASSUME NEW y
      PROVE  y \in UNION {Range(left[t]) : t \in Targets} <=> y \in Listed \ X
  <2>1. y \in X <=> \E t \in U : \E i \in DOMAIN timers[t] : timers[t][i] = y
    BY DEF Range
  <2>2. ASSUME NEW t \in Targets, NEW i \in DOMAIN left[t], left[t][i] = y
        PROVE  y \in Listed /\ y \notin X
    <3>1. t \notin U /\ i \in DOMAIN timers[t] /\ timers[t][i] = y
      BY <2>2
    <3>2. y \notin X
      BY <2>1, <3>1 DEF ListInv, DistinctIn
    <3>3. QED
      BY <3>1, <3>2, InLists DEF Listed
  <2>3. ASSUME y \in Listed, y \notin X
        PROVE  \E t \in Targets : \E i \in DOMAIN left[t] : left[t][i] = y
    <3>1. PICK t \in Targets : \E i \in DOMAIN timers[t] : timers[t][i] = y
      BY <2>3, InLists DEF Listed
    <3>2. PICK i \in DOMAIN timers[t] : timers[t][i] = y
      BY <3>1
    <3>3. t \notin U
      BY <2>1, <2>3, <3>2
    <3>4. QED
      BY <3>2, <3>3
  <2>4. QED
    BY <2>2, <2>3, InLists
<1> HIDE DEF X, left
<1>5. UNION {Range(left[t]) : t \in Targets} = Listed \ X
  BY <1>4
<1>6. DropTimers(X, left)
  BY DEF X, left
<1>7. QED
  BY <1>1, <1>2, <1>3, <1>5, <1>6, ListInvDrop

(* A timer that was free joins a list.                                     *)
LEMMA ListInvAdd ==
  ASSUME ListInv, NEW t \in Targets, NEW k, NEW s, NEW p, AddTimer(t, k, s, p)
  PROVE  ListInv'
<1>1. PICK x \in Timers : /\ refs[x] = 0
                          /\ refs' = [refs EXCEPT ![x] = 1]
                          /\ timers' = [timers EXCEPT ![t] = Append(@, x)]
  BY DEF AddTimer
<1>2. UNCHANGED <<currentTimer, timerSalvaged>>
  BY DEF AddTimer, walk
<1>3. x \notin Listed /\ x # currentTimer
  <2>1. None \notin Timers
    BY SchedulerAssumption
  <2>2. QED
    BY <1>1, <2>1 DEF ListInv, RefsExact
<1>4. timers' \in [Targets -> Seq(Timers)] /\ refs' \in [Timers -> {0, 1}]
  BY <1>1 DEF ListInv
(* What the new lists hold: what the old ones did, and x at the end of t's. *)
<1>5. ASSUME NEW u \in Targets, NEW j \in DOMAIN timers'[u]
      PROVE  \/ j \in DOMAIN timers[u] /\ timers'[u][j] = timers[u][j]
             \/ u = t /\ j = Len(timers[t]) + 1 /\ timers'[u][j] = x
  <2>1. CASE u = t
    <3>1. timers[t] \in Seq(Timers) /\ timers'[t] = Append(timers[t], x)
      BY <1>1 DEF ListInv
    <3>2. QED
      BY <2>1, <3>1
  <2>2. CASE u # t
    BY <1>1, <2>2 DEF ListInv
  <2>3. QED
    BY <2>1, <2>2
<1>6. ASSUME NEW u \in Targets, NEW j \in DOMAIN timers[u]
      PROVE  /\ j \in DOMAIN timers'[u] /\ timers'[u][j] = timers[u][j]
             /\ timers[u][j] # x
  <2>1. timers[u][j] # x
    BY <1>3, InLists DEF Listed
  <2>2. timers[u] \in Seq(Timers)
    BY DEF ListInv
  <2>3. timers'[u] = timers[u] \/ timers'[u] = Append(timers[u], x)
    BY <1>1 DEF ListInv
  <2>4. QED
    BY <2>1, <2>2, <2>3
<1>7. Len(timers[t]) + 1 \in DOMAIN timers'[t]
      /\ timers'[t][Len(timers[t]) + 1] = x
  <2>1. timers[t] \in Seq(Timers) /\ timers'[t] = Append(timers[t], x)
    BY <1>1 DEF ListInv
  <2>2. QED
    BY <2>1
<1>8. DistinctIn(timers')
  <2>1. SUFFICES ASSUME NEW u \in Targets, NEW v \in Targets,
                        NEW i \in DOMAIN timers'[u], NEW j \in DOMAIN timers'[v],
                        timers'[u][i] = timers'[v][j]
                 PROVE  u = v /\ i = j
    BY DEF DistinctIn
  <2>2. CASE i \in DOMAIN timers[u] /\ timers'[u][i] = timers[u][i]
    <3>1. timers'[u][i] # x
      BY <1>6, <2>2
    <3>2. timers'[v][j] # x
      BY <2>1, <3>1
    <3>3. j \in DOMAIN timers[v] /\ timers'[v][j] = timers[v][j]
      BY <1>5, <3>2
    <3>4. timers[u][i] = timers[v][j]
      BY <2>1, <2>2, <3>3
    <3>5. QED
      BY <2>2, <3>3, <3>4 DEF ListInv, DistinctIn
  <2>3. CASE u = t /\ i = Len(timers[t]) + 1 /\ timers'[u][i] = x
    BY <1>5, <1>6, <2>1, <2>3
  <2>4. QED
    BY <1>5, <2>2, <2>3
<1>9. ASSUME NEW y
      PROVE  y \in Listed' <=> y \in Listed \cup {x}
  <2>1. y \in Listed' <=>
          \E u \in Targets : \E j \in DOMAIN timers'[u] : timers'[u][j] = y
    BY InLists DEF Listed
  <2>2. y \in Listed <=>
          \E u \in Targets : \E j \in DOMAIN timers[u] : timers[u][j] = y
    BY InLists DEF Listed
  <2>3. QED
    BY <1>5, <1>6, <1>7, <2>1, <2>2
<1>10. ASSUME NEW y \in Timers
       PROVE  refs'[y] = IF y \in Listed' \/ (y = currentTimer' /\ timerSalvaged')
                         THEN 1 ELSE 0
  <2>1. CASE y = x
    BY <1>1, <1>9, <2>1 DEF ListInv
  <2>2. CASE y # x
    BY <1>1, <1>2, <1>9, <2>2 DEF ListInv, RefsExact
  <2>3. QED
    BY <2>1, <2>2
<1>11. RefsExact'
  BY <1>1, <1>2, <1>3, <1>10 DEF ListInv, RefsExact
<1>12. timerSalvaged' => currentTimer' # None /\ currentTimer' \notin Listed'
  BY <1>2, <1>3, <1>9 DEF ListInv
<1>13. QED
  BY <1>2, <1>4, <1>8, <1>11, <1>12 DEF ListInv, DistinctIn

(* The next timer of the list being walked becomes the current one.        *)
LEMMA ListInvTick ==
  ASSUME ListInv, ~timerSalvaged, currentTarget \in Targets,
         timerIndex \in Nat \ {0}, NEW x, NEW f, Tick(x, f)
  PROVE  ListInv' /\ x \in Timers /\ x \in Listed
<1>1. /\ currentTimer' = x /\ timerSalvaged' = FALSE
      /\ UNCHANGED <<timers, refs>>
      /\ timerIndex <= Len(timers[currentTarget])
      /\ x = timers[currentTarget][timerIndex]
  BY DEF Tick, lists
<1>2. timers[currentTarget] \in Seq(Timers)
  BY DEF ListInv
<1>3. timerIndex \in DOMAIN timers[currentTarget] /\ x \in Timers
  BY <1>1, <1>2
<1>4. x \in Listed /\ Listed' = Listed
  BY <1>1, <1>3, InLists DEF Listed
<1>5. RefsExact'
  BY <1>1, <1>3, <1>4 DEF ListInv, RefsExact
<1>6. DistinctIn(timers)'
  BY <1>1 DEF ListInv, DistinctIn
<1>7. QED
  BY <1>1, <1>3, <1>4, <1>5, <1>6 DEF ListInv

LEMMA ListInvNext ==
  ASSUME ListInv, currentTimer # None, NextTimer
  PROVE  ListInv'
<1>1. /\ refs' = IF timerSalvaged THEN [refs EXCEPT ![currentTimer] = @ - 1]
                 ELSE refs
      /\ currentTimer' = None /\ timerSalvaged' = FALSE /\ UNCHANGED timers
  BY DEF NextTimer
<1>2. Listed' = Listed
  BY <1>1 DEF Listed
<1>3. ASSUME NEW y \in Timers
      PROVE  refs'[y] = IF y \in Listed THEN 1 ELSE 0
  <2>1. CASE timerSalvaged /\ y = currentTimer
    BY <1>1, <2>1 DEF ListInv, RefsExact
  <2>2. CASE ~(timerSalvaged /\ y = currentTimer)
    BY <1>1, <2>2 DEF ListInv, RefsExact
  <2>3. QED
    BY <2>1, <2>2
<1>4. refs' \in [Timers -> {0, 1}]
  BY <1>1, <1>3 DEF ListInv
<1>5. DistinctIn(timers)'
  BY <1>1 DEF ListInv, DistinctIn
<1>6. RefsExact'
  BY <1>1, <1>2, <1>3 DEF RefsExact
<1>7. QED
  BY <1>1, <1>4, <1>5, <1>6 DEF ListInv

------------------------------------------------------------------------------
(* The entries of the hash map, and the one being walked.                  *)

Injective(s) == \A i, j \in DOMAIN s : s[i] = s[j] => i = j

HashInv ==
  /\ hash \in Seq(Targets)
  /\ Injective(hash)
  /\ paused \in [Targets -> BOOLEAN]
  /\ targetSalvaged \in BOOLEAN
  /\ currentTarget \in Hashed \cup {None}
  /\ NoEmptyEntry

LEMMA PositionFacts ==
  ASSUME NEW s, NEW x \in Range(s)
  PROVE  Position(s, x) \in DOMAIN s /\ s[Position(s, x)] = x
BY DEF Position, Range

LEMMA RangeSeq ==
  ASSUME NEW S, NEW s \in Seq(S), NEW x \in Range(s)
  PROVE  x \in S
BY DEF Range

LEMMA RemoveEntry ==
  ASSUME NEW S, NEW s \in Seq(S), Injective(s), NEW x \in Range(s)
  PROVE  /\ RemoveAt(s, Position(s, x)) \in Seq(S)
         /\ Injective(RemoveAt(s, Position(s, x)))
         /\ \A y : y \in Range(RemoveAt(s, Position(s, x))) <=>
                     y \in Range(s) /\ y # x
<1> DEFINE i == Position(s, x)
           r == RemoveAt(s, i)
<1>1. i \in DOMAIN s /\ s[i] = x
  BY PositionFacts
<1> HIDE DEF i
<1>2. i \in 1 .. Len(s) /\ Len(s) \in Nat
  BY <1>1
<1>3. /\ r \in Seq(S) /\ Len(r) = Len(s) - 1
      /\ \A j \in 1 .. Len(s) - 1 : r[j] = IF j < i THEN s[j] ELSE s[j + 1]
  BY <1>1, RemoveAtFacts
<1> HIDE DEF r
<1>4. DOMAIN r = 1 .. Len(s) - 1 /\ DOMAIN s = 1 .. Len(s)
  BY <1>3
<1>5. Injective(r)
  <2>1. SUFFICES ASSUME NEW j \in 1 .. Len(s) - 1, NEW k \in 1 .. Len(s) - 1,
                        r[j] = r[k]
                 PROVE  j = k
    BY <1>4 DEF Injective
  <2> DEFINE J == IF j < i THEN j ELSE j + 1
             K == IF k < i THEN k ELSE k + 1
  <2>2. J \in DOMAIN s /\ K \in DOMAIN s /\ r[j] = s[J] /\ r[k] = s[K]
    BY <1>2, <1>3, <1>4
  <2>3. J = K
    BY <2>1, <2>2 DEF Injective
  <2>4. QED
    BY <1>2, <2>3
<1>6. ASSUME NEW y \in Range(r)
      PROVE  y \in Range(s) /\ y # x
  <2>1. PICK j \in 1 .. Len(s) - 1 : r[j] = y
    BY <1>4 DEF Range
  <2> DEFINE J == IF j < i THEN j ELSE j + 1
  <2>2. J \in DOMAIN s /\ y = s[J] /\ J # i
    BY <1>2, <1>3, <1>4, <2>1
  <2>3. QED
    BY <1>1, <2>2 DEF Injective, Range
<1>7. ASSUME NEW y \in Range(s), y # x
      PROVE  y \in Range(r)
  <2>1. PICK j \in DOMAIN s : s[j] = y
    BY DEF Range
  <2>2. j # i
    BY <1>1, <1>7, <2>1
  <2> DEFINE J == IF j < i THEN j ELSE j - 1
  <2>3. J \in 1 .. Len(s) - 1 /\ r[J] = y
    <3>1. CASE j < i
      BY <1>2, <1>3, <1>4, <2>1, <3>1
    <3>2. CASE j > i
      <4>1. j - 1 \in 1 .. Len(s) - 1 /\ ~(j - 1 < i) /\ (j - 1) + 1 = j
            /\ ~(j < i)
        BY <1>2, <1>4, <3>2
      <4>2. r[j - 1] = s[j]
        BY <1>3, <4>1
      <4>3. QED
        BY <2>1, <4>1, <4>2
    <3>3. j < i \/ j > i
      BY <1>2, <1>4, <2>2
    <3>4. QED
      BY <3>1, <3>2, <3>3
  <2>4. QED
    BY <1>4, <2>3 DEF Range
<1>8. \A y : y \in Range(r) <=> y \in Range(s) /\ y # x
  BY <1>6, <1>7
<1>9. QED
  BY <1>3, <1>5, <1>8 DEF r, i

LEMMA InsertEntry ==
  ASSUME NEW S, NEW s \in Seq(S), Injective(s), NEW i \in 1 .. Len(s) + 1,
         NEW x \in S, x \notin Range(s)
  PROVE  /\ InsertAt(s, i, x) \in Seq(S)
         /\ Injective(InsertAt(s, i, x))
         /\ \A y : y \in Range(InsertAt(s, i, x)) <=> y \in Range(s) \/ y = x
<1> DEFINE r == InsertAt(s, i, x)
<1>1. i \in 1 .. Len(s) + 1 /\ Len(s) \in Nat /\ i \in Nat
  OBVIOUS
<1>2. /\ r \in Seq(S) /\ Len(r) = Len(s) + 1
      /\ \A j \in 1 .. Len(s) + 1 :
           r[j] = IF j < i THEN s[j] ELSE IF j = i THEN x ELSE s[j - 1]
  <2>1. r \in Seq(S) /\ Inserted(r, s, i, x)
    BY InsertAtFacts
  <2> HIDE DEF r
  <2>2. QED
    BY <2>1 DEF Inserted
<1> HIDE DEF r
<1>3. DOMAIN r = 1 .. Len(s) + 1 /\ DOMAIN s = 1 .. Len(s)
  BY <1>2
<1>4. ASSUME NEW j \in DOMAIN s
      PROVE  s[j] # x
  BY DEF Range
<1>5. ASSUME NEW j \in 1 .. Len(s) + 1, j # i
      PROVE  LET J == IF j < i THEN j ELSE j - 1
             IN  J \in DOMAIN s /\ r[j] = s[J]
  <2>1. CASE j < i
    <3>1. j \in DOMAIN s
      BY <1>1, <1>3, <2>1
    <3>2. QED
      BY <1>2, <2>1, <3>1
  <2>2. CASE ~(j < i)
    <3>1. j - 1 \in DOMAIN s
      BY <1>1, <1>3, <1>5, <2>2
    <3>2. QED
      BY <1>2, <1>5, <2>2, <3>1
  <2>3. QED
    BY <2>1, <2>2
<1>6. r[i] = x
  BY <1>1, <1>2
<1>7. Injective(r)
  <2>1. SUFFICES ASSUME NEW j \in 1 .. Len(s) + 1, NEW k \in 1 .. Len(s) + 1,
                        r[j] = r[k]
                 PROVE  j = k
    BY <1>3 DEF Injective
  <2>2. CASE j # i /\ k # i
    <3> DEFINE J == IF j < i THEN j ELSE j - 1
               K == IF k < i THEN k ELSE k - 1
    <3>1. J \in DOMAIN s /\ K \in DOMAIN s /\ r[j] = s[J] /\ r[k] = s[K]
      BY <1>5, <2>2
    <3>2. J = K
      BY <2>1, <3>1 DEF Injective
    <3>3. QED
      BY <1>1, <2>2, <3>2
  <2>3. CASE j = i
    BY <1>4, <1>5, <1>6, <2>1, <2>3
  <2>4. CASE k = i
    BY <1>4, <1>5, <1>6, <2>1, <2>4
  <2>5. QED
    BY <2>2, <2>3, <2>4
<1>8. ASSUME NEW y \in Range(r)
      PROVE  y \in Range(s) \/ y = x
  <2>1. PICK j \in 1 .. Len(s) + 1 : r[j] = y
    BY <1>3 DEF Range
  <2>2. QED
    BY <1>5, <1>6, <2>1 DEF Range
<1>9. ASSUME NEW y \in Range(s)
      PROVE  y \in Range(r)
  <2>1. PICK j \in DOMAIN s : s[j] = y
    BY DEF Range
  <2>2. CASE j < i
    <3>1. j \in 1 .. Len(s) + 1 /\ r[j] = s[j]
      BY <1>1, <1>2, <1>3, <2>2
    <3>2. QED
      BY <1>3, <2>1, <3>1 DEF Range
  <2>3. CASE ~(j < i)
    <3>1. j + 1 \in 1 .. Len(s) + 1 /\ ~(j + 1 < i) /\ j + 1 # i
          /\ (j + 1) - 1 = j
      BY <1>1, <1>3, <2>3
    <3>2. r[j + 1] = s[j]
      BY <1>2, <3>1
    <3>3. QED
      BY <1>3, <2>1, <3>1, <3>2 DEF Range
  <2>4. QED
    BY <2>2, <2>3
<1>10. x \in Range(r)
  BY <1>1, <1>3, <1>6 DEF Range
<1>11. QED
  BY <1>2, <1>7, <1>8, <1>9, <1>10 DEF r

LEMMA HashInvSame ==
  ASSUME HashInv,
         UNCHANGED <<hash, timers, paused, currentTarget, targetSalvaged>>
  PROVE  HashInv'
BY DEF HashInv, Injective, Hashed, NoEmptyEntry

(* A target has an entry as soon as it has a timer.                        *)
LEMMA HashInvAdd ==
  ASSUME HashInv, ListInv, NEW t \in Targets, NEW k, NEW s, NEW p \in BOOLEAN,
         AddTimer(t, k, s, p)
  PROVE  HashInv'
<1>1. PICK x \in Timers : timers' = [timers EXCEPT ![t] = Append(@, x)]
  BY DEF AddTimer
<1>2. UNCHANGED <<currentTarget, targetSalvaged>>
  BY DEF AddTimer, walk
<1>3. /\ hash' \in Seq(Targets) /\ Injective(hash')
      /\ \A y : y \in Range(hash') <=> y \in Range(hash) \/ y = t
      /\ paused' \in [Targets -> BOOLEAN]
      /\ \A u \in Targets \ {t} : paused'[u] = paused[u]
  <2>1. CASE t \in Hashed
    BY <2>1 DEF AddTimer, NewEntry, HashInv, Hashed
  <2>2. CASE t \notin Hashed
    <3>1. PICK i \in 1 .. Len(hash) + 1 : hash' = InsertAt(hash, i, t)
      BY <2>2 DEF AddTimer, NewEntry
    <3>2. paused' = [paused EXCEPT ![t] = p]
      BY <2>2 DEF AddTimer, NewEntry
    <3>3. hash \in Seq(Targets) /\ Injective(hash) /\ t \notin Range(hash)
      BY <2>2 DEF HashInv, Hashed
    <3>4. /\ InsertAt(hash, i, t) \in Seq(Targets)
          /\ Injective(InsertAt(hash, i, t))
          /\ \A y : y \in Range(InsertAt(hash, i, t)) <=>
                      y \in Range(hash) \/ y = t
      BY <3>3, InsertEntry
    <3>5. QED
      BY <3>1, <3>2, <3>4 DEF HashInv
  <2>3. QED
    BY <2>1, <2>2
<1>4. /\ timers'[t] # <<>>
      /\ \A u \in Targets \ {t} : timers'[u] = timers[u]
  <2>1. timers \in [Targets -> Seq(Timers)] /\ timers[t] \in Seq(Timers)
    BY DEF ListInv
  <2>2. timers'[t] = Append(timers[t], x)
    BY <1>1, <2>1
  <2>3. QED
    BY <1>1, <2>1, <2>2
<1>5. NoEmptyEntry'
  BY <1>2, <1>3, <1>4 DEF HashInv, NoEmptyEntry, Hashed
<1>6. QED
  BY <1>2, <1>3, <1>5 DEF HashInv, Hashed, Injective

(* The last timers of t left: its entry goes, or is marked.                *)
LEMMA HashInvDrop ==
  ASSUME HashInv, NEW t \in Hashed, DropEntry(t), UNCHANGED currentTarget,
         timers'[t] = <<>>,
         \A u \in Targets \ {t} : timers'[u] = timers[u]
  PROVE  HashInv'
<1>1. CASE t = currentTarget
  <2>1. UNCHANGED <<hash, paused>> /\ targetSalvaged' = TRUE
    BY <1>1 DEF DropEntry
  <2>2. NoEmptyEntry'
    BY <1>1, <2>1 DEF HashInv, NoEmptyEntry, Hashed
  <2>3. QED
    BY <2>1, <2>2 DEF HashInv, Hashed, Injective
<1>2. CASE t # currentTarget
  <2>1. /\ hash' = RemoveAt(hash, Position(hash, t))
        /\ paused' = [paused EXCEPT ![t] = FALSE]
        /\ UNCHANGED targetSalvaged
    BY <1>2 DEF DropEntry
  <2>2. hash \in Seq(Targets) /\ Injective(hash) /\ t \in Range(hash)
    BY DEF HashInv, Hashed
  <2>3. t \in Targets
    BY <2>2, RangeSeq
  <2>4. /\ hash' \in Seq(Targets) /\ Injective(hash')
        /\ \A y : y \in Range(hash') <=> y \in Range(hash) /\ y # t
    BY <2>1, <2>2, RemoveEntry
  <2>5. /\ paused' \in [Targets -> BOOLEAN] /\ ~paused'[t]
        /\ \A u \in Targets \ {t} : paused'[u] = paused[u]
    BY <2>1, <2>3 DEF HashInv
  <2>6. NoEmptyEntry'
    BY <2>1, <2>4, <2>5 DEF HashInv, NoEmptyEntry, Hashed
  <2>7. QED
    BY <1>2, <2>1, <2>4, <2>5, <2>6 DEF HashInv, Hashed, Injective
<1>3. QED
  BY <1>1, <1>2

LEMMA HashInvRemove ==
  ASSUME HashInv, ListInv, NEW t \in Targets, NEW i \in DOMAIN timers[t],
         RemoveTimer(t, i)
  PROVE  HashInv'
<1>1. timers \in [Targets -> Seq(Timers)] /\ timers[t] \in Seq(Timers)
  BY DEF ListInv
<1>2. /\ timers' = [timers EXCEPT ![t] = RemoveAt(timers[t], i)]
      /\ UNCHANGED currentTarget
  BY DEF RemoveTimer, DropTimers
<1>3. /\ timers'[t] = RemoveAt(timers[t], i)
      /\ \A u \in Targets \ {t} : timers'[u] = timers[u]
  BY <1>1, <1>2
<1>4. timers'[t] \in Seq(Timers) /\ Len(timers'[t]) = Len(timers[t]) - 1
  BY <1>1, <1>3, RemoveAtFacts
<1>5. timers[t] # <<>> /\ t \in Hashed
  <2>1. timers[t] # <<>>
    OBVIOUS
  <2>2. QED
    BY <2>1 DEF HashInv, NoEmptyEntry
<1>6. CASE Len(timers[t]) = 1
  <2>1. timers'[t] = <<>> /\ DropEntry(t)
    BY <1>4, <1>6 DEF RemoveTimer
  <2>2. QED
    BY <1>2, <1>3, <1>5, <2>1, HashInvDrop
<1>7. CASE Len(timers[t]) # 1
  <2>1. UNCHANGED <<hash, paused, targetSalvaged, currentTarget>>
    BY <1>2, <1>7 DEF RemoveTimer
  <2>2. timers'[t] # <<>>
    <3>1. Len(timers'[t]) # 0
      BY <1>1, <1>4, <1>7
    <3>2. QED
      BY <3>1
  <2>3. NoEmptyEntry'
    BY <1>3, <1>5, <2>1, <2>2 DEF HashInv, NoEmptyEntry, Hashed
  <2>4. QED
    BY <2>1, <2>3 DEF HashInv, Hashed, Injective
<1>8. QED
  BY <1>6, <1>7

LEMMA HashInvClear ==
  ASSUME HashInv, UnscheduleAll
  PROVE  HashInv'
<1>1. /\ timers' = [t \in Targets |-> <<>>]
      /\ hash' = IF currentTarget = None THEN <<>> ELSE <<currentTarget>>
      /\ paused' = [t \in Targets |-> paused[t] /\ t = currentTarget]
      /\ targetSalvaged' = (targetSalvaged \/ currentTarget # None)
      /\ UNCHANGED currentTarget
  BY DEF UnscheduleAll, DropTimers
<1>2. currentTarget # None => currentTarget \in Targets
  BY RangeSeq DEF HashInv, Hashed
<1>3. hash' \in Seq(Targets) /\ Injective(hash')
  BY <1>1, <1>2 DEF Injective
<1>4. \A y : y \in Range(hash') <=> currentTarget # None /\ y = currentTarget
  BY <1>1 DEF Range
<1>5. paused' \in [Targets -> BOOLEAN] /\ targetSalvaged' \in BOOLEAN
  BY <1>1 DEF HashInv
<1>6. NoEmptyEntry'
  <2>1. None \notin Targets
    BY SchedulerAssumption
  <2>2. SUFFICES ASSUME NEW t \in Targets
                 PROVE  /\ t \notin Hashed' => timers'[t] = <<>> /\ ~paused'[t]
                        /\ t \in Hashed' => t = currentTarget' /\ targetSalvaged'
    BY DEF NoEmptyEntry
  <2>3. t \in Hashed' <=> t = currentTarget
    BY <1>4, <2>1 DEF Hashed
  <2>4. timers'[t] = <<>> /\ (paused'[t] => t = currentTarget)
    BY <1>1
  <2>5. QED
    BY <1>1, <2>1, <2>3, <2>4
<1>7. QED
  BY <1>1, <1>3, <1>4, <1>5, <1>6 DEF HashInv, Hashed, Injective

(* The iterator moves on along the entries.                                *)
LEMMA SuccessorFacts ==
  ASSUME HashInv, NEW t \in Hashed \cup {None}
  PROVE  /\ Successor(t) \in Hashed \cup {None}
         /\ t # None => /\ Successor(t) # t
                        /\ Successor(Successor(t)) # t
                        /\ Successor(Successor(t)) \in Hashed \cup {None}
<1>1. hash \in Seq(Targets) /\ Injective(hash)
  BY DEF HashInv
<1> DEFINE n == Len(hash)
<1>len. n \in Nat /\ \A i : i \in DOMAIN hash <=> i \in 1 .. n
  BY <1>1
<1> HIDE DEF n
<1>2. ASSUME NEW x \in Hashed
      PROVE  /\ Position(hash, x) \in 1 .. n
             /\ hash[Position(hash, x)] = x
             /\ x # None
  <2>1. x \in Targets /\ x # None
    BY <1>1, <1>len, RangeSeq, SchedulerAssumption DEF Hashed
  <2>2. QED
    BY <1>1, <1>len, <2>1, PositionFacts DEF Hashed
<1>3. ASSUME NEW i \in 1 .. n
      PROVE  /\ i = n => Successor(hash[i]) = None
             /\ i # n => Successor(hash[i]) = hash[i + 1]
             /\ hash[i] \in Hashed
  <2>1. hash[i] \in Hashed
    BY <1>1, <1>len DEF Hashed, Range
  <2>2. Position(hash, hash[i]) = i
    BY <1>1, <1>len, <1>2, <2>1 DEF Injective
  <2>3. QED
    BY <1>2, <2>1, <2>2 DEF Successor, n
<1>4. Successor(None) = None
  BY DEF Successor
<1>5. CASE t = None
  BY <1>4, <1>5
<1>6. CASE t \in Hashed
  <2> DEFINE i == Position(hash, t)
  <2>1. i \in 1 .. n /\ hash[i] = t /\ t # None
    BY <1>2, <1>6
  <2> HIDE DEF i
  <2>2. CASE i = n
    <3>1. Successor(t) = None
      BY <1>3, <2>1, <2>2
    <3>2. QED
      BY <1>4, <2>1, <3>1
  <2>3. CASE i # n
    <3> DEFINE j == i + 1
    <3>1. /\ j \in 1 .. n /\ j # i /\ j + 1 # i
          /\ Successor(t) = hash[j]
      <4>1. j \in 1 .. n /\ j # i /\ j + 1 # i
        BY <1>1, <1>len, <2>1, <2>3
      <4>2. Successor(hash[i]) = hash[i + 1]
        BY <1>3, <2>1, <2>3, Zenon
      <4>3. QED
        BY <2>1, <4>1, <4>2, Zenon
    <3> HIDE DEF j
    <3>2. hash[j] \in Hashed /\ hash[j] # t
      BY <1>1, <1>len, <1>3, <2>1, <3>1 DEF Injective
    <3>3. CASE j = n
      <4>1. Successor(Successor(t)) = None
        BY <1>3, <3>1, <3>3, Zenon
      <4>2. QED
        BY <2>1, <3>1, <3>2, <4>1
    <3>4. CASE j # n
      <4>1. j + 1 \in 1 .. n
        BY <1>1, <1>len, <3>1, <3>4
      <4>2. Successor(Successor(t)) = hash[j + 1]
        BY <1>3, <3>1, <3>4, Zenon
      <4>3. hash[j + 1] \in Hashed
        BY <1>3, <4>1, Zenon
      <4>4. hash[j + 1] # t
        BY <1>1, <1>len, <2>1, <3>1, <4>1 DEF Injective
      <4>5. QED
        BY <2>1, <3>1, <3>2, <4>2, <4>3, <4>4, Zenon
    <3>5. QED
      BY <3>3, <3>4
  <2>4. QED
    BY <2>2, <2>3
<1>7. QED
  BY <1>5, <1>6

LEMMA HashInvUpdate ==
  ASSUME HashInv, currentTarget = None, Update
  PROVE  HashInv'
<1>1. /\ hash # <<>> /\ currentTarget' = hash[1] /\ targetSalvaged' = FALSE
      /\ UNCHANGED <<hash, paused, timers>>
  BY DEF Update, Enter
<1>2. hash[1] \in Hashed
  <2>1. hash \in Seq(Targets)
    BY DEF HashInv
  <2>2. 1 \in DOMAIN hash
    BY <1>1, <2>1
  <2>3. QED
    BY <2>2 DEF Hashed, Range
<1>3. NoEmptyEntry'
  <2>1. None \notin Targets
    BY SchedulerAssumption
  <2>2. QED
    BY <1>1, <2>1 DEF HashInv, NoEmptyEntry, Hashed
<1>4. QED
  BY <1>1, <1>2, <1>3 DEF HashInv, Hashed, Injective

(* The entry that is removed is the one the iterator has left.             *)
LEMMA HashInvLeave ==
  ASSUME HashInv, currentTarget # None, LeaveTarget
  PROVE  HashInv'
<1>1. currentTarget \in Hashed /\ hash \in Seq(Targets) /\ Injective(hash)
  BY DEF HashInv
<1>2. currentTarget \in Targets
  BY <1>1, RangeSeq DEF Hashed
<1>3. UNCHANGED timers /\ targetSalvaged' = FALSE
  BY DEF LeaveTarget, Enter
<1>4. CASE targetSalvaged /\ timers[currentTarget] = <<>>
  <2>1. /\ hash' = RemoveAt(hash, Position(hash, currentTarget))
        /\ paused' = [paused EXCEPT ![currentTarget] = FALSE]
        /\ currentTarget' = Successor(Successor(currentTarget))
    BY <1>4 DEF LeaveTarget, Enter
  <2>2. /\ hash' \in Seq(Targets) /\ Injective(hash')
        /\ \A y : y \in Range(hash') <=> y \in Range(hash) /\ y # currentTarget
    BY <1>1, <2>1, RemoveEntry DEF Hashed
  <2>3. currentTarget' \in Hashed' \cup {None}
    BY <1>1, <2>1, <2>2, SuccessorFacts DEF Hashed
  <2>4. /\ paused' \in [Targets -> BOOLEAN] /\ ~paused'[currentTarget]
        /\ \A u \in Targets \ {currentTarget} : paused'[u] = paused[u]
    BY <1>2, <2>1 DEF HashInv
  <2>5. NoEmptyEntry'
    BY <1>3, <1>4, <2>2, <2>4 DEF HashInv, NoEmptyEntry, Hashed
  <2>6. QED
    BY <1>3, <2>2, <2>3, <2>4, <2>5 DEF HashInv
<1>5. CASE ~(targetSalvaged /\ timers[currentTarget] = <<>>)
  <2>1. UNCHANGED <<hash, paused>> /\ currentTarget' = Successor(currentTarget)
    BY <1>5 DEF LeaveTarget, Enter
  <2>2. currentTarget' \in Hashed \cup {None}
    BY <1>1, <2>1, SuccessorFacts
  <2>3. NoEmptyEntry'
    BY <1>3, <1>5, <2>1 DEF HashInv, NoEmptyEntry, Hashed
  <2>4. QED
    BY <1>3, <2>1, <2>2, <2>3 DEF HashInv, Hashed, Injective
<1>6. QED
  BY <1>4, <1>5

------------------------------------------------------------------------------
(* Where update() is, and the fields of the timers.                        *)

WalkInv ==
  /\ pc \in {"idle", "leave", "timer", "loop", "callback", "cancel", "next"}
  /\ dt \in Deltas \cup {0}
  /\ currentTarget \in Targets \cup {None}
  /\ (currentTarget = None) <=> (pc = "idle")
  /\ timerIndex \in Nat
  /\ pc = "timer" => timerIndex # 0
  /\ (currentTimer = None) <=> (pc \in {"idle", "leave", "timer"})
  /\ due \subseteq Timers /\ ticked \subseteq Timers
  /\ fired \in BOOLEAN

TimerRecord ==
  [key : Keys \cup {None}, elapsed : Nat \cup {-1}, interval : Nat,
   repeat : Nat \cup {Forever}, delay : Nat, useDelay : BOOLEAN, executed : Nat]

(* A list has a key once; and what the callback takes from elapsed when it *)
(* returns is there.                                                       *)
TimerInv ==
  /\ timer \in [Timers -> TimerRecord]
  /\ \A t \in Targets : \A x, y \in Range(timers[t]) :
       timer[x].key = timer[y].key => x = y
  /\ interval \in Nat
  /\ pc = "loop" => /\ timer[currentTimer].elapsed \in Nat
                    /\ ~timer[currentTimer].useDelay
  /\ pc = "callback" => /\ timer[currentTimer].elapsed \in Nat
                        /\ timer[currentTimer].elapsed >=
                             IF timer[currentTimer].useDelay
                             THEN timer[currentTimer].delay ELSE interval

IInv ==
  /\ ListInv
  /\ HashInv
  /\ WalkInv
  /\ TimerInv

LEMMA UnusedType == Unused \in TimerRecord
BY DEF Unused, TimerRecord

LEMMA NewTimerType ==
  ASSUME NEW k \in Keys, NEW s \in Settings
  PROVE  NewTimer(k, s) \in TimerRecord /\ NewTimer(k, s).key = k
<1>1. s.interval \in Nat /\ s.repeat \in Nat \cup {Forever} /\ s.delay \in Nat
  BY SchedulerAssumption DEF Setting
<1>2. QED
  BY <1>1 DEF NewTimer, TimerRecord

(* Timers leave the lists, or the walk leaves one: what is still alive     *)
(* keeps its fields.                                                       *)
LEMMA TimerInvFreed ==
  ASSUME TimerInv, WalkInv, ListInv', timer' = Freed(refs'),
         UNCHANGED <<interval>>,
         \A t \in Targets : Range(timers'[t]) \subseteq Range(timers[t]),
         \/ UNCHANGED <<pc, currentTimer>>
         \/ pc' \notin {"loop", "callback"}
  PROVE  TimerInv'
<1>1. timer' = [x \in Timers |-> IF refs'[x] = 0 THEN Unused ELSE timer[x]]
  BY DEF Freed
<1>2. timer' \in [Timers -> TimerRecord]
  BY <1>1, UnusedType DEF TimerInv
<1>3. ASSUME NEW x \in Timers, x \in Listed' \/ x = currentTimer'
      PROVE  timer'[x] = timer[x]
  <2>1. refs'[x] = 1
    <3>1. None \notin Timers
      BY SchedulerAssumption
    <3>2. QED
      BY <1>3, <3>1 DEF ListInv, RefsExact
  <2>2. QED
    BY <1>1, <2>1
<1>4. ASSUME NEW t \in Targets, NEW x \in Range(timers'[t]),
             NEW y \in Range(timers'[t]), timer'[x].key = timer'[y].key
      PROVE  x = y
  <2>1. timers'[t] \in Seq(Timers)
    BY DEF ListInv
  <2>2. x \in Timers /\ y \in Timers
    BY <2>1, RangeSeq
  <2>3. x \in Listed' /\ y \in Listed'
    BY DEF Listed
  <2>4. timer'[x] = timer[x] /\ timer'[y] = timer[y]
    BY <1>3, <2>2, <2>3
  <2>5. x \in Range(timers[t]) /\ y \in Range(timers[t])
    OBVIOUS
  <2>6. QED
    BY <1>4, <2>4, <2>5 DEF TimerInv
<1>5. CASE pc' \notin {"loop", "callback"}
  BY <1>2, <1>4, <1>5 DEF TimerInv
<1>6. CASE UNCHANGED <<pc, currentTimer>> /\ pc \in {"loop", "callback"}
  <2>1. currentTimer' \in Timers
    BY <1>6 DEF WalkInv, ListInv
  <2>2. timer'[currentTimer'] = timer[currentTimer]
    BY <1>3, <1>6, <2>1
  <2>3. QED
    BY <1>2, <1>4, <1>6, <2>2 DEF TimerInv
<1>7. QED
  BY <1>5, <1>6

(* Of one timer fields other than the key change.                          *)
LEMMA TimerInvExcept ==
  ASSUME TimerInv, ListInv, UNCHANGED timers,
         NEW x \in Timers, NEW f \in TimerRecord, f.key = timer[x].key,
         timer' = [timer EXCEPT ![x] = f],
         interval' \in Nat,
         currentTimer' = x,
         pc' = "loop" => f.elapsed \in Nat /\ ~f.useDelay,
         pc' = "callback" => /\ f.elapsed \in Nat
                             /\ f.elapsed >= IF f.useDelay THEN f.delay
                                             ELSE interval'
  PROVE  TimerInv'
<1>1. timer' \in [Timers -> TimerRecord] /\ timer'[x] = f
  BY DEF TimerInv
<1>2. ASSUME NEW y \in Timers
      PROVE  timer'[y].key = timer[y].key
  BY DEF TimerInv
<1>3. ASSUME NEW t \in Targets, NEW y \in Range(timers'[t]),
             NEW z \in Range(timers'[t]), timer'[y].key = timer'[z].key
      PROVE  y = z
  <2>1. y \in Timers /\ z \in Timers
    <3>1. timers[t] \in Seq(Timers) /\ timers' = timers
      BY DEF ListInv
    <3>2. QED
      BY <3>1, RangeSeq
  <2>2. QED
    BY <1>2, <1>3, <2>1 DEF TimerInv
<1>4. QED
  BY <1>1, <1>3 DEF TimerInv

------------------------------------------------------------------------------
(* The calls.                                                              *)

LEMMA CallsPc ==
  ASSUME NEW op, Calls(op)
  PROVE  pc \in {"idle", "callback"}
BY DEF Calls

(* Only one timer's interval changes.                                      *)
LEMMA UpdateIntervalInv ==
  ASSUME IInv, NEW t \in Targets, NEW k \in Keys, NEW s \in Settings,
         UpdateInterval(t, k, s), pc \in {"idle", "callback"}
  PROVE  IInv'
<1>1. UNCHANGED <<hash, timers, paused, refs, pc, dt, currentTarget,
                  targetSalvaged, timerIndex, currentTimer, timerSalvaged,
                  interval, due, ticked, fired>>
  BY DEF UpdateInterval, lists, walk, history
<1>2. ListInv' /\ HashInv'
  BY <1>1, ListInvSame, HashInvSame DEF IInv
<1>3. WalkInv'
  BY <1>1 DEF IInv, WalkInv
<1>4. PICK i \in DOMAIN timers[t] :
        timer' = [timer EXCEPT ![timers[t][i]].interval = s.interval]
  BY DEF UpdateInterval, WithKey
<1> DEFINE x == timers[t][i]
<1>5. x \in Timers
  BY <1>4 DEF IInv, ListInv
<1> HIDE DEF x
<1>6. s.interval \in Nat
  BY SchedulerAssumption DEF Setting
<1>7. /\ timer \in [Timers -> TimerRecord]
      /\ timer' = [timer EXCEPT ![x].interval = s.interval]
  BY <1>4 DEF IInv, TimerInv, x
<1>8. timer' \in [Timers -> TimerRecord]
  BY <1>5, <1>6, <1>7 DEF TimerRecord
<1>9. ASSUME NEW y \in Timers
      PROVE  /\ timer'[y].key = timer[y].key
             /\ timer'[y].elapsed = timer[y].elapsed
             /\ timer'[y].delay = timer[y].delay
             /\ timer'[y].useDelay = timer[y].useDelay
  BY <1>5, <1>7 DEF TimerRecord
<1>10. ASSUME NEW u \in Targets, NEW y \in Range(timers[u])
       PROVE  y \in Timers
  <2>1. timers[u] \in Seq(Timers)
    BY DEF IInv, ListInv
  <2>2. QED
    BY <2>1, RangeSeq
<1>11. \A u \in Targets : \A y, z \in Range(timers'[u]) :
         timer'[y].key = timer'[z].key => y = z
  BY <1>1, <1>9, <1>10 DEF IInv, TimerInv
<1>12. pc' = "callback" =>
         /\ timer'[currentTimer'].elapsed \in Nat
         /\ timer'[currentTimer'].elapsed >=
              IF timer'[currentTimer'].useDelay
              THEN timer'[currentTimer'].delay ELSE interval'
  <2>1. SUFFICES ASSUME pc = "callback"
                 PROVE  /\ timer'[currentTimer].elapsed \in Nat
                        /\ timer'[currentTimer].elapsed >=
                             IF timer'[currentTimer].useDelay
                             THEN timer'[currentTimer].delay ELSE interval
    BY <1>1
  <2>2. currentTimer \in Timers
    BY <2>1 DEF IInv, WalkInv, ListInv
  <2>3. QED
    BY <1>9, <2>1, <2>2 DEF IInv, TimerInv
<1>13. TimerInv'
  BY <1>1, <1>8, <1>11, <1>12 DEF IInv, TimerInv
<1>14. QED
  BY <1>2, <1>3, <1>13 DEF IInv

LEMMA AddTimerInv ==
  ASSUME IInv, NEW t \in Targets, NEW k \in Keys, NEW s \in Settings,
         NEW p \in BOOLEAN, AddTimer(t, k, s, p), pc \in {"idle", "callback"}
  PROVE  IInv'
<1>1. UNCHANGED <<pc, dt, currentTarget, targetSalvaged, timerIndex,
                  currentTimer, timerSalvaged, interval, due, ticked, fired>>
  BY DEF AddTimer, walk, history
<1>2. ListInv' /\ HashInv'
  BY ListInvAdd, HashInvAdd DEF IInv
<1>3. WalkInv'
  BY <1>1 DEF IInv, WalkInv
<1>4. PICK x \in Timers : /\ refs[x] = 0
                          /\ timer' = [timer EXCEPT ![x] = NewTimer(k, s)]
                          /\ timers' = [timers EXCEPT ![t] = Append(@, x)]
  BY DEF AddTimer
<1>5. NewTimer(k, s) \in TimerRecord /\ NewTimer(k, s).key = k
  BY NewTimerType
<1>6. timer \in [Timers -> TimerRecord]
  BY DEF IInv, TimerInv
<1>7. /\ timer' \in [Timers -> TimerRecord] /\ timer'[x].key = k
      /\ \A y \in Timers \ {x} : timer'[y] = timer[y]
  BY <1>4, <1>5, <1>6
<1>8. ASSUME NEW u \in Targets
      PROVE  /\ timers[u] \in Seq(Timers)
             /\ \A y \in Range(timers[u]) : y \in Timers \ {x}
  <2>1. timers[u] \in Seq(Timers)
    BY DEF IInv, ListInv
  <2>2. x \notin Listed
    BY <1>4 DEF IInv, ListInv, RefsExact
  <2>3. QED
    BY <2>1, <2>2, RangeSeq DEF Listed
<1>9. ASSUME NEW y \in Range(timers[t])
      PROVE  timer[y].key # k
  <2>1. PICK i \in DOMAIN timers[t] : timers[t][i] = y
    BY DEF Range
  <2>2. WithKey(t, k) = {}
    BY DEF AddTimer
  <2>3. QED
    BY <2>1, <2>2 DEF WithKey
<1>10. ASSUME NEW u \in Targets, NEW y \in Range(timers'[u])
       PROVE  y \in Range(timers[u]) \/ (u = t /\ y = x)
  <2>1. CASE u = t
    <3>1. timers[t] \in Seq(Timers) /\ timers'[t] = Append(timers[t], x)
      BY <1>4, <1>8 DEF IInv, ListInv
    <3>2. QED
      BY <2>1, <3>1 DEF Range
  <2>2. CASE u # t
    BY <1>4, <2>2 DEF IInv, ListInv
  <2>3. QED
    BY <2>1, <2>2
<1>11. \A u \in Targets : \A y, z \in Range(timers'[u]) :
         timer'[y].key = timer'[z].key => y = z
  <2>1. SUFFICES ASSUME NEW u \in Targets, NEW y \in Range(timers'[u]),
                        NEW z \in Range(timers'[u]),
                        timer'[y].key = timer'[z].key
                 PROVE  y = z
    OBVIOUS
  <2>2. CASE y \in Range(timers[u]) /\ z \in Range(timers[u])
    <3>1. timer'[y] = timer[y] /\ timer'[z] = timer[z]
      BY <1>7, <1>8, <2>2
    <3>2. QED
      BY <2>1, <2>2, <3>1 DEF IInv, TimerInv
  <2>3. CASE y \in Range(timers[u]) /\ u = t /\ z = x
    <3>1. timer'[y] = timer[y] /\ timer[y].key # k
      BY <1>7, <1>8, <1>9, <2>3
    <3>2. QED
      BY <1>7, <2>1, <2>3, <3>1
  <2>4. CASE z \in Range(timers[u]) /\ u = t /\ y = x
    <3>1. timer'[z] = timer[z] /\ timer[z].key # k
      BY <1>7, <1>8, <1>9, <2>4
    <3>2. QED
      BY <1>7, <2>1, <2>4, <3>1
  <2>5. QED
    BY <1>10, <2>2, <2>3, <2>4
<1>12. pc = "callback" => timer'[currentTimer] = timer[currentTimer]
  <2>1. SUFFICES ASSUME pc = "callback"
                 PROVE  timer'[currentTimer] = timer[currentTimer]
    OBVIOUS
  <2>2. currentTimer # None /\ currentTimer \in Timers
    BY <2>1 DEF IInv, WalkInv, ListInv
  <2>3. refs[currentTimer] = 1
    BY <2>2 DEF IInv, ListInv, RefsExact
  <2>4. QED
    BY <1>4, <1>7, <2>2, <2>3
<1>13. TimerInv'
  BY <1>1, <1>7, <1>11, <1>12 DEF IInv, TimerInv
<1>14. QED
  BY <1>2, <1>3, <1>13 DEF IInv

(* A timer that is removed is in no list, and the lists gain none.         *)
LEMMA RemoveTimerRange ==
  ASSUME ListInv, NEW t \in Targets, NEW i \in DOMAIN timers[t], RemoveTimer(t, i)
  PROVE  \A u \in Targets :
           Range(timers'[u]) \subseteq Range(timers[u]) \ {timers[t][i]}
<1>1. /\ timers' = [timers EXCEPT ![t] = RemoveAt(timers[t], i)]
      /\ timers \in [Targets -> Seq(Timers)]
  BY DEF RemoveTimer, DropTimers, ListInv
<1>2. timers[t] \in Seq(Timers) /\ timers'[t] = RemoveAt(timers[t], i)
  BY <1>1
<1> DEFINE n == Len(timers[t])
           r == timers'[t]
<1>3. /\ r \in Seq(Timers) /\ Len(r) = n - 1
      /\ \A j \in 1 .. n - 1 : r[j] = IF j < i THEN timers[t][j] ELSE timers[t][j + 1]
  BY <1>2, RemoveAtFacts
<1>4. i \in 1 .. n /\ n \in Nat /\ DOMAIN timers[t] = 1 .. n
  BY <1>2
<1>5. DOMAIN r = 1 .. n - 1
  BY <1>3
<1> HIDE DEF r, n
<1>6. ASSUME NEW j \in DOMAIN r
      PROVE  \E k \in DOMAIN timers[t] : k # i /\ r[j] = timers[t][k]
  <2>1. CASE j < i
    <3>1. j \in DOMAIN timers[t] /\ j # i
      BY <1>4, <1>5, <2>1
    <3>2. QED
      BY <1>3, <1>5, <2>1, <3>1
  <2>2. CASE ~(j < i)
    <3>1. j + 1 \in DOMAIN timers[t] /\ j + 1 # i
      BY <1>4, <1>5, <2>2
    <3>2. QED
      BY <1>3, <1>5, <2>2, <3>1
  <2>3. QED
    BY <2>1, <2>2
<1>7. ASSUME NEW u \in Targets, NEW y \in Range(timers'[u])
      PROVE  y \in Range(timers[u]) /\ y # timers[t][i]
  <2>1. CASE u = t
    <3>1. PICK j \in DOMAIN r : r[j] = y
      BY <2>1 DEF Range, r
    <3>2. PICK k \in DOMAIN timers[t] : k # i /\ y = timers[t][k]
      BY <1>6, <3>1
    <3>3. QED
      BY <2>1, <3>2 DEF Range, ListInv, DistinctIn
  <2>2. CASE u # t
    <3>1. timers'[u] = timers[u]
      BY <1>1, <2>2
    <3>2. QED
      BY <2>2, <3>1 DEF Range, ListInv, DistinctIn
  <2>3. QED
    BY <2>1, <2>2
<1>8. QED
  BY <1>7

LEMMA RemoveTimerInv ==
  ASSUME IInv, NEW t \in Targets, NEW i \in DOMAIN timers[t],
         RemoveTimer(t, i),
         \/ pc \in {"idle", "callback"} /\ UNCHANGED pc
         \/ pc = "cancel" /\ pc' = "next"
  PROVE  IInv'
<1>1. /\ UNCHANGED <<dt, currentTarget, currentTimer, interval, fired>>
      /\ timer' = Freed(refs')
      /\ timers' = [timers EXCEPT ![t] = RemoveAt(timers[t], i)]
      /\ due' = due \ {timers[t][i]} /\ ticked' = ticked \ {timers[t][i]}
      /\ timerIndex' = IndexAfter(t, i)
  BY DEF RemoveTimer, DropTimers
<1>2. ListInv' /\ HashInv'
  BY ListInvRemove, HashInvRemove DEF IInv
<1>3. timers[t] \in Seq(Timers) /\ i \in 1 .. Len(timers[t])
  BY DEF IInv, ListInv
<1>4. timerIndex' \in Nat
  BY <1>1, <1>3 DEF IndexAfter, IInv, WalkInv
<1>5. WalkInv'
  BY <1>1, <1>4 DEF IInv, WalkInv
<1>6. \A u \in Targets : Range(timers'[u]) \subseteq Range(timers[u])
  BY RemoveTimerRange DEF IInv
<1>7. TimerInv'
  BY <1>1, <1>2, <1>6, TimerInvFreed DEF IInv
<1>8. QED
  BY <1>2, <1>5, <1>7 DEF IInv

LEMMA UnscheduleAllForTargetInv ==
  ASSUME IInv, UnscheduleAllForTarget
  PROVE  IInv'
<1>1. PICK t \in Hashed :
        /\ DropTimers(Range(timers[t]), [timers EXCEPT ![t] = <<>>])
        /\ DropEntry(t)
  BY DEF UnscheduleAllForTarget
<1>2. /\ UNCHANGED <<pc, dt, currentTarget, timerIndex, currentTimer, interval,
                     fired>>
      /\ pc \in {"idle", "callback"}
  BY CallsPc DEF UnscheduleAllForTarget
<1>3. t \in Targets
  BY RangeSeq DEF IInv, HashInv, Hashed
<1>4. timers \in [Targets -> Seq(Timers)]
  BY DEF IInv, ListInv
<1>5. ListInv'
  <2>1. Range(timers[t]) = UNION {Range(timers[u]) : u \in {t}}
    OBVIOUS
  <2>2. [timers EXCEPT ![t] = <<>>] =
          [u \in Targets |-> IF u \in {t} THEN <<>> ELSE timers[u]]
    BY <1>3, <1>4
  <2>3. DropTimers(UNION {Range(timers[u]) : u \in {t}},
                   [u \in Targets |-> IF u \in {t} THEN <<>> ELSE timers[u]])
    BY <1>1, <2>1, <2>2
  <2>4. {t} \in SUBSET Targets
    BY <1>3
  <2>5. QED
    BY <1>2, <2>3, <2>4, ListInvEmpty DEF IInv
<1>6. /\ timers' = [timers EXCEPT ![t] = <<>>]
      /\ timer' = Freed(refs')
      /\ due' \subseteq due /\ ticked' \subseteq ticked
  BY <1>1 DEF DropTimers
<1>7. HashInv'
  BY <1>1, <1>2, <1>3, <1>4, <1>6, HashInvDrop DEF IInv
<1>8. WalkInv'
  BY <1>2, <1>6 DEF IInv, WalkInv
<1>9. \A u \in Targets : Range(timers'[u]) \subseteq Range(timers[u])
  BY <1>3, <1>4, <1>6 DEF Range
<1>10. TimerInv'
  BY <1>2, <1>5, <1>6, <1>9, TimerInvFreed DEF IInv
<1>11. QED
  BY <1>5, <1>7, <1>8, <1>10 DEF IInv

LEMMA UnscheduleAllInv ==
  ASSUME IInv, UnscheduleAll
  PROVE  IInv'
<1>1. DropTimers(Listed, [t \in Targets |-> <<>>])
  BY DEF UnscheduleAll
<1>2. /\ UNCHANGED <<pc, dt, currentTarget, timerIndex, currentTimer, interval,
                     fired>>
      /\ pc \in {"idle", "callback"}
  BY CallsPc DEF UnscheduleAll
<1>3. ListInv'
  <2>1. DropTimers(UNION {Range(timers[t]) : t \in Targets},
                   [t \in Targets |-> IF t \in Targets THEN <<>>
                                      ELSE timers[t]])
    <3>1. [t \in Targets |-> <<>>] =
            [t \in Targets |-> IF t \in Targets THEN <<>> ELSE timers[t]]
      OBVIOUS
    <3>2. QED
      BY <1>1, <3>1 DEF Listed
  <2>2. Targets \in SUBSET Targets
    OBVIOUS
  <2>3. QED
    BY <1>2, <2>1, <2>2, ListInvEmpty DEF IInv
<1>4. /\ timers' = [t \in Targets |-> <<>>]
      /\ timer' = Freed(refs')
      /\ due' \subseteq due /\ ticked' \subseteq ticked
  BY <1>1 DEF DropTimers
<1>5. HashInv'
  BY HashInvClear DEF IInv
<1>6. WalkInv'
  BY <1>2, <1>4 DEF IInv, WalkInv
<1>7. \A u \in Targets : Range(timers'[u]) \subseteq Range(timers[u])
  BY <1>4 DEF Range
<1>8. TimerInv'
  BY <1>2, <1>3, <1>4, <1>7, TimerInvFreed DEF IInv
<1>9. QED
  BY <1>3, <1>5, <1>6, <1>8 DEF IInv

LEMMA SetPausedInv ==
  ASSUME IInv, NEW t \in Hashed, NEW p \in BOOLEAN, SetPaused(t, p)
  PROVE  IInv'
<1>1. /\ UNCHANGED <<hash, timers, refs, timer, pc, dt, currentTarget,
                     targetSalvaged, timerIndex, currentTimer, timerSalvaged,
                     interval, ticked, fired>>
      /\ paused' = [paused EXCEPT ![t] = p]
      /\ due' \subseteq due
  BY DEF SetPaused, walk
<1>2. ListInv'
  BY <1>1, ListInvSame DEF IInv
<1>3. HashInv'
  <2>1. NoEmptyEntry'
    BY <1>1 DEF IInv, HashInv, NoEmptyEntry, Hashed
  <2>2. QED
    BY <1>1, <2>1 DEF IInv, HashInv, Hashed, Injective
<1>4. WalkInv'
  BY <1>1 DEF IInv, WalkInv
<1>5. TimerInv'
  BY <1>1 DEF IInv, TimerInv
<1>6. QED
  BY <1>2, <1>3, <1>4, <1>5 DEF IInv

LEMMA CallInv ==
  ASSUME IInv, Call
  PROVE  IInv'
<1>1. CASE Schedule
  <2>1. PICK t \in Targets, k \in Keys, s \in Settings, p \in BOOLEAN :
          UpdateInterval(t, k, s) \/ AddTimer(t, k, s, p)
    BY <1>1 DEF Schedule
  <2>2. pc \in {"idle", "callback"}
    BY <1>1, CallsPc DEF Schedule
  <2>3. QED
    BY <2>1, <2>2, UpdateIntervalInv, AddTimerInv
<1>2. CASE Unschedule
  <2>1. PICK t \in Targets, k \in Keys : \E i \in WithKey(t, k) : RemoveTimer(t, i)
    BY <1>2 DEF Unschedule
  <2>2. PICK i \in DOMAIN timers[t] : RemoveTimer(t, i)
    BY <2>1 DEF WithKey
  <2>3. pc \in {"idle", "callback"} /\ UNCHANGED pc
    BY <1>2, CallsPc DEF Unschedule
  <2>4. QED
    BY <2>2, <2>3, RemoveTimerInv
<1>3. CASE UnscheduleAllForTarget
  BY <1>3, UnscheduleAllForTargetInv
<1>4. CASE UnscheduleAll
  BY <1>4, UnscheduleAllInv
<1>5. CASE PauseTarget
  BY <1>5, SetPausedInv DEF PauseTarget
<1>6. CASE ResumeTarget
  BY <1>6, SetPausedInv DEF ResumeTarget
<1>7. QED
  BY <1>1, <1>2, <1>3, <1>4, <1>5, <1>6 DEF Call

------------------------------------------------------------------------------
(* The steps of update().                                                  *)

LEMMA UpdateInv ==
  ASSUME IInv, Update
  PROVE  IInv'
<1>1. pc = "idle" /\ currentTarget = None /\ currentTimer = None
  BY DEF Update, IInv, WalkInv
<1>2. /\ UNCHANGED <<hash, paused, ticked, timers, refs, timer, currentTimer,
                     timerSalvaged, interval, fired>>
      /\ currentTarget' = hash[1] /\ timerIndex' = (IF hash[1] = None THEN 0 ELSE 1)
      /\ pc' = IF hash[1] = None THEN "idle"
               ELSE IF paused[hash[1]] THEN "leave" ELSE "timer"
      /\ dt' \in Deltas
  BY DEF Update, Enter
<1>3. ListInv' /\ HashInv'
  BY <1>1, <1>2, ListInvSame, HashInvUpdate DEF IInv
<1>4. hash[1] \in Targets
  <2>1. hash \in Seq(Targets) /\ hash # <<>>
    BY DEF Update, IInv, HashInv
  <2>2. QED
    BY <2>1
<1>5. hash[1] # None
  BY <1>4, SchedulerAssumption
<1>6. due' \subseteq Timers
  <2>1. due' = UNION {Range(timers[t]) : t \in {t \in Targets : ~paused[t]}}
    BY DEF Update
  <2>2. ASSUME NEW t \in Targets, NEW x \in Range(timers[t])
        PROVE  x \in Timers
    <3>1. timers[t] \in Seq(Timers)
      BY DEF IInv, ListInv
    <3>2. QED
      BY <3>1, RangeSeq
  <2>3. QED
    BY <2>1, <2>2
<1>7. WalkInv'
  BY <1>1, <1>2, <1>4, <1>5, <1>6 DEF IInv, WalkInv
<1>8. TimerInv'
  BY <1>2 DEF IInv, TimerInv
<1>9. QED
  BY <1>3, <1>7, <1>8 DEF IInv

LEMMA LeaveTargetInv ==
  ASSUME IInv, LeaveTarget
  PROVE  IInv'
<1>1. pc = "leave" /\ currentTarget # None /\ currentTimer = None
  BY DEF LeaveTarget, IInv, WalkInv
<1>2. /\ UNCHANGED <<timers, refs, timer, currentTimer, timerSalvaged, interval,
                     fired>>
      /\ timerIndex' = (IF currentTarget' = None THEN 0 ELSE 1)
      /\ pc' = IF currentTarget' = None THEN "idle"
               ELSE IF paused[currentTarget'] THEN "leave" ELSE "timer"
  BY DEF LeaveTarget, Enter
<1>3. ListInv' /\ HashInv'
  BY <1>1, <1>2, ListInvSame, HashInvLeave DEF IInv
<1>4. currentTarget' \in Targets \cup {None}
  BY <1>3, RangeSeq DEF HashInv, Hashed
<1>5. dt' \in Deltas \cup {0} /\ due' \subseteq due /\ ticked' \subseteq ticked
  BY DEF LeaveTarget, IInv, WalkInv
<1>6. WalkInv'
  BY <1>1, <1>2, <1>4, <1>5 DEF IInv, WalkInv
<1>7. TimerInv'
  BY <1>2 DEF IInv, TimerInv
<1>8. QED
  BY <1>3, <1>6, <1>7 DEF IInv

LEMMA EndTimersInv ==
  ASSUME IInv, EndTimers
  PROVE  IInv'
<1>1. /\ pc = "timer" /\ pc' = "leave"
      /\ UNCHANGED <<hash, timers, paused, refs, timer, dt, currentTarget,
                     targetSalvaged, timerIndex, currentTimer, timerSalvaged,
                     interval, due, ticked, fired>>
  BY DEF EndTimers, lists, walk, history
<1>2. ListInv' /\ HashInv'
  BY <1>1, ListInvSame, HashInvSame DEF IInv
<1>3. WalkInv'
  BY <1>1 DEF IInv, WalkInv
<1>4. TimerInv'
  BY <1>1 DEF IInv, TimerInv
<1>5. QED
  BY <1>2, <1>3, <1>4 DEF IInv

(* What StartClock and Advance share.                                      *)
LEMMA TickInv ==
  ASSUME IInv, NEW x, NEW f, Tick(x, f),
         pc' \in {"loop", "callback", "next"}, fired' \in BOOLEAN
  PROVE  ListInv' /\ HashInv' /\ WalkInv' /\ x \in Timers
<1>1. /\ pc = "timer" /\ currentTarget \in Targets /\ timerIndex \in Nat \ {0}
      /\ currentTimer = None /\ ~timerSalvaged
  BY DEF Tick, IInv, WalkInv, ListInv
<1>2. ListInv' /\ x \in Timers
  BY <1>1, ListInvTick DEF IInv
<1>3. /\ UNCHANGED <<hash, timers, paused, refs, dt, currentTarget,
                     targetSalvaged, timerIndex>>
      /\ currentTimer' = x /\ due' \subseteq due /\ ticked' = ticked \cup {x}
  BY DEF Tick, lists
<1>4. HashInv'
  BY <1>3, HashInvSame DEF IInv
<1>5. x # None
  BY <1>2, SchedulerAssumption
<1>6. WalkInv'
  BY <1>1, <1>2, <1>3, <1>5 DEF IInv, WalkInv
<1>7. QED
  BY <1>2, <1>4, <1>6

LEMMA LoopIntervalType ==
  ASSUME NEW f \in TimerRecord, f.elapsed \in Nat
  PROVE  LoopInterval(f) \in Nat
BY DEF LoopInterval, TimerRecord

LEMMA StartClockInv ==
  ASSUME IInv, StartClock
  PROVE  IInv'
<1>1. PICK x \in Timers :
        Tick(x, [timer[x] EXCEPT !.elapsed = 0, !.executed = 0])
  BY DEF StartClock
<1>2. pc' = "next" /\ UNCHANGED <<interval, fired>>
  BY DEF StartClock
<1> DEFINE f == [timer[x] EXCEPT !.elapsed = 0, !.executed = 0]
<1>3. timer[x] \in TimerRecord
  BY DEF IInv, TimerInv
<1>4. f \in TimerRecord /\ f.key = timer[x].key
  BY <1>3 DEF TimerRecord
<1>5. Tick(x, f)
  BY <1>1
<1> HIDE DEF f
<1>6. fired' \in BOOLEAN
  BY <1>2 DEF IInv, WalkInv
<1>7. ListInv' /\ HashInv' /\ WalkInv'
  BY <1>2, <1>5, <1>6, TickInv
<1>8. /\ UNCHANGED timers /\ currentTimer' = x
      /\ timer' = [timer EXCEPT ![x] = f]
  BY <1>5 DEF Tick, lists
<1>9. interval' \in Nat
  BY <1>2 DEF IInv, TimerInv
<1>10. TimerInv'
  BY <1>2, <1>4, <1>8, <1>9, TimerInvExcept DEF IInv
<1>11. QED
  BY <1>7, <1>10 DEF IInv

LEMMA AdvanceInv ==
  ASSUME IInv, Advance
  PROVE  IInv'
<1>1. PICK x \in Timers :
        LET f == [timer[x] EXCEPT !.elapsed = @ + dt]
        IN  /\ timer[x].elapsed # -1
            /\ Tick(x, f)
            /\ IF f.useDelay
               THEN /\ pc' = IF f.elapsed < f.delay THEN "next" ELSE "callback"
                    /\ fired' = (f.elapsed >= f.delay)
                    /\ UNCHANGED interval
               ELSE /\ pc' = "loop"
                    /\ interval' = LoopInterval(f)
                    /\ UNCHANGED fired
  BY DEF Advance
<1> DEFINE f == [timer[x] EXCEPT !.elapsed = @ + dt]
<1>2. timer[x] \in TimerRecord /\ timer[x].elapsed \in Nat
  BY <1>1 DEF IInv, TimerInv, TimerRecord
<1>3. dt \in Nat
  BY SchedulerAssumption DEF IInv, WalkInv
<1>4. f \in TimerRecord /\ f.key = timer[x].key /\ f.elapsed \in Nat
  BY <1>2, <1>3 DEF TimerRecord
<1>5. /\ Tick(x, f)
      /\ IF f.useDelay
         THEN /\ pc' = IF f.elapsed < f.delay THEN "next" ELSE "callback"
              /\ fired' = (f.elapsed >= f.delay)
              /\ UNCHANGED interval
         ELSE /\ pc' = "loop"
              /\ interval' = LoopInterval(f)
              /\ UNCHANGED fired
  BY <1>1
<1> HIDE DEF f
<1>6. f.delay \in Nat /\ f.useDelay \in BOOLEAN
  BY <1>4 DEF TimerRecord
<1>7. fired' \in BOOLEAN
  <2>1. CASE f.useDelay
    <3>1. fired' = (f.elapsed >= f.delay)
      BY <1>5, <2>1
    <3>2. QED
      BY <3>1
  <2>2. CASE ~f.useDelay
    BY <1>5, <2>2 DEF IInv, WalkInv
  <2>3. QED
    BY <2>1, <2>2
<1>8. pc' \in {"loop", "callback", "next"}
  BY <1>5
<1>9. ListInv' /\ HashInv' /\ WalkInv'
  BY <1>5, <1>7, <1>8, TickInv
<1>10. /\ UNCHANGED timers /\ currentTimer' = x
       /\ timer' = [timer EXCEPT ![x] = f]
  BY <1>5 DEF Tick, lists
<1>11. interval' \in Nat
  BY <1>4, <1>5, LoopIntervalType DEF IInv, TimerInv
<1>12. pc' = "loop" => f.elapsed \in Nat /\ ~f.useDelay
  BY <1>4, <1>5
<1>13. pc' = "callback" => /\ f.elapsed \in Nat
                           /\ f.elapsed >= IF f.useDelay THEN f.delay
                                           ELSE interval'
  BY <1>4, <1>5, <1>6
<1>14. TimerInv'
  BY <1>4, <1>10, <1>11, <1>12, <1>13, TimerInvExcept DEF IInv
<1>15. QED
  BY <1>9, <1>14 DEF IInv

LEMMA LoopInv ==
  ASSUME IInv, Loop
  PROVE  IInv'
<1>1. /\ pc = "loop"
      /\ UNCHANGED <<hash, timers, paused, refs, timer, dt, currentTarget,
                     targetSalvaged, timerIndex, currentTimer, timerSalvaged,
                     due, ticked>>
      /\ IF timer[currentTimer].elapsed >= interval
         THEN pc' = "callback" /\ fired' = TRUE /\ UNCHANGED interval
         ELSE pc' = "next" /\ interval' = 0 /\ UNCHANGED fired
  BY DEF Loop, lists, walk
<1>2. ListInv' /\ HashInv'
  BY <1>1, ListInvSame, HashInvSame DEF IInv
<1>3. WalkInv'
  BY <1>1 DEF IInv, WalkInv
<1>4. TimerInv'
  BY <1>1 DEF IInv, TimerInv
<1>5. QED
  BY <1>2, <1>3, <1>4 DEF IInv

(* When the callback has returned, the timer is still alive: the fields    *)
(* that are written are its own.                                           *)
LEMMA ExecutedType ==
  ASSUME NEW f \in TimerRecord
  PROVE  Executed(f) \in Nat
BY DEF Executed, TimerRecord

LEMMA ReturnDelayedInv ==
  ASSUME IInv, ReturnDelayed
  PROVE  IInv'
<1> DEFINE old == timer[currentTimer]
           f == [old EXCEPT !.elapsed = @ - old.delay, !.executed = Executed(old),
                            !.useDelay = FALSE]
<1>1. /\ pc = "callback" /\ old.useDelay
      /\ timer' = [timer EXCEPT ![currentTimer] = f]
      /\ IF Finished(f)
         THEN pc' = "cancel" /\ UNCHANGED interval
         ELSE pc' = "loop" /\ interval' = LoopInterval(f)
      /\ UNCHANGED <<hash, timers, paused, refs, dt, currentTarget,
                     targetSalvaged, timerIndex, currentTimer, timerSalvaged,
                     due, ticked, fired>>
  BY DEF ReturnDelayed, lists, walk, history
<1>2. ListInv' /\ HashInv'
  BY <1>1, ListInvSame, HashInvSame DEF IInv
<1>3. currentTimer \in Timers
  BY <1>1 DEF IInv, WalkInv, ListInv
<1>4. old \in TimerRecord /\ old.elapsed \in Nat /\ old.elapsed >= old.delay
  BY <1>1, <1>3 DEF IInv, TimerInv
<1>5. Executed(old) \in Nat
  BY <1>4, ExecutedType
<1> HIDE DEF old
<1>6. /\ f \in TimerRecord /\ f.key = old.key /\ f.elapsed \in Nat
      /\ ~f.useDelay
  <2> DEFINE e == old.elapsed - old.delay
             n == Executed(old)
  <2>1. e \in Nat /\ n \in Nat
    BY <1>4, <1>5 DEF TimerRecord
  <2>2. f = [old EXCEPT !.elapsed = e, !.executed = n, !.useDelay = FALSE]
    OBVIOUS
  <2> HIDE DEF e, n, f
  <2>3. QED
    BY <1>4, <2>1, <2>2 DEF TimerRecord
<1> HIDE DEF f
<1>7. WalkInv'
  BY <1>1 DEF IInv, WalkInv
<1>8. interval' \in Nat
  BY <1>1, <1>6, LoopIntervalType DEF IInv, TimerInv
<1>9. pc' \in {"cancel", "loop"} /\ f.key = timer[currentTimer].key
  BY <1>1, <1>6 DEF old
<1>10. pc' # "callback"
  BY <1>9
<1>11. TimerInv'
  BY <1>1, <1>3, <1>6, <1>8, <1>9, <1>10, TimerInvExcept DEF IInv
<1>12. QED
  BY <1>2, <1>7, <1>11 DEF IInv

LEMMA ReturnInv ==
  ASSUME IInv, Return
  PROVE  IInv'
<1> DEFINE old == timer[currentTimer]
           f == [old EXCEPT !.elapsed = @ - interval, !.executed = Executed(old)]
<1>1. /\ pc = "callback" /\ ~old.useDelay
      /\ timer' = [timer EXCEPT ![currentTimer] = f]
      /\ pc' \in {"cancel", "next", "loop"}
      /\ interval' \in {interval, 0}
      /\ UNCHANGED <<hash, timers, paused, refs, dt, currentTarget,
                     targetSalvaged, timerIndex, currentTimer, timerSalvaged,
                     due, ticked, fired>>
  BY DEF Return, lists, walk, history
<1>2. ListInv' /\ HashInv'
  BY <1>1, ListInvSame, HashInvSame DEF IInv
<1>3. currentTimer \in Timers
  BY <1>1 DEF IInv, WalkInv, ListInv
<1>4. /\ old \in TimerRecord /\ old.elapsed \in Nat /\ interval \in Nat
      /\ old.elapsed >= interval
  BY <1>1, <1>3 DEF IInv, TimerInv
<1>5. Executed(old) \in Nat
  BY <1>4, ExecutedType
<1>6. ~old.useDelay
  BY <1>1
<1> HIDE DEF old
<1>7. /\ f \in TimerRecord /\ f.key = old.key /\ f.elapsed \in Nat
      /\ ~f.useDelay
  <2> DEFINE e == old.elapsed - interval
             n == Executed(old)
  <2>1. e \in Nat /\ n \in Nat
    BY <1>4, <1>5
  <2>2. f = [old EXCEPT !.elapsed = e, !.executed = n]
    OBVIOUS
  <2> HIDE DEF e, n, f
  <2>3. QED
    BY <1>4, <1>6, <2>1, <2>2 DEF TimerRecord
<1> HIDE DEF f
<1>8. WalkInv'
  BY <1>1 DEF IInv, WalkInv
<1>9. interval' \in Nat /\ pc' # "callback" /\ f.key = timer[currentTimer].key
  BY <1>1, <1>4, <1>7 DEF old
<1>10. TimerInv'
  BY <1>1, <1>3, <1>7, <1>9, TimerInvExcept DEF IInv
<1>11. QED
  BY <1>2, <1>8, <1>10 DEF IInv

LEMMA CancelInv ==
  ASSUME IInv, Cancel
  PROVE  IInv'
<1>1. pc = "cancel" /\ pc' = "next" /\ currentTarget \in Targets
  BY DEF Cancel, IInv, WalkInv
<1> DEFINE same == WithKey(currentTarget, timer[currentTimer].key)
<1>2. CASE same = {}
  <2>1. UNCHANGED <<hash, timers, paused, refs, timer, dt, currentTarget,
                    targetSalvaged, timerIndex, currentTimer, timerSalvaged,
                    interval, due, ticked, fired>>
    BY <1>2 DEF Cancel, lists, walk, history
  <2>2. ListInv' /\ HashInv'
    BY <2>1, ListInvSame, HashInvSame DEF IInv
  <2>3. WalkInv'
    BY <1>1, <2>1 DEF IInv, WalkInv
  <2>4. TimerInv'
    BY <1>1, <2>1 DEF IInv, TimerInv
  <2>5. QED
    BY <2>2, <2>3, <2>4 DEF IInv
<1>3. CASE same # {}
  <2>1. PICK i \in same : RemoveTimer(currentTarget, i)
    BY <1>3 DEF Cancel
  <2>2. i \in DOMAIN timers[currentTarget]
    BY DEF WithKey
  <2>3. QED
    BY <1>1, <2>1, <2>2, RemoveTimerInv
<1>4. QED
  BY <1>2, <1>3

LEMMA NextTimerInv ==
  ASSUME IInv, NextTimer
  PROVE  IInv'
<1>1. /\ pc = "next" /\ pc' = "timer" /\ timer' = Freed(refs')
      /\ timerIndex' = timerIndex + 1 /\ currentTimer' = None /\ fired' = FALSE
      /\ UNCHANGED <<hash, timers, paused, dt, currentTarget, targetSalvaged,
                     interval, due, ticked>>
  BY DEF NextTimer
<1>2. currentTimer # None
  BY <1>1 DEF IInv, WalkInv
<1>3. ListInv' /\ HashInv'
  BY <1>1, <1>2, ListInvNext, HashInvSame DEF IInv
<1>4. timerIndex' \in Nat /\ timerIndex' # 0
  BY <1>1 DEF IInv, WalkInv
<1>5. WalkInv'
  BY <1>1, <1>4 DEF IInv, WalkInv
<1>6. TimerInv'
  BY <1>1, <1>3, TimerInvFreed DEF IInv
<1>7. QED
  BY <1>3, <1>5, <1>6 DEF IInv

------------------------------------------------------------------------------
LEMMA InitInv ==
  ASSUME Init
  PROVE  IInv
<1>1. Listed = {}
  BY DEF Init, Listed, Range
<1>2. None \notin Timers /\ None \notin Targets
  BY SchedulerAssumption
<1>3. ListInv
  <2>1. timers \in [Targets -> Seq(Timers)] /\ refs \in [Timers -> {0, 1}]
    BY DEF Init
  <2>2. \A t \in Targets : DOMAIN timers[t] = {}
    BY DEF Init
  <2>3. DistinctIn(timers)
    BY <2>2 DEF DistinctIn
  <2>4. RefsExact
    BY <1>1, <1>2 DEF Init, RefsExact
  <2>5. QED
    BY <2>1, <2>3, <2>4 DEF Init, ListInv
<1>4. HashInv
  <2>1. Hashed = {}
    BY DEF Init, Hashed, Range
  <2>2. hash \in Seq(Targets) /\ Injective(hash)
    BY DEF Init, Injective
  <2>3. NoEmptyEntry
    BY <2>1 DEF Init, NoEmptyEntry
  <2>4. QED
    BY <2>2, <2>3 DEF Init, HashInv
<1>5. WalkInv
  BY DEF Init, WalkInv
<1>6. TimerInv
  <2>1. timer \in [Timers -> TimerRecord]
    BY UnusedType DEF Init
  <2>2. \A t \in Targets : Range(timers[t]) = {}
    BY DEF Init, Range
  <2>3. QED
    BY <2>1, <2>2 DEF Init, TimerInv
<1>7. QED
  BY <1>3, <1>4, <1>5, <1>6 DEF IInv

LEMMA NextInv ==
  ASSUME IInv, [Next]_vars
  PROVE  IInv'
<1>1. CASE Call
  BY <1>1, CallInv
<1>2. CASE Update
  BY <1>2, UpdateInv
<1>3. CASE UpdateStep
  BY <1>3, LeaveTargetInv, EndTimersInv, StartClockInv, AdvanceInv, LoopInv,
     ReturnDelayedInv, ReturnInv, CancelInv, NextTimerInv DEF UpdateStep
<1>4. CASE UNCHANGED vars
  <2>1. UNCHANGED <<hash, timers, paused, refs, timer, pc, dt, currentTarget,
                    targetSalvaged, timerIndex, currentTimer, timerSalvaged,
                    interval, due, ticked, fired>>
    BY <1>4 DEF vars, lists, walk, history
  <2>2. ListInv' /\ HashInv'
    BY <2>1, ListInvSame, HashInvSame DEF IInv
  <2>3. WalkInv'
    BY <2>1 DEF IInv, WalkInv
  <2>4. TimerInv'
    BY <2>1 DEF IInv, TimerInv
  <2>5. QED
    BY <2>2, <2>3, <2>4 DEF IInv
<1>5. QED
  BY <1>1, <1>2, <1>3, <1>4 DEF Next

(* IInv, which holds each of the properties below and what they need of    *)
(* one another, is true in every reachable state.                          *)
THEOREM Invariance == Spec => []IInv
<1>1. Init => IInv
  BY InitInv
<1>2. IInv /\ [Next]_vars => IInv'
  BY NextInv
<1>3. QED
  BY <1>1, <1>2, PTL DEF Spec

(* The variables keep their types: in particular no elapsed time becomes   *)
(* negative when a delay or an interval is taken from it after a callback  *)
(* that may have rescheduled the timer (Timer::update).                    *)
THEOREM TypeCorrect == Spec => []TypeOK
<1>1. IInv => TypeOK
  BY DEF IInv, ListInv, HashInv, WalkInv, TimerInv, TimerRecord, TypeOK
<1>2. QED
  BY <1>1, Invariance, PTL

(* A Timer is alive exactly as long as a list holds it or update() is in   *)
(* it, for any number of targets, keys and timers and any calls made by    *)
(* the callbacks (unschedule, unscheduleAllForTarget and the release in    *)
(* update()).                                                              *)
THEOREM ReferencesExact == Spec => []RefsExact
<1>1. IInv => RefsExact
  BY DEF IInv, ListInv
<1>2. QED
  BY <1>1, Invariance, PTL

(* No list holds a timer or a key twice, and no two lists share a timer:   *)
(* schedule() looks for the key, and a freed Timer is in no list.          *)
THEOREM ListsDisjoint == Spec => []KeysUnique
<1>1. ASSUME IInv PROVE KeysUnique
  <2>1. SUFFICES ASSUME NEW t \in Targets, NEW u \in Targets,
                        NEW i \in DOMAIN timers[t], NEW j \in DOMAIN timers[u],
                        ~(t = u /\ i = j)
                 PROVE  /\ timers[t][i] # timers[u][j]
                        /\ t = u => timer[timers[t][i]].key #
                                      timer[timers[u][j]].key
    BY DEF KeysUnique
  <2>2. timers[t][i] # timers[u][j]
    BY <1>1, <2>1 DEF IInv, ListInv, DistinctIn
  <2>3. timers[t][i] \in Range(timers[t]) /\ timers[u][j] \in Range(timers[u])
    BY DEF Range
  <2>4. QED
    BY <1>1, <2>2, <2>3 DEF IInv, TimerInv
<1>2. QED
  BY <1>1, Invariance, PTL

(* An entry of the hash map without timers is the one update() is walking, *)
(* marked to be removed: unscheduling leaves no other behind.              *)
THEOREM EntriesHaveTimers == Spec => []NoEmptyEntry
<1>1. IInv => NoEmptyEntry
  BY DEF IInv, HashInv
<1>2. QED
  BY <1>1, Invariance, PTL

------------------------------------------------------------------------------
(* The walk of update().  What it has reached in this frame is in lists    *)
(* that the iterator has passed, or before the index in the one it is at.  *)

Follows(s, t, u) == \E i, j \in DOMAIN s : i < j /\ s[i] = t /\ s[j] = u

TickedInv ==
  /\ \A x \in due \cup ticked : refs[x] = 1 /\ ~(timerSalvaged /\ x = currentTimer)
  /\ pc = "idle" => ticked = {}
  /\ \A u \in Targets : Follows(hash, currentTarget, u) =>
       \A i \in DOMAIN timers[u] : timers[u][i] \notin ticked
  /\ WalkExact

LEMMA FollowsRemove ==
  ASSUME NEW S, NEW s \in Seq(S), NEW p \in DOMAIN s, NEW t, NEW u,
         Follows(RemoveAt(s, p), t, u)
  PROVE  Follows(s, t, u)
<1> DEFINE r == RemoveAt(s, p)
<1>1. /\ r \in Seq(S) /\ Len(r) = Len(s) - 1
      /\ \A j \in 1 .. Len(s) - 1 : r[j] = IF j < p THEN s[j] ELSE s[j + 1]
  BY RemoveAtFacts
<1>2. Follows(r, t, u)
  OBVIOUS
<1> HIDE DEF r
<1>3. /\ DOMAIN r = 1 .. Len(s) - 1 /\ DOMAIN s = 1 .. Len(s) /\ Len(s) \in Nat
      /\ p \in 1 .. Len(s)
  BY <1>1
<1>4. PICK i \in 1 .. Len(s) - 1, j \in 1 .. Len(s) - 1 :
        i < j /\ r[i] = t /\ r[j] = u
  BY <1>2, <1>3 DEF Follows
<1> DEFINE I == IF i < p THEN i ELSE i + 1
           J == IF j < p THEN j ELSE j + 1
<1>5. I \in DOMAIN s /\ J \in DOMAIN s /\ I < J
  BY <1>3, <1>4
<1>6. s[I] = t /\ s[J] = u
  BY <1>1, <1>4
<1>7. QED
  BY <1>5, <1>6 DEF Follows

LEMMA FollowsInsert ==
  ASSUME NEW S, NEW s \in Seq(S), NEW p \in 1 .. Len(s) + 1, NEW x \in S,
         NEW t, NEW u, t # x, u # x, Follows(InsertAt(s, p, x), t, u)
  PROVE  Follows(s, t, u)
<1> DEFINE r == InsertAt(s, p, x)
<1>1. /\ r \in Seq(S) /\ Len(r) = Len(s) + 1
      /\ \A j \in 1 .. Len(s) + 1 :
           r[j] = IF j < p THEN s[j] ELSE IF j = p THEN x ELSE s[j - 1]
  <2>1. r \in Seq(S) /\ Inserted(r, s, p, x)
    BY InsertAtFacts
  <2> HIDE DEF r
  <2>2. QED
    BY <2>1 DEF Inserted
<1>2. Follows(r, t, u)
  OBVIOUS
<1> HIDE DEF r
<1>3. /\ DOMAIN r = 1 .. Len(s) + 1 /\ DOMAIN s = 1 .. Len(s) /\ Len(s) \in Nat
  BY <1>1
<1>4. PICK i \in 1 .. Len(s) + 1, j \in 1 .. Len(s) + 1 :
        i < j /\ r[i] = t /\ r[j] = u
  BY <1>2, <1>3 DEF Follows
<1>5. i # p /\ j # p
  BY <1>1, <1>4
<1> DEFINE I == IF i < p THEN i ELSE i - 1
           J == IF j < p THEN j ELSE j - 1
<1>6. I \in DOMAIN s /\ J \in DOMAIN s /\ I < J
  BY <1>3, <1>4, <1>5
<1>7. s[I] = t /\ s[J] = u
  BY <1>1, <1>4, <1>5
<1>8. QED
  BY <1>6, <1>7 DEF Follows

LEMMA FollowsSuccessor ==
  ASSUME HashInv, NEW t \in Hashed, Successor(t) # None
  PROVE  /\ Follows(hash, t, Successor(t))
         /\ \A u : Follows(hash, Successor(t), u) => Follows(hash, t, u)
<1>1. hash \in Seq(Targets) /\ Injective(hash)
  BY DEF HashInv
<1> DEFINE i == Position(hash, t)
           n == Len(hash)
<1>2. i \in DOMAIN hash /\ hash[i] = t
  BY PositionFacts DEF Hashed
<1>3. DOMAIN hash = 1 .. n /\ n \in Nat
  BY <1>1
<1>4. t # None /\ i # n /\ Successor(t) = hash[i + 1]
  BY DEF Successor
<1> HIDE DEF i, n
<1>5. i + 1 \in DOMAIN hash /\ i < i + 1 /\ i \in Nat
  BY <1>2, <1>3, <1>4
<1>6. Follows(hash, t, Successor(t))
  BY <1>2, <1>4, <1>5 DEF Follows
<1>7. ASSUME NEW u, Follows(hash, Successor(t), u)
      PROVE  Follows(hash, t, u)
  <2>1. PICK j \in DOMAIN hash, k \in DOMAIN hash :
          j < k /\ hash[j] = Successor(t) /\ hash[k] = u
    BY <1>7 DEF Follows
  <2>2. j = i + 1
    BY <1>1, <1>4, <1>5, <2>1 DEF Injective
  <2>3. i < k
    BY <1>3, <1>5, <2>1, <2>2
  <2>4. QED
    BY <1>2, <2>1, <2>3 DEF Follows
<1>8. QED
  BY <1>6, <1>7

Walking == pc \notin {"idle", "leave"}
Seen == IF pc = "timer" THEN timerIndex - 1 ELSE timerIndex

(* The lists and what was ticked stay, and the walk is where it was.       *)
LEMMA TickedSame ==
  ASSUME IInv, IInv', TickedInv,
         UNCHANGED <<hash, timers, currentTarget, ticked>>,
         due' \subseteq due,
         \A x \in due \cup ticked : refs'[x] = refs[x],
         timerSalvaged' => timerSalvaged /\ UNCHANGED currentTimer,
         Walking' => Walking /\ Seen' = Seen
  PROVE  TickedInv'
<1>1. \A x \in due' \cup ticked' :
        refs'[x] = 1 /\ ~(timerSalvaged' /\ x = currentTimer')
  BY DEF TickedInv
<1>2. pc' = "idle" => ticked' = {}
  BY DEF TickedInv, IInv, WalkInv
<1>3. \A u \in Targets : Follows(hash', currentTarget', u) =>
        \A i \in DOMAIN timers'[u] : timers'[u][i] \notin ticked'
  BY DEF TickedInv, Follows
<1>4. WalkExact'
  <2>1. SUFFICES ASSUME Walking', NEW i \in DOMAIN timers'[currentTarget']
                 PROVE  IF i <= Seen' THEN timers'[currentTarget'][i] \notin due'
                                      ELSE timers'[currentTarget'][i] \notin ticked'
    BY DEF WalkExact, Walking, Seen
  <2>2. Walking /\ Seen' = Seen /\ i \in DOMAIN timers[currentTarget]
    BY <2>1
  <2>3. IF i <= Seen THEN timers[currentTarget][i] \notin due
                     ELSE timers[currentTarget][i] \notin ticked
    BY <2>2 DEF TickedInv, WalkExact, Walking, Seen
  <2>4. QED
    BY <2>2, <2>3
<1>5. QED
  BY <1>1, <1>2, <1>3, <1>4 DEF TickedInv

(* A free timer joins a list behind all others.                            *)
LEMMA TickedAdd ==
  ASSUME IInv, TickedInv, NEW t \in Targets, NEW k, NEW s, NEW p,
         AddTimer(t, k, s, p)
  PROVE  TickedInv'
<1>1. PICK x \in Timers : /\ refs[x] = 0
                          /\ refs' = [refs EXCEPT ![x] = 1]
                          /\ timers' = [timers EXCEPT ![t] = Append(@, x)]
  BY DEF AddTimer
<1>2. UNCHANGED <<pc, currentTarget, timerIndex, currentTimer, timerSalvaged, due,
                  ticked>>
  BY DEF AddTimer, walk, history
<1>3. x \notin due \cup ticked
  BY <1>1 DEF TickedInv
<1>4. \A y \in due' \cup ticked' :
        refs'[y] = 1 /\ ~(timerSalvaged' /\ y = currentTimer')
  BY <1>1, <1>2, <1>3 DEF TickedInv, IInv, ListInv
<1>5. ASSUME NEW u \in Targets
      PROVE  /\ timers[u] \in Seq(Timers)
             /\ \A i \in DOMAIN timers'[u] :
                  \/ i \in DOMAIN timers[u] /\ timers'[u][i] = timers[u][i]
                  \/ timers'[u][i] = x
  BY <1>1 DEF IInv, ListInv
<1>6. ASSUME NEW u \in Targets, Follows(hash', currentTarget', u),
             NEW i \in DOMAIN timers'[u]
      PROVE  timers'[u][i] \notin ticked'
  <2>1. CASE timers'[u][i] = x
    BY <1>2, <1>3, <2>1
  <2>2. CASE i \in DOMAIN timers[u] /\ timers'[u][i] = timers[u][i]
    <3>1. Follows(hash, currentTarget, u)
      <4>1. CASE t \in Hashed
        BY <1>2, <1>6, <4>1 DEF AddTimer, NewEntry
      <4>2. CASE t \notin Hashed
        <5>1. PICK j \in 1 .. Len(hash) + 1 : hash' = InsertAt(hash, j, t)
          BY <4>2 DEF AddTimer, NewEntry
        <5>2. hash \in Seq(Targets) /\ currentTarget \in Hashed \cup {None}
          BY DEF IInv, HashInv
        <5>3. t # currentTarget
          BY <4>2, <5>2, SchedulerAssumption
        <5>4. u # t
          BY <2>2, <4>2, <1>5 DEF IInv, HashInv, NoEmptyEntry
        <5>5. Follows(InsertAt(hash, j, t), currentTarget, u)
          BY <1>2, <1>6, <5>1
        <5>6. QED
          BY <5>2, <5>3, <5>4, <5>5, FollowsInsert
      <4>3. QED
        BY <4>1, <4>2
    <3>2. QED
      BY <1>2, <2>2, <3>1 DEF TickedInv
  <2>3. QED
    BY <1>5, <2>1, <2>2
<1>7. WalkExact'
  <2>1. SUFFICES ASSUME Walking, NEW i \in DOMAIN timers'[currentTarget]
                 PROVE  IF i <= Seen THEN timers'[currentTarget][i] \notin due
                                     ELSE timers'[currentTarget][i] \notin ticked
    BY <1>2 DEF WalkExact, Walking, Seen
  <2>2. currentTarget \in Targets
    BY <2>1 DEF Walking, IInv, WalkInv
  <2>3. CASE timers'[currentTarget][i] = x
    BY <1>3, <2>3
  <2>4. CASE i \in DOMAIN timers[currentTarget]
             /\ timers'[currentTarget][i] = timers[currentTarget][i]
    BY <2>1, <2>4 DEF TickedInv, WalkExact, Walking, Seen
  <2>5. QED
    BY <1>5, <2>2, <2>3, <2>4
<1>8. QED
  BY <1>2, <1>4, <1>6, <1>7 DEF TickedInv

(* What leaves the lists is forgotten.                                     *)
LEMMA TickedDrop ==
  ASSUME IInv, TickedInv, NEW X, NEW left, DropTimers(X, left),
         UNCHANGED currentTimer
  PROVE  /\ due' = due \ X /\ ticked' = ticked \ X
         /\ \A x \in due' \cup ticked' :
              refs'[x] = 1 /\ ~(timerSalvaged' /\ x = currentTimer')
<1>1. /\ due' = due \ X /\ ticked' = ticked \ X
      /\ timerSalvaged' = (timerSalvaged \/ currentTimer \in X)
      /\ refs' = [x \in Timers |->
                   IF x \in X /\ (x # currentTimer \/ timerSalvaged)
                   THEN refs[x] - 1 ELSE refs[x]]
  BY DEF DropTimers, Released
<1>2. ASSUME NEW x \in due' \cup ticked'
      PROVE  refs'[x] = 1 /\ ~(timerSalvaged' /\ x = currentTimer')
  <2>1. x \in Timers /\ x \notin X /\ x \in due \cup ticked
    BY <1>1 DEF IInv, WalkInv
  <2>2. refs'[x] = refs[x]
    BY <1>1, <2>1
  <2>3. QED
    BY <1>1, <2>1, <2>2 DEF TickedInv
<1>3. QED
  BY <1>1, <1>2

(* Lists are emptied.                                                      *)
LEMMA TickedEmpty ==
  ASSUME IInv, TickedInv, NEW X, DropTimers(X, timers'),
         UNCHANGED <<pc, currentTarget, timerIndex, currentTimer>>,
         \A u \in Targets : timers'[u] = <<>> \/ timers'[u] = timers[u],
         \A u \in Targets : timers'[u] # <<>> /\ Follows(hash', currentTarget, u)
                              => Follows(hash, currentTarget, u)
  PROVE  TickedInv'
<1>1. /\ due' \subseteq due /\ ticked' \subseteq ticked
      /\ \A x \in due' \cup ticked' :
           refs'[x] = 1 /\ ~(timerSalvaged' /\ x = currentTimer')
  BY TickedDrop
<1>2. ASSUME NEW u \in Targets, Follows(hash', currentTarget', u),
             NEW i \in DOMAIN timers'[u]
      PROVE  timers'[u][i] \notin ticked'
  <2>1. timers'[u] = timers[u] /\ timers'[u] # <<>>
    BY <1>2
  <2>2. QED
    BY <1>1, <1>2, <2>1 DEF TickedInv
<1>3. WalkExact'
  <2>1. SUFFICES ASSUME Walking, NEW i \in DOMAIN timers'[currentTarget]
                 PROVE  IF i <= Seen THEN timers'[currentTarget][i] \notin due'
                                     ELSE timers'[currentTarget][i] \notin ticked'
    BY DEF WalkExact, Walking, Seen
  <2>2. currentTarget \in Targets
    BY <2>1 DEF Walking, IInv, WalkInv
  <2>3. timers'[currentTarget] = timers[currentTarget]
    BY <2>1, <2>2
  <2>4. QED
    BY <1>1, <2>1, <2>3 DEF TickedInv, WalkExact, Walking, Seen
<1>4. QED
  BY <1>1, <1>2, <1>3 DEF TickedInv

(* The entry of t goes, if update() is not walking it.                     *)
LEMMA FollowsDrop ==
  ASSUME HashInv, NEW t \in Hashed, DropEntry(t), NEW u, NEW v, Follows(hash', u, v)
  PROVE  Follows(hash, u, v)
<1>1. hash \in Seq(Targets) /\ Position(hash, t) \in DOMAIN hash
  BY PositionFacts DEF HashInv, Hashed
<1>2. CASE hash' = hash
  BY <1>2
<1>3. CASE hash' = RemoveAt(hash, Position(hash, t))
  <2>1. Follows(RemoveAt(hash, Position(hash, t)), u, v)
    BY <1>3
  <2>2. QED
    BY <1>1, <2>1, FollowsRemove
<1>4. QED
  BY <1>2, <1>3 DEF DropEntry

LEMMA TickedUnscheduleAllForTarget ==
  ASSUME IInv, TickedInv, UnscheduleAllForTarget
  PROVE  TickedInv'
<1>1. PICK t \in Hashed :
        /\ DropTimers(Range(timers[t]), [timers EXCEPT ![t] = <<>>])
        /\ DropEntry(t)
  BY DEF UnscheduleAllForTarget
<1>2. UNCHANGED <<pc, currentTarget, timerIndex, currentTimer>>
  BY DEF UnscheduleAllForTarget
<1>3. timers' = [timers EXCEPT ![t] = <<>>]
  BY <1>1 DEF DropTimers
<1>4. \A u \in Targets : timers'[u] = <<>> \/ timers'[u] = timers[u]
  BY <1>3 DEF IInv, ListInv
<1>5. \A u \in Targets : Follows(hash', currentTarget, u) => Follows(hash, currentTarget, u)
  BY <1>1, FollowsDrop DEF IInv
<1>6. DropTimers(Range(timers[t]), timers')
  BY <1>1, <1>3
<1>7. QED
  BY <1>2, <1>4, <1>5, <1>6, TickedEmpty

LEMMA TickedUnscheduleAll ==
  ASSUME IInv, TickedInv, UnscheduleAll
  PROVE  TickedInv'
<1>1. DropTimers(Listed, [t \in Targets |-> <<>>])
      /\ UNCHANGED <<pc, currentTarget, timerIndex, currentTimer>>
  BY DEF UnscheduleAll
<1>2. timers' = [t \in Targets |-> <<>>]
  BY <1>1 DEF DropTimers
<1>3. DropTimers(Listed, timers') /\ \A u \in Targets : timers'[u] = <<>>
  BY <1>1, <1>2
<1>4. QED
  BY <1>1, <1>3, TickedEmpty

(* One timer leaves its list, and the index follows.                       *)
LEMMA TickedRemove ==
  ASSUME IInv, TickedInv, NEW t \in Targets, NEW i \in DOMAIN timers[t],
         RemoveTimer(t, i),
         \/ pc \in {"idle", "callback"} /\ UNCHANGED pc
         \/ pc = "cancel" /\ pc' = "next"
  PROVE  TickedInv'
<1> DEFINE x == timers[t][i]
           n == Len(timers[t])
<1>1. /\ DropTimers({x}, [timers EXCEPT ![t] = RemoveAt(@, i)])
      /\ UNCHANGED <<currentTarget, currentTimer>>
      /\ timerIndex' = IndexAfter(t, i)
      /\ IF n = 1 THEN DropEntry(t) ELSE UNCHANGED hash
  BY DEF RemoveTimer
<1>2. /\ due' = due \ {x} /\ ticked' = ticked \ {x}
      /\ \A y \in due' \cup ticked' :
           refs'[y] = 1 /\ ~(timerSalvaged' /\ y = currentTimer')
  BY <1>1, TickedDrop
<1>3. /\ timers' = [timers EXCEPT ![t] = RemoveAt(timers[t], i)]
      /\ timers \in [Targets -> Seq(Timers)]
  BY <1>1 DEF DropTimers, IInv, ListInv
<1>4. /\ timers[t] \in Seq(Timers)
      /\ timers'[t] = RemoveAt(timers[t], i)
      /\ \A u \in Targets \ {t} : timers'[u] = timers[u]
  BY <1>3
<1>5. /\ RemoveAt(timers[t], i) \in Seq(Timers)
      /\ Len(RemoveAt(timers[t], i)) = n - 1
      /\ \A j \in 1 .. n - 1 :
           RemoveAt(timers[t], i)[j] = IF j < i THEN timers[t][j] ELSE timers[t][j + 1]
  BY <1>4, RemoveAtFacts
<1>6. i \in 1 .. n /\ n \in Nat /\ DOMAIN timers[t] = 1 .. n
  BY <1>4
<1>7. DOMAIN timers'[t] = 1 .. n - 1
  BY <1>4, <1>5
<1> HIDE DEF x, n
<1>8. ASSUME NEW j \in DOMAIN timers'[t]
      PROVE  /\ j \in 1 .. n - 1
             /\ j < i => j \in DOMAIN timers[t] /\ timers'[t][j] = timers[t][j]
             /\ ~(j < i) => j + 1 \in DOMAIN timers[t] /\ timers'[t][j] = timers[t][j + 1]
  <2>1. j \in 1 .. n - 1
    BY <1>7
  <2>2. j \in DOMAIN timers[t] /\ j + 1 \in DOMAIN timers[t]
    BY <1>6, <2>1
  <2>3. QED
    BY <1>4, <1>5, <2>1, <2>2
<1>9. t \in Hashed
  <2>1. timers[t] # <<>>
    BY <1>4
  <2>2. QED
    BY <2>1 DEF IInv, HashInv, NoEmptyEntry
<1>10. ASSUME NEW u \in Targets, Follows(hash', currentTarget', u),
              NEW j \in DOMAIN timers'[u]
       PROVE  timers'[u][j] \notin ticked'
  <2>1. Follows(hash, currentTarget, u)
    BY <1>1, <1>9, <1>10, FollowsDrop DEF IInv
  <2>2. \A k \in DOMAIN timers[u] : timers[u][k] \notin ticked
    BY <2>1 DEF TickedInv
  <2>3. \E k \in DOMAIN timers[u] : timers'[u][j] = timers[u][k]
    BY <1>4, <1>8
  <2>4. QED
    BY <1>2, <2>2, <2>3
<1>11. WalkExact'
  <2>1. SUFFICES ASSUME Walking, NEW j \in DOMAIN timers'[currentTarget]
                 PROVE  IF j <= timerIndex' THEN timers'[currentTarget][j] \notin due'
                                            ELSE timers'[currentTarget][j] \notin ticked'
    BY <1>1 DEF WalkExact, Walking, Seen
  <2>2. /\ currentTarget \in Targets /\ Seen = timerIndex /\ timerIndex \in Nat
    BY <2>1 DEF Walking, Seen, IInv, WalkInv
  <2>3. \A k \in DOMAIN timers[currentTarget] :
          IF k <= timerIndex THEN timers[currentTarget][k] \notin due
                             ELSE timers[currentTarget][k] \notin ticked
    BY <2>1, <2>2 DEF TickedInv, WalkExact, Walking, Seen
  <2>4. CASE currentTarget # t
    <3>1. timerIndex' = timerIndex /\ timers'[currentTarget] = timers[currentTarget]
      BY <1>1, <1>4, <2>2, <2>4 DEF IndexAfter
    <3>2. QED
      BY <1>2, <2>3, <3>1
  <2>5. CASE currentTarget = t
    <3>1. timerIndex' = IF timerIndex >= i THEN timerIndex - 1 ELSE timerIndex
      BY <1>1, <2>5 DEF IndexAfter
    <3>2. CASE j < i
      <4>1. timers'[t][j] = timers[t][j] /\ j \in DOMAIN timers[t] /\ j \in Nat
        BY <1>8, <2>1, <2>5, <3>2
      <4>2. j <= timerIndex' <=> j <= timerIndex
        BY <1>6, <2>2, <3>1, <3>2, <4>1
      <4>3. QED
        BY <1>2, <2>3, <2>5, <4>1, <4>2
    <3>3. CASE ~(j < i)
      <4>1. timers'[t][j] = timers[t][j + 1] /\ j + 1 \in DOMAIN timers[t] /\ j \in Nat
        BY <1>8, <2>1, <2>5, <3>3
      <4>2. j <= timerIndex' <=> j + 1 <= timerIndex
        BY <1>6, <2>2, <3>1, <3>3, <4>1
      <4>3. QED
        BY <1>2, <2>3, <2>5, <4>1, <4>2
    <3>4. QED
      BY <3>2, <3>3
  <2>6. QED
    BY <2>4, <2>5
<1>12. pc' = "idle" => ticked' = {}
  BY <1>2 DEF TickedInv
<1>13. QED
  BY <1>2, <1>10, <1>11, <1>12 DEF TickedInv

(* The next timer of the list is ticked.                                   *)
LEMMA TickedTick ==
  ASSUME IInv, TickedInv, NEW x, NEW f, Tick(x, f),
         pc' \in {"loop", "callback", "next"}
  PROVE  TickedInv'
<1>1. /\ pc = "timer" /\ timerIndex \in 1 .. Len(timers[currentTarget])
      /\ x = timers[currentTarget][timerIndex]
      /\ currentTarget \in Targets
  BY DEF Tick, IInv, WalkInv
<1>2. /\ currentTimer' = x /\ timerSalvaged' = FALSE
      /\ due' = due \ {x} /\ ticked' = ticked \cup {x}
      /\ UNCHANGED <<hash, timers, refs, currentTarget, timerIndex>>
  BY DEF Tick, lists
<1>3. timerIndex \in DOMAIN timers[currentTarget]
  <2>1. timers[currentTarget] \in Seq(Timers)
    BY <1>1 DEF IInv, ListInv
  <2>2. QED
    BY <1>1, <2>1
<1>4. x \in Timers /\ refs[x] = 1
  <2>1. x \in Listed
    BY <1>1, <1>3, InLists DEF Listed
  <2>2. timers[currentTarget] \in Seq(Timers)
    BY <1>1 DEF IInv, ListInv
  <2>3. x \in Timers
    BY <1>1, <1>3, <2>2
  <2>4. QED
    BY <2>1, <2>3 DEF IInv, ListInv, RefsExact
<1>5. \A y \in due' \cup ticked' :
        refs'[y] = 1 /\ ~(timerSalvaged' /\ y = currentTimer')
  BY <1>2, <1>4 DEF TickedInv
<1>6. ASSUME NEW u \in Targets, NEW i \in DOMAIN timers[u], timers[u][i] = x
      PROVE  u = currentTarget /\ i = timerIndex
  BY <1>1, <1>3, <1>6 DEF IInv, ListInv, DistinctIn
<1>7. ASSUME NEW u \in Targets, Follows(hash', currentTarget', u),
             NEW i \in DOMAIN timers'[u]
      PROVE  timers'[u][i] \notin ticked'
  <2>1. Follows(hash, currentTarget, u) /\ timers'[u][i] = timers[u][i]
        /\ i \in DOMAIN timers[u]
    BY <1>2, <1>7
  <2>2. timers[u][i] \notin ticked
    BY <2>1 DEF TickedInv
  <2>3. u # currentTarget
    BY <2>1 DEF Follows, IInv, HashInv, Injective
  <2>4. QED
    BY <1>2, <1>6, <2>1, <2>2, <2>3
<1>8. WalkExact'
  <2>1. SUFFICES ASSUME NEW i \in DOMAIN timers[currentTarget]
                 PROVE  IF i <= timerIndex THEN timers[currentTarget][i] \notin due'
                                           ELSE timers[currentTarget][i] \notin ticked'
    BY <1>2 DEF WalkExact
  <2>2. IF i <= timerIndex - 1 THEN timers[currentTarget][i] \notin due
                               ELSE timers[currentTarget][i] \notin ticked
    BY <1>1 DEF TickedInv, WalkExact
  <2>3. timers[currentTarget] \in Seq(Timers)
    BY <1>1 DEF IInv, ListInv
  <2>4. i \in Nat /\ timerIndex \in Nat
    BY <1>1, <2>3
  <2>5. CASE i = timerIndex
    BY <1>1, <1>2, <2>4, <2>5
  <2>6. CASE i # timerIndex
    <3>1. timers[currentTarget][i] # x
      BY <1>1, <1>6, <2>6
    <3>2. i <= timerIndex <=> i <= timerIndex - 1
      BY <2>4, <2>6
    <3>3. QED
      BY <1>2, <2>2, <3>1, <3>2
  <2>7. QED
    BY <2>5, <2>6
<1>9. QED
  BY <1>5, <1>7, <1>8 DEF TickedInv

LEMMA TickedUpdate ==
  ASSUME IInv, IInv', TickedInv, Update
  PROVE  TickedInv'
<1>1. pc = "idle" /\ currentTimer = None /\ ticked = {}
  BY DEF Update, IInv, WalkInv, TickedInv
<1>2. /\ due' = UNION {Range(timers[t]) : t \in {t \in Targets : ~paused[t]}}
      /\ UNCHANGED <<hash, timers, refs, ticked, currentTimer, timerSalvaged>>
      /\ currentTarget' = hash[1]
      /\ timerIndex' = IF hash[1] = None THEN 0 ELSE 1
  BY DEF Update, Enter
<1>3. ~timerSalvaged
  BY <1>1 DEF IInv, ListInv
<1>4. ASSUME NEW x \in due' PROVE refs'[x] = 1
  <2>1. PICK t \in Targets : x \in Range(timers[t])
    BY <1>2
  <2>2. timers[t] \in Seq(Timers)
    BY DEF IInv, ListInv
  <2>3. x \in Timers /\ x \in Listed
    BY <2>1, <2>2, RangeSeq DEF Listed
  <2>4. QED
    BY <1>2, <2>3 DEF IInv, ListInv, RefsExact
<1>5. WalkExact'
  <2>1. SUFFICES ASSUME Walking', NEW i \in DOMAIN timers'[currentTarget']
                 PROVE  IF i <= Seen' THEN timers'[currentTarget'][i] \notin due'
                                      ELSE timers'[currentTarget'][i] \notin ticked'
    BY DEF WalkExact, Walking, Seen
  <2>2. currentTarget' \in Targets /\ currentTarget' # None
    BY <2>1 DEF Walking, IInv, WalkInv
  <2>3. pc' = "timer" /\ timerIndex' = 1
    BY <1>2, <2>1, <2>2 DEF Update, Enter, Walking
  <2>4. timers'[currentTarget'] \in Seq(Timers)
    BY <2>2 DEF IInv, ListInv
  <2>5. i \in Nat \ {0} /\ Seen' = 0
    BY <2>1, <2>3, <2>4 DEF Seen
  <2>6. QED
    BY <1>1, <1>2, <2>5
<1>6. QED
  BY <1>1, <1>2, <1>3, <1>4, <1>5 DEF TickedInv

(* The next target, or the one after it, was not reached yet.              *)
LEMMA TickedLeave ==
  ASSUME IInv, IInv', TickedInv, LeaveTarget
  PROVE  TickedInv'
<1>1. /\ pc = "leave" /\ currentTarget \in Hashed /\ currentTarget # None
      /\ ~timerSalvaged
  BY DEF LeaveTarget, IInv, WalkInv, HashInv, ListInv
<1>2. UNCHANGED <<timers, refs, currentTimer, timerSalvaged>>
      /\ timerIndex' = (IF currentTarget' = None THEN 0 ELSE 1)
      /\ pc' = IF currentTarget' = None THEN "idle"
               ELSE IF paused[currentTarget'] THEN "leave" ELSE "timer"
  BY DEF LeaveTarget, Enter
<1>3. IF currentTarget' = None THEN due' = {} /\ ticked' = {}
      ELSE UNCHANGED <<due, ticked>>
  BY DEF LeaveTarget
<1>4. \A x \in due' \cup ticked' :
        refs'[x] = 1 /\ ~(timerSalvaged' /\ x = currentTimer')
  BY <1>1, <1>2, <1>3 DEF TickedInv
<1>5. CASE currentTarget' = None
  <2>1. pc' = "idle" /\ ticked' = {}
    BY <1>2, <1>3, <1>5
  <2>2. QED
    BY <1>4, <2>1 DEF TickedInv, WalkExact
<1>6. CASE currentTarget' # None
  <2>1. hash \in Seq(Targets)
    BY DEF IInv, HashInv
  <2>2. /\ Follows(hash, currentTarget, currentTarget')
        /\ \A u : Follows(hash', currentTarget', u) => Follows(hash, currentTarget, u)
    <3>1. CASE targetSalvaged /\ timers[currentTarget] = <<>>
      <4>1. /\ hash' = RemoveAt(hash, Position(hash, currentTarget))
            /\ currentTarget' = Successor(Successor(currentTarget))
        BY <3>1 DEF LeaveTarget, Enter
      <4>2. Successor(None) = None
        BY DEF Successor
      <4>3. /\ Successor(currentTarget) # None
            /\ Successor(currentTarget) \in Hashed
        BY <1>1, <1>6, <4>1, <4>2, SuccessorFacts DEF IInv
      <4>4. /\ Follows(hash, currentTarget, Successor(currentTarget))
            /\ \A u : Follows(hash, Successor(currentTarget), u)
                        => Follows(hash, currentTarget, u)
        BY <1>1, <4>3, FollowsSuccessor DEF IInv
      <4>5. /\ Follows(hash, Successor(currentTarget), currentTarget')
            /\ \A u : Follows(hash, currentTarget', u)
                        => Follows(hash, Successor(currentTarget), u)
        BY <1>6, <4>1, <4>3, FollowsSuccessor DEF IInv
      <4>6. ASSUME NEW u, Follows(hash', currentTarget', u)
            PROVE  Follows(hash, currentTarget', u)
        <5>1. Position(hash, currentTarget) \in DOMAIN hash
          BY <1>1, PositionFacts DEF Hashed
        <5>2. Follows(RemoveAt(hash, Position(hash, currentTarget)), currentTarget', u)
          BY <4>1, <4>6
        <5>3. QED
          BY <2>1, <5>1, <5>2, FollowsRemove
      <4>7. QED
        BY <4>4, <4>5, <4>6
    <3>2. CASE ~(targetSalvaged /\ timers[currentTarget] = <<>>)
      <4>1. hash' = hash /\ currentTarget' = Successor(currentTarget)
        BY <3>2 DEF LeaveTarget, Enter
      <4>2. QED
        BY <1>1, <1>6, <4>1, FollowsSuccessor DEF IInv
    <3>3. QED
      BY <3>1, <3>2
  <2>3. \A u \in Targets : Follows(hash', currentTarget', u) =>
          \A i \in DOMAIN timers'[u] : timers'[u][i] \notin ticked'
    BY <1>2, <1>3, <1>6, <2>2 DEF TickedInv
  <2>4. currentTarget' \in Targets
    BY <1>6 DEF IInv, WalkInv
  <2>5. \A i \in DOMAIN timers'[currentTarget'] : timers'[currentTarget'][i] \notin ticked'
    BY <1>2, <1>3, <1>6, <2>2, <2>4 DEF TickedInv
  <2>6. WalkExact'
    <3>1. SUFFICES ASSUME pc' = "timer", NEW i \in DOMAIN timers'[currentTarget']
                   PROVE  ~(i <= timerIndex' - 1)
      BY <1>2, <2>5 DEF WalkExact
    <3>2. timers'[currentTarget'] \in Seq(Timers)
      BY <2>4 DEF IInv, ListInv
    <3>3. i \in Nat \ {0} /\ timerIndex' = 1
      BY <1>2, <1>6, <3>1, <3>2
    <3>4. QED
      BY <3>3
  <2>7. pc' # "idle"
    BY <1>2, <1>6
  <2>8. QED
    BY <1>4, <2>3, <2>6, <2>7 DEF TickedInv
<1>7. QED
  BY <1>5, <1>6

(* The rest of a timer's update: only the place in it changes.             *)
LEMMA TickedOther ==
  ASSUME IInv, IInv', TickedInv,
         EndTimers \/ Loop \/ ReturnDelayed \/ Return \/ UNCHANGED vars
  PROVE  TickedInv'
<1>1. UNCHANGED <<hash, timers, refs, currentTarget, timerIndex, currentTimer,
                  timerSalvaged, due, ticked>>
  BY DEF EndTimers, Loop, ReturnDelayed, Return, vars, lists, walk, history
<1>2. \/ pc' = "leave" \/ pc' = pc
      \/ /\ pc \in {"loop", "callback"} /\ pc' \in {"loop", "callback", "cancel", "next"}
  BY DEF EndTimers, Loop, ReturnDelayed, Return, vars
<1>3. Walking' => Walking /\ Seen' = Seen
  BY <1>1, <1>2 DEF Walking, Seen
<1>4. QED
  BY <1>1, <1>3, TickedSame

LEMMA TickedNextTimer ==
  ASSUME IInv, IInv', TickedInv, NextTimer
  PROVE  TickedInv'
<1>1. /\ pc = "next" /\ pc' = "timer" /\ timerIndex' = timerIndex + 1
      /\ UNCHANGED <<hash, timers, currentTarget, due, ticked>>
      /\ timerSalvaged' = FALSE
      /\ refs' = IF timerSalvaged THEN [refs EXCEPT ![currentTimer] = @ - 1] ELSE refs
  BY DEF NextTimer
<1>2. \A x \in due \cup ticked : refs'[x] = refs[x]
  BY <1>1 DEF TickedInv, IInv, ListInv, WalkInv
<1>3. Walking /\ Seen' = Seen
  BY <1>1 DEF Walking, Seen, IInv, WalkInv
<1>4. QED
  BY <1>1, <1>2, <1>3, TickedSame

LEMMA TickedCall ==
  ASSUME IInv, IInv', TickedInv, Call
  PROVE  TickedInv'
<1>1. CASE Schedule
  <2>1. PICK t \in Targets, k \in Keys, s \in Settings, p \in BOOLEAN :
          UpdateInterval(t, k, s) \/ AddTimer(t, k, s, p)
    BY <1>1 DEF Schedule
  <2>2. CASE UpdateInterval(t, k, s)
    <3>1. UNCHANGED <<hash, timers, refs, pc, currentTarget, timerIndex, currentTimer,
                      timerSalvaged, due, ticked>>
      BY <2>2 DEF UpdateInterval, lists, walk, history
    <3>2. Walking' => Walking /\ Seen' = Seen
      BY <3>1 DEF Walking, Seen
    <3>3. QED
      BY <3>1, <3>2, TickedSame
  <2>3. CASE AddTimer(t, k, s, p)
    BY <2>3, TickedAdd
  <2>4. QED
    BY <2>1, <2>2, <2>3
<1>2. CASE Unschedule
  <2>1. PICK t \in Targets, k \in Keys : \E i \in WithKey(t, k) : RemoveTimer(t, i)
    BY <1>2 DEF Unschedule
  <2>2. PICK i \in DOMAIN timers[t] : RemoveTimer(t, i)
    BY <2>1 DEF WithKey
  <2>3. pc \in {"idle", "callback"} /\ UNCHANGED pc
    BY <1>2, CallsPc DEF Unschedule
  <2>4. QED
    BY <2>2, <2>3, TickedRemove
<1>3. CASE UnscheduleAllForTarget
  BY <1>3, TickedUnscheduleAllForTarget
<1>4. CASE UnscheduleAll
  BY <1>4, TickedUnscheduleAll
<1>5. CASE PauseTarget \/ ResumeTarget
  <2>1. PICK t \in Hashed, p \in BOOLEAN : SetPaused(t, p)
    BY <1>5 DEF PauseTarget, ResumeTarget
  <2>2. UNCHANGED <<hash, timers, refs, pc, currentTarget, timerIndex, currentTimer,
                    timerSalvaged, ticked>> /\ due' \subseteq due
    BY <2>1 DEF SetPaused, walk
  <2>3. Walking' => Walking /\ Seen' = Seen
    BY <2>2 DEF Walking, Seen
  <2>4. QED
    BY <2>2, <2>3, TickedSame
<1>6. QED
  BY <1>1, <1>2, <1>3, <1>4, <1>5 DEF Call

LEMMA TickedNext ==
  ASSUME IInv, IInv', TickedInv, [Next]_vars
  PROVE  TickedInv'
<1>1. CASE Call
  BY <1>1, TickedCall
<1>2. CASE Update
  BY <1>2, TickedUpdate
<1>3. CASE LeaveTarget
  BY <1>3, TickedLeave
<1>4. CASE StartClock
  BY <1>4, TickedTick DEF StartClock
<1>5. CASE Advance
  <2>1. PICK x \in Timers : Tick(x, [timer[x] EXCEPT !.elapsed = @ + dt])
    BY <1>5 DEF Advance
  <2>2. pc' \in {"loop", "callback", "next"}
    BY <1>5 DEF Advance
  <2>3. QED
    BY <2>1, <2>2, TickedTick
<1>6. CASE Cancel
  <2>1. pc = "cancel" /\ pc' = "next"
    BY <1>6 DEF Cancel
  <2>2. currentTarget \in Targets
    BY <2>1 DEF IInv, WalkInv
  <2>3. CASE WithKey(currentTarget, timer[currentTimer].key) = {}
    <3>1. UNCHANGED <<hash, timers, refs, currentTarget, timerIndex, currentTimer,
                      timerSalvaged, due, ticked>>
      BY <1>6, <2>3 DEF Cancel, lists, walk, history
    <3>2. Walking /\ Seen' = Seen
      BY <2>1, <3>1 DEF Walking, Seen
    <3>3. QED
      BY <3>1, <3>2, TickedSame
  <2>4. CASE WithKey(currentTarget, timer[currentTimer].key) # {}
    <3>1. PICK i \in DOMAIN timers[currentTarget] : RemoveTimer(currentTarget, i)
      BY <1>6, <2>4 DEF Cancel, WithKey
    <3>2. QED
      BY <2>1, <2>2, <3>1, TickedRemove
  <2>5. QED
    BY <2>3, <2>4
<1>7. CASE NextTimer
  BY <1>7, TickedNextTimer
<1>8. CASE EndTimers \/ Loop \/ ReturnDelayed \/ Return \/ UNCHANGED vars
  BY <1>8, TickedOther
<1>9. QED
  BY <1>1, <1>2, <1>3, <1>4, <1>5, <1>6, <1>7, <1>8 DEF Next, UpdateStep

LEMMA TickedInvariance == Spec => [](IInv /\ TickedInv)
<1>1. Init => TickedInv
  <2>1. SUFFICES ASSUME Init PROVE TickedInv
    OBVIOUS
  <2>2. hash = <<>> /\ due = {} /\ ticked = {} /\ pc = "idle"
    BY <2>1 DEF Init
  <2>3. QED
    BY <2>2 DEF TickedInv, WalkExact
<1>2. IInv /\ IInv' /\ TickedInv /\ [Next]_vars => TickedInv'
  BY TickedNext
<1>3. QED
  BY <1>1, <1>2, Invariance, PTL DEF Spec

(* Whatever callbacks add to and remove from the list that update() walks, *)
(* and wherever they put new entries into the hash map, the walk over a    *)
(* target's timers skips none that was there before it and takes none      *)
(* twice: the index follows each removal (removeTimer).                    *)
THEOREM WalkedOnce == Spec => []WalkExact
<1>1. TickedInv => WalkExact
  BY DEF TickedInv
<1>2. QED
  BY <1>1, TickedInvariance, PTL

------------------------------------------------------------------------------
(* Repetitions.  A timer that has had all of them is the one being updated *)
(* and leaves its list before anything else happens.                       *)

Going(f) == f.repeat # Forever => f.executed <= f.repeat

Exhausted(x) ==
  /\ timer[x].executed = timer[x].repeat + 1
  /\ x = currentTimer
  /\ pc = "cancel" \/ (pc = "next" /\ x \notin Listed)

RepeatInv ==
  /\ currentTimer \in Listed => currentTimer \in Range(timers[currentTarget])
  /\ \A x \in Timers : Going(timer[x]) \/ Exhausted(x)

LEMMA GoingUnused == Going(Unused)
BY DEF Going, Unused

LEMMA TimerFields ==
  ASSUME IInv, NEW x \in Timers
  PROVE  /\ timer[x] \in TimerRecord
         /\ timer[x].repeat \in Nat \cup {Forever} /\ timer[x].executed \in Nat
BY DEF IInv, TimerInv, TimerRecord

(* Lists lose timers: the one being updated is where it was, or gone.      *)
LEMMA CurrentStays ==
  ASSUME IInv, RepeatInv, UNCHANGED <<currentTimer, currentTarget>>,
         \A u \in Targets : Range(timers'[u]) \subseteq Range(timers[u])
  PROVE  currentTimer' \in Listed' => currentTimer' \in Range(timers'[currentTarget'])
<1>1. SUFFICES ASSUME currentTimer \in Listed'
               PROVE  currentTimer \in Range(timers'[currentTarget])
  OBVIOUS
<1>2. PICK u \in Targets : currentTimer \in Range(timers'[u])
  BY <1>1 DEF Listed
<1>3. currentTimer \in Range(timers[u])
  BY <1>2
<1>4. currentTimer \in Listed
  BY <1>3 DEF Listed
<1>5. currentTimer \in Range(timers[currentTarget])
  BY <1>4 DEF RepeatInv
<1>6. currentTarget \in Targets
  <2>1. currentTimer \in Timers
    BY <1>3, RangeSeq DEF IInv, ListInv
  <2>2. QED
    BY <2>1, SchedulerAssumption DEF IInv, WalkInv
<1>7. u = currentTarget
  BY <1>3, <1>5, <1>6 DEF IInv, ListInv, DistinctIn, Range
<1>8. QED
  BY <1>2, <1>7

(* The calls, and the steps that leave the counts alone.                   *)
LEMMA RepeatSame ==
  ASSUME IInv, RepeatInv, pc \notin {"cancel", "next"},
         currentTimer' \in Listed' => currentTimer' \in Range(timers'[currentTarget']),
         \A x \in Timers : \/ Going(timer'[x])
                           \/ /\ timer'[x].repeat = timer[x].repeat
                              /\ timer'[x].executed = timer[x].executed
  PROVE  RepeatInv'
<1>1. \A x \in Timers : Going(timer[x])
  BY DEF RepeatInv, Exhausted
<1>2. \A x \in Timers : Going(timer'[x])
  BY <1>1 DEF Going
<1>3. QED
  BY <1>2 DEF RepeatInv

LEMMA RepeatFreed ==
  ASSUME IInv, RepeatInv, timer' = Freed(refs'),
         UNCHANGED <<currentTimer, currentTarget>>,
         pc \notin {"cancel", "next"},
         \A u \in Targets : Range(timers'[u]) \subseteq Range(timers[u])
  PROVE  RepeatInv'
<1>1. currentTimer' \in Listed' => currentTimer' \in Range(timers'[currentTarget'])
  BY CurrentStays
<1>2. \A x \in Timers : timer'[x] = Unused \/ timer'[x] = timer[x]
  BY DEF Freed
<1>3. QED
  BY <1>1, <1>2, GoingUnused, RepeatSame

LEMMA RepeatAdd ==
  ASSUME IInv, RepeatInv, NEW t \in Targets, NEW k \in Keys, NEW s \in Settings,
         NEW p, AddTimer(t, k, s, p), pc \in {"idle", "callback"}
  PROVE  RepeatInv'
<1>1. PICK x \in Timers : /\ refs[x] = 0
                          /\ timer' = [timer EXCEPT ![x] = NewTimer(k, s)]
                          /\ timers' = [timers EXCEPT ![t] = Append(@, x)]
  BY DEF AddTimer
<1>2. UNCHANGED <<currentTarget, currentTimer>>
  BY DEF AddTimer, walk
<1>3. \A y \in Timers : Going(timer'[y]) \/ timer'[y] = timer[y]
  <2>1. s.repeat \in Nat \cup {Forever}
    BY SchedulerAssumption DEF Setting
  <2>2. Going(NewTimer(k, s))
    BY <2>1 DEF Going, NewTimer
  <2>3. QED
    BY <1>1, <2>2 DEF IInv, TimerInv
<1>4. ASSUME currentTimer \in Listed'
      PROVE  currentTimer \in Range(timers'[currentTarget])
  <2>0. PICK u \in Targets : currentTimer \in Range(timers'[u])
    BY <1>4 DEF Listed
  <2>1. PICK i \in DOMAIN timers'[u] : timers'[u][i] = currentTimer
    BY <2>0 DEF Range
  <2>2. \A v \in Targets : timers[v] \in Seq(Timers)
    BY DEF IInv, ListInv
  <2>3. currentTimer # x
    BY <1>1, SchedulerAssumption DEF IInv, ListInv, RefsExact
  <2>4. i \in DOMAIN timers[u] /\ timers[u][i] = currentTimer
    BY <1>1, <2>1, <2>2, <2>3 DEF IInv, ListInv
  <2>5. currentTimer \in Listed
    BY <2>4, InLists DEF Listed
  <2>6. PICK j \in DOMAIN timers[currentTarget] :
          timers[currentTarget][j] = currentTimer
    BY <2>5 DEF RepeatInv, Range
  <2>7. currentTarget \in Targets
    <3>1. currentTimer \in Timers
      BY <2>2, <2>4
    <3>2. QED
      BY <3>1, SchedulerAssumption DEF IInv, WalkInv
  <2>8. u = currentTarget
    BY <2>4, <2>6, <2>7 DEF IInv, ListInv, DistinctIn
  <2>9. QED
    BY <2>1, <2>8 DEF Range
<1>5. QED
  BY <1>2, <1>3, <1>4, RepeatSame

LEMMA RepeatCall ==
  ASSUME IInv, RepeatInv, Call
  PROVE  RepeatInv'
<1>1. CASE Schedule
  <2>1. PICK t \in Targets, k \in Keys, s \in Settings, p \in BOOLEAN :
          UpdateInterval(t, k, s) \/ AddTimer(t, k, s, p)
    BY <1>1 DEF Schedule
  <2>2. pc \in {"idle", "callback"}
    BY <1>1, CallsPc DEF Schedule
  <2>3. CASE UpdateInterval(t, k, s)
    <3>1. UNCHANGED <<timers, currentTarget, currentTimer>>
      BY <2>3 DEF UpdateInterval, lists, walk
    <3>2. PICK i \in DOMAIN timers[t] :
            timer' = [timer EXCEPT ![timers[t][i]].interval = s.interval]
      BY <2>3 DEF UpdateInterval, WithKey
    <3>3. timer \in [Timers -> TimerRecord]
      BY DEF IInv, TimerInv
    <3>4. \A x \in Timers : /\ timer'[x].repeat = timer[x].repeat
                            /\ timer'[x].executed = timer[x].executed
      BY <3>2, <3>3 DEF TimerRecord
    <3>5. currentTimer' \in Listed' => currentTimer' \in Range(timers'[currentTarget'])
      BY <3>1, CurrentStays
    <3>6. QED
      BY <2>2, <3>4, <3>5, RepeatSame
  <2>4. CASE AddTimer(t, k, s, p)
    BY <2>2, <2>4, RepeatAdd
  <2>5. QED
    BY <2>1, <2>3, <2>4
<1>2. CASE Unschedule
  <2>1. PICK t \in Targets, k \in Keys : \E i \in WithKey(t, k) : RemoveTimer(t, i)
    BY <1>2 DEF Unschedule
  <2>2. PICK i \in DOMAIN timers[t] : RemoveTimer(t, i)
    BY <2>1 DEF WithKey
  <2>3. pc \in {"idle", "callback"}
    BY <1>2, CallsPc DEF Unschedule
  <2>4. timer' = Freed(refs') /\ UNCHANGED <<currentTimer, currentTarget>>
    BY <2>2 DEF RemoveTimer, DropTimers
  <2>5. \A u \in Targets : Range(timers'[u]) \subseteq Range(timers[u])
    BY <2>2, RemoveTimerRange DEF IInv
  <2>6. QED
    BY <2>3, <2>4, <2>5, RepeatFreed
<1>3. CASE UnscheduleAllForTarget
  <2>1. PICK t \in Hashed :
          DropTimers(Range(timers[t]), [timers EXCEPT ![t] = <<>>])
    BY <1>3 DEF UnscheduleAllForTarget
  <2>2. UNCHANGED <<currentTimer, currentTarget>> /\ pc \in {"idle", "callback"}
    BY <1>3, CallsPc DEF UnscheduleAllForTarget
  <2>3. timer' = Freed(refs') /\ timers' = [timers EXCEPT ![t] = <<>>]
    BY <2>1 DEF DropTimers
  <2>4. \A u \in Targets : Range(timers'[u]) \subseteq Range(timers[u])
    BY <2>3 DEF IInv, ListInv, Range
  <2>5. QED
    BY <2>2, <2>3, <2>4, RepeatFreed
<1>4. CASE UnscheduleAll
  <2>1. DropTimers(Listed, [t \in Targets |-> <<>>])
        /\ UNCHANGED <<currentTimer, currentTarget>> /\ pc \in {"idle", "callback"}
    BY <1>4, CallsPc DEF UnscheduleAll
  <2>2. timer' = Freed(refs') /\ timers' = [t \in Targets |-> <<>>]
    BY <2>1 DEF DropTimers
  <2>3. \A u \in Targets : Range(timers'[u]) \subseteq Range(timers[u])
    BY <2>2 DEF Range
  <2>4. QED
    BY <2>1, <2>2, <2>3, RepeatFreed
<1>5. CASE PauseTarget \/ ResumeTarget
  <2>1. UNCHANGED <<timers, timer, currentTarget, currentTimer>>
    BY <1>5 DEF PauseTarget, ResumeTarget, SetPaused, walk
  <2>2. pc \in {"idle", "callback"}
    BY <1>5, CallsPc DEF PauseTarget, ResumeTarget
  <2>3. currentTimer' \in Listed' => currentTimer' \in Range(timers'[currentTarget'])
    BY <2>1, CurrentStays
  <2>4. QED
    BY <2>1, <2>2, <2>3, RepeatSame
<1>6. QED
  BY <1>1, <1>2, <1>3, <1>4, <1>5 DEF Call

LEMMA RepeatTick ==
  ASSUME IInv, RepeatInv, NEW x \in Timers, NEW f, Tick(x, f),
         \/ Going(f)
         \/ f.repeat = timer[x].repeat /\ f.executed = timer[x].executed
  PROVE  RepeatInv'
<1>1. /\ pc = "timer" /\ timerIndex \in 1 .. Len(timers[currentTarget])
      /\ x = timers[currentTarget][timerIndex]
      /\ currentTarget \in Targets
  BY DEF Tick, IInv, WalkInv
<1>2. /\ currentTimer' = x /\ timer' = [timer EXCEPT ![x] = f]
      /\ UNCHANGED <<timers, currentTarget>>
  BY DEF Tick, lists
<1>3. currentTimer' \in Range(timers'[currentTarget'])
  <2>1. timers[currentTarget] \in Seq(Timers)
    BY <1>1 DEF IInv, ListInv
  <2>2. QED
    BY <1>1, <1>2, <2>1 DEF Range
<1>4. \A y \in Timers : \/ Going(timer'[y])
                        \/ /\ timer'[y].repeat = timer[y].repeat
                           /\ timer'[y].executed = timer[y].executed
  BY <1>2 DEF IInv, TimerInv
<1>5. QED
  BY <1>1, <1>3, <1>4, RepeatSame

(* A callback has returned, and what it was called for is counted.         *)
LEMMA RepeatReturn ==
  ASSUME IInv, RepeatInv, pc = "callback", NEW f,
         f.repeat = timer[currentTimer].repeat,
         f.executed = Executed(timer[currentTimer]),
         timer' = [timer EXCEPT ![currentTimer] = f],
         Finished(f) => pc' = "cancel",
         UNCHANGED <<timers, currentTarget, currentTimer>>
  PROVE  RepeatInv'
<1>1. currentTimer \in Timers
  BY DEF IInv, ListInv, WalkInv
<1>2. currentTimer' \in Listed' => currentTimer' \in Range(timers'[currentTarget'])
  BY CurrentStays
<1>3. \A x \in Timers : Going(timer[x])
  BY DEF RepeatInv, Exhausted
<1>4. /\ timer'[currentTimer] = f
      /\ \A x \in Timers \ {currentTimer} : timer'[x] = timer[x]
  BY <1>1 DEF IInv, TimerInv
<1>5. Going(f) \/ (f.executed = f.repeat + 1 /\ pc' = "cancel")
  <2>1. /\ timer[currentTimer].repeat \in Nat \cup {Forever}
        /\ timer[currentTimer].executed \in Nat
    BY <1>1, TimerFields
  <2>2. Going(timer[currentTimer])
    BY <1>1, <1>3
  <2>3. QED
    BY <2>1, <2>2 DEF Going, Executed, Finished, Forever
<1>6. ASSUME NEW x \in Timers
      PROVE  (Going(timer[x]) \/ Exhausted(x))'
  <2>1. CASE x = currentTimer
    BY <1>4, <1>5, <2>1 DEF Exhausted
  <2>2. CASE x # currentTimer
    BY <1>3, <1>4, <2>2
  <2>3. QED
    BY <2>1, <2>2
<1>7. QED
  BY <1>2, <1>6 DEF RepeatInv

(* The end of a timer takes it from its list, if it is still there.        *)
LEMMA RepeatCancel ==
  ASSUME IInv, RepeatInv, Cancel
  PROVE  RepeatInv'
<1>1. /\ pc = "cancel" /\ pc' = "next"
      /\ currentTarget \in Targets /\ currentTimer \in Timers
  BY DEF Cancel, IInv, WalkInv, ListInv
<1> DEFINE same == WithKey(currentTarget, timer[currentTimer].key)
<1>2. ASSUME currentTimer \in Listed
      PROVE  \E k \in same : timers[currentTarget][k] = currentTimer
  BY <1>2 DEF RepeatInv, Range, WithKey
<1>3. CASE same = {}
  <2>1. UNCHANGED <<timers, timer, currentTarget, currentTimer>>
    BY <1>3 DEF Cancel, lists, walk
  <2>2. currentTimer \notin Listed
    BY <1>2, <1>3
  <2>3. currentTimer' \notin Listed'
    BY <2>1, <2>2 DEF Listed
  <2>4. \A x \in Timers : Going(timer'[x]) \/ Exhausted(x)'
    BY <1>1, <2>1, <2>3 DEF RepeatInv, Exhausted
  <2>5. QED
    BY <2>3, <2>4 DEF RepeatInv
<1>4. CASE same # {}
  <2>1. PICK i \in same : RemoveTimer(currentTarget, i)
    BY <1>4 DEF Cancel
  <2>2. i \in DOMAIN timers[currentTarget]
        /\ timer[timers[currentTarget][i]].key = timer[currentTimer].key
    BY DEF WithKey
  <2>3. timer' = Freed(refs') /\ UNCHANGED <<currentTimer, currentTarget>>
    BY <2>1 DEF RemoveTimer, DropTimers
  <2>4. \A u \in Targets : Range(timers'[u]) \subseteq
                             Range(timers[u]) \ {timers[currentTarget][i]}
    BY <1>1, <2>1, <2>2, RemoveTimerRange DEF IInv
  <2>5. currentTimer \notin Listed'
    <3>1. CASE currentTimer \in Listed
      <4>1. PICK k \in same : timers[currentTarget][k] = currentTimer
        BY <1>2, <3>1
      <4>2. k \in DOMAIN timers[currentTarget]
        BY DEF WithKey
      <4>3. /\ timers[currentTarget][i] \in Range(timers[currentTarget])
            /\ currentTimer \in Range(timers[currentTarget])
        BY <2>2, <4>1, <4>2 DEF Range
      <4>4. timers[currentTarget][i] = currentTimer
        BY <1>1, <2>2, <4>3 DEF IInv, TimerInv
      <4>5. QED
        BY <2>4, <4>4 DEF Listed
    <3>2. CASE currentTimer \notin Listed
      BY <2>4, <3>2 DEF Listed
    <3>3. QED
      BY <3>1, <3>2
  <2>6. ASSUME NEW x \in Timers
        PROVE  Going(timer'[x]) \/ Exhausted(x)'
    <3>1. CASE timer'[x] = Unused
      BY <3>1, GoingUnused
    <3>2. CASE timer'[x] = timer[x]
      BY <1>1, <2>3, <2>5, <3>2 DEF RepeatInv, Exhausted
    <3>3. QED
      BY <2>3, <3>1, <3>2 DEF Freed
  <2>7. QED
    BY <2>3, <2>5, <2>6 DEF RepeatInv
<1>5. QED
  BY <1>3, <1>4

(* Its last reference goes with the walk's.                                *)
LEMMA RepeatNextTimer ==
  ASSUME IInv, RepeatInv, NextTimer
  PROVE  RepeatInv'
<1>1. /\ pc = "next" /\ currentTimer' = None /\ UNCHANGED timers
      /\ refs' = IF timerSalvaged THEN [refs EXCEPT ![currentTimer] = @ - 1] ELSE refs
      /\ timer' = Freed(refs')
  BY DEF NextTimer
<1>2. None \notin Listed'
  <2>1. None \notin Timers
    BY SchedulerAssumption
  <2>2. \A u \in Targets : \A x \in Range(timers[u]) : x \in Timers
    BY RangeSeq DEF IInv, ListInv
  <2>3. QED
    BY <1>1, <2>1, <2>2 DEF Listed
<1>3. ASSUME NEW x \in Timers
      PROVE  Going(timer'[x])
  <2>1. CASE timer'[x] = Unused
    BY <2>1, GoingUnused
  <2>2. CASE timer'[x] = timer[x] /\ ~Exhausted(x)
    BY <2>2 DEF RepeatInv
  <2>3. CASE Exhausted(x)
    <3>1. x = currentTimer /\ x \notin Listed /\ refs[x] = 1
      BY <1>1, <2>3, SchedulerAssumption DEF Exhausted, IInv, ListInv, RefsExact
    <3>2. timerSalvaged
      BY <3>1 DEF IInv, ListInv, RefsExact
    <3>3. refs'[x] = 0
      BY <1>1, <3>1, <3>2 DEF IInv, ListInv
    <3>4. timer'[x] = Unused
      BY <1>1, <3>3 DEF Freed
    <3>5. QED
      BY <3>4, GoingUnused
  <2>4. QED
    BY <1>1, <2>1, <2>2, <2>3 DEF Freed
<1>4. QED
  BY <1>1, <1>2, <1>3 DEF RepeatInv

LEMMA RepeatNext ==
  ASSUME IInv, IInv', RepeatInv, [Next]_vars
  PROVE  RepeatInv'
<1>1. CASE Call
  BY <1>1, RepeatCall
<1>2. CASE Update \/ LeaveTarget
  <2>1. /\ pc \in {"idle", "leave"} /\ UNCHANGED <<timers, timer, currentTimer>>
        /\ currentTimer = None
    BY <1>2 DEF Update, LeaveTarget, Enter, IInv, WalkInv
  <2>2. None \notin Listed
    BY RangeSeq, SchedulerAssumption DEF IInv, ListInv, Listed
  <2>3. currentTimer' \notin Listed'
    BY <2>1, <2>2 DEF Listed
  <2>4. QED
    BY <2>1, <2>3, RepeatSame
<1>3. CASE EndTimers \/ Loop
  <2>1. pc \in {"timer", "loop"} /\ UNCHANGED <<timers, timer, currentTarget, currentTimer>>
    BY <1>3 DEF EndTimers, Loop, lists, walk
  <2>2. currentTimer' \in Listed' => currentTimer' \in Range(timers'[currentTarget'])
    BY <2>1, CurrentStays
  <2>3. QED
    BY <2>1, <2>2, RepeatSame
<1>4. CASE StartClock
  <2>1. PICK x \in Timers : Tick(x, [timer[x] EXCEPT !.elapsed = 0, !.executed = 0])
    BY <1>4 DEF StartClock
  <2>2. Going([timer[x] EXCEPT !.elapsed = 0, !.executed = 0])
    BY TimerFields DEF Going, TimerRecord
  <2>3. QED
    BY <2>1, <2>2, RepeatTick
<1>5. CASE Advance
  <2>1. PICK x \in Timers : Tick(x, [timer[x] EXCEPT !.elapsed = @ + dt])
    BY <1>5 DEF Advance
  <2> DEFINE f == [timer[x] EXCEPT !.elapsed = @ + dt]
  <2>2. f.repeat = timer[x].repeat /\ f.executed = timer[x].executed
    BY TimerFields DEF TimerRecord
  <2> HIDE DEF f
  <2>3. Tick(x, f)
    BY <2>1 DEF f
  <2>4. QED
    BY <2>2, <2>3, RepeatTick
<1>6. CASE ReturnDelayed
  <2> DEFINE old == timer[currentTimer]
             f == [old EXCEPT !.elapsed = @ - old.delay, !.executed = Executed(old),
                              !.useDelay = FALSE]
  <2>1. /\ pc = "callback" /\ timer' = [timer EXCEPT ![currentTimer] = f]
        /\ Finished(f) => pc' = "cancel"
        /\ UNCHANGED <<timers, currentTarget, currentTimer>>
    BY <1>6 DEF ReturnDelayed, lists, walk
  <2>2. currentTimer \in Timers
    BY <2>1 DEF IInv, ListInv, WalkInv
  <2>3. f.repeat = old.repeat /\ f.executed = Executed(old)
    BY <2>2, TimerFields DEF TimerRecord
  <2> HIDE DEF f
  <2>4. QED
    BY <2>1, <2>3, RepeatReturn
<1>7. CASE Return
  <2> DEFINE old == timer[currentTimer]
             f == [old EXCEPT !.elapsed = @ - interval, !.executed = Executed(old)]
  <2>1. /\ pc = "callback" /\ timer' = [timer EXCEPT ![currentTimer] = f]
        /\ Finished(f) => pc' = "cancel"
        /\ UNCHANGED <<timers, currentTarget, currentTimer>>
    BY <1>7 DEF Return, lists, walk
  <2>2. currentTimer \in Timers
    BY <2>1 DEF IInv, ListInv, WalkInv
  <2>3. f.repeat = old.repeat /\ f.executed = Executed(old)
    BY <2>2, TimerFields DEF TimerRecord
  <2> HIDE DEF f
  <2>4. QED
    BY <2>1, <2>3, RepeatReturn
<1>8. CASE Cancel
  BY <1>8, RepeatCancel
<1>9. CASE NextTimer
  BY <1>9, RepeatNextTimer
<1>10. CASE UNCHANGED vars
  <2>1. UNCHANGED <<timers, timer, pc, currentTarget, currentTimer>>
    BY <1>10 DEF vars, lists, walk
  <2>2. QED
    BY <2>1 DEF RepeatInv, Exhausted, Listed
<1>11. QED
  BY <1>1, <1>2, <1>3, <1>4, <1>5, <1>6, <1>7, <1>8, <1>9, <1>10
     DEF Next, UpdateStep

LEMMA RepeatInit ==
  ASSUME Init
  PROVE  RepeatInv
<1>1. currentTimer \notin Listed
  <2>1. \A t \in Targets : timers[t] = <<>>
    BY DEF Init
  <2>2. QED
    BY <2>1 DEF Listed, Range
<1>2. \A x \in Timers : timer[x] = Unused
  BY DEF Init
<1>3. QED
  BY <1>1, <1>2, GoingUnused DEF RepeatInv

(* A timer with a finite number of repetitions is triggered repeat + 1     *)
(* times at most and then leaves its list, whether the executions end in   *)
(* the delay or in the loop over intervals, and whatever its callbacks     *)
(* unschedule and schedule under its key meanwhile (Timer::update).        *)
THEOREM TriggeredAsOften == Spec => []RepeatsBounded
<1>1. ASSUME IInv, RepeatInv PROVE RepeatsBounded
  <2>1. SUFFICES ASSUME NEW x \in Timers, timer[x].repeat # Forever
                 PROVE  /\ timer[x].executed <= timer[x].repeat + 1
                        /\ x \in Listed /\ timer[x].executed = timer[x].repeat + 1 =>
                             x = currentTimer /\ pc = "cancel"
    BY DEF RepeatsBounded
  <2>2. timer[x].repeat \in Nat /\ timer[x].executed \in Nat
    BY <1>1, <2>1, TimerFields
  <2>3. QED
    BY <1>1, <2>1, <2>2 DEF RepeatInv, Going, Exhausted
<1>2. Init => RepeatInv
  BY RepeatInit
<1>3. IInv /\ IInv' /\ RepeatInv /\ [Next]_vars => RepeatInv'
  BY RepeatNext
<1>4. QED
  BY <1>1, <1>2, <1>3, Invariance, PTL DEF Spec

------------------------------------------------------------------------------
(* The functions of other threads (CocosThreadQueue).                      *)

AllFunctions == ran \o batch \o functions

(* The functions of a thread stand in the order it handed them over.       *)
InOrder(s) ==
  \A i, j \in DOMAIN s : i < j /\ s[i][1] = s[j][1] => s[i][2] < s[j][2]

HandedOver == {f \in Functions : f[2] <= posted[f[1]]}

Placed(s, r) ==
  /\ Range(s) \cup r = HandedOver
  /\ Range(s) \cap r = {}

(* A batch is there only while it runs, and whoever is handing over a      *)
(* function may.                                                           *)
PerformCallInv ==
  /\ stage # "running" => batch = <<>>
  /\ \A p \in Threads : call[p] \in {"post", "posting"} => posted[p] < MaxPosts

PerformInv == PerformTypeOK /\ PerformCallInv /\ InOrder(AllFunctions) /\ Placed(AllFunctions, removed)

------------------------------------------------------------------------------
LEMMA AllType ==
  ASSUME PerformTypeOK
  PROVE  /\ ran \o batch \in Seq(Functions) /\ AllFunctions \in Seq(Functions)
<1>1. ran \in Seq(Functions) /\ batch \in Seq(Functions) /\ functions \in Seq(Functions)
  BY DEF PerformTypeOK
<1>2. ran \o batch \in Seq(Functions)
  BY <1>1, ConcatProperties
<1>3. QED
  BY <1>1, <1>2, ConcatProperties DEF AllFunctions

(* The range of a concatenation, and of a sequence with one more.          *)
LEMMA RangeConcat ==
  ASSUME NEW S, NEW s \in Seq(S), NEW r \in Seq(S)
  PROVE  Range(s \o r) = Range(s) \cup Range(r)
<1> DEFINE n == Len(s)
           m == Len(r)
           q == s \o r
<1>1. n \in Nat /\ m \in Nat /\ DOMAIN s = 1..n /\ DOMAIN r = 1..m
  BY LenProperties
<1>2. /\ q \in Seq(S) /\ Len(q) = n + m
      /\ \A i \in 1..(n + m) : q[i] = IF i <= n THEN s[i] ELSE r[i - n]
  BY ConcatProperties
<1>3. DOMAIN q = 1..(n + m)
  BY <1>2, LenProperties
<1>4. Range(q) = {q[i] : i \in 1..(n + m)}
  BY <1>3 DEF Range
<1>5. Range(s) = {s[i] : i \in 1..n} /\ Range(r) = {r[i] : i \in 1..m}
  BY <1>1 DEF Range
<1>6. \A i \in 1..(n + m) : q[i] = IF i <= n THEN s[i] ELSE r[i - n]
  BY <1>2
<1> HIDE DEF n, m, q
<1>7. \A i \in 1..n : i \in 1..(n + m) /\ q[i] = s[i]
  BY <1>1, <1>6
<1>8. \A i \in 1..m : i + n \in 1..(n + m) /\ q[i + n] = r[i]
  BY <1>1, <1>6
<1>9. \A i \in 1..(n + m) : i \in 1..n \/ (i - n \in 1..m /\ q[i] = r[i - n])
  BY <1>1, <1>6
<1>10. Range(q) = Range(s) \cup Range(r)
  BY <1>4, <1>5, <1>7, <1>8, <1>9
<1>11. QED
  BY <1>10 DEF q

(* The first part of a sequence in order is in order, and shares nothing   *)
(* with the rest.                                                          *)
LEMMA OrderedPrefix ==
  ASSUME NEW s \in Seq(Functions), NEW r \in Seq(Functions), InOrder(s \o r)
  PROVE  InOrder(s) /\ Range(s) \cap Range(r) = {}
<1> DEFINE n == Len(s)
           m == Len(r)
           q == s \o r
<1>1. n \in Nat /\ m \in Nat /\ DOMAIN s = 1..n /\ DOMAIN r = 1..m
  BY LenProperties
<1>2. /\ q \in Seq(Functions) /\ Len(q) = n + m
      /\ \A i \in 1..(n + m) : q[i] = IF i <= n THEN s[i] ELSE r[i - n]
  BY ConcatProperties
<1>3. DOMAIN q = 1..(n + m)
  BY <1>2, LenProperties
<1>4. \A i \in 1..(n + m) : q[i] = IF i <= n THEN s[i] ELSE r[i - n]
  BY <1>2
<1>5. \A i, j \in 1..(n + m) : i < j /\ q[i][1] = q[j][1] => q[i][2] < q[j][2]
  BY <1>3 DEF InOrder
<1>6. Range(s) = {s[i] : i \in 1..n} /\ Range(r) = {r[i] : i \in 1..m}
  BY <1>1 DEF Range
<1>7. \A i \in 1..n : s[i] \in Functions
  BY <1>1, ElementOfSeq
<1> HIDE DEF n, m, q
<1>8. \A i \in 1..n : i \in 1..(n + m) /\ q[i] = s[i]
  BY <1>1, <1>4
<1>9. \A i \in 1..m : i + n \in 1..(n + m) /\ q[i + n] = r[i]
  BY <1>1, <1>4
<1>10. InOrder(s)
  BY <1>1, <1>5, <1>8 DEF InOrder
<1>11. ASSUME NEW i \in 1..n, NEW j \in 1..m, s[i] = r[j] PROVE FALSE
  <2>1. i < j + n
    BY <1>1
  <2>2. q[i][2] < q[j + n][2] /\ q[i] = q[j + n] /\ q[i] = s[i]
    BY <1>5, <1>8, <1>9, <1>11, <2>1
  <2>3. s[i][2] \in Int
    BY <1>7 DEF Functions
  <2>4. QED
    BY <2>2, <2>3
<1>12. QED
  BY <1>6, <1>10, <1>11

LEMMA OrderedAppend ==
  ASSUME NEW s \in Seq(Functions), NEW f \in Functions, InOrder(s),
         \A g \in Range(s) : g[1] = f[1] => g[2] < f[2]
  PROVE  InOrder(Append(s, f)) /\ Range(Append(s, f)) = Range(s) \cup {f}
<1> DEFINE n == Len(s)
           q == Append(s, f)
<1>1. n \in Nat /\ DOMAIN s = 1..n
  BY LenProperties
<1>2. /\ DOMAIN q = 1..(n + 1)
      /\ \A i \in 1..n : q[i] = s[i]
      /\ q[n + 1] = f
  BY AppendProperties, LenProperties
<1>3. \A i \in 1..n : s[i] \in Range(s)
  BY <1>1 DEF Range
<1>4. Range(q) = {q[i] : i \in 1..(n + 1)} /\ Range(s) = {s[i] : i \in 1..n}
  BY <1>1, <1>2 DEF Range
<1>5. \A i, j \in 1..n : i < j /\ s[i][1] = s[j][1] => s[i][2] < s[j][2]
  BY <1>1 DEF InOrder
<1> HIDE DEF n, q
<1>6. 1..(n + 1) = 1..n \cup {n + 1}
  BY <1>1
<1>7. Range(q) = Range(s) \cup {f}
  BY <1>2, <1>4, <1>6
<1>8. ASSUME NEW i \in 1..(n + 1), NEW j \in 1..(n + 1), i < j, q[i][1] = q[j][1]
      PROVE  q[i][2] < q[j][2]
  <2>1. i \in 1..n
    BY <1>1, <1>8
  <2>2. CASE j \in 1..n
    BY <1>2, <1>5, <1>8, <2>1, <2>2
  <2>3. CASE j = n + 1
    BY <1>2, <1>3, <1>8, <2>1, <2>3
  <2>4. QED
    BY <1>6, <2>2, <2>3
<1>9. InOrder(q)
  BY <1>2, <1>8 DEF InOrder
<1>10. QED
  BY <1>7, <1>9 DEF q

------------------------------------------------------------------------------
LEMMA PerformInitInv == PerformInit => PerformInv
<1> SUFFICES ASSUME PerformInit PROVE PerformInv
  OBVIOUS
<1>1. PerformTypeOK
  <2>1. <<>> \in Seq(Functions)
    BY EmptySeq
  <2>2. \A p \in Threads : mutex = p <=> call[p] \in {"posting", "clearing"}
    BY ThreadsAssumption DEF PerformInit
  <2>3. posted \in [Threads -> 0 .. MaxPosts] /\ clears \in 0 .. MaxClears
    BY ThreadsAssumption DEF PerformInit
  <2>4. QED
    BY <2>1, <2>2, <2>3 DEF PerformInit, PerformTypeOK
<1>2. PerformCallInv
  <2>1. \A p \in Threads : call[p] = "none"
    BY DEF PerformInit
  <2>2. QED
    BY <2>1 DEF PerformInit, PerformCallInv
<1>3. AllFunctions = <<>>
  BY DEF PerformInit, AllFunctions
<1>4. DOMAIN AllFunctions = {} /\ Range(AllFunctions) = {}
  BY <1>3 DEF Range
<1>5. InOrder(AllFunctions)
  BY <1>4 DEF InOrder
<1>6. HandedOver = {}
  <2>1. \A f \in Functions : posted[f[1]] = 0 /\ f[2] \in Nat \ {0}
    BY ThreadsAssumption DEF PerformInit, Functions
  <2>2. QED
    BY <2>1 DEF HandedOver
<1>7. QED
  BY <1>1, <1>2, <1>4, <1>5, <1>6 DEF PerformInit, PerformInv, Placed

(* The steps that leave the functions where they are.                      *)
LEMMA QuietInv ==
  ASSUME PerformInv, AllFunctions' = AllFunctions, UNCHANGED <<posted, removed>>, PerformTypeOK', PerformCallInv'
  PROVE  PerformInv'
<1>1. HandedOver' = HandedOver
  BY DEF HandedOver
<1>2. InOrder(AllFunctions)' /\ Placed(AllFunctions, removed)'
  BY <1>1 DEF PerformInv, InOrder, Placed
<1>3. QED
  BY <1>2 DEF PerformInv

LEMMA CallsInv ==
  ASSUME PerformInv, NEW p \in Threads,
         PerformFunctionInCocosThread(p) \/ RemoveAllFunctions(p) \/ Lock(p)
  PROVE  PerformInv'
<1>1. AllFunctions' = AllFunctions /\ UNCHANGED <<posted, removed>>
  BY DEF AllFunctions, PerformFunctionInCocosThread, RemoveAllFunctions, Lock
<1>2. PerformTypeOK'
  <2>1. CASE PerformFunctionInCocosThread(p)
    BY <2>1, ThreadsAssumption DEF PerformInv, PerformTypeOK, PerformFunctionInCocosThread, MayCall
  <2>2. CASE RemoveAllFunctions(p)
    BY <2>2, ThreadsAssumption DEF PerformInv, PerformTypeOK, RemoveAllFunctions, MayCall
  <2>3. CASE Lock(p)
    BY <2>3, ThreadsAssumption DEF PerformInv, PerformTypeOK, Lock
  <2>4. QED
    BY <2>1, <2>2, <2>3
<1>3. PerformCallInv'
  BY DEF PerformInv, PerformTypeOK, PerformCallInv, PerformFunctionInCocosThread, RemoveAllFunctions,
     Lock, MayCall
<1>4. QED
  BY <1>1, <1>2, <1>3, QuietInv

LEMMA PushBackInv == ASSUME PerformInv, NEW p \in Threads, PushBack(p) PROVE PerformInv'
<1> DEFINE f == <<p, posted[p] + 1>>
<1>1. f \in Functions /\ posted[p] \in Nat
  BY ThreadsAssumption DEF PerformInv, PerformTypeOK, PerformCallInv, PushBack, Functions
<1>2. PerformTypeOK'
  <2>1. functions' \in Seq(Functions)
    BY <1>1, AppendProperties DEF PerformInv, PerformTypeOK, PushBack
  <2>2. posted' \in [Threads -> 0 .. MaxPosts]
    BY <1>1, ThreadsAssumption DEF PerformInv, PerformTypeOK, PushBack, Functions
  <2>3. \A q \in Threads : mutex' = q <=> call'[q] \in {"posting", "clearing"}
    BY ThreadsAssumption DEF PerformInv, PerformTypeOK, PushBack, Unlock
  <2>4. QED
    BY <2>1, <2>2, <2>3 DEF PerformInv, PerformTypeOK, PushBack, Unlock
<1>3. PerformCallInv'
  BY DEF PerformInv, PerformTypeOK, PerformCallInv, PushBack, Unlock
<1>4. AllFunctions' = Append(AllFunctions, f)
  <2>1. ran \o batch \in Seq(Functions) /\ functions \in Seq(Functions)
    BY AllType DEF PerformInv, PerformTypeOK
  <2>2. (ran \o batch) \o Append(functions, f) = Append((ran \o batch) \o functions, f)
    <3>1. <<f>> \in Seq(Functions)
      BY <1>1
    <3>2. ((ran \o batch) \o functions) \o <<f>> = (ran \o batch) \o (functions \o <<f>>)
      BY <2>1, <3>1, ConcatAssociative
    <3>3. (ran \o batch) \o functions \in Seq(Functions)
      BY <2>1, ConcatProperties
    <3>4. QED
      BY <1>1, <2>1, <3>2, <3>3, AppendIsConcat
  <2>3. QED
    BY <2>2 DEF AllFunctions, PushBack, Unlock
<1>5. \A g \in Range(AllFunctions) : g[1] = f[1] => g[2] < f[2]
  <2>1. Range(AllFunctions) \subseteq HandedOver
    BY DEF PerformInv, Placed
  <2>2. \A g \in HandedOver : g[1] = p => g[2] <= posted[p] /\ g[2] \in Int
    BY DEF HandedOver, Functions
  <2>3. QED
    BY <1>1, <2>1, <2>2
<1>6. InOrder(AllFunctions') /\ Range(AllFunctions') = Range(AllFunctions) \cup {f}
  BY <1>1, <1>4, <1>5, AllType, OrderedAppend DEF PerformInv
<1>7. HandedOver' = HandedOver \cup {f} /\ f \notin HandedOver
  <2>1. posted' = [posted EXCEPT ![p] = @ + 1] /\ posted \in [Threads -> 0 .. MaxPosts]
    BY DEF PerformInv, PerformTypeOK, PushBack
  <2>2. f \notin HandedOver
    BY <1>1 DEF HandedOver
  <2>3. ASSUME NEW g \in Functions
        PROVE  g[2] <= posted'[g[1]] <=> g[2] <= posted[g[1]] \/ g = f
    <3>1. PICK q \in Threads, n \in 1 .. MaxPosts : g = <<q, n>>
      BY DEF Functions
    <3>2. CASE q = p
      BY <1>1, <2>1, <3>1, <3>2, ThreadsAssumption
    <3>3. CASE q # p
      BY <2>1, <3>1, <3>3
    <3>4. QED
      BY <3>2, <3>3
  <2>4. QED
    BY <1>1, <2>2, <2>3 DEF HandedOver
<1>8. removed' = removed /\ removed \subseteq HandedOver
  BY DEF PerformInv, Placed, PushBack
<1>9. Placed(AllFunctions, removed)'
  BY <1>6, <1>7, <1>8 DEF PerformInv, Placed
<1>10. QED
  BY <1>2, <1>3, <1>6, <1>9 DEF PerformInv

LEMMA ClearInv == ASSUME PerformInv, NEW p \in Threads, Clear(p) PROVE PerformInv'
<1>1. /\ ran \o batch \in Seq(Functions) /\ functions \in Seq(Functions)
      /\ AllFunctions = (ran \o batch) \o functions
  BY AllType DEF PerformInv, PerformTypeOK, AllFunctions
<1>2. AllFunctions' = ran \o batch
  <2>1. AllFunctions' = (ran \o batch) \o <<>>
    BY DEF AllFunctions, Clear, Unlock
  <2>2. QED
    BY <1>1, <2>1, ConcatEmptySeq
<1>3. InOrder(AllFunctions') /\ Range(AllFunctions') \cap Range(functions) = {}
  BY <1>1, <1>2, OrderedPrefix DEF PerformInv
<1>4. Range(AllFunctions) = Range(AllFunctions') \cup Range(functions)
  BY <1>1, <1>2, RangeConcat
<1>5. removed' = removed \cup Range(functions) /\ HandedOver' = HandedOver
  BY DEF Clear, HandedOver
<1>6. Placed(AllFunctions, removed)'
  BY <1>3, <1>4, <1>5 DEF PerformInv, Placed
<1>7. PerformTypeOK'
  <2>1. functions' \in Seq(Functions)
    BY EmptySeq DEF Clear
  <2>2. removed' \subseteq Functions
    BY <1>4, <1>5 DEF PerformInv, Placed, HandedOver
  <2>3. \A q \in Threads : mutex' = q <=> call'[q] \in {"posting", "clearing"}
    BY ThreadsAssumption DEF PerformInv, PerformTypeOK, Clear, Unlock
  <2>4. QED
    BY <2>1, <2>2, <2>3 DEF PerformInv, PerformTypeOK, Clear, Unlock
<1>8. PerformCallInv'
  BY DEF PerformInv, PerformTypeOK, PerformCallInv, Clear, Unlock
<1>9. QED
  BY <1>3, <1>6, <1>7, <1>8 DEF PerformInv

LEMMA TakeBatchInv == ASSUME PerformInv, TakeBatch PROVE PerformInv'
<1>1. ran \in Seq(Functions) /\ functions \in Seq(Functions) /\ batch = <<>>
  BY DEF PerformInv, PerformTypeOK, PerformCallInv, TakeBatch
<1>2. AllFunctions = ran \o functions
  BY <1>1, ConcatEmptySeq DEF AllFunctions
<1>3. AllFunctions' = (ran \o functions) \o <<>>
  BY DEF AllFunctions, TakeBatch
<1>4. ran \o functions \in Seq(Functions)
  BY <1>1, ConcatProperties
<1>5. AllFunctions' = AllFunctions
  BY <1>2, <1>3, <1>4, ConcatEmptySeq
<1>6. PerformTypeOK'
  BY <1>1, EmptySeq DEF PerformInv, PerformTypeOK, TakeBatch
<1>7. PerformCallInv'
  BY DEF PerformInv, PerformCallInv, TakeBatch
<1>8. QED
  BY <1>5, <1>6, <1>7, QuietInv DEF TakeBatch

LEMMA RunFunctionInv == ASSUME PerformInv, RunFunction PROVE PerformInv'
<1>1. /\ ran \in Seq(Functions) /\ batch \in Seq(Functions)
      /\ functions \in Seq(Functions) /\ batch # <<>>
  BY DEF PerformInv, PerformTypeOK, RunFunction
<1> DEFINE f == Head(batch)
           r == Tail(batch)
<1>2. f \in Functions /\ r \in Seq(Functions) /\ <<f>> \in Seq(Functions)
  BY <1>1, HeadTailProperties
<1>3. batch = <<f>> \o r
  BY <1>1
<1>4. Append(ran, f) = ran \o <<f>>
  BY <1>1, <1>2, AppendIsConcat
<1>5. (ran \o <<f>>) \o r = ran \o (<<f>> \o r)
  BY <1>1, <1>2, ConcatAssociative
<1>6. ran' \o batch' = ran \o batch
  BY <1>3, <1>4, <1>5 DEF RunFunction
<1>7. AllFunctions' = AllFunctions
  BY <1>6 DEF AllFunctions, RunFunction
<1>8. ran' \in Seq(Functions) /\ batch' \in Seq(Functions)
  BY <1>1, <1>2, AppendProperties DEF RunFunction
<1>9. PerformTypeOK'
  BY <1>8 DEF PerformInv, PerformTypeOK, RunFunction
<1>10. PerformCallInv'
  BY DEF PerformInv, PerformCallInv, RunFunction
<1>11. QED
  BY <1>7, <1>9, <1>10, QuietInv DEF RunFunction

LEMMA EndOfUpdateInv == ASSUME PerformInv, TestEmpty \/ EndUpdate PROVE PerformInv'
<1>1. AllFunctions' = AllFunctions /\ UNCHANGED <<posted, removed>>
  BY DEF AllFunctions, TestEmpty, EndUpdate
<1>2. PerformTypeOK'
  BY DEF PerformInv, PerformTypeOK, TestEmpty, EndUpdate
<1>3. PerformCallInv'
  BY DEF PerformInv, PerformCallInv, TestEmpty, EndUpdate
<1>4. QED
  BY <1>1, <1>2, <1>3, QuietInv

LEMMA PerformNextInv == PerformInv /\ [PerformNext]_performVars => PerformInv'
<1> SUFFICES ASSUME PerformInv, [PerformNext]_performVars PROVE PerformInv'
  OBVIOUS
<1>1. ASSUME NEW p \in Threads,
             PerformFunctionInCocosThread(p) \/ RemoveAllFunctions(p) \/ Called(p)
      PROVE  PerformInv'
  BY <1>1, CallsInv, PushBackInv, ClearInv DEF Called
<1>2. CASE MainStep
  BY <1>2, EndOfUpdateInv, TakeBatchInv, RunFunctionInv DEF MainStep
<1>3. CASE UNCHANGED performVars
  BY <1>3, QuietInv DEF performVars, AllFunctions, PerformInv, PerformTypeOK, PerformCallInv
<1>4. QED
  BY <1>1, <1>2, <1>3 DEF PerformNext

------------------------------------------------------------------------------
THEOREM PerformInvariance == PerformSpec => []PerformInv
<1>1. PerformInit => PerformInv
  BY PerformInitInv
<1>2. PerformInv /\ [PerformNext]_performVars => PerformInv'
  BY PerformNextInv
<1>3. QED
  BY <1>1, <1>2, PTL DEF PerformSpec

(* The variables keep their types; above all, _performMutex is held by the *)
(* one thread that is inside a call, if there is one.                      *)
THEOREM PerformTypeCorrect == PerformSpec => []PerformTypeOK
<1>1. PerformInv => PerformTypeOK
  BY DEF PerformInv
<1>2. QED
  BY <1>1, PerformInvariance, PTL

(* However the calls of any number of threads meet the copying and the     *)
(* clearing of the vector at the end of update(): no function is lost, and *)
(* none runs twice, out of its thread's order or after it was removed.     *)
THEOREM EachHandedOverOnce == PerformSpec => []HandedOverOnce
<1>1. PerformInv => HandedOverOnce
  BY DEF PerformInv, HandedOverOnce, InOrder, Placed, AllFunctions, HandedOver
<1>2. QED
  BY <1>1, PerformInvariance, PTL
================================================================================
