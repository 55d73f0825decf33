------------------------- MODULE MessageMemory_proofs -------------------------
(***************************************************************************)
(* Theorems about MessageMemory, for any number of queues, chunks and      *)
(* messages and any size of a chunk and of the pool: the links lead the    *)
(* reader of a queue through what is written to it and to nothing else, no *)
(* chunk is given away as long as a reader has to leave it, every chunk is *)
(* in one place, and each queue delivers what SPSCQueue promises.          *)
(*                                                                         *)
(* They hold if one device thread reads all queues, and fail otherwise     *)
(* (ParallelFlush).                                                        *)
(***************************************************************************)
EXTENDS MessageMemory, FiniteSetTheorems, SequenceTheorems, NaturalsInduction,
        WellFoundedInduction, TLAPS

Places == Chunks \X Offsets
Memories == [Chunks -> [Offsets -> Slots]]
Writers == [chunk : Chunks, last : Addresses, offset : 0 .. ChunkSize, pending : Nat]

SlotAt(mem, a) == IF a[1] \in Chunks /\ a[2] \in Offsets THEN mem[a[1]][a[2]] ELSE Raw

------------------------------------------------------------------------------
(* The path of a queue: the addresses of the last message its reader has   *)
(* read and of those ahead.                                                *)
Path(q) == [i \in 0 .. Unread(q) |-> IF i = 0 THEN reader[q].last ELSE Walk(q, Unread(q))[i]]

(* p follows the links; in a chunk it goes forward, and it goes to another *)
(* where a switch message is, never to come back.  The first message may   *)
(* have been executed (live = FALSE).                                      *)
Chain(mem, live, n, p) ==
  /\ p \in [0 .. n -> Places]
  /\ \A i \in 1 .. n : p[i] = SlotAt(mem, p[i - 1]).next
  /\ \A i \in 0 .. n : i > 0 \/ live => SlotAt(mem, p[i]).kind \in MessageKinds
  /\ \A i \in 1 .. n : i > 1 \/ live =>
       (SlotAt(mem, p[i - 1]).kind = "switch" <=> p[i][1] # p[i - 1][1])
  /\ \A i, j \in 0 .. n : i < j /\ p[i][1] = p[j][1] =>
       p[i][2] < p[j][2] /\ p[i + 1][1] = p[i][1]

(* The writer goes on after its last message, at a.                        *)
WriterAt(mem, w, live, n, a) ==
  /\ w.last = a /\ w.chunk = a[1]
  /\ a[2] < w.offset /\ w.offset <= ChunkSize - 1
  /\ SlotAt(mem, a).next = <<w.chunk, w.offset>>
  /\ n > 0 \/ live => SlotAt(mem, a).kind # "switch"

------------------------------------------------------------------------------
Less == {ss \in Nat \X Nat : ss[1] < ss[2]}

LEMMA Least == ASSUME NEW T, T \subseteq Nat, T # {} PROVE \E n \in T : \A m \in T : n <= m
<1>1. IsWellFoundedOn(Less, Nat)
  BY NatLessThanWellFounded DEF Less, OpToRel
<1>2. PICK n \in T : \A m \in T : ~(<<m, n>> \in Less)
  BY <1>1, WFMin
<1>3. ASSUME NEW m \in T PROVE n <= m
  <2>1. ~(<<m, n>> \in Less) /\ m \in Nat /\ n \in Nat
    BY <1>2
  <2>2. <<m, n>> \in Less <=> m < n
    BY <2>1 DEF Less
  <2>3. QED
    BY <2>1, <2>2
<1>4. QED
  BY <1>3

(* p follows the links over n messages from the address a.                 *)
Linked(n, a, p) ==
  /\ p = [i \in 0 .. n |-> p[i]]
  /\ p[0] = a
  /\ \A i \in 1 .. n : p[i] = At(p[i - 1]).next

LEMMA SamePath ==
  ASSUME NEW n \in Nat, NEW a, NEW f, NEW g, Linked(n, a, f), Linked(n, a, g)
  PROVE  f = g
<1>1. /\ f = [i \in 0 .. n |-> f[i]] /\ g = [i \in 0 .. n |-> g[i]]
      /\ f[0] = g[0]
      /\ \A i \in 1 .. n : f[i] = At(f[i - 1]).next
      /\ \A i \in 1 .. n : g[i] = At(g[i - 1]).next
  BY DEF Linked
<1> DEFINE T == {i \in 0 .. n : f[i] # g[i]}
<1>2. CASE T = {}
  BY <1>1, <1>2
<1>3. CASE T # {}
  <2>0. T \subseteq Nat
    OBVIOUS
  <2>1. PICK k \in T : \A m \in T : k <= m
    <3> HIDE DEF T
    <3>1. QED
      BY <1>3, <2>0, Least
  <2>2. k \in 1 .. n /\ k - 1 \in 0 .. n /\ ~(k <= k - 1) /\ f[k] # g[k]
    BY <1>1, <2>1
  <2>3. f[k - 1] = g[k - 1]
    BY <2>1, <2>2
  <2>4. QED
    BY <1>1, <2>2, <2>3
<1>4. QED
  BY <1>2, <1>3

(* The links lead one way: what Walk finds, whatever else does.            *)
OnePath ==
  \A q \in Queues : Unread(q) \in Nat =>
    \A p : Linked(Unread(q), reader[q].last, p) => Path(q) = p

LEMMA PathUnique == OnePath
<1> SUFFICES ASSUME NEW q \in Queues, Unread(q) \in Nat, NEW p,
                    Linked(Unread(q), reader[q].last, p)
             PROVE  Path(q) = p
  BY DEF OnePath
<1>1. PICK n \in Nat, a \in {reader[q].last} : n = Unread(q) /\ a = reader[q].last
  OBVIOUS
<1>2. Linked(n, a, p)
  BY <1>1
<1> DEFINE F(path) == [i \in 0 .. n |-> IF i = 0 THEN a ELSE At(path[i - 1]).next]
           g == CHOOSE path : path = F(path)
<1>3. p = F(p)
  <2>1. p = [i \in 0 .. n |-> p[i]] /\ p[0] = a /\ \A i \in 1 .. n : p[i] = At(p[i - 1]).next
    BY <1>2 DEF Linked
  <2>2. ASSUME NEW i \in 0 .. n PROVE p[i] = IF i = 0 THEN a ELSE At(p[i - 1]).next
    <3>1. CASE i = 0
      BY <2>1, <3>1
    <3>2. CASE i \in 1 .. n
      BY <2>1, <3>2
    <3>3. QED
      BY <3>1, <3>2
  <2>3. QED
    BY <2>1, <2>2
<1>4. g = F(g)
  BY <1>3
<1>5. Linked(n, a, g)
  <2> HIDE DEF g
  <2>1. g = [i \in 0 .. n |-> IF i = 0 THEN a ELSE At(g[i - 1]).next]
    BY <1>4
  <2>2. \A i \in 0 .. n : g[i] = IF i = 0 THEN a ELSE At(g[i - 1]).next
    BY <2>1
  <2>3. QED
    BY <2>1, <2>2 DEF Linked
<1>6. Walk(q, n) = [i \in 1 .. n |-> g[i]]
  BY <1>1 DEF Walk
<1> HIDE DEF g
<1>7. g = p
  BY <1>2, <1>5, SamePath
<1>8. Path(q) = [i \in 0 .. n |-> IF i = 0 THEN a ELSE p[i]]
  BY <1>1, <1>6, <1>7 DEF Path
<1>9. QED
  BY <1>2, <1>8 DEF Linked

LEMMA PathUniqueNext == OnePath'
BY PathUnique, PTL

------------------------------------------------------------------------------
(* A slot is written, linked anew, or its message destroyed.               *)
LEMMA PutSlot ==
  ASSUME NEW mem \in Memories, NEW a \in Places, NEW slot \in Slots
  PROVE  /\ Put(mem, a, slot) \in Memories
         /\ \A b \in Places : SlotAt(Put(mem, a, slot), b) = IF b = a THEN slot ELSE SlotAt(mem, b)
<1>1. PICK c \in Chunks, o \in Offsets : a = <<c, o>>
  BY DEF Places
<1>2. PICK new : new = Put(mem, a, slot)
  OBVIOUS
<1>3. new = [mem EXCEPT ![c] = [mem[c] EXCEPT ![o] = slot]]
  BY <1>1, <1>2 DEF Put, Memories
<1>4. mem[c] \in [Offsets -> Slots] /\ [mem[c] EXCEPT ![o] = slot] \in [Offsets -> Slots]
  BY <1>1 DEF Memories
<1>5. new \in Memories
  BY <1>3, <1>4 DEF Memories
<1>6. ASSUME NEW d \in Chunks, NEW k \in Offsets
      PROVE  new[d][k] = IF d = c /\ k = o THEN slot ELSE mem[d][k]
  BY <1>1, <1>3, <1>4 DEF Memories
<1>7. ASSUME NEW b \in Places PROVE SlotAt(new, b) = IF b = a THEN slot ELSE SlotAt(mem, b)
  <2>1. PICK d \in Chunks, k \in Offsets : b = <<d, k>>
    BY DEF Places
  <2>2. SlotAt(new, b) = new[d][k] /\ SlotAt(mem, b) = mem[d][k]
    BY <2>1 DEF SlotAt
  <2>3. b = a <=> d = c /\ k = o
    BY <1>1, <2>1
  <2>4. QED
    BY <1>6, <2>2, <2>3
<1>8. QED
  BY <1>2, <1>5, <1>7

LEMMA SlotType ==
  ASSUME NEW mem \in Memories, NEW a \in Places
  PROVE  SlotAt(mem, a) \in Slots /\ SlotAt(mem, a) = mem[a[1]][a[2]]
BY DEF Memories, Places, SlotAt

LEMMA LinkSlot ==
  ASSUME NEW mem \in Memories, NEW a \in Places, NEW e \in Addresses \cup {Nowhere}, NEW new,
         new = [mem EXCEPT ![a[1]][a[2]].next = e]
  PROVE  /\ new \in Memories
         /\ SlotAt(new, a).next = e /\ SlotAt(new, a).kind = SlotAt(mem, a).kind
         /\ \A b \in Places : b # a => SlotAt(new, b) = SlotAt(mem, b)
<1> DEFINE slot == [mem[a[1]][a[2]] EXCEPT !.next = e]
<1>1. mem[a[1]][a[2]] \in Slots /\ SlotAt(mem, a) = mem[a[1]][a[2]]
  BY SlotType
<1>2. slot \in Slots /\ slot.next = e /\ slot.kind = mem[a[1]][a[2]].kind
  BY <1>1 DEF Slots
<1>3. new = Put(mem, a, slot)
  BY DEF Put, Memories, Places
<1> HIDE DEF slot
<1>4. /\ Put(mem, a, slot) \in Memories
      /\ \A b \in Places : SlotAt(Put(mem, a, slot), b) = IF b = a THEN slot ELSE SlotAt(mem, b)
  BY <1>2, PutSlot
<1>5. QED
  BY <1>1, <1>2, <1>3, <1>4

Mark(mem, a) == [mem EXCEPT ![a[1]][a[2]].kind = "dead"]

LEMMA MarkSlot ==
  ASSUME NEW mem \in Memories, NEW a \in Places
  PROVE  /\ Mark(mem, a) \in Memories
         /\ SlotAt(Mark(mem, a), a).next = SlotAt(mem, a).next
         /\ \A b \in Places : b # a => SlotAt(Mark(mem, a), b) = SlotAt(mem, b)
<1> DEFINE slot == [mem[a[1]][a[2]] EXCEPT !.kind = "dead"]
<1>0. PICK new : new = Mark(mem, a)
  OBVIOUS
<1>1. mem[a[1]][a[2]] \in Slots /\ SlotAt(mem, a) = mem[a[1]][a[2]]
  BY SlotType
<1>2. slot \in Slots /\ slot.next = mem[a[1]][a[2]].next
  BY <1>1 DEF Slots
<1>3. new = Put(mem, a, slot)
  BY <1>0 DEF Mark, Put, Memories, Places
<1> HIDE DEF slot
<1>4. /\ Put(mem, a, slot) \in Memories
      /\ \A b \in Places : SlotAt(Put(mem, a, slot), b) = IF b = a THEN slot ELSE SlotAt(mem, b)
  BY <1>2, PutSlot
<1>5. QED
  BY <1>0, <1>1, <1>2, <1>3, <1>4

------------------------------------------------------------------------------
(* A path is the same in a memory that has the same in its places.         *)
LEMMA ChainFrame ==
  ASSUME NEW mem, NEW new, NEW live, NEW alive, NEW n \in Nat, NEW p,
         Chain(mem, live, n, p), alive => live,
         \A i \in 0 .. n : SlotAt(new, p[i]).next = SlotAt(mem, p[i]).next,
         \A i \in 0 .. n : i > 0 \/ alive => SlotAt(new, p[i]).kind = SlotAt(mem, p[i]).kind
  PROVE  Chain(new, alive, n, p)
<1>1. p \in [0 .. n -> Places]
  BY DEF Chain
<1>2. \A i \in 1 .. n : p[i] = SlotAt(new, p[i - 1]).next
  BY DEF Chain
<1>3. \A i \in 0 .. n : i > 0 \/ alive => SlotAt(new, p[i]).kind \in MessageKinds
  BY DEF Chain
<1>4. ASSUME NEW i \in 1 .. n, i > 1 \/ alive
      PROVE  SlotAt(new, p[i - 1]).kind = "switch" <=> p[i][1] # p[i - 1][1]
  BY <1>4 DEF Chain
<1>5. \A i, j \in 0 .. n : i < j /\ p[i][1] = p[j][1] => p[i][2] < p[j][2] /\ p[i + 1][1] = p[i][1]
  BY DEF Chain
<1>6. QED
  BY <1>1, <1>2, <1>3, <1>4, <1>5 DEF Chain

Longer(p, n, e) == [i \in 0 .. n + 1 |-> IF i = n + 1 THEN e ELSE p[i]]

LEMMA LongerProperties ==
  ASSUME NEW n \in Nat, NEW p
  PROVE  \A e : /\ Longer(p, n, e)[n + 1] = e
                /\ \A i \in 0 .. n : i \in 0 .. n + 1 /\ i # n + 1 /\ Longer(p, n, e)[i] = p[i]
BY DEF Longer

(* The place that the last message links to becomes part of the path.      *)
LEMMA ChainLonger ==
  ASSUME NEW mem, NEW new, NEW live, NEW n \in Nat, NEW p, NEW e \in Places,
         Chain(new, live, n, p), SlotAt(new, p[n]).next = e,
         SlotAt(new, e).kind \in MessageKinds,
         n > 0 \/ live => (SlotAt(new, p[n]).kind = "switch" <=> e[1] # p[n][1]),
         \/ e[1] = p[n][1] /\ p[n][2] < e[2]
         \/ \A i \in 0 .. n : p[i][1] # e[1]
  PROVE  Chain(new, live, n + 1, Longer(p, n, e))
<1> DEFINE q == Longer(p, n, e)
<1>1. /\ q[n + 1] = e /\ \A i \in 0 .. n : q[i] = p[i]
      /\ \A i \in 0 .. n + 1 : i \in 0 .. n \/ i = n + 1
      /\ \A i \in 1 .. n + 1 : i \in 1 .. n \/ i = n + 1
      /\ \A i \in 1 .. n + 1 : i - 1 \in 0 .. n
  BY LongerProperties
<1>2. q \in [0 .. n + 1 -> Places]
  BY DEF Longer, Chain
<1> HIDE DEF q
<1>3. \A i \in 1 .. n + 1 : q[i] = SlotAt(new, q[i - 1]).next
  BY <1>1 DEF Chain
<1>4. \A i \in 0 .. n + 1 : i > 0 \/ live => SlotAt(new, q[i]).kind \in MessageKinds
  BY <1>1 DEF Chain
<1>5. ASSUME NEW i \in 1 .. n + 1, i > 1 \/ live
      PROVE  SlotAt(new, q[i - 1]).kind = "switch" <=> q[i][1] # q[i - 1][1]
  <2>1. CASE i \in 1 .. n
    BY <1>1, <1>5, <2>1 DEF Chain
  <2>2. CASE i = n + 1
    <3>1. q[i] = e /\ q[i - 1] = p[n] /\ (n > 0 \/ live)
      BY <1>1, <1>5, <2>2
    <3>2. QED
      BY <3>1
  <2>3. QED
    BY <1>1, <2>1, <2>2
<1>6. ASSUME NEW i \in 0 .. n + 1, NEW j \in 0 .. n + 1, i < j, q[i][1] = q[j][1]
      PROVE  q[i][2] < q[j][2] /\ q[i + 1][1] = q[i][1]
  <2>1. i \in 0 .. n /\ q[i] = p[i]
    BY <1>1, <1>6
  <2>2. CASE j \in 0 .. n
    <3>1. i + 1 \in 0 .. n /\ q[j] = p[j] /\ q[i + 1] = p[i + 1]
      BY <1>1, <1>6, <2>1, <2>2
    <3>2. QED
      BY <1>6, <2>1, <2>2, <3>1 DEF Chain
  <2>3. CASE j = n + 1
    <3>1. q[j] = e /\ p[i][1] = e[1]
      BY <1>1, <1>6, <2>1, <2>3
    <3>2. e[1] = p[n][1] /\ p[n][2] < e[2]
      BY <2>1, <3>1
    <3>3. CASE i = n
      BY <1>1, <2>1, <2>3, <3>1, <3>2, <3>3
    <3>4. CASE i < n
      <4>1. n \in 0 .. n /\ i + 1 \in 0 .. n /\ q[i + 1] = p[i + 1]
        BY <1>1, <2>1, <3>4
      <4>2. p[i][2] < p[n][2] /\ p[i + 1][1] = p[i][1]
        BY <2>1, <3>1, <3>2, <3>4, <4>1 DEF Chain
      <4>3. p[i][2] \in Int /\ p[n][2] \in Int /\ e[2] \in Int
        BY <2>1, <4>1 DEF Chain, Places, Offsets
      <4>4. QED
        BY <2>1, <3>1, <3>2, <4>1, <4>2, <4>3
    <3>5. QED
      BY <2>1, <3>3, <3>4
  <2>4. QED
    BY <1>1, <2>2, <2>3
<1>7. QED
  BY <1>2, <1>3, <1>4, <1>5, <1>6 DEF Chain, q

Shorter(p, n) == [i \in 0 .. n - 1 |-> p[i + 1]]

(* The reader goes on to the next message.                                 *)
LEMMA ChainShorter ==
  ASSUME NEW mem, NEW live, NEW n \in Nat, n > 0, NEW p, Chain(mem, live, n, p)
  PROVE  Chain(mem, TRUE, n - 1, Shorter(p, n))
<1> DEFINE q == Shorter(p, n)
<1>1. /\ \A i \in 0 .. n - 1 : i + 1 \in 0 .. n /\ i + 1 > 0 /\ q[i] = p[i + 1]
      /\ \A i \in 1 .. n - 1 : /\ i \in 0 .. n - 1 /\ i - 1 \in 0 .. n - 1 /\ i + 1 \in 1 .. n
                               /\ i + 1 > 1 /\ (i - 1) + 1 = i /\ (i + 1) - 1 = i
  BY DEF Shorter
<1>2. q \in [0 .. n - 1 -> Places]
  BY <1>1 DEF Shorter, Chain
<1> HIDE DEF q
<1>3. ASSUME NEW i \in 1 .. n - 1
      PROVE  /\ q[i] = SlotAt(mem, q[i - 1]).next
             /\ SlotAt(mem, q[i - 1]).kind = "switch" <=> q[i][1] # q[i - 1][1]
  <2>1. q[i] = p[i + 1] /\ q[i - 1] = p[i]
    BY <1>1
  <2>2. /\ p[i + 1] = SlotAt(mem, p[i]).next
        /\ SlotAt(mem, p[i]).kind = "switch" <=> p[i + 1][1] # p[i][1]
    <3>1. PICK k \in 1 .. n : k = i + 1 /\ k - 1 = i /\ k > 1
      BY <1>1
    <3>2. QED
      BY <3>1 DEF Chain
  <2>3. QED
    BY <2>1, <2>2
<1>4. \A i \in 0 .. n - 1 : SlotAt(mem, q[i]).kind \in MessageKinds
  BY <1>1 DEF Chain
<1>5. ASSUME NEW i \in 0 .. n - 1, NEW j \in 0 .. n - 1, i < j, q[i][1] = q[j][1]
      PROVE  q[i][2] < q[j][2] /\ q[i + 1][1] = q[i][1]
  <2>1. PICK k \in 0 .. n, l \in 0 .. n : k = i + 1 /\ l = j + 1 /\ k < l
    BY <1>1, <1>5
  <2>2. q[i] = p[k] /\ q[j] = p[l] /\ i + 1 \in 0 .. n - 1 /\ q[i + 1] = p[k + 1]
    BY <1>1, <1>5, <2>1
  <2>3. p[k][2] < p[l][2] /\ p[k + 1][1] = p[k][1]
    BY <1>5, <2>1, <2>2 DEF Chain
  <2>4. QED
    BY <2>2, <2>3
<1>6. QED
  BY <1>2, <1>3, <1>4, <1>5 DEF Chain, q

------------------------------------------------------------------------------
(* What allocation does to the layout of a queue.                          *)

(* The layout K with the path p of n messages.                             *)
Sound(K, live, n, p) ==
  /\ K.memory \in Memories /\ K.writer \in Writers
  /\ Chain(K.memory, live, n, p)
  /\ WriterAt(K.memory, K.writer, live, n, p[n])

ChunksIn(n, p) == {p[i][1] : i \in 0 .. n}

(* K has become L, and the path r goes on from p.                          *)
Grown(K, L, live, n, p, m, r) ==
  /\ Sound(L, live, m, r)
  /\ m \in Nat /\ m >= n /\ L.writer.pending = K.writer.pending + (m - n)
  /\ \A i \in 0 .. n : r[i] = p[i] /\ SlotAt(L.memory, p[i]).kind = SlotAt(K.memory, p[i]).kind
  /\ \A a \in Places : a[1] # K.writer.chunk /\ a[1] # L.writer.chunk =>
       SlotAt(L.memory, a) = SlotAt(K.memory, a)
  /\ ChunksIn(m, r) = ChunksIn(n, p) \cup {L.writer.chunk}
  /\ n = 0 /\ m > 0 => r[1][1] = r[0][1]

LEMMA WriterChunk ==
  ASSUME NEW K, NEW live, NEW n \in Nat, NEW p, Sound(K, live, n, p)
  PROVE  /\ K.writer.chunk \in ChunksIn(n, p) /\ K.writer.last \in Places
         /\ \A i \in 0 .. n : p[i][1] = K.writer.chunk => p[i][2] < K.writer.offset
         /\ K.writer.chunk \in Chunks /\ K.writer.offset \in Nat /\ K.writer.pending \in Nat
<1>1. n \in 0 .. n /\ p[n] \in Places /\ K.writer.last = p[n] /\ K.writer.chunk = p[n][1]
      /\ p[n][2] < K.writer.offset
  BY DEF Sound, Chain, WriterAt
<1>2. K.writer.chunk \in Chunks /\ K.writer.offset \in Nat /\ K.writer.pending \in Nat
  BY MemoryAssumption DEF Sound, Writers
<1>3. ASSUME NEW i \in 0 .. n, p[i][1] = K.writer.chunk PROVE p[i][2] < K.writer.offset
  <2>1. i = n \/ i < n
    OBVIOUS
  <2>2. i < n => p[i][2] < p[n][2]
    BY <1>1, <1>3 DEF Sound, Chain
  <2>3. p[i][2] \in Int /\ p[n][2] \in Int
    BY <1>1 DEF Sound, Chain, Places, Offsets
  <2>4. QED
    BY <1>1, <1>2, <2>1, <2>2, <2>3
<1>4. QED
  BY <1>1, <1>2, <1>3 DEF ChunksIn

LEMMA ChunksLonger ==
  ASSUME NEW n \in Nat, NEW p, NEW e
  PROVE  ChunksIn(n + 1, Longer(p, n, e)) = ChunksIn(n, p) \cup {e[1]}
<1>1. /\ Longer(p, n, e)[n + 1] = e
      /\ \A i \in 0 .. n : Longer(p, n, e)[i] = p[i]
      /\ \A i \in 0 .. n + 1 : i \in 0 .. n \/ i = n + 1
      /\ \A i \in 0 .. n : i \in 0 .. n + 1
      /\ n + 1 \in 0 .. n + 1
  BY LongerProperties
<1>2. QED
  BY <1>1 DEF ChunksIn

Written(u, e) == [u EXCEPT !.last = e, !.offset = @ + 1, !.pending = @ + 1]

LEMMA WriterNext ==
  \A u \in Writers, e \in Addresses : u.offset + 1 \in 0 .. ChunkSize =>
    /\ Written(u, e) \in Writers
    /\ Written(u, e).last = e /\ Written(u, e).chunk = u.chunk
    /\ Written(u, e).offset = u.offset + 1 /\ Written(u, e).pending = u.pending + 1
<1> SUFFICES ASSUME NEW u \in Writers, NEW e \in Addresses, u.offset + 1 \in 0 .. ChunkSize,
                    NEW w, w = Written(u, e)
             PROVE  /\ w \in Writers /\ w.last = e /\ w.chunk = u.chunk
                    /\ w.offset = u.offset + 1 /\ w.pending = u.pending + 1
  OBVIOUS
<1>1. PICK o \in 0 .. ChunkSize, f \in Nat : o = u.offset + 1 /\ f = u.pending + 1
  BY DEF Writers
<1>2. w = [u EXCEPT !.last = e, !.offset = o, !.pending = f]
  BY <1>1 DEF Written
<1>3. w \in Writers /\ w.last = e /\ w.chunk = u.chunk /\ w.offset = o /\ w.pending = f
  BY <1>2 DEF Writers
<1>4. QED
  BY <1>1, <1>3

LEMMA MessagePlaced ==
  ASSUME NEW K, NEW live, NEW n \in Nat, NEW p, Sound(K, live, n, p),
         NEW q \in Queues, NEW kind \in MessageKinds \ {"switch"},
         K.writer.offset + 1 <= ChunkSize - 1
  PROVE  /\ Grown(K, PlaceMessage(K, q, kind), live, n, p, n + 1,
                  Longer(p, n, <<K.writer.chunk, K.writer.offset>>))
         /\ PlaceMessage(K, q, kind).writer.chunk = K.writer.chunk
<1>0. PICK c \in Chunks, o \in Nat : c = K.writer.chunk /\ o = K.writer.offset
  BY WriterChunk
<1> DEFINE e == <<c, o>>
           slot == [queue |-> q, kind |-> kind, next |-> <<c, o + 1>>]
           new == Put(K.memory, e, slot)
           w == [K.writer EXCEPT !.last = e, !.offset = @ + 1, !.pending = @ + 1]
           r == Longer(p, n, e)
<1>1. PICK L : L = PlaceMessage(K, q, kind)
  OBVIOUS
<1>2. L.memory = new /\ L.writer = w
  BY <1>0, <1>1 DEF PlaceMessage
<1>3. e \in Places /\ slot \in Slots /\ e \in Addresses
  BY <1>0, MemoryAssumption DEF Places, Offsets, Slots, Addresses
<1>4. /\ new \in Memories
      /\ \A b \in Places : SlotAt(new, b) = IF b = e THEN slot ELSE SlotAt(K.memory, b)
  <2> HIDE DEF slot, e
  <2>1. QED
    BY <1>3, PutSlot DEF Sound
<1>5. /\ w \in Writers
      /\ w.last = e /\ w.chunk = c /\ w.offset = o + 1 /\ w.pending = K.writer.pending + 1
  <2>1. K.writer \in Writers /\ K.writer.offset + 1 \in 0 .. ChunkSize
    BY <1>0, MemoryAssumption DEF Sound
  <2>2. w = Written(K.writer, e) /\ e \in Addresses
    BY <1>3 DEF Written
  <2> HIDE DEF e, w
  <2>3. /\ Written(K.writer, e) \in Writers
        /\ Written(K.writer, e).last = e /\ Written(K.writer, e).chunk = K.writer.chunk
        /\ Written(K.writer, e).offset = K.writer.offset + 1
        /\ Written(K.writer, e).pending = K.writer.pending + 1
    BY <2>1, <2>2, WriterNext, Zenon
  <2>4. QED
    BY <1>0, <2>2, <2>3
<1>6. /\ w.last = e /\ w.chunk = c /\ w.offset = o + 1 /\ w.pending = K.writer.pending + 1
      /\ slot.kind = kind /\ slot.next = <<c, o + 1>> /\ e[1] = c /\ e[2] = o
  BY <1>5
<1> HIDE DEF e, slot, new, w, r
<1>7. \A i \in 0 .. n : p[i] \in Places /\ p[i] # e
  <2>1. p \in [0 .. n -> Places]
    BY DEF Sound, Chain
  <2>2. \A i \in 0 .. n : p[i][1] = c => p[i][2] < o
    BY <1>0, WriterChunk
  <2>3. QED
    BY <1>0, <1>6, <2>1, <2>2
<1>8. \A i \in 0 .. n : SlotAt(new, p[i]) = SlotAt(K.memory, p[i])
  BY <1>4, <1>7
<1>9. Chain(new, live, n, p)
  BY <1>8, ChainFrame DEF Sound
<1>10. /\ n \in 0 .. n /\ p[n] \in Places /\ SlotAt(new, p[n]).next = e /\ p[n][1] = c
       /\ n > 0 \/ live => SlotAt(new, p[n]).kind # "switch"
       /\ p[n][2] < e[2]
  BY <1>0, <1>6, <1>7, <1>8 DEF Sound, WriterAt, e
<1>11. SlotAt(new, e).kind = kind /\ SlotAt(new, e).next = <<c, o + 1>>
  BY <1>3, <1>4, <1>6
<1>12. Chain(new, live, n + 1, r)
  BY <1>3, <1>6, <1>9, <1>10, <1>11, ChainLonger DEF r
<1>13. r[n + 1] = e /\ \A i \in 0 .. n : r[i] = p[i]
  BY LongerProperties DEF r
<1>14. WriterAt(new, w, live, n + 1, r[n + 1])
  <2>1. o < w.offset /\ w.offset <= ChunkSize - 1
    BY <1>0, <1>6
  <2>2. QED
    BY <1>6, <1>11, <1>13, <2>1 DEF WriterAt
<1>15. Sound(L, live, n + 1, r)
  BY <1>2, <1>4, <1>5, <1>12, <1>14 DEF Sound
<1>16. ChunksIn(n + 1, r) = ChunksIn(n, p) \cup {c}
  BY <1>6, ChunksLonger DEF r
<1>17. n = 0 => r[1][1] = r[0][1]
  <2>1. ASSUME n = 0 PROVE r[1] = e /\ r[0] = p[n]
    BY <1>13, <2>1
  <2>2. QED
    BY <1>6, <1>10, <2>1
<1>18. Grown(K, L, live, n, p, n + 1, r)
  BY <1>0, <1>2, <1>4, <1>6, <1>8, <1>13, <1>15, <1>16, <1>17 DEF Grown
<1>19. QED
  BY <1>0, <1>1, <1>2, <1>6, <1>18 DEF e, r

LEMMA DataPlaced ==
  ASSUME NEW K, NEW live, NEW n \in Nat, NEW p, Sound(K, live, n, p),
         K.writer.offset + 1 <= ChunkSize - 1
  PROVE  /\ Grown(K, PlaceData(K), live, n, p, n, p)
         /\ PlaceData(K).writer.chunk = K.writer.chunk
<1>0. PICK c \in Chunks, o \in Nat, a \in Places :
        c = K.writer.chunk /\ o = K.writer.offset /\ a = K.writer.last
  BY WriterChunk
<1> DEFINE e == <<c, o + 1>>
           new == [K.memory EXCEPT ![a[1]][a[2]].next = e]
           w == [K.writer EXCEPT !.offset = @ + 1]
<1>1. PICK L : L = PlaceData(K)
  OBVIOUS
<1>2. L.memory = new /\ L.writer = w
  BY <1>0, <1>1 DEF PlaceData
<1>3. e \in Addresses
  BY <1>0, MemoryAssumption DEF Addresses
<1>4. /\ new \in Memories
      /\ SlotAt(new, a).next = e /\ SlotAt(new, a).kind = SlotAt(K.memory, a).kind
      /\ \A b \in Places : b # a => SlotAt(new, b) = SlotAt(K.memory, b)
  <2> HIDE DEF e
  <2>1. QED
    BY <1>3, LinkSlot DEF Sound
<1>5. w \in Writers /\ w.last = a /\ w.chunk = c /\ w.offset = o + 1 /\ w.pending = K.writer.pending
  BY <1>0, MemoryAssumption DEF Sound, Writers
<1> HIDE DEF new, w
<1>6. n \in 0 .. n /\ p[n] = a /\ \A i \in 0 .. n : p[i] \in Places /\ (p[i] = a => i = n)
  <2>1. n \in 0 .. n /\ p[n] = a /\ \A i \in 0 .. n : p[i] \in Places
    BY <1>0 DEF Sound, Chain, WriterAt
  <2>2. ASSUME NEW i \in 0 .. n, p[i] = a, i # n PROVE FALSE
    <3>1. i < n /\ p[i][1] = p[n][1]
      BY <2>1, <2>2
    <3>2. p[i][2] < p[n][2] /\ p[n][2] \in Int
      BY <2>1, <3>1 DEF Sound, Chain, Places, Offsets
    <3>3. QED
      BY <2>1, <2>2, <3>2
  <2>3. QED
    BY <2>1, <2>2
<1>7. \A i \in 0 .. n : SlotAt(new, p[i]).kind = SlotAt(K.memory, p[i]).kind
  BY <1>4, <1>6
<1>8. Chain(new, live, n, p)
  <2>1. Chain(K.memory, live, n, p)
    BY DEF Sound
  <2>2. p \in [0 .. n -> Places]
    BY <2>1 DEF Chain
  <2>3. ASSUME NEW i \in 1 .. n PROVE p[i] = SlotAt(new, p[i - 1]).next
    <3>1. i - 1 \in 0 .. n /\ i - 1 # n
      OBVIOUS
    <3>2. SlotAt(new, p[i - 1]) = SlotAt(K.memory, p[i - 1])
      BY <1>4, <1>6, <3>1
    <3>3. QED
      BY <2>1, <3>2 DEF Chain
  <2>4. \A i \in 0 .. n : i > 0 \/ live => SlotAt(new, p[i]).kind \in MessageKinds
    BY <1>7, <2>1 DEF Chain
  <2>5. ASSUME NEW i \in 1 .. n, i > 1 \/ live
        PROVE  SlotAt(new, p[i - 1]).kind = "switch" <=> p[i][1] # p[i - 1][1]
    <3>1. i - 1 \in 0 .. n
      OBVIOUS
    <3>2. QED
      BY <1>7, <2>1, <2>5, <3>1 DEF Chain
  <2>6. \A i, j \in 0 .. n : i < j /\ p[i][1] = p[j][1] => p[i][2] < p[j][2] /\ p[i + 1][1] = p[i][1]
    BY <2>1 DEF Chain
  <2>7. QED
    BY <2>2, <2>3, <2>4, <2>5, <2>6 DEF Chain
<1>9. WriterAt(new, w, live, n, p[n])
  <2>1. /\ c = a[1] /\ a[2] < o /\ a[2] \in Int
        /\ n > 0 \/ live => SlotAt(K.memory, a).kind # "switch"
    BY <1>0, <1>6 DEF Sound, WriterAt, Places, Offsets
  <2>2. a[2] < w.offset /\ w.offset <= ChunkSize - 1
    BY <1>0, <1>5, <2>1
  <2>3. QED
    BY <1>4, <1>5, <1>6, <2>1, <2>2 DEF WriterAt
<1>10. Sound(L, live, n, p)
  BY <1>2, <1>4, <1>5, <1>8, <1>9 DEF Sound
<1>11. ChunksIn(n, p) = ChunksIn(n, p) \cup {c} /\ a[1] = c /\ K.writer.pending \in Nat
  BY <1>0, WriterChunk DEF Sound, WriterAt
<1>12. \A b \in Places : b[1] # c => SlotAt(new, b) = SlotAt(K.memory, b)
  BY <1>4, <1>11
<1>13. n = 0 /\ n > 0 => p[1][1] = p[0][1]
  OBVIOUS
<1>14. Grown(K, L, live, n, p, n, p)
  BY <1>0, <1>2, <1>5, <1>7, <1>10, <1>11, <1>12, <1>13 DEF Grown
<1>15. QED
  BY <1>0, <1>1, <1>2, <1>5, <1>14

Switched(u, e, c) == [u EXCEPT !.last = e, !.chunk = c, !.offset = 0, !.pending = @ + 1]

LEMMA WriterSwitched ==
  \A u \in Writers, e \in Addresses, c \in Chunks :
    /\ Switched(u, e, c) \in Writers
    /\ Switched(u, e, c).last = e /\ Switched(u, e, c).chunk = c
    /\ Switched(u, e, c).offset = 0 /\ Switched(u, e, c).pending = u.pending + 1
<1> SUFFICES ASSUME NEW u \in Writers, NEW e \in Addresses, NEW c \in Chunks,
                    NEW w, w = Switched(u, e, c)
             PROVE  /\ w \in Writers /\ w.last = e /\ w.chunk = c
                    /\ w.offset = 0 /\ w.pending = u.pending + 1
  OBVIOUS
<1>1. PICK o \in 0 .. ChunkSize, f \in Nat : o = 0 /\ f = u.pending + 1
  BY MemoryAssumption DEF Writers
<1>2. w = [u EXCEPT !.last = e, !.chunk = c, !.offset = o, !.pending = f]
  BY <1>1 DEF Switched
<1>3. w \in Writers /\ w.last = e /\ w.chunk = c /\ w.offset = o /\ w.pending = f
  BY <1>2 DEF Writers
<1>4. QED
  BY <1>1, <1>3

LEMMA SwitchPlaced ==
  ASSUME NEW K, NEW live, NEW n \in Nat, NEW p, Sound(K, live, n, p),
         NEW q \in Queues, NEW d \in Chunks, d \notin ChunksIn(n, p)
  PROVE  /\ Grown(K, PlaceSwitch(K, q, d), live, n, p, n + 2,
                  Longer(Longer(p, n, <<K.writer.chunk, K.writer.offset>>), n + 1, <<d, 0>>))
         /\ PlaceSwitch(K, q, d).writer.chunk = d
         /\ PlaceSwitch(K, q, d).writer.offset = 1
<1>0. PICK c \in Chunks, o \in Nat : c = K.writer.chunk /\ o = K.writer.offset
  BY WriterChunk
<1> DEFINE e == <<c, o>>
           f == <<d, 0>>
           slot == [queue |-> q, kind |-> "switch", next |-> f]
           dummy == [queue |-> q, kind |-> "dummy", next |-> <<d, 1>>]
           mid == Put(K.memory, e, slot)
           new == Put(mid, f, dummy)
           v == Switched(K.writer, e, d)
           w == Written(v, f)
           r == Longer(p, n, e)
           s == Longer(r, n + 1, f)
<1>1. PICK L : L = PlaceSwitch(K, q, d)
  OBVIOUS
<1>2. e \in Places /\ f \in Places /\ e \in Addresses /\ f \in Addresses
      /\ slot \in Slots /\ dummy \in Slots
  <2>1. o <= ChunkSize - 1
    BY <1>0 DEF Sound, WriterAt
  <2>2. o \in 0 .. ChunkSize - 1 /\ 0 \in 0 .. ChunkSize - 1 /\ o \in 0 .. ChunkSize
        /\ 0 \in 0 .. ChunkSize /\ 1 \in 0 .. ChunkSize
    BY <2>1, MemoryAssumption
  <2>3. e \in Places /\ f \in Places /\ e \in Addresses /\ f \in Addresses /\ <<d, 1>> \in Addresses
    BY <2>2 DEF Places, Offsets, Addresses
  <2>4. QED
    BY <2>3 DEF Slots, MessageKinds
<1>3. /\ e[1] = c /\ e[2] = o /\ f[1] = d /\ f[2] = 0
      /\ slot.kind = "switch" /\ slot.next = f /\ dummy.kind = "dummy" /\ dummy.next = <<d, 1>>
  OBVIOUS
<1>4. L.memory = new /\ L.writer = w /\ v \in Writers /\ w \in Writers
      /\ w.last = f /\ w.chunk = d /\ w.offset = 1 /\ w.pending = K.writer.pending + 2
  <2>1. /\ v \in Writers /\ v.last = e /\ v.chunk = d
        /\ v.offset = 0 /\ v.pending = K.writer.pending + 1
    <3>1. K.writer \in Writers /\ e \in Addresses
      BY <1>2 DEF Sound
    <3>2. v = Switched(K.writer, e, d)
      OBVIOUS
    <3> HIDE DEF e, v
    <3>3. QED
      BY <3>1, <3>2, WriterSwitched
  <2>2. PlaceSwitch(K, q, d) = PlaceMessage([memory |-> mid, writer |-> v], q, "dummy")
    BY <1>0 DEF PlaceSwitch, Switched
  <2> HIDE DEF v, mid
  <2>3. L.memory = new /\ L.writer = w
    <3>1. PICK M : M = [memory |-> mid, writer |-> v]
      OBVIOUS
    <3>2. M.memory = mid /\ M.writer = v /\ L = PlaceMessage(M, q, "dummy")
      BY <1>1, <2>2, <3>1
    <3>3. <<v.chunk, v.offset>> = f /\ <<v.chunk, v.offset + 1>> = <<d, 1>>
      BY <2>1
    <3> HIDE DEF f
    <3>4. QED
      BY <3>2, <3>3 DEF PlaceMessage, Written
  <2>4. v.offset + 1 \in 0 .. ChunkSize
    BY <2>1, MemoryAssumption
  <2> HIDE DEF f, new
  <2>5. /\ w \in Writers
        /\ w.last = f /\ w.chunk = v.chunk /\ w.offset = v.offset + 1
        /\ w.pending = v.pending + 1
    BY <1>2, <2>1, <2>4, WriterNext, Zenon
  <2>6. K.writer.pending \in Nat
    BY WriterChunk
  <2>7. QED
    BY <2>1, <2>3, <2>5, <2>6
<1> HIDE DEF e, f, slot, dummy, v, w, r, s
<1>5. /\ mid \in Memories
      /\ \A b \in Places : SlotAt(mid, b) = IF b = e THEN slot ELSE SlotAt(K.memory, b)
  BY <1>2, PutSlot DEF Sound
<1> HIDE DEF mid
<1>6. /\ new \in Memories
      /\ \A b \in Places : SlotAt(new, b) = IF b = f THEN dummy ELSE SlotAt(mid, b)
  BY <1>2, <1>5, PutSlot
<1> HIDE DEF new
<1>7. d # c /\ e # f /\ n \in 0 .. n
  <2>1. c \in ChunksIn(n, p)
    BY <1>0, WriterChunk
  <2>2. d # c
    BY <2>1
  <2>3. QED
    BY <1>3, <2>2
<1>8. \A i \in 0 .. n : p[i] \in Places /\ p[i] # e /\ p[i] # f /\ p[i][1] # d
  <2>1. p \in [0 .. n -> Places]
    BY DEF Sound, Chain
  <2>2. \A i \in 0 .. n : p[i][1] = c => p[i][2] < o
    BY <1>0, WriterChunk
  <2>3. \A i \in 0 .. n : p[i][1] # d
    BY DEF ChunksIn
  <2>4. QED
    BY <1>0, <1>3, <2>1, <2>2, <2>3
<1>9. \A i \in 0 .. n : SlotAt(new, p[i]) = SlotAt(K.memory, p[i])
  BY <1>5, <1>6, <1>8
<1>10. SlotAt(new, e) = slot /\ SlotAt(new, f) = dummy
  BY <1>2, <1>5, <1>6, <1>7
<1>11. Chain(new, live, n, p)
  BY <1>9, ChainFrame DEF Sound
<1>12. /\ SlotAt(new, p[n]).next = e /\ p[n][1] = c
       /\ n > 0 \/ live => SlotAt(new, p[n]).kind # "switch"
       /\ p[n][2] < e[2]
  BY <1>0, <1>3, <1>7, <1>8, <1>9 DEF Sound, WriterAt, e
<1>13. Chain(new, live, n + 1, r)
  <2>1. SlotAt(new, e).kind \in MessageKinds
    BY <1>3, <1>10 DEF MessageKinds
  <2>2. QED
    BY <1>2, <1>3, <1>11, <1>12, <2>1, ChainLonger DEF r
<1>14. /\ r[n + 1] = e /\ \A i \in 0 .. n : r[i] = p[i] /\ i \in 0 .. n + 1
       /\ \A i \in 0 .. n + 1 : i \in 0 .. n \/ i = n + 1
  BY LongerProperties DEF r
<1>15. Chain(new, live, (n + 1) + 1, s)
  <2>1. SlotAt(new, r[n + 1]).next = f /\ SlotAt(new, r[n + 1]).kind = "switch" /\ f[1] # r[n + 1][1]
    BY <1>3, <1>7, <1>10, <1>14
  <2>2. \A i \in 0 .. n + 1 : r[i][1] # f[1]
    BY <1>3, <1>7, <1>8, <1>14
  <2>3. SlotAt(new, f).kind \in MessageKinds
    BY <1>3, <1>10 DEF MessageKinds
  <2>4. QED
    BY <1>2, <1>13, <2>1, <2>2, <2>3, ChainLonger DEF s
<1>16. /\ s[n + 2] = f /\ (n + 1) + 1 = n + 2
       /\ \A i \in 0 .. n : s[i] = p[i]
       /\ s[1] = r[1] /\ s[0] = r[0]
  <2>1. s[(n + 1) + 1] = f /\ \A i \in 0 .. n + 1 : s[i] = r[i]
    BY LongerProperties DEF s
  <2>2. 0 \in 0 .. n + 1 /\ 1 \in 0 .. n + 1
    OBVIOUS
  <2>3. QED
    BY <1>14, <2>1, <2>2
<1>17. WriterAt(new, w, live, n + 2, s[n + 2])
  <2>1. 0 < w.offset /\ w.offset <= ChunkSize - 1
    BY <1>4, MemoryAssumption
  <2>2. QED
    BY <1>3, <1>4, <1>10, <1>16, <2>1 DEF WriterAt
<1>18. Sound(L, live, n + 2, s)
  BY <1>4, <1>6, <1>15, <1>16, <1>17 DEF Sound
<1>19. ChunksIn(n + 2, s) = ChunksIn(n, p) \cup {d}
  <2>1. ChunksIn(n + 1, r) = ChunksIn(n, p) \cup {c}
    BY <1>3, ChunksLonger DEF r
  <2>2. ChunksIn((n + 1) + 1, s) = ChunksIn(n + 1, r) \cup {d}
    BY <1>3, ChunksLonger DEF s
  <2>3. c \in ChunksIn(n, p)
    BY <1>0, WriterChunk
  <2>4. QED
    BY <1>16, <2>1, <2>2, <2>3
<1>20. n = 0 => s[1][1] = s[0][1]
  <2>1. ASSUME n = 0 PROVE s[1] = e /\ s[0] = p[n]
    BY <1>14, <1>16, <2>1
  <2>2. QED
    BY <1>3, <1>12, <2>1
<1>21. \A b \in Places : b[1] # c /\ b[1] # d => SlotAt(new, b) = SlotAt(K.memory, b)
  BY <1>3, <1>5, <1>6
<1>22. Grown(K, L, live, n, p, n + 2, s)
  BY <1>0, <1>4, <1>9, <1>16, <1>18, <1>19, <1>20, <1>21 DEF Grown
<1>23. QED
  BY <1>0, <1>1, <1>4, <1>22 DEF e, f, r, s

LEMMA GrownTwice ==
  ASSUME NEW K, NEW L, NEW M, NEW live, NEW n \in Nat, NEW p, NEW m, NEW r, NEW l, NEW s,
         Sound(K, live, n, p), Grown(K, L, live, n, p, m, r), Grown(L, M, live, m, r, l, s),
         M.writer.chunk = L.writer.chunk
  PROVE  Grown(K, M, live, n, p, l, s)
<1>1. Sound(M, live, l, s) /\ m \in Nat /\ l \in Nat /\ m >= n /\ l >= m /\ l >= n
  BY DEF Grown
<1>2. M.writer.pending = K.writer.pending + (l - n)
  <2>1. K.writer.pending \in Nat
    BY WriterChunk
  <2>2. L.writer.pending = K.writer.pending + (m - n) /\ M.writer.pending = L.writer.pending + (l - m)
    BY DEF Grown
  <2>3. QED
    BY <1>1, <2>1, <2>2
<1>3. \A i \in 0 .. n : i \in 0 .. m
  BY <1>1
<1>4. \A i \in 0 .. n : s[i] = p[i] /\ SlotAt(M.memory, p[i]).kind = SlotAt(K.memory, p[i]).kind
  BY <1>3 DEF Grown
<1>5. \A a \in Places : a[1] # K.writer.chunk /\ a[1] # M.writer.chunk =>
        SlotAt(M.memory, a) = SlotAt(K.memory, a)
  BY DEF Grown
<1>6. ChunksIn(l, s) = ChunksIn(n, p) \cup {M.writer.chunk}
  BY DEF Grown
<1>7. ASSUME n = 0, l > 0 PROVE s[1][1] = s[0][1]
  <2>1. CASE m = 0
    BY <1>7, <2>1 DEF Grown
  <2>2. CASE m > 0
    <3>1. 1 \in 0 .. m /\ 0 \in 0 .. m
      BY <1>1, <2>2
    <3>2. s[1] = r[1] /\ s[0] = r[0] /\ r[1][1] = r[0][1]
      BY <1>7, <2>2, <3>1 DEF Grown
    <3>3. QED
      BY <3>2
  <2>3. QED
    BY <1>1, <2>1, <2>2
<1>8. QED
  BY <1>1, <1>2, <1>4, <1>5, <1>6, <1>7 DEF Grown

LEMMA AnyPlaced ==
  ASSUME NEW K, NEW live, NEW n \in Nat, NEW p, Sound(K, live, n, p),
         NEW q \in Queues, NEW kind \in {"work", "free", "data"},
         K.writer.offset + 1 <= ChunkSize - 1
  PROVE  \E m, r : /\ Grown(K, Place(K, q, kind), live, n, p, m, r)
                   /\ Place(K, q, kind).writer.chunk = K.writer.chunk
<1>1. CASE kind = "data"
  BY <1>1, DataPlaced DEF Place
<1>2. CASE kind # "data"
  <2>1. kind \in MessageKinds \ {"switch"}
    BY <1>2 DEF MessageKinds
  <2>2. Place(K, q, kind) = PlaceMessage(K, q, kind)
    BY <1>2 DEF Place
  <2> DEFINE L == PlaceMessage(K, q, kind)
             r == Longer(p, n, <<K.writer.chunk, K.writer.offset>>)
  <2>3. Grown(K, L, live, n, p, n + 1, r) /\ L.writer.chunk = K.writer.chunk
    BY <2>1, MessagePlaced
  <2>4. L = Place(K, q, kind)
    BY <2>2
  <2> HIDE DEF L, r
  <2>5. QED
    BY <2>3, <2>4
<1>3. QED
  BY <1>1, <1>2

------------------------------------------------------------------------------
(* The inductive invariant.                                                *)

Good(q, p) ==
  /\ Unread(q) \in Nat
  /\ Sound(Layout(q), reader[q].pc # "read", Unread(q), p)
  /\ p[0] = reader[q].last

Uses(q) == ChunksIn(Unread(q), Path(q))

(* The reader of q has executed the switch message and has yet to go on to *)
(* the next chunk.                                                         *)
Left(q) == reader[q].last[1] \in freeQueue

AllGood == \A q \in Queues : Good(q, Path(q))

Placed ==
  /\ \A q, r \in Queues : q # r => Uses(q) \cap Uses(r) = {}
  /\ \A q \in Queues : Uses(q) \cap (pool \cup heap \cup Held) = {}
  /\ \A q \in Queues : \A i \in 1 .. Unread(q) : Path(q)[i][1] \notin freeQueue
  /\ pool \cap heap = {} /\ (pool \cup heap) \cap freeQueue = {}
  /\ (pool \cup heap \cup freeQueue) \cap Held = {}
  /\ \A c \in Chunks : \/ c \in pool \cup heap \cup freeQueue \cup Held
                       \/ \E q \in Queues : c \in Uses(q)

Turns ==
  \A q \in Queues :
    /\ reader[q].pc # "read" => busy = q /\ ~Left(q)
    /\ reader[q].pc = "read" =>
         /\ busy = q <=> Left(q)
         /\ Left(q) <=> Unread(q) > 0 /\ Path(q)[1][1] # Path(q)[0][1]
    /\ reader[q].pc \in {"pool", "count"} => Current(q).kind = "free"
    /\ reader[q].chunk # None <=> reader[q].pc = "pool"

IInv == TypeOK /\ AllGood /\ Placed /\ Turns

Typed == memory \in Memories /\ writer \in [Queues -> Writers]

GoodPath == \A q \in Queues : \A p : Good(q, p) => Path(q) = p

LEMMA PathGood == GoodPath
<1> SUFFICES ASSUME NEW q \in Queues, NEW p, Good(q, p)
             PROVE  Path(q) = p
  BY DEF GoodPath
<1>1. PICK n \in Nat : n = Unread(q)
  BY DEF Good
<1>2. Chain(memory, reader[q].pc # "read", n, p) /\ p[0] = reader[q].last
  BY <1>1 DEF Good, Sound, Layout
<1>3. Linked(n, reader[q].last, p)
  BY <1>2 DEF Linked, Chain, At, SlotAt
<1>4. QED
  BY <1>1, <1>3, PathUnique DEF OnePath

LEMMA PathGoodNext == GoodPath'
BY PathGood, PTL

(* A step that leaves the path of a queue alone.                           *)
Same(r) ==
  /\ writer'[r].last = writer[r].last
  /\ writer'[r].chunk = writer[r].chunk
  /\ writer'[r].offset = writer[r].offset
  /\ reader'[r].last = reader[r].last
  /\ reader'[r].pc # "read" => reader[r].pc # "read"
  /\ Unread(r)' = Unread(r)
  /\ \A i \in 0 .. Unread(r) : SlotAt(memory', Path(r)[i]).next = SlotAt(memory, Path(r)[i]).next
  /\ \A i \in 0 .. Unread(r) : i > 0 \/ reader'[r].pc # "read" =>
       SlotAt(memory', Path(r)[i]).kind = SlotAt(memory, Path(r)[i]).kind

Kept(r) ==
  /\ Good(r, Path(r))'
  /\ Path(r)' = Path(r)
  /\ Unread(r)' = Unread(r)
  /\ Uses(r)' = Uses(r)

LEMMA SameKept ==
  ASSUME Typed', NEW r \in Queues, Good(r, Path(r)), Same(r)
  PROVE  Kept(r)
<1>1. PICK n \in Nat, p \in {Path(r)} : n = Unread(r) /\ p = Path(r) /\ n \in 0 .. n
  BY DEF Good
<1>2. /\ Chain(memory, reader[r].pc # "read", n, p)
      /\ WriterAt(memory, writer[r], reader[r].pc # "read", n, p[n])
      /\ p[0] = reader[r].last
  BY <1>1 DEF Good, Sound, Layout
<1>3. Chain(memory', reader'[r].pc # "read", n, p)
  <2> DEFINE was == reader[r].pc # "read"
             is == reader'[r].pc # "read"
  <2>1. Chain(memory, was, n, p)
    BY <1>2
  <2>2. /\ is => was
        /\ \A i \in 0 .. n : SlotAt(memory', p[i]).next = SlotAt(memory, p[i]).next
        /\ \A i \in 0 .. n : i > 0 \/ is => SlotAt(memory', p[i]).kind = SlotAt(memory, p[i]).kind
    BY <1>1 DEF Same
  <2> HIDE DEF was, is
  <2>3. Chain(memory', is, n, p)
    BY <2>1, <2>2, ChainFrame
  <2>4. QED
    BY <2>3 DEF is
<1>4. WriterAt(memory', writer'[r], reader'[r].pc # "read", n, p[n])
  BY <1>1, <1>2 DEF Same, WriterAt
<1>5. Sound(Layout(r)', reader'[r].pc # "read", n, p)
  <2>1. Layout(r)'.memory = memory' /\ Layout(r)'.writer = writer'[r]
    BY DEF Layout
  <2>2. memory' \in Memories /\ writer'[r] \in Writers
    BY DEF Typed
  <2>3. QED
    BY <1>3, <1>4, <2>1, <2>2 DEF Sound
<1>6. Unread(r)' = n /\ p[0] = reader'[r].last
  BY <1>1, <1>2 DEF Same
<1>7. Good(r, p)'
  BY <1>5, <1>6 DEF Good
<1>8. Path(r)' = p
  BY <1>7, PathGoodNext DEF GoodPath
<1>9. Uses(r)' = Uses(r)
  BY <1>1, <1>6, <1>8 DEF Uses
<1>10. QED
  BY <1>1, <1>6, <1>7, <1>8, <1>9 DEF Kept

(* What a step does to a queue seen as a sequence of kinds of messages:    *)
(* the ones the reader may see and those that are not published yet, and   *)
(* the one that is being executed.                                         *)
KindAt(q, i) == SlotAt(memory, Path(q)[i]).kind

Shown(q) == reader[q].newCount + published[q]

Executing(q) == IF reader[q].pc = "read" THEN "none" ELSE Current(q).kind

Extends(q) ==
  /\ Unread(q)' >= Unread(q) /\ Shown(q)' = Shown(q) /\ Executing(q)' = Executing(q)
  /\ \A i \in 1 .. Unread(q) : KindAt(q, i)' = KindAt(q, i)

Publishes(q) ==
  /\ Unread(q)' = Unread(q) /\ Shown(q)' = Unread(q) /\ Executing(q)' = Executing(q)
  /\ \A i \in 1 .. Unread(q) : KindAt(q, i)' = KindAt(q, i)

Takes(q) ==
  /\ Executing(q) = "none" /\ Shown(q) > 0 /\ Executing(q)' = KindAt(q, 1)
  /\ Unread(q)' = Unread(q) - 1 /\ Shown(q)' = Shown(q) - 1
  /\ \A i \in 1 .. Unread(q) - 1 : KindAt(q, i)' = KindAt(q, i + 1)

Ends(q) ==
  /\ Executing(q) # "none" /\ Executing(q)' = "none"
  /\ Unread(q)' = Unread(q) /\ Shown(q)' = Shown(q)
  /\ \A i \in 1 .. Unread(q) : KindAt(q, i)' = KindAt(q, i)

Effect == \A q \in Queues : Extends(q) \/ Publishes(q) \/ Takes(q) \/ Ends(q)

LEMMA KindsKept ==
  ASSUME NEW r \in Queues, Good(r, Path(r)), Same(r), Kept(r)
  PROVE  /\ \A i \in 1 .. Unread(r) : KindAt(r, i)' = KindAt(r, i)
         /\ Unread(r)' = Unread(r) /\ Unread(r)' >= Unread(r)
<1>1. PICK n \in Nat, p \in {Path(r)} : n = Unread(r) /\ p = Path(r)
  BY DEF Good
<1>2. \A i \in 1 .. n : i \in 0 .. n /\ i > 0
  OBVIOUS
<1>3. \A i \in 1 .. n : SlotAt(memory', p[i]).kind = SlotAt(memory, p[i]).kind
  BY <1>1, <1>2 DEF Same
<1>4. Path(r)' = p /\ Unread(r)' = n
  BY <1>1 DEF Kept
<1>5. QED
  BY <1>1, <1>3, <1>4 DEF KindAt

(* What the invariant says of one queue.                                   *)
LEMMA QueueFacts ==
  ASSUME TypeOK, AllGood, NEW q \in Queues
  PROVE  /\ Good(q, Path(q))
         /\ Unread(q) \in Nat /\ 0 \in 0 .. Unread(q)
         /\ Unread(q) > 0 => 1 \in 0 .. Unread(q) /\ 1 \in 1 .. Unread(q)
         /\ Path(q)[0] = reader[q].last
         /\ \A i \in 0 .. Unread(q) : Path(q)[i] \in Places /\ Path(q)[i][1] \in Uses(q)
         /\ \A c \in Uses(q) : \E i \in 0 .. Unread(q) : c = Path(q)[i][1]
         /\ reader[q].last \in Places /\ Current(q) = SlotAt(memory, reader[q].last)
         /\ reader[q].last[1] \in Uses(q)
         /\ writer[q].chunk \in Uses(q)
<1>1. Good(q, Path(q))
  BY DEF AllGood
<1>2. PICK n \in Nat, p \in {Path(q)} : n = Unread(q) /\ p = Path(q) /\ 0 \in 0 .. n /\ n \in 0 .. n
  BY <1>1 DEF Good
<1>3. /\ p[0] = reader[q].last /\ \A i \in 0 .. n : p[i] \in Places
      /\ writer[q].chunk = p[n][1]
  BY <1>1, <1>2 DEF Good, Sound, Layout, Chain, WriterAt
<1>4. Uses(q) = {p[i][1] : i \in 0 .. n}
  BY <1>2 DEF Uses, ChunksIn
<1>5. reader[q].last \in Places /\ Current(q) = SlotAt(memory, reader[q].last)
  BY <1>2, <1>3 DEF Current, At, SlotAt
<1>6. reader[q].last[1] \in Uses(q) /\ writer[q].chunk \in Uses(q)
  BY <1>2, <1>3, <1>4
<1>7. \A i \in 0 .. n : p[i][1] \in Uses(q)
  BY <1>4
<1>8. \A c \in Uses(q) : \E i \in 0 .. n : c = p[i][1]
  BY <1>4
<1>9. n > 0 => 1 \in 0 .. n /\ 1 \in 1 .. n
  OBVIOUS
<1>10. QED
  BY <1>1, <1>2, <1>3, <1>5, <1>6, <1>7, <1>8, <1>9

(* What it says of the first steps of the path.                            *)
LEMMA FirstSteps ==
  ASSUME NEW q \in Queues, Good(q, Path(q))
  PROVE  /\ \A i \in 1 .. Unread(q) : /\ Path(q)[i] # Path(q)[0]
                                      /\ Path(q)[i][1] = Path(q)[0][1] => Path(q)[1][1] = Path(q)[0][1]
         /\ reader[q].pc # "read" /\ Unread(q) > 0 =>
              (Current(q).kind = "switch" <=> Path(q)[1][1] # Path(q)[0][1])
         /\ reader[q].pc # "read" /\ Unread(q) = 0 => Current(q).kind # "switch"
         /\ Unread(q) = 0 => writer[q].chunk = Path(q)[0][1]
         /\ Unread(q) > 0 => Path(q)[1] = Current(q).next
<1>1. PICK n \in Nat, p \in {Path(q)} : n = Unread(q) /\ p = Path(q)
  BY DEF Good
<1>2. /\ Chain(memory, reader[q].pc # "read", n, p)
      /\ WriterAt(memory, writer[q], reader[q].pc # "read", n, p[n])
      /\ p[0] = reader[q].last
  BY <1>1 DEF Good, Sound, Layout
<1>3. Current(q) = SlotAt(memory, p[0])
  BY <1>2 DEF Current, At, SlotAt
<1>4. ASSUME NEW i \in 1 .. n
      PROVE  p[i] # p[0] /\ (p[i][1] = p[0][1] => p[1][1] = p[0][1])
  <2>1. 0 \in 0 .. n /\ i \in 0 .. n /\ 0 < i /\ 0 + 1 = 1
    OBVIOUS
  <2>2. p[i] \in Places /\ p[0] \in Places
    BY <1>2, <2>1 DEF Chain
  <2>3. p[0][1] = p[i][1] => p[0][2] < p[i][2] /\ p[1][1] = p[0][1]
    BY <1>2, <2>1 DEF Chain
  <2>4. p[i][2] \in Int
    BY <2>2 DEF Places, Offsets
  <2>5. QED
    BY <2>3, <2>4
<1>5. ASSUME n > 0
      PROVE  /\ p[1] = SlotAt(memory, p[0]).next
             /\ reader[q].pc # "read" => (SlotAt(memory, p[0]).kind = "switch" <=> p[1][1] # p[0][1])
  <2>1. PICK i \in 1 .. n : i = 1 /\ i - 1 = 0
    BY <1>5
  <2>2. QED
    BY <1>2, <2>1 DEF Chain
<1>6. /\ n = 0 => writer[q].chunk = p[0][1]
      /\ reader[q].pc # "read" /\ n = 0 => SlotAt(memory, p[0]).kind # "switch"
  BY <1>2 DEF WriterAt
<1>7. QED
  BY <1>1, <1>3, <1>4, <1>5, <1>6

------------------------------------------------------------------------------
(* The writer.                                                             *)

LEMMA LayoutSet ==
  ASSUME TypeOK, NEW q \in Queues, NEW L, L.memory \in Memories, L.writer \in Writers,
         SetLayout(q, L)
  PROVE  /\ Typed' /\ \A s \in Queues : s # q => writer'[s] = writer[s]
         /\ Layout(q)'.memory = L.memory /\ Layout(q)'.writer = L.writer
         /\ writer'[q] = L.writer /\ memory' = L.memory
<1>1. writer \in [Queues -> Writers] /\ memory' = L.memory /\ writer' = [writer EXCEPT ![q] = L.writer]
  BY DEF TypeOK, Writers, SetLayout
<1>2. /\ writer' \in [Queues -> Writers] /\ writer'[q] = L.writer
      /\ \A s \in Queues : s # q => writer'[s] = writer[s]
  BY <1>1
<1>3. QED
  BY <1>1, <1>2 DEF Typed, Layout

LEMMA GrownLayout ==
  ASSUME NEW K, NEW L, NEW M, NEW live, NEW n, NEW p, NEW m, NEW r,
         Grown(K, L, live, n, p, m, r), M.memory = L.memory, M.writer = L.writer
  PROVE  Grown(K, M, live, n, p, m, r)
BY DEF Grown, Sound

LEMMA RequestTakes ==
  ASSUME TypeOK, Placed, NEW c \in Chunks, Request(c)
  PROVE  /\ c \in pool \cup heap
         /\ pool' = pool \ {c} /\ heap' = heap \ {c} /\ freeQueue' = freeQueue
         /\ chunkCount' \in Int /\ uncounted' \in BOOLEAN
<1>1. CASE pool # {}
  BY <1>1 DEF Request, Placed, TypeOK
<1>2. CASE pool = {}
  BY <1>2 DEF Request, TypeOK
<1>3. QED
  BY <1>1, <1>2

(* What an allocation of the queue q changes: e is the chunk that the      *)
(* writer is in after it.                                                  *)
Allocated(q, m, r, e) ==
  /\ Grown(Layout(q), Layout(q)', reader[q].pc # "read", Unread(q), Path(q), m, r)
  /\ e \in Chunks /\ e = writer'[q].chunk
  /\ (e = writer[q].chunk \/ e \in pool \cup heap)
  /\ pool' = pool \ {e} /\ heap' = heap \ {e} /\ freeQueue' = freeQueue
  /\ chunkCount' \in Int /\ uncounted' \in BOOLEAN
  /\ Typed'
  /\ \A s \in Queues : s # q => writer'[s] = writer[s]

LEMMA AllocationGrows ==
  ASSUME TypeOK, AllGood, Placed, NEW q \in Queues, NEW kind \in {"work", "free", "data"},
         Allocate(q, kind)
  PROVE  \E m, r, e : Allocated(q, m, r, e)
<1> DEFINE K == Layout(q)
           live == reader[q].pc # "read"
<1>1. PICK n \in Nat, p \in {Path(q)} : n = Unread(q) /\ p = Path(q)
  BY DEF AllGood, Good
<1>2. Sound(K, live, n, p) /\ ChunksIn(n, p) = Uses(q)
  BY <1>1 DEF AllGood, Good, Uses
<1>3. K.writer = writer[q] /\ K.memory = memory
  BY DEF Layout
<1> HIDE DEF K, live
<1>4. K.writer.chunk \in Chunks /\ K.writer.offset \in Nat
  BY <1>2, WriterChunk
<1>5. CASE Fits(q) /\ SetLayout(q, Place(K, q, kind)) /\ UNCHANGED allocator
  <2>1. K.writer.offset + 1 <= ChunkSize - 1
    BY <1>3, <1>4, <1>5, MemoryAssumption DEF Fits
  <2>2. PICK L : L = Place(K, q, kind)
    OBVIOUS
  <2>3. PICK m, r : Grown(K, L, live, n, p, m, r) /\ L.writer.chunk = K.writer.chunk
    BY <1>2, <2>1, <2>2, AnyPlaced
  <2>4. L.memory \in Memories /\ L.writer \in Writers
    BY <2>3 DEF Grown, Sound
  <2>5. /\ Typed' /\ \A s \in Queues : s # q => writer'[s] = writer[s]
        /\ K'.memory = L.memory /\ K'.writer = L.writer /\ writer'[q] = L.writer
    BY <1>5, <2>2, <2>4, LayoutSet DEF K
  <2>6. Grown(K, K', live, n, p, m, r)
    BY <2>3, <2>5, GrownLayout
  <2>7. /\ writer'[q].chunk = writer[q].chunk /\ writer[q].chunk \in Chunks
        /\ writer[q].chunk \notin pool \cup heap
    <3>1. writer[q].chunk \in Uses(q)
      BY <1>2, <1>3, WriterChunk
    <3>2. QED
      BY <1>3, <1>4, <2>3, <2>5, <3>1 DEF Placed
  <2>8. /\ pool' = pool \ {writer[q].chunk} /\ heap' = heap \ {writer[q].chunk}
        /\ freeQueue' = freeQueue /\ chunkCount' \in Int /\ uncounted' \in BOOLEAN
    BY <1>5, <2>7 DEF allocator, TypeOK
  <2>9. Allocated(q, m, r, writer[q].chunk)
    BY <1>1, <2>5, <2>6, <2>7, <2>8 DEF Allocated, K, live
  <2>10. QED
    BY <2>9
<1>6. CASE ~Fits(q) /\ \E c \in Chunks : Request(c) /\ SetLayout(q, Place(PlaceSwitch(K, q, c), q, kind))
  <2>1. PICK c \in Chunks : Request(c) /\ SetLayout(q, Place(PlaceSwitch(K, q, c), q, kind))
    BY <1>6
  <2>2. /\ c \in pool \cup heap
        /\ pool' = pool \ {c} /\ heap' = heap \ {c} /\ freeQueue' = freeQueue
        /\ chunkCount' \in Int /\ uncounted' \in BOOLEAN
    BY <2>1, RequestTakes
  <2>3. c \notin ChunksIn(n, p)
    BY <1>2, <2>2 DEF Placed
  <2>4. PICK L : L = PlaceSwitch(K, q, c)
    OBVIOUS
  <2>5. PICK m, r : Grown(K, L, live, n, p, m, r) /\ L.writer.chunk = c /\ L.writer.offset = 1
    <3>1. /\ Grown(K, PlaceSwitch(K, q, c), live, n, p, n + 2,
                   Longer(Longer(p, n, <<K.writer.chunk, K.writer.offset>>), n + 1, <<c, 0>>))
          /\ PlaceSwitch(K, q, c).writer.chunk = c
          /\ PlaceSwitch(K, q, c).writer.offset = 1
      BY <1>2, <2>3, SwitchPlaced
    <3>2. QED
      BY <2>4, <3>1, Zenon
  <2>6. m \in Nat /\ Sound(L, live, m, r) /\ L.writer.offset + 1 <= ChunkSize - 1
    BY <2>5, MemoryAssumption DEF Grown
  <2>7. PICK M : M = Place(L, q, kind)
    OBVIOUS
  <2>8. PICK l, s : Grown(L, M, live, m, r, l, s) /\ M.writer.chunk = L.writer.chunk
    BY <2>6, <2>7, AnyPlaced
  <2>9. Grown(K, M, live, n, p, l, s)
    BY <1>2, <2>5, <2>6, <2>8, GrownTwice
  <2>10. M.memory \in Memories /\ M.writer \in Writers
    BY <2>9 DEF Grown, Sound
  <2>11. /\ Typed' /\ \A t \in Queues : t # q => writer'[t] = writer[t]
         /\ K'.memory = M.memory /\ K'.writer = M.writer /\ writer'[q] = M.writer
    BY <2>1, <2>4, <2>7, <2>10, LayoutSet DEF K
  <2>12. Grown(K, K', live, n, p, l, s)
    BY <2>9, <2>11, GrownLayout
  <2>13. Allocated(q, l, s, c)
    BY <1>1, <2>2, <2>5, <2>8, <2>11, <2>12 DEF Allocated, K, live
  <2>14. QED
    BY <2>13
<1>7. QED
  BY <1>5, <1>6 DEF Allocate, K

LEMMA AllocateStep ==
  ASSUME IInv, NEW q \in Queues, NEW m, NEW r, NEW e, Allocated(q, m, r, e),
         UNCHANGED <<published, reader, busy>>
  PROVE  IInv' /\ Effect
<1> DEFINE n == Unread(q)
           p == Path(q)
           live == reader[q].pc # "read"
<1>0. TypeOK /\ AllGood /\ Placed /\ Turns /\ reader' = reader /\ published' = published /\ busy' = busy
  BY DEF IInv
<1>1. /\ n \in Nat /\ 0 \in 0 .. n /\ (n > 0 => 1 \in 0 .. n)
      /\ p[0] = reader[q].last /\ writer[q].chunk \in Uses(q)
      /\ Current(q) = SlotAt(memory, p[0])
  BY <1>0, QueueFacts
<1>2. /\ Sound(Layout(q)', live, m, r)
      /\ m \in Nat /\ m >= n /\ writer'[q].pending = writer[q].pending + (m - n)
      /\ \A i \in 0 .. n : r[i] = p[i] /\ SlotAt(memory', p[i]).kind = SlotAt(memory, p[i]).kind
      /\ \A a \in Places : a[1] # writer[q].chunk /\ a[1] # e => SlotAt(memory', a) = SlotAt(memory, a)
      /\ ChunksIn(m, r) = Uses(q) \cup {e}
      /\ n = 0 /\ m > 0 => r[1][1] = r[0][1]
  <2>1. /\ Layout(q).memory = memory /\ Layout(q).writer = writer[q]
        /\ Layout(q)'.memory = memory' /\ Layout(q)'.writer = writer'[q]
    BY DEF Layout
  <2>2. ChunksIn(n, p) = Uses(q)
    BY DEF Uses
  <2>3. Grown(Layout(q), Layout(q)', live, n, p, m, r) /\ e = writer'[q].chunk
    BY DEF Allocated
  <2> HIDE DEF live, n, p
  <2>4. QED
    BY <2>1, <2>2, <2>3 DEF Grown
<1>3. /\ e \in Chunks /\ (e \in Uses(q) \/ e \in pool \cup heap)
      /\ pool' = pool \ {e} /\ heap' = heap \ {e} /\ freeQueue' = freeQueue
      /\ chunkCount' \in Int /\ uncounted' \in BOOLEAN /\ Typed'
      /\ \A s \in Queues : s # q => writer'[s] = writer[s]
  BY <1>1 DEF Allocated
<1>4. TypeOK'
  BY <1>0, <1>3 DEF TypeOK, Typed, Memories, Writers
<1>5. \A s \in Queues : s # q => Kept(s) /\ Same(s)
  <2> SUFFICES ASSUME NEW s \in Queues, s # q PROVE Kept(s) /\ Same(s)
    OBVIOUS
  <2>1. /\ Good(s, Path(s)) /\ Unread(s) \in Nat
        /\ \A i \in 0 .. Unread(s) : Path(s)[i] \in Places /\ Path(s)[i][1] \in Uses(s)
    BY <1>0, QueueFacts
  <2>2. \A c \in Uses(s) : c # writer[q].chunk /\ c # e
    BY <1>0, <1>1, <1>3 DEF Placed
  <2>3. \A i \in 0 .. Unread(s) : SlotAt(memory', Path(s)[i]) = SlotAt(memory, Path(s)[i])
    BY <1>2, <2>1, <2>2
  <2>4. Unread(s)' = Unread(s) /\ writer'[s] = writer[s]
    BY <1>0, <1>3 DEF Unread
  <2>5. Same(s)
    BY <1>0, <2>3, <2>4 DEF Same
  <2>6. QED
    BY <1>3, <2>1, <2>5, SameKept
<1>6. Unread(q)' = m
  <2>1. reader[q].newCount \in Nat /\ published[q] \in Nat /\ writer[q].pending \in Nat
    BY <1>0 DEF TypeOK
  <2>2. QED
    BY <1>0, <1>1, <1>2, <2>1 DEF Unread
<1>7. Good(q, r)'
  <2>1. r[0] = reader'[q].last
    BY <1>0, <1>1, <1>2
  <2>2. QED
    BY <1>0, <1>2, <1>6, <2>1 DEF Good
<1>8. Path(q)' = r /\ Uses(q)' = Uses(q) \cup {e}
  <2>1. Path(q)' = r
    BY <1>7, PathGoodNext DEF GoodPath
  <2>2. QED
    BY <1>2, <1>6, <2>1 DEF Uses
<1>9. AllGood'
  BY <1>5, <1>7, <1>8 DEF AllGood, Kept
<1> HIDE DEF n, p, live
<1>10. n > 0 => r[1] = p[1]
  BY <1>1, <1>2
<1>11. (m > 0 /\ r[1][1] # r[0][1]) <=> (n > 0 /\ p[1][1] # p[0][1])
  BY <1>1, <1>2, <1>10
<1>12. \A i \in 1 .. m : r[i][1] \notin freeQueue
  <2> SUFFICES ASSUME NEW i \in 1 .. m, r[i][1] \in freeQueue PROVE FALSE
    OBVIOUS
  <2>1. i \in 0 .. m /\ r[i][1] \in ChunksIn(m, r)
    BY <1>2 DEF ChunksIn
  <2>2. r[i][1] \in Uses(q)
    BY <1>0, <1>2, <1>3, <2>1 DEF Placed
  <2>3. PICK j \in 0 .. n : r[i][1] = p[j][1]
    BY <1>0, <2>2, QueueFacts DEF n, p
  <2>4. j = 0
    BY <1>0, <2>3 DEF Placed, n, p
  <2>5. Left(q)
    BY <1>1, <2>3, <2>4 DEF Left
  <2>6. n > 0 /\ p[1][1] # p[0][1]
    BY <1>0, <2>5 DEF Turns, n, p
  <2>7. r[i][1] = r[0][1]
    BY <1>1, <1>2, <2>3, <2>4
  <2>8. r[1][1] = r[0][1]
    <3>1. Good(q, Path(q))'
      BY <1>9 DEF AllGood
    <3>2. \A k \in 1 .. Unread(q)' : Path(q)'[k][1] = Path(q)'[0][1] => Path(q)'[1][1] = Path(q)'[0][1]
      <4>1. Chain(memory', reader'[q].pc # "read", m, r)
        BY <1>6, <1>7 DEF Good, Sound, Layout
      <4>2. 0 \in 0 .. m /\ 0 < i /\ 0 + 1 = 1
        BY <1>2
      <4>3. QED
        BY <1>6, <1>8, <2>1, <4>1, <4>2 DEF Chain
    <3>3. QED
      BY <1>6, <1>8, <2>7, <3>2
  <2>9. QED
    BY <1>11, <2>6, <2>8, <1>2, <2>1
<1>13. Held' = Held /\ \A s \in Queues : s # q => Uses(s)' = Uses(s) /\ Unread(s)' = Unread(s) /\ Path(s)' = Path(s)
  BY <1>0, <1>5 DEF Held, Kept
<1>14. ASSUME NEW s \in Queues PROVE Current(s)'.kind = Current(s).kind
  <2>1. Current(s) = SlotAt(memory, reader[s].last) /\ Current(s)' = SlotAt(memory', reader[s].last)
    BY <1>0 DEF Current, At, SlotAt
  <2>2. CASE s = q
    BY <1>1, <1>2, <2>1, <2>2
  <2>3. CASE s # q
    <3>1. reader[s].last \in Places /\ reader[s].last[1] \in Uses(s)
      BY <1>0, QueueFacts
    <3>2. reader[s].last[1] # writer[q].chunk /\ reader[s].last[1] # e
      BY <1>0, <1>1, <1>3, <2>3, <3>1 DEF Placed
    <3>3. QED
      BY <1>2, <2>1, <3>1, <3>2
  <2>4. QED
    BY <2>2, <2>3
<1>15. Placed'
  <2>1. \A s, t \in Queues : s # t => Uses(s)' \cap Uses(t)' = {}
    <3>1. ASSUME NEW s \in Queues, s # q PROVE Uses(s)' \cap Uses(q)' = {}
      BY <1>0, <1>3, <1>8, <1>13, <3>1 DEF Placed
    <3>2. ASSUME NEW s \in Queues, NEW t \in Queues, s # q, t # q, s # t PROVE Uses(s)' \cap Uses(t)' = {}
      BY <1>0, <1>13, <3>2 DEF Placed
    <3>3. QED
      BY <3>1, <3>2
  <2>2. \A s \in Queues : Uses(s)' \cap (pool' \cup heap' \cup Held') = {}
    <3>1. Uses(q)' \cap (pool' \cup heap' \cup Held') = {}
      BY <1>0, <1>3, <1>8, <1>13 DEF Placed
    <3>2. ASSUME NEW s \in Queues, s # q PROVE Uses(s)' \cap (pool' \cup heap' \cup Held') = {}
      BY <1>0, <1>3, <1>13, <3>2 DEF Placed
    <3>3. QED
      BY <3>1, <3>2
  <2>3. \A s \in Queues : \A i \in 1 .. Unread(s)' : Path(s)'[i][1] \notin freeQueue'
    BY <1>0, <1>3, <1>6, <1>8, <1>12, <1>13 DEF Placed
  <2>4. /\ pool' \cap heap' = {} /\ (pool' \cup heap') \cap freeQueue' = {}
        /\ (pool' \cup heap' \cup freeQueue') \cap Held' = {}
    BY <1>0, <1>3, <1>13 DEF Placed
  <2>5. \A c \in Chunks : \/ c \in pool' \cup heap' \cup freeQueue' \cup Held'
                          \/ \E s \in Queues : c \in Uses(s)'
    <3> SUFFICES ASSUME NEW c \in Chunks
                 PROVE  \/ c \in pool' \cup heap' \cup freeQueue' \cup Held'
                        \/ \E s \in Queues : c \in Uses(s)'
      OBVIOUS
    <3>1. CASE c = e
      BY <1>8, <3>1
    <3>2. CASE c # e /\ c \in pool \cup heap \cup freeQueue \cup Held
      BY <1>3, <1>13, <3>2
    <3>3. CASE \E s \in Queues : c \in Uses(s)
      BY <1>8, <1>13, <3>3
    <3>4. QED
      BY <1>0, <3>1, <3>2, <3>3 DEF Placed
  <2>6. QED
    BY <2>1, <2>2, <2>3, <2>4, <2>5 DEF Placed
<1>16. Turns'
  <2> SUFFICES ASSUME NEW s \in Queues
               PROVE  /\ reader[s].pc # "read" => busy = s /\ ~Left(s)'
                      /\ reader[s].pc = "read" =>
                           /\ busy = s <=> Left(s)'
                           /\ Left(s)' <=> Unread(s)' > 0 /\ Path(s)'[1][1] # Path(s)'[0][1]
                      /\ reader[s].pc \in {"pool", "count"} => Current(s)'.kind = "free"
                      /\ reader[s].chunk # None <=> reader[s].pc = "pool"
    BY <1>0 DEF Turns
  <2>1. Left(s)' <=> Left(s)
    BY <1>0, <1>3 DEF Left
  <2>2. (Unread(s)' > 0 /\ Path(s)'[1][1] # Path(s)'[0][1]) <=> (Unread(s) > 0 /\ Path(s)[1][1] # Path(s)[0][1])
    BY <1>6, <1>8, <1>11, <1>13 DEF n, p
  <2>3. Current(s)'.kind = Current(s).kind
    BY <1>14
  <2>4. QED
    BY <1>0, <2>1, <2>2, <2>3 DEF Turns
<1>17. Effect
  <2>1. \A s \in Queues : Shown(s)' = Shown(s) /\ Executing(s)' = Executing(s)
    BY <1>0, <1>14 DEF Shown, Executing
  <2>2. ASSUME NEW s \in Queues, s # q PROVE Extends(s)
    <3>1. Good(s, Path(s)) /\ Same(s) /\ Kept(s)
      BY <1>0, <1>5, <2>2 DEF AllGood
    <3>2. QED
      BY <2>1, <3>1, KindsKept DEF Extends
  <2>3. Extends(q)
    <3>1. \A i \in 1 .. n : i \in 0 .. n
      OBVIOUS
    <3>2. \A i \in 1 .. n : SlotAt(memory', r[i]).kind = SlotAt(memory, p[i]).kind
      BY <1>2, <3>1
    <3>3. \A i \in 1 .. Unread(q) : KindAt(q, i)' = KindAt(q, i)
      BY <1>8, <3>2 DEF KindAt, n, p
    <3>4. Unread(q)' >= Unread(q)
      BY <1>2, <1>6 DEF n
    <3>5. QED
      BY <2>1, <3>3, <3>4 DEF Extends
  <2>4. QED
    BY <2>2, <2>3 DEF Effect
<1>18. QED
  BY <1>4, <1>9, <1>15, <1>16, <1>17 DEF IInv

(* A step that leaves all paths and the chunks alone.                      *)
LEMMA QuietStep ==
  ASSUME IInv, TypeOK',
         \A s \in Queues : Same(s),
         UNCHANGED <<pool, freeQueue, heap, busy>>,
         \A s \in Queues : reader'[s].pc = reader[s].pc /\ reader'[s].chunk = reader[s].chunk,
         \A s \in Queues : Current(s)'.kind = Current(s).kind
  PROVE  IInv' /\ \A s \in Queues : Kept(s)
<1>0. /\ TypeOK /\ AllGood /\ Placed /\ Turns
      /\ pool' = pool /\ freeQueue' = freeQueue /\ heap' = heap /\ busy' = busy
  BY DEF IInv
<1>1. Typed'
  BY DEF TypeOK, Typed, Memories, Writers
<1>2. \A s \in Queues : Kept(s)
  BY <1>0, <1>1, SameKept DEF AllGood
<1>3. AllGood'
  BY <1>2 DEF AllGood, Kept
<1>4. \A s \in Queues : /\ Uses(s)' = Uses(s) /\ Unread(s)' = Unread(s) /\ Path(s)' = Path(s)
                        /\ Left(s)' <=> Left(s)
  BY <1>0, <1>2 DEF Kept, Same, Left
<1>5. Held' = Held
  BY DEF Held
<1>6. Placed'
  BY <1>0, <1>4, <1>5 DEF Placed
<1>7. Turns'
  BY <1>0, <1>4 DEF Turns
<1>8. QED
  BY <1>2, <1>3, <1>6, <1>7 DEF IInv

LEMMA PushStep == ASSUME IInv, NEW q \in Queues, Push(q) PROVE IInv' /\ Effect
<1>0. TypeOK /\ AllGood
  BY DEF IInv
<1>1. /\ memory' = memory /\ reader' = reader /\ pool' = pool /\ freeQueue' = freeQueue
      /\ heap' = heap /\ chunkCount' = chunkCount
      /\ uncounted' = uncounted /\ busy' = busy
      /\ published' = [published EXCEPT ![q] = @ + writer[q].pending]
      /\ writer' = [writer EXCEPT ![q].pending = 0]
  BY DEF Push, allocator
<1>2a. \A s \in Queues : writer[s].pending \in Nat /\ published[s] \in Nat /\ reader[s].newCount \in Nat
  BY <1>0 DEF TypeOK
<1>2b. writer \in [Queues -> Writers] /\ published \in [Queues -> Nat]
  BY <1>0 DEF TypeOK, Writers
<1>2. /\ published' \in [Queues -> Nat]
      /\ writer' \in [Queues -> Writers]
      /\ \A s \in Queues : /\ writer'[s].last = writer[s].last /\ writer'[s].chunk = writer[s].chunk
                           /\ writer'[s].offset = writer[s].offset
      /\ writer'[q].pending = 0 /\ published'[q] = published[q] + writer[q].pending
      /\ \A s \in Queues : s # q => writer'[s] = writer[s] /\ published'[s] = published[s]
  <2>1. published' \in [Queues -> Nat]
    BY <1>1, <1>2a, <1>2b
  <2>2. writer' \in [Queues -> Writers]
    <3>1. [writer[q] EXCEPT !.pending = 0] \in Writers
      BY <1>2b DEF Writers
    <3>2. QED
      BY <1>1, <1>2b, <3>1
  <2>3. \A s \in Queues : /\ writer'[s].last = writer[s].last /\ writer'[s].chunk = writer[s].chunk
                          /\ writer'[s].offset = writer[s].offset
    BY <1>1, <1>2b DEF Writers
  <2>4. writer'[q].pending = 0
    BY <1>1, <1>2b DEF Writers
  <2>5. /\ published'[q] = published[q] + writer[q].pending
        /\ \A s \in Queues : s # q => writer'[s] = writer[s] /\ published'[s] = published[s]
    BY <1>1, <1>2b
  <2>6. QED
    BY <2>1, <2>2, <2>3, <2>4, <2>5
<1>3. TypeOK'
  BY <1>0, <1>1, <1>2 DEF TypeOK, Writers
<1>4. \A s \in Queues : Unread(s)' = Unread(s)
  <2>1. Unread(q)' = Unread(q)
    BY <1>1, <1>2, <1>2a DEF Unread
  <2>2. \A s \in Queues : s # q => Unread(s)' = Unread(s)
    BY <1>1, <1>2, <1>2a DEF Unread
  <2>3. QED
    BY <2>1, <2>2
<1>5. \A s \in Queues : Same(s)
  BY <1>1, <1>2, <1>4 DEF Same
<1>6. \A s \in Queues : Current(s)' = Current(s)
  BY <1>1 DEF Current, At
<1>7. IInv' /\ \A s \in Queues : Kept(s)
  BY <1>1, <1>3, <1>5, <1>6, QuietStep
<1>8. \A s \in Queues : Executing(s)' = Executing(s)
  BY <1>1, <1>6 DEF Executing
<1>9. ASSUME NEW s \in Queues
      PROVE  /\ \A i \in 1 .. Unread(s) : KindAt(s, i)' = KindAt(s, i)
             /\ Unread(s)' = Unread(s) /\ Unread(s)' >= Unread(s)
  BY <1>0, <1>5, <1>7, KindsKept DEF AllGood
<1>10. Shown(q)' = Unread(q)
  BY <1>1, <1>2, <1>2a DEF Shown, Unread
<1>11. \A s \in Queues : s # q => Shown(s)' = Shown(s)
  BY <1>1, <1>2 DEF Shown
<1>12. QED
  BY <1>7, <1>8, <1>9, <1>10, <1>11 DEF Effect, Extends, Publishes

------------------------------------------------------------------------------
(* The reader.                                                             *)

Readers == [last : Addresses, newCount : Nat, pc : {"read", "execute", "pool", "count"},
            chunk : Chunks \cup {None}]

LEMMA SnapshotStep ==
  ASSUME IInv, NEW q \in Queues, ReadMessage(q), ~(reader[q].newCount > 0)
  PROVE  IInv' /\ Effect
<1>0. TypeOK /\ AllGood
  BY DEF IInv
<1>1. /\ memory' = memory /\ writer' = writer /\ pool' = pool /\ freeQueue' = freeQueue
      /\ heap' = heap /\ chunkCount' = chunkCount
      /\ uncounted' = uncounted /\ busy' = busy
      /\ reader' = [reader EXCEPT ![q].newCount = @ + published[q]]
      /\ published' = [published EXCEPT ![q] = 0]
  BY DEF ReadMessage, allocator
<1>2. PICK k \in Nat : k = reader[q].newCount + published[q]
  BY <1>0 DEF TypeOK
<1>3. reader \in [Queues -> Readers] /\ reader' = [reader EXCEPT ![q].newCount = k]
  BY <1>0, <1>1, <1>2 DEF TypeOK, Readers
<1>4. /\ reader' \in [Queues -> Readers] /\ reader'[q].newCount = k
      /\ \A s \in Queues : /\ reader'[s].last = reader[s].last /\ reader'[s].pc = reader[s].pc
                           /\ reader'[s].chunk = reader[s].chunk
                           /\ s # q => reader'[s] = reader[s]
  BY <1>3 DEF Readers
<1>5. /\ \A s \in Queues : writer[s].pending \in Nat /\ published[s] \in Nat /\ reader[s].newCount \in Nat
      /\ published' \in [Queues -> Nat] /\ published'[q] = 0
      /\ \A s \in Queues : s # q => published'[s] = published[s]
  BY <1>0, <1>1 DEF TypeOK
<1>6. TypeOK'
  BY <1>0, <1>1, <1>4, <1>5 DEF TypeOK, Readers
<1>7. \A s \in Queues : Unread(s)' = Unread(s)
  BY <1>1, <1>2, <1>4, <1>5 DEF Unread
<1>8. \A s \in Queues : Same(s)
  BY <1>1, <1>4, <1>7 DEF Same
<1>9. \A s \in Queues : Current(s)' = Current(s)
  BY <1>1, <1>4 DEF Current, At
<1>10. IInv' /\ \A s \in Queues : Kept(s)
  BY <1>1, <1>4, <1>6, <1>8, <1>9, QuietStep
<1>11. \A s \in Queues : Shown(s)' = Shown(s) /\ Executing(s)' = Executing(s)
  BY <1>2, <1>4, <1>5, <1>9 DEF Shown, Executing
<1>12. ASSUME NEW s \in Queues PROVE Extends(s)
  <2>1. Good(s, Path(s)) /\ Same(s) /\ Kept(s)
    BY <1>0, <1>8, <1>10 DEF AllGood
  <2>2. QED
    BY <1>11, <2>1, KindsKept DEF Extends
<1>13. QED
  BY <1>10, <1>12 DEF Effect

LEMMA CountStep == ASSUME IInv, NEW q \in Queues, CountChunk(q) PROVE IInv' /\ Effect
<1>0. TypeOK /\ AllGood /\ Turns
  BY DEF IInv
<1>1. /\ memory' = memory /\ writer' = writer /\ pool' = pool /\ freeQueue' = freeQueue
      /\ heap' = heap /\ chunkCount' = chunkCount + 1
      /\ uncounted' = uncounted /\ busy' = busy /\ published' = published
      /\ reader' = [reader EXCEPT ![q].pc = "execute"] /\ reader[q].pc = "count"
  BY DEF CountChunk
<1>2. reader \in [Queues -> Readers]
  BY <1>0 DEF TypeOK, Readers
<1>3. /\ reader' \in [Queues -> Readers] /\ reader'[q].pc = "execute"
      /\ \A s \in Queues : /\ reader'[s].last = reader[s].last /\ reader'[s].newCount = reader[s].newCount
                           /\ reader'[s].chunk = reader[s].chunk
                           /\ s # q => reader'[s] = reader[s]
  BY <1>1, <1>2 DEF Readers
<1>4. TypeOK' /\ Typed'
  BY <1>0, <1>1, <1>3 DEF TypeOK, Typed, Memories, Writers, Readers
<1>5. \A s \in Queues : Unread(s)' = Unread(s)
  BY <1>1, <1>3 DEF Unread
<1>6. \A s \in Queues : Same(s)
  BY <1>1, <1>3, <1>5 DEF Same
<1>7. \A s \in Queues : Kept(s)
  BY <1>0, <1>4, <1>6, SameKept DEF AllGood
<1>8. AllGood'
  BY <1>7 DEF AllGood, Kept
<1>9. \A s \in Queues : /\ Uses(s)' = Uses(s) /\ Unread(s)' = Unread(s) /\ Path(s)' = Path(s)
                        /\ (Left(s)' <=> Left(s)) /\ Current(s)' = Current(s)
  BY <1>1, <1>3, <1>7 DEF Kept, Left, Current, At
<1>10. Held' = Held
  BY <1>3 DEF Held
<1>11. Placed'
  BY <1>1, <1>9, <1>10 DEF IInv, Placed
<1>12. Turns'
  <2>1. reader'[q].pc # "read" /\ reader[q].pc # "read" /\ reader'[q].pc \notin {"pool", "count"}
    BY <1>1, <1>3
  <2>2. QED
    BY <1>0, <1>1, <1>3, <1>9, <2>1 DEF Turns
<1>13. \A s \in Queues : Shown(s)' = Shown(s) /\ Executing(s)' = Executing(s)
  BY <1>1, <1>3, <1>9 DEF Shown, Executing
<1>14. ASSUME NEW s \in Queues PROVE Extends(s)
  BY <1>0, <1>6, <1>7, <1>13, KindsKept DEF Extends, AllGood
<1>15. QED
  BY <1>4, <1>8, <1>11, <1>12, <1>14 DEF IInv, Effect

LEMMA ChunksShorter ==
  ASSUME NEW n \in Nat, n > 0, NEW p
  PROVE  ChunksIn(n, p) = ChunksIn(n - 1, Shorter(p, n)) \cup {p[0][1]}
<1>1. /\ \A i \in 0 .. n - 1 : i + 1 \in 0 .. n /\ Shorter(p, n)[i] = p[i + 1]
      /\ \A i \in 0 .. n : i = 0 \/ (i - 1 \in 0 .. n - 1 /\ (i - 1) + 1 = i)
      /\ 0 \in 0 .. n
  BY DEF Shorter
<1> DEFINE r == Shorter(p, n)
<1> HIDE DEF r
<1>2. \A i \in 0 .. n - 1 : r[i][1] \in ChunksIn(n, p)
  BY <1>1 DEF ChunksIn, r
<1>3. ASSUME NEW i \in 0 .. n PROVE p[i][1] \in ChunksIn(n - 1, r) \cup {p[0][1]}
  <2>1. CASE i = 0
    BY <2>1
  <2>2. CASE i # 0
    <3>1. PICK j \in 0 .. n - 1 : p[i] = r[j]
      BY <1>1, <2>2 DEF r
    <3>2. QED
      BY <3>1 DEF ChunksIn
  <2>3. QED
    BY <2>1, <2>2
<1>4. p[0][1] \in ChunksIn(n, p)
  BY <1>1 DEF ChunksIn
<1>5. QED
  BY <1>2, <1>3, <1>4 DEF ChunksIn, r

LEMMA TakeStep ==
  ASSUME IInv, ~ParallelFlush, NEW q \in Queues, ReadMessage(q), reader[q].newCount > 0
  PROVE  IInv' /\ Effect
<1>0. TypeOK /\ AllGood /\ Placed /\ Turns
  BY DEF IInv
<1>1. /\ memory' = memory /\ writer' = writer /\ pool' = pool /\ freeQueue' = freeQueue
      /\ heap' = heap /\ chunkCount' = chunkCount
      /\ uncounted' = uncounted /\ published' = published
      /\ reader' = [reader EXCEPT ![q].last = At(@).next, ![q].newCount = @ - 1,
                                  ![q].pc = "execute"]
      /\ reader[q].pc = "read" /\ busy \in {None, q} /\ busy' = q
  BY DEF ReadMessage, Running, allocator
<1>2. PICK n \in Nat, p \in {Path(q)} : n = Unread(q) /\ p = Path(q)
  BY <1>0, QueueFacts
<1>3. \A s \in Queues : writer[s].pending \in Nat /\ published[s] \in Nat /\ reader[s].newCount \in Nat
  BY <1>0 DEF TypeOK
<1>4. n > 0 /\ 0 \in 0 .. n /\ 1 \in 0 .. n /\ 1 \in 1 .. n /\ n \in 0 .. n
  BY <1>2, <1>3 DEF Unread
<1>5. /\ p[1] \in Places /\ p[1] = At(reader[q].last).next
      /\ \A i \in 1 .. n : p[i][1] = p[0][1] => p[1][1] = p[0][1]
  <2>1. Good(q, Path(q)) /\ p[1] \in Places
    BY <1>0, <1>2, <1>4, QueueFacts
  <2>2. QED
    BY <1>2, <1>4, <2>1, FirstSteps DEF Current
<1>6. PICK k \in Nat : k = reader[q].newCount - 1
  BY <1>3
<1>7. /\ reader' \in [Queues -> Readers]
      /\ reader'[q].last = p[1] /\ reader'[q].newCount = k /\ reader'[q].pc = "execute"
      /\ reader'[q].chunk = reader[q].chunk
      /\ \A s \in Queues : s # q => reader'[s] = reader[s]
  <2>1. PICK a \in Addresses : a = p[1]
    BY <1>5, MemoryAssumption DEF Places, Addresses, Offsets
  <2>2. reader \in [Queues -> Readers]
    BY <1>0 DEF TypeOK, Readers
  <2>3. reader' = [reader EXCEPT ![q].last = a, ![q].newCount = k, ![q].pc = "execute"]
    BY <1>1, <1>5, <1>6, <2>1, <2>2
  <2>4. QED
    BY <2>1, <2>2, <2>3 DEF Readers
<1>8. TypeOK' /\ Typed'
  BY <1>0, <1>1, <1>7 DEF TypeOK, Readers, Typed, Memories, Writers
<1>9. \A s \in Queues : s # q => Kept(s) /\ Same(s)
  <2> SUFFICES ASSUME NEW s \in Queues, s # q PROVE Kept(s) /\ Same(s)
    OBVIOUS
  <2>1. Unread(s)' = Unread(s)
    BY <1>1, <1>7 DEF Unread
  <2>2. Same(s)
    BY <1>1, <1>7, <2>1 DEF Same
  <2>3. QED
    BY <1>0, <1>8, <2>2, SameKept DEF AllGood
<1>10. Unread(q)' = n - 1 /\ n - 1 \in Nat
  BY <1>1, <1>2, <1>3, <1>4, <1>6, <1>7 DEF Unread
<1> DEFINE r == Shorter(p, n)
<1>11. r[0] = p[1] /\ r[n - 1] = p[n] /\ \A i \in 0 .. n - 1 : i + 1 \in 1 .. n /\ r[i] = p[i + 1]
  BY <1>4 DEF Shorter
<1> HIDE DEF r
<1>12. Good(q, r)'
  <2> DEFINE live == reader[q].pc # "read"
  <2>1. Good(q, p)
    BY <1>0, <1>2 DEF AllGood
  <2>2. /\ Chain(memory, live, n, p) /\ WriterAt(memory, writer[q], live, n, p[n])
        /\ memory \in Memories /\ writer[q] \in Writers
    BY <1>2, <2>1 DEF Good, Sound, Layout
  <2>3. Chain(memory, TRUE, n - 1, r)
    <3> HIDE DEF live
    <3>1. QED
      BY <1>4, <2>2, ChainShorter DEF r
  <2>4. WriterAt(memory, writer[q], TRUE, n - 1, r[n - 1])
    BY <1>4, <1>11, <2>2 DEF WriterAt
  <2>5. /\ Layout(q)'.memory = memory /\ Layout(q)'.writer = writer[q]
        /\ (reader'[q].pc # "read") = TRUE
    BY <1>1, <1>7 DEF Layout
  <2>6. Sound(Layout(q)', TRUE, n - 1, r)
    BY <2>2, <2>3, <2>4, <2>5 DEF Sound
  <2>7. QED
    BY <1>7, <1>10, <1>11, <2>5, <2>6 DEF Good
<1>13. Path(q)' = r /\ Uses(q) = Uses(q)' \cup {p[0][1]}
  <2>1. Path(q)' = r
    BY <1>12, PathGoodNext DEF GoodPath
  <2>2. ChunksIn(n, p) = ChunksIn(n - 1, r) \cup {p[0][1]}
    BY <1>4, ChunksShorter DEF r
  <2>3. QED
    BY <1>2, <1>10, <2>1, <2>2 DEF Uses
<1>14. AllGood'
  BY <1>9, <1>12, <1>13 DEF AllGood, Kept
<1>15. /\ Held' = Held
       /\ \A s \in Queues : s # q => /\ Uses(s)' = Uses(s) /\ Unread(s)' = Unread(s) /\ Path(s)' = Path(s)
                                     /\ (Left(s)' <=> Left(s)) /\ Current(s)' = Current(s)
  <2>1. \A s \in Queues : reader'[s].chunk = reader[s].chunk
    BY <1>7
  <2>2. Held' = Held
    BY <2>1 DEF Held
  <2>3. \A s \in Queues : s # q => reader'[s].last = reader[s].last
    BY <1>7
  <2>4. ASSUME NEW s \in Queues, s # q PROVE (Left(s)' <=> Left(s)) /\ Current(s)' = Current(s)
    <3>1. reader'[s].last = reader[s].last
      BY <2>3, <2>4
    <3>2. Left(s)' <=> Left(s)
      BY <1>1, <3>1 DEF Left
    <3>3. memory' = memory
      BY <1>1
    <3>4. Current(s)' = Current(s)
      BY <3>1, <3>3 DEF Current, At
    <3>5. QED
      BY <3>2, <3>4
  <2>5. QED
    BY <1>9, <2>2, <2>4 DEF Kept
<1>16. p[0][1] \in Uses(q)' \cup freeQueue
  <2>1. CASE p[1][1] = p[0][1]
    <3>1. r[0][1] \in ChunksIn(n - 1, r)
      BY <1>10 DEF ChunksIn
    <3>2. QED
      BY <1>10, <1>11, <1>13, <2>1, <3>1 DEF Uses
  <2>2. CASE p[1][1] # p[0][1]
    <3>1. Left(q) /\ p[0] = reader[q].last
      BY <1>0, <1>1, <1>2, <1>4, <2>2, QueueFacts DEF Turns
    <3>2. QED
      BY <3>1 DEF Left
  <2>3. QED
    BY <2>1, <2>2
<1>17. \A s \in Queues : Uses(s)' \subseteq Uses(s)
  BY <1>13, <1>15
<1>18. Placed'
  <2>1. \A s, t \in Queues : s # t => Uses(s)' \cap Uses(t)' = {}
    BY <1>0, <1>17 DEF Placed
  <2>2. \A s \in Queues : Uses(s)' \cap (pool' \cup heap' \cup Held') = {}
    BY <1>0, <1>1, <1>15, <1>17 DEF Placed
  <2>3. \A i \in 1 .. n - 1 : r[i][1] \notin freeQueue
    <3>1. \A i \in 1 .. n - 1 : i \in 0 .. n - 1
      BY <1>10
    <3>2. QED
      BY <1>0, <1>2, <1>11, <3>1 DEF Placed
  <2>4. \A s \in Queues : \A i \in 1 .. Unread(s)' : Path(s)'[i][1] \notin freeQueue'
    BY <1>0, <1>1, <1>10, <1>13, <1>15, <2>3 DEF Placed
  <2>5. \A c \in Chunks : \/ c \in pool' \cup heap' \cup freeQueue' \cup Held'
                          \/ \E s \in Queues : c \in Uses(s)'
    <3>1. ASSUME NEW c \in Chunks, NEW s \in Queues, c \in Uses(s)
          PROVE  c \in freeQueue \/ \E t \in Queues : c \in Uses(t)'
      BY <1>13, <1>15, <1>16, <3>1
    <3>2. QED
      BY <1>0, <1>1, <1>15, <3>1 DEF Placed
  <2>6. QED
    BY <1>0, <1>1, <1>15, <2>1, <2>2, <2>4, <2>5 DEF Placed
<1>19. Turns'
  <2>1. ASSUME NEW s \in Queues, s # q
        PROVE  reader[s].pc = "read" /\ ~Left(s) /\ s # None
    <3>1. s # None
      BY MemoryAssumption
    <3>2. QED
      BY <1>0, <1>1, <2>1, <3>1 DEF Turns
  <2>2. ~Left(q)'
    BY <1>0, <1>1, <1>2, <1>4, <1>7 DEF Left, Placed
  <2>3. reader[q].chunk = None
    BY <1>0, <1>1 DEF Turns
  <2>4. QED
    BY <1>0, <1>1, <1>7, <1>15, <2>1, <2>2, <2>3 DEF Turns
<1>20. Effect
  <2>1. ASSUME NEW s \in Queues, s # q PROVE Extends(s)
    <3>1. Good(s, Path(s)) /\ Same(s) /\ Kept(s)
      BY <1>0, <1>9, <2>1 DEF AllGood
    <3>2. Shown(s)' = Shown(s) /\ Executing(s)' = Executing(s)
      BY <1>1, <1>7, <1>15, <2>1 DEF Shown, Executing
    <3>3. QED
      BY <3>1, <3>2, KindsKept DEF Extends
  <2>2. Takes(q)
    <3>1. Executing(q) = "none" /\ Shown(q) > 0 /\ Shown(q)' = Shown(q) - 1
      BY <1>1, <1>3, <1>6, <1>7 DEF Executing, Shown
    <3>2. Executing(q)' = KindAt(q, 1)
      <4>1. memory' = memory /\ reader'[q].last = Path(q)[1] /\ reader'[q].pc = "execute"
        BY <1>1, <1>2, <1>7
      <4>2. Current(q)' = SlotAt(memory, Path(q)[1])
        BY <4>1 DEF Current, At, SlotAt
      <4>3. QED
        BY <4>1, <4>2 DEF Executing, KindAt
    <3>3. \A i \in 1 .. n - 1 : i \in 0 .. n - 1
      BY <1>10
    <3>4. \A i \in 1 .. n - 1 : SlotAt(memory', r[i]).kind = SlotAt(memory, p[i + 1]).kind
      BY <1>1, <1>11, <3>3
    <3>5. \A i \in 1 .. Unread(q) - 1 : KindAt(q, i)' = KindAt(q, i + 1)
      BY <1>2, <1>13, <3>4 DEF KindAt
    <3>6. QED
      BY <1>2, <1>10, <3>1, <3>2, <3>5 DEF Takes
  <2>3. QED
    BY <2>1, <2>2 DEF Effect
<1>21. QED
  BY <1>8, <1>14, <1>18, <1>19, <1>20 DEF IInv

(* The message being executed is destroyed; its link stays.                *)
LEMMA Destroyed ==
  ASSUME TypeOK, AllGood, Placed, NEW q \in Queues, Destroy(q)
  PROVE  /\ memory' \in Memories
         /\ \A s \in Queues : \A i \in 0 .. Unread(s) :
              /\ SlotAt(memory', Path(s)[i]).next = SlotAt(memory, Path(s)[i]).next
              /\ i > 0 \/ s # q => SlotAt(memory', Path(s)[i]) = SlotAt(memory, Path(s)[i])
<1>1. PICK a \in Places : a = reader[q].last /\ a = Path(q)[0] /\ a[1] \in Uses(q)
  BY QueueFacts
<1>2. memory \in Memories
  BY DEF TypeOK, Memories
<1>3. memory' = Mark(memory, a)
  BY <1>1 DEF Destroy, Mark
<1>4. /\ memory' \in Memories
      /\ SlotAt(memory', a).next = SlotAt(memory, a).next
      /\ \A b \in Places : b # a => SlotAt(memory', b) = SlotAt(memory, b)
  BY <1>1, <1>2, <1>3, MarkSlot
<1>5. ASSUME NEW s \in Queues, NEW i \in 0 .. Unread(s)
      PROVE  Path(s)[i] \in Places /\ (Path(s)[i] = a => i = 0 /\ s = q)
  <2>1. Path(s)[i] \in Places /\ Path(s)[i][1] \in Uses(s) /\ Good(s, Path(s))
    BY QueueFacts
  <2>2. Path(s)[i] = a => s = q
    BY <1>1, <2>1 DEF Placed
  <2>3. i = 0 \/ i \in 1 .. Unread(s)
    OBVIOUS
  <2>4. s = q /\ i \in 1 .. Unread(s) => Path(s)[i] # a
    BY <1>1, <2>1, FirstSteps
  <2>5. QED
    BY <2>1, <2>2, <2>3, <2>4
<1>6. QED
  BY <1>4, <1>5

LEMMA ExecuteStep ==
  ASSUME IInv, NEW q \in Queues, reader[q].pc = "execute", Current(q).kind # "switch",
         Destroy(q), reader' = [reader EXCEPT ![q].pc = "read"], busy' = None,
         UNCHANGED <<writer, published, allocator>>
  PROVE  IInv' /\ Effect
<1>0. TypeOK /\ AllGood /\ Placed /\ Turns
  BY DEF IInv
<1>1. /\ writer' = writer /\ pool' = pool /\ freeQueue' = freeQueue
      /\ heap' = heap /\ chunkCount' = chunkCount
      /\ uncounted' = uncounted /\ published' = published
  BY DEF allocator
<1>2. reader \in [Queues -> Readers]
  BY <1>0 DEF TypeOK, Readers
<1>3. /\ reader' \in [Queues -> Readers] /\ reader'[q].pc = "read"
      /\ \A s \in Queues : /\ reader'[s].last = reader[s].last /\ reader'[s].newCount = reader[s].newCount
                           /\ reader'[s].chunk = reader[s].chunk
                           /\ s # q => reader'[s] = reader[s]
  BY <1>2 DEF Readers
<1>4. /\ memory' \in Memories
      /\ \A s \in Queues : \A i \in 0 .. Unread(s) :
           /\ SlotAt(memory', Path(s)[i]).next = SlotAt(memory, Path(s)[i]).next
           /\ i > 0 \/ s # q => SlotAt(memory', Path(s)[i]) = SlotAt(memory, Path(s)[i])
  BY <1>0, Destroyed
<1>5. TypeOK' /\ Typed'
  BY <1>0, <1>1, <1>3, <1>4 DEF TypeOK, Typed, Memories, Writers, Readers
<1>6. \A s \in Queues : Unread(s)' = Unread(s)
  BY <1>1, <1>3 DEF Unread
<1>7. \A s \in Queues : Same(s)
  BY <1>1, <1>3, <1>4, <1>6 DEF Same
<1>8. \A s \in Queues : Kept(s)
  BY <1>0, <1>5, <1>7, SameKept DEF AllGood
<1>9. AllGood'
  BY <1>8 DEF AllGood, Kept
<1>10. \A s \in Queues : /\ Uses(s)' = Uses(s) /\ Unread(s)' = Unread(s) /\ Path(s)' = Path(s)
                         /\ Left(s)' <=> Left(s)
  BY <1>1, <1>3, <1>8 DEF Kept, Left
<1>11. Held' = Held
  BY <1>3 DEF Held
<1>12. Placed'
  BY <1>0, <1>1, <1>10, <1>11 DEF Placed
<1>13. Turns'
  <2>1. ASSUME NEW s \in Queues, s # q
        PROVE  reader[s].pc = "read" /\ ~Left(s) /\ s # None
    <3>1. s # None /\ busy = q
      BY <1>0, MemoryAssumption DEF Turns
    <3>2. QED
      BY <1>0, <2>1, <3>1 DEF Turns
  <2>2. /\ ~Left(q) /\ ~(Unread(q) > 0 /\ Path(q)[1][1] # Path(q)[0][1])
        /\ q # None /\ reader[q].chunk = None
    <3>1. Good(q, Path(q)) /\ ~Left(q) /\ q # None /\ reader[q].chunk = None
      BY <1>0, MemoryAssumption DEF AllGood, Turns
    <3>2. QED
      BY <3>1, FirstSteps
  <2>3. QED
    BY <1>0, <1>3, <1>10, <2>1, <2>2 DEF Turns
<1>14. Effect
  <2>1. ASSUME NEW s \in Queues
        PROVE  /\ \A i \in 1 .. Unread(s) : KindAt(s, i)' = KindAt(s, i)
               /\ Unread(s)' = Unread(s) /\ Unread(s)' >= Unread(s)
    BY <1>0, <1>7, <1>8, KindsKept DEF AllGood
  <2>2. ASSUME NEW s \in Queues, s # q PROVE Shown(s)' = Shown(s) /\ Executing(s)' = Executing(s)
    <3>1. reader[s].pc = "read"
      BY <1>0, <2>2 DEF Turns
    <3>2. QED
      BY <1>1, <1>3, <2>2, <3>1 DEF Shown, Executing
  <2>3. Shown(q)' = Shown(q) /\ Executing(q)' = "none" /\ Executing(q) # "none"
    <3>1. Current(q).kind \in MessageKinds /\ reader[q].pc # "read"
      <4>1. Good(q, Path(q)) /\ 0 \in 0 .. Unread(q) /\ Path(q)[0] = reader[q].last
            /\ reader[q].pc # "read" /\ Current(q) = SlotAt(memory, reader[q].last)
        BY <1>0, QueueFacts
      <4>2. QED
        BY <4>1 DEF Good, Sound, Layout, Chain
    <3>2. QED
      BY <1>1, <1>3, <3>1 DEF Shown, Executing, MessageKinds
  <2>4. QED
    BY <2>1, <2>2, <2>3 DEF Effect, Extends, Ends
<1>15. QED
  BY <1>5, <1>9, <1>12, <1>13, <1>14 DEF IInv

LEMMA SwitchStep == ASSUME IInv, NEW q \in Queues, ExecuteSwitch(q) PROVE IInv' /\ Effect
<1>0. TypeOK /\ AllGood /\ Placed /\ Turns
  BY DEF IInv
<1>1. /\ writer' = writer /\ pool' = pool /\ heap' = heap /\ chunkCount' = chunkCount
      /\ uncounted' = uncounted /\ busy' = busy
      /\ reader' = [reader EXCEPT ![q].newCount = @ + published[q], ![q].pc = "read"]
      /\ published' = [published EXCEPT ![q] = 0]
      /\ freeQueue' = freeQueue \cup {reader[q].last[1]}
      /\ Destroy(q) /\ reader[q].pc = "execute" /\ Current(q).kind = "switch"
  BY DEF ExecuteSwitch
<1>2. PICK k \in Nat : k = reader[q].newCount + published[q]
  BY <1>0 DEF TypeOK
<1>3. reader \in [Queues -> Readers]
      /\ reader' = [reader EXCEPT ![q].newCount = k, ![q].pc = "read"]
  BY <1>0, <1>1, <1>2 DEF TypeOK, Readers
<1>4. /\ reader' \in [Queues -> Readers] /\ reader'[q].newCount = k /\ reader'[q].pc = "read"
      /\ \A s \in Queues : /\ reader'[s].last = reader[s].last /\ reader'[s].chunk = reader[s].chunk
                           /\ s # q => reader'[s] = reader[s]
  BY <1>3 DEF Readers
<1>5. /\ \A s \in Queues : writer[s].pending \in Nat /\ published[s] \in Nat /\ reader[s].newCount \in Nat
      /\ published' \in [Queues -> Nat] /\ published'[q] = 0
      /\ \A s \in Queues : s # q => published'[s] = published[s]
  BY <1>0, <1>1 DEF TypeOK
<1>6. /\ memory' \in Memories
      /\ \A s \in Queues : \A i \in 0 .. Unread(s) :
           /\ SlotAt(memory', Path(s)[i]).next = SlotAt(memory, Path(s)[i]).next
           /\ i > 0 \/ s # q => SlotAt(memory', Path(s)[i]) = SlotAt(memory, Path(s)[i])
  BY <1>0, <1>1, Destroyed
<1>7. /\ reader[q].last[1] \in Chunks /\ reader[q].last[1] \in Uses(q)
      /\ Path(q)[0] = reader[q].last /\ Unread(q) \in Nat
      /\ Unread(q) > 0 => 1 \in 1 .. Unread(q)
      /\ Good(q, Path(q))
  BY <1>0, QueueFacts DEF Places
<1>8. TypeOK' /\ Typed'
  BY <1>0, <1>1, <1>4, <1>5, <1>6, <1>7 DEF TypeOK, Typed, Memories, Writers, Readers
<1>9. \A s \in Queues : Unread(s)' = Unread(s)
  BY <1>1, <1>2, <1>4, <1>5 DEF Unread
<1>10. \A s \in Queues : Same(s)
  BY <1>1, <1>4, <1>6, <1>9 DEF Same
<1>11. \A s \in Queues : Kept(s)
  BY <1>0, <1>8, <1>10, SameKept DEF AllGood
<1>12. AllGood'
  BY <1>11 DEF AllGood, Kept
<1>13. \A s \in Queues : Uses(s)' = Uses(s) /\ Unread(s)' = Unread(s) /\ Path(s)' = Path(s)
  BY <1>11 DEF Kept
<1>14. Held' = Held
  BY <1>4 DEF Held
<1>15. Unread(q) > 0 /\ Path(q)[1][1] # Path(q)[0][1]
  BY <1>1, <1>7, FirstSteps
<1>16. \A i \in 1 .. Unread(q) : Path(q)[i][1] # reader[q].last[1]
  BY <1>7, <1>15, FirstSteps
<1>17. ASSUME NEW s \in Queues, s # q
       PROVE  /\ \A i \in 0 .. Unread(s) : Path(s)[i][1] # reader[q].last[1]
              /\ Left(s)' <=> Left(s)
  <2>1. /\ \A i \in 0 .. Unread(s) : Path(s)[i][1] \in Uses(s)
        /\ reader[s].last[1] \in Uses(s)
    BY <1>0, QueueFacts
  <2>2. reader[q].last[1] \notin Uses(s)
    BY <1>0, <1>7, <1>17 DEF Placed
  <2>3. reader'[s].last = reader[s].last
    BY <1>4
  <2>4. QED
    BY <1>1, <2>1, <2>2, <2>3 DEF Left
<1>18. Placed'
  <2>1. \A s \in Queues : \A i \in 1 .. Unread(s) : Path(s)[i][1] \notin freeQueue'
    <3> SUFFICES ASSUME NEW s \in Queues, NEW i \in 1 .. Unread(s)
                 PROVE  Path(s)[i][1] \notin freeQueue'
      OBVIOUS
    <3>1. Path(s)[i][1] \notin freeQueue
      BY <1>0 DEF Placed
    <3>2. Path(s)[i][1] # reader[q].last[1]
      BY <1>16, <1>17
    <3>3. QED
      BY <1>1, <3>1, <3>2
  <2>2. reader[q].last[1] \notin pool \cup heap \cup Held
    BY <1>0, <1>7 DEF Placed
  <2>3. /\ (pool' \cup heap') \cap freeQueue' = {}
        /\ (pool' \cup heap' \cup freeQueue') \cap Held' = {}
    BY <1>0, <1>1, <1>14, <2>2 DEF Placed
  <2>4. \A c \in Chunks : \/ c \in pool' \cup heap' \cup freeQueue' \cup Held'
                          \/ \E s \in Queues : c \in Uses(s)'
    BY <1>0, <1>1, <1>13, <1>14 DEF Placed
  <2>5. /\ \A s, t \in Queues : s # t => Uses(s)' \cap Uses(t)' = {}
        /\ \A s \in Queues : Uses(s)' \cap (pool' \cup heap' \cup Held') = {}
        /\ pool' \cap heap' = {}
    BY <1>0, <1>1, <1>13, <1>14 DEF Placed
  <2>6. \A s \in Queues : \A i \in 1 .. Unread(s)' : Path(s)'[i][1] \notin freeQueue'
    BY <1>13, <2>1
  <2>7. QED
    BY <2>3, <2>4, <2>5, <2>6 DEF Placed
<1>19. Turns'
  <2>1. \A s \in Queues : s # q => Current(s)' .kind = Current(s).kind
    <3> SUFFICES ASSUME NEW s \in Queues, s # q PROVE Current(s)' = Current(s)
      OBVIOUS
    <3>1. Path(s)[0] = reader[s].last /\ 0 \in 0 .. Unread(s)
      BY <1>0, QueueFacts
    <3>2. SlotAt(memory', reader[s].last) = SlotAt(memory, reader[s].last)
      BY <1>6, <3>1
    <3>3. QED
      BY <1>4, <3>2 DEF Current, At, SlotAt
  <2>2. Left(q)' /\ busy = q /\ reader[q].chunk = None
    BY <1>0, <1>1, <1>4 DEF Left, Turns
  <2>3. QED
    BY <1>0, <1>1, <1>4, <1>13, <1>15, <1>17, <2>1, <2>2 DEF Turns
<1>20. Effect
  <2>1. ASSUME NEW s \in Queues
        PROVE  /\ \A i \in 1 .. Unread(s) : KindAt(s, i)' = KindAt(s, i)
               /\ Unread(s)' = Unread(s) /\ Unread(s)' >= Unread(s)
    BY <1>0, <1>10, <1>11, KindsKept DEF AllGood
  <2>2. ASSUME NEW s \in Queues, s # q PROVE Shown(s)' = Shown(s) /\ Executing(s)' = Executing(s)
    <3>1. reader[s].pc = "read"
      BY <1>0, <1>1, <2>2 DEF Turns
    <3>2. QED
      BY <1>4, <1>5, <2>2, <3>1 DEF Shown, Executing
  <2>3. Shown(q)' = Shown(q) /\ Executing(q)' = "none" /\ Executing(q) # "none"
    <3>1. Current(q).kind \in MessageKinds /\ reader[q].pc # "read"
      <4>1. Good(q, Path(q)) /\ 0 \in 0 .. Unread(q) /\ Path(q)[0] = reader[q].last
            /\ reader[q].pc # "read" /\ Current(q) = SlotAt(memory, reader[q].last)
        BY <1>0, <1>1, QueueFacts
      <4>2. QED
        BY <4>1 DEF Good, Sound, Layout, Chain
    <3>2. QED
      BY <1>2, <1>4, <1>5, <3>1 DEF Shown, Executing, MessageKinds
  <2>4. QED
    BY <2>1, <2>2, <2>3 DEF Effect, Extends, Ends
<1>21. QED
  BY <1>8, <1>12, <1>18, <1>19, <1>20 DEF IInv

Erase(mem, c) == [mem EXCEPT ![c] = RawChunk]

LEMMA EraseChunk ==
  ASSUME NEW mem \in Memories, NEW c \in Chunks
  PROVE  /\ Erase(mem, c) \in Memories
         /\ \A a \in Places : a[1] # c => SlotAt(Erase(mem, c), a) = SlotAt(mem, a)
<1>1. PICK new : new = Erase(mem, c)
  OBVIOUS
<1>2. Raw \in Slots
  BY DEF Raw, Slots
<1>3. PICK e \in [Offsets -> Slots] : e = RawChunk
  BY <1>2 DEF RawChunk
<1>4. new = [mem EXCEPT ![c] = e]
  BY <1>1, <1>3 DEF Erase
<1>5. new \in Memories /\ \A d \in Chunks : d # c => new[d] = mem[d]
  BY <1>3, <1>4 DEF Memories
<1>6. \A a \in Places : a[1] # c => SlotAt(new, a) = SlotAt(mem, a)
  BY <1>5 DEF Places, SlotAt
<1>7. QED
  BY <1>1, <1>5, <1>6

(* A chunk in the free queue that no queue uses moves: only what it holds  *)
(* may change.                                                             *)
LEMMA MoveChunk ==
  ASSUME IInv, TypeOK', NEW q \in Queues, NEW c \in Chunks,
         \A s \in Queues : c \notin Uses(s),
         \A a \in Places : a[1] # c => SlotAt(memory', a) = SlotAt(memory, a),
         UNCHANGED <<writer, published, busy>>,
         \A s \in Queues : /\ reader'[s].last = reader[s].last
                           /\ reader'[s].newCount = reader[s].newCount
                           /\ s # q => reader'[s] = reader[s],
         reader[q].pc # "read", reader'[q].pc # "read",
         reader'[q].pc \in {"pool", "count"} => Current(q).kind = "free",
         reader'[q].chunk # None <=> reader'[q].pc = "pool",
         \A d \in Chunks : d # c => /\ d \in pool' <=> d \in pool
                                    /\ d \in heap' <=> d \in heap
                                    /\ d \in freeQueue' <=> d \in freeQueue
                                    /\ d \in Held' <=> d \in Held,
         c \in pool' \cup heap' \cup freeQueue' \cup Held',
         ~(c \in pool' /\ c \in heap'), ~(c \in pool' \cup heap' /\ c \in freeQueue'),
         ~(c \in pool' \cup heap' \cup freeQueue' /\ c \in Held')
  PROVE  IInv' /\ Effect
<1>0. /\ TypeOK /\ AllGood /\ Placed /\ Turns
      /\ writer' = writer /\ published' = published /\ busy' = busy
  BY DEF IInv
<1>1. Typed'
  BY DEF TypeOK, Typed, Memories, Writers
<1>2. ASSUME NEW s \in Queues
      PROVE  /\ Kept(s) /\ Same(s) /\ Current(s)' = Current(s)
             /\ \A i \in 0 .. Unread(s) : Path(s)[i][1] \in Chunks /\ Path(s)[i][1] # c
             /\ Left(s)' <=> Left(s)
  <2>1. /\ Good(s, Path(s)) /\ Unread(s) \in Nat /\ Path(s)[0] = reader[s].last
        /\ \A i \in 0 .. Unread(s) : Path(s)[i] \in Places /\ Path(s)[i][1] # c
        /\ reader[s].last \in Places /\ reader[s].last[1] # c
    BY <1>0, QueueFacts
  <2>2. \A i \in 0 .. Unread(s) : SlotAt(memory', Path(s)[i]) = SlotAt(memory, Path(s)[i])
    BY <2>1
  <2>3. Unread(s)' = Unread(s)
    BY <1>0 DEF Unread
  <2>4. reader'[s].pc # "read" => reader[s].pc # "read"
    BY <1>0
  <2>5. Same(s)
    BY <1>0, <2>2, <2>3, <2>4 DEF Same
  <2>6. Kept(s)
    BY <1>1, <2>1, <2>5, SameKept
  <2>7. SlotAt(memory', reader[s].last) = SlotAt(memory, reader[s].last) /\ reader[s].last[1] \in Chunks
    BY <2>1 DEF Places
  <2>8. Current(s)' = Current(s)
    BY <2>7 DEF Current, At, SlotAt
  <2>9. Left(s)' <=> Left(s)
    BY <2>1, <2>7 DEF Left
  <2>10. \A i \in 0 .. Unread(s) : Path(s)[i][1] \in Chunks /\ Path(s)[i][1] # c
    BY <2>1 DEF Places
  <2>11. QED
    BY <2>5, <2>6, <2>8, <2>9, <2>10
<1>3. AllGood'
  BY <1>2 DEF AllGood, Kept
<1>4. \A s \in Queues : Uses(s)' = Uses(s) /\ Unread(s)' = Unread(s) /\ Path(s)' = Path(s)
  BY <1>2 DEF Kept
<1>5. pool' \subseteq Chunks /\ heap' \subseteq Chunks /\ freeQueue' \subseteq Chunks /\ Held' \subseteq Chunks
  BY DEF TypeOK, Held
<1>6. Placed'
  <2>1. \A s, t \in Queues : s # t => Uses(s)' \cap Uses(t)' = {}
    BY <1>0, <1>4 DEF Placed
  <2>2. \A s \in Queues : Uses(s)' \cap (pool' \cup heap' \cup Held') = {}
    BY <1>0, <1>4, <1>5 DEF Placed
  <2>3. \A s \in Queues : \A i \in 1 .. Unread(s)' : Path(s)'[i][1] \notin freeQueue'
    <3>1. ASSUME NEW s \in Queues, NEW i \in 1 .. Unread(s) PROVE Path(s)[i][1] \notin freeQueue'
      <4>1. i \in 0 .. Unread(s) /\ Path(s)[i][1] \notin freeQueue
        BY <1>0, QueueFacts DEF Placed
      <4>2. QED
        BY <1>2, <4>1
    <3>2. QED
      BY <1>4, <3>1
  <2>4. /\ pool' \cap heap' = {} /\ (pool' \cup heap') \cap freeQueue' = {}
        /\ (pool' \cup heap' \cup freeQueue') \cap Held' = {}
    BY <1>0, <1>5 DEF Placed
  <2>5. \A d \in Chunks : \/ d \in pool' \cup heap' \cup freeQueue' \cup Held'
                          \/ \E s \in Queues : d \in Uses(s)'
    BY <1>0, <1>4 DEF Placed
  <2>6. QED
    BY <2>1, <2>2, <2>3, <2>4, <2>5 DEF Placed
<1>7. Turns'
  <2> SUFFICES ASSUME NEW s \in Queues
               PROVE  /\ reader'[s].pc # "read" => busy = s /\ ~Left(s)
                      /\ reader'[s].pc = "read" =>
                           /\ busy = s <=> Left(s)
                           /\ Left(s) <=> Unread(s) > 0 /\ Path(s)[1][1] # Path(s)[0][1]
                      /\ reader'[s].pc \in {"pool", "count"} => Current(s).kind = "free"
                      /\ reader'[s].chunk # None <=> reader'[s].pc = "pool"
    BY <1>0, <1>2, <1>4 DEF Turns
  <2>1. CASE s = q
    BY <1>0, <2>1 DEF Turns
  <2>2. CASE s # q
    <3>1. reader'[s] = reader[s]
      BY <2>2
    <3>2. QED
      BY <1>0, <3>1 DEF Turns
  <2>3. QED
    BY <2>1, <2>2
<1>8. ASSUME NEW s \in Queues PROVE Extends(s)
  <2>1. Good(s, Path(s)) /\ Same(s) /\ Kept(s)
    BY <1>0, <1>2 DEF AllGood
  <2>2. reader'[s].pc = "read" <=> reader[s].pc = "read"
    BY <1>0
  <2>3. Shown(s)' = Shown(s) /\ Executing(s)' = Executing(s)
    BY <1>0, <1>2, <2>2 DEF Shown, Executing
  <2>4. QED
    BY <2>1, <2>3, KindsKept DEF Extends
<1>9. QED
  BY <1>3, <1>6, <1>7, <1>8 DEF IInv, Effect

LEMMA FreeChunkUnused ==
  ASSUME IInv, NEW q \in Queues, reader[q].pc # "read", NEW c \in freeQueue
  PROVE  \A s \in Queues : c \notin Uses(s)
<1>0. TypeOK /\ AllGood /\ Placed /\ Turns
  BY DEF IInv
<1> SUFFICES ASSUME NEW s \in Queues, c \in Uses(s) PROVE FALSE
  OBVIOUS
<1>1. PICK i \in 0 .. Unread(s) : c = Path(s)[i][1]
  BY <1>0, QueueFacts
<1>2. i = 0
  BY <1>0, <1>1 DEF Placed
<1>3. Left(s)
  BY <1>0, <1>1, <1>2, QueueFacts DEF Left
<1>4. reader[s].pc = "read" /\ busy = s /\ busy = q
  BY <1>0, <1>3 DEF Turns
<1>5. QED
  BY <1>4

LEMMA TakeFreeStep == ASSUME IInv, NEW q \in Queues, TakeFreeChunk(q) PROVE IInv' /\ Effect
<1>0. TypeOK /\ AllGood /\ Placed /\ Turns
  BY DEF IInv
<1>1. /\ writer' = writer /\ pool' = pool /\ chunkCount' = chunkCount
      /\ uncounted' = uncounted /\ busy' = busy /\ published' = published
      /\ reader[q].pc = "execute" /\ Current(q).kind = "free"
  BY DEF TakeFreeChunk
<1>2. PICK c \in freeQueue :
        /\ freeQueue' = freeQueue \ {c}
        /\ \/ /\ heap' = heap \cup {c}
              /\ memory' = [memory EXCEPT ![c] = RawChunk]
              /\ reader' = reader
           \/ /\ reader' = [reader EXCEPT ![q].pc = "pool", ![q].chunk = c]
              /\ Forget(c)
              /\ heap' = heap
  BY DEF TakeFreeChunk
<1>3. c \in Chunks /\ c # None /\ memory \in Memories /\ reader \in [Queues -> Readers]
  BY <1>0, <1>2, MemoryAssumption DEF TypeOK, Memories, Readers
<1>4. \A s \in Queues : c \notin Uses(s)
  BY <1>1, <1>2, FreeChunkUnused
<1>5. memory' = memory \/ memory' = Erase(memory, c)
  BY <1>2 DEF Forget, Erase
<1>6. memory' \in Memories /\ \A a \in Places : a[1] # c => SlotAt(memory', a) = SlotAt(memory, a)
  BY <1>3, <1>5, EraseChunk
<1>7. c \notin pool /\ c \notin heap /\ c \notin Held
  BY <1>0, <1>2 DEF Placed
<1>8. \A s \in Queues : reader[s].chunk = None
  <2>1. busy = q
    BY <1>0, <1>1 DEF Turns
  <2>2. QED
    BY <1>0, <1>1, <2>1 DEF Turns
<1>9. Held = {}
  BY <1>8 DEF Held
<1>10. CASE heap' = heap \cup {c} /\ reader' = reader
  <2>1. TypeOK'
    BY <1>0, <1>1, <1>2, <1>3, <1>6, <1>10 DEF TypeOK, Memories
  <2>2. Held' = {}
    BY <1>9, <1>10 DEF Held
  <2>3. /\ reader'[q].pc # "read" /\ reader'[q].pc \notin {"pool", "count"} /\ reader'[q].chunk = None
        /\ reader[q].pc # "read"
    BY <1>1, <1>8, <1>10
  <2>4. \A d \in Chunks : d # c => /\ d \in pool' <=> d \in pool
                                   /\ d \in heap' <=> d \in heap
                                   /\ d \in freeQueue' <=> d \in freeQueue
                                   /\ d \in Held' <=> d \in Held
    BY <1>1, <1>2, <1>9, <1>10, <2>2
  <2>5. /\ c \in pool' \cup heap' \cup freeQueue' \cup Held'
        /\ ~(c \in pool' /\ c \in heap') /\ ~(c \in pool' \cup heap' /\ c \in freeQueue')
        /\ ~(c \in pool' \cup heap' \cup freeQueue' /\ c \in Held')
    BY <1>1, <1>2, <1>7, <1>10, <2>2
  <2>6. UNCHANGED <<writer, published, busy>>
    BY <1>1
  <2>7. reader'[q].chunk # None <=> reader'[q].pc = "pool"
    BY <2>3
  <2>8. QED
    BY <1>3, <1>4, <1>6, <1>10, <2>1, <2>3, <2>4, <2>5, <2>6, <2>7, MoveChunk
<1>11. CASE reader' = [reader EXCEPT ![q].pc = "pool", ![q].chunk = c] /\ heap' = heap
  <2>1. PICK k \in Chunks \cup {None} : k = c
    BY <1>3
  <2>2. reader' = [reader EXCEPT ![q].pc = "pool", ![q].chunk = k]
    BY <1>11, <2>1
  <2>3. /\ reader' \in [Queues -> Readers] /\ reader'[q].pc = "pool" /\ reader'[q].chunk = k
        /\ \A s \in Queues : /\ reader'[s].last = reader[s].last
                             /\ reader'[s].newCount = reader[s].newCount
                             /\ s # q => reader'[s] = reader[s]
    BY <1>3, <2>1, <2>2 DEF Readers
  <2>4. TypeOK'
    BY <1>0, <1>1, <1>2, <1>3, <1>6, <1>11, <2>3 DEF TypeOK, Memories, Readers
  <2>5. Held' = {c}
    <3>1. \A s \in Queues : reader'[s].chunk = IF s = q THEN c ELSE None
      BY <1>8, <2>1, <2>3
    <3>2. QED
      BY <1>3, <3>1 DEF Held
  <2>6. \A d \in Chunks : d # c => /\ d \in pool' <=> d \in pool
                                   /\ d \in heap' <=> d \in heap
                                   /\ d \in freeQueue' <=> d \in freeQueue
                                   /\ d \in Held' <=> d \in Held
    BY <1>1, <1>2, <1>9, <1>11, <2>5
  <2>7. /\ c \in pool' \cup heap' \cup freeQueue' \cup Held'
        /\ ~(c \in pool' /\ c \in heap') /\ ~(c \in pool' \cup heap' /\ c \in freeQueue')
        /\ ~(c \in pool' \cup heap' \cup freeQueue' /\ c \in Held')
    BY <1>1, <1>2, <1>7, <1>11, <2>5
  <2>8. UNCHANGED <<writer, published, busy>> /\ reader[q].pc # "read" /\ reader'[q].pc # "read"
    BY <1>1, <2>3
  <2>9. reader'[q].chunk # None <=> reader'[q].pc = "pool"
    BY <1>3, <2>1, <2>3
  <2>10. QED
    BY <1>1, <1>3, <1>4, <1>6, <2>3, <2>4, <2>6, <2>7, <2>8, <2>9, MoveChunk
<1>12. QED
  BY <1>2, <1>10, <1>11

LEMMA PoolStep == ASSUME IInv, NEW q \in Queues, PoolChunk(q) PROVE IInv' /\ Effect
<1>0. TypeOK /\ AllGood /\ Placed /\ Turns
  BY DEF IInv
<1>1. /\ memory' = memory /\ writer' = writer /\ chunkCount' = chunkCount
      /\ uncounted' = uncounted /\ busy' = busy
      /\ published' = published /\ freeQueue' = freeQueue /\ heap' = heap
      /\ reader[q].pc = "pool" /\ pool' = pool \cup {reader[q].chunk}
      /\ reader' = [reader EXCEPT ![q].pc = "count", ![q].chunk = None]
  BY DEF PoolChunk
<1>2. reader \in [Queues -> Readers]
  BY <1>0 DEF TypeOK, Readers
<1>3. PICK c \in Chunks : c = reader[q].chunk /\ c # None
  BY <1>0, <1>1, <1>2, MemoryAssumption DEF Turns, Readers
<1>4. /\ reader' \in [Queues -> Readers] /\ reader'[q].pc = "count" /\ reader'[q].chunk = None
      /\ \A s \in Queues : /\ reader'[s].last = reader[s].last
                           /\ reader'[s].newCount = reader[s].newCount
                           /\ s # q => reader'[s] = reader[s]
  BY <1>1, <1>2 DEF Readers
<1>5. TypeOK'
  BY <1>0, <1>1, <1>3, <1>4 DEF TypeOK, Readers
<1>6. \A s \in Queues : s # q => reader[s].chunk = None
  <2>1. busy = q
    BY <1>0, <1>1 DEF Turns
  <2>2. QED
    BY <1>0, <2>1 DEF Turns
<1>7. Held = {c}
  <2>1. \A s \in Queues : reader[s].chunk = IF s = q THEN c ELSE None
    BY <1>3, <1>6
  <2>2. QED
    BY <1>3, <2>1 DEF Held
<1>8. Held' = {}
  <2>1. \A s \in Queues : reader'[s].chunk = None
    BY <1>4, <1>6
  <2>2. QED
    BY <2>1 DEF Held
<1>9. /\ \A s \in Queues : c \notin Uses(s)
      /\ c \notin pool /\ c \notin heap /\ c \notin freeQueue
  BY <1>0, <1>7 DEF Placed
<1>10. \A d \in Chunks : d # c => /\ d \in pool' <=> d \in pool
                                  /\ d \in heap' <=> d \in heap
                                  /\ d \in freeQueue' <=> d \in freeQueue
                                  /\ d \in Held' <=> d \in Held
  BY <1>1, <1>3, <1>7, <1>8
<1>11. /\ c \in pool' \cup heap' \cup freeQueue' \cup Held'
       /\ ~(c \in pool' /\ c \in heap') /\ ~(c \in pool' \cup heap' /\ c \in freeQueue')
       /\ ~(c \in pool' \cup heap' \cup freeQueue' /\ c \in Held')
  BY <1>1, <1>3, <1>8, <1>9
<1>12. /\ UNCHANGED <<writer, published, busy>> /\ reader[q].pc # "read" /\ reader'[q].pc # "read"
       /\ \A a \in Places : a[1] # c => SlotAt(memory', a) = SlotAt(memory, a)
       /\ Current(q).kind = "free"
  BY <1>0, <1>1, <1>4 DEF Turns
<1>13. reader'[q].chunk # None <=> reader'[q].pc = "pool"
  BY <1>4
<1>14. QED
  BY <1>3, <1>4, <1>5, <1>9, <1>10, <1>11, <1>12, <1>13, MoveChunk

------------------------------------------------------------------------------
(* Each queue begins with a chunk of its own.                              *)
LEMMA FirstChunks ==
  FirstChunk \in [Queues -> Chunks] /\ \A q, r \in Queues : FirstChunk[q] = FirstChunk[r] => q = r
<1>1. PICK m \in Nat, n \in Nat : m = Cardinality(Queues) /\ n = Cardinality(Chunks) /\ m <= n
  BY MemoryAssumption, FS_CardinalityType
<1>2. ExistsBijection(1 .. m, Queues) /\ ExistsBijection(1 .. n, Chunks)
  BY <1>1, MemoryAssumption, FS_CardinalityType
<1>3. PICK a \in Bijection(1 .. m, Queues), b \in Bijection(1 .. n, Chunks) : TRUE
  BY <1>2 DEF ExistsBijection
<1>4. /\ a \in [1 .. m -> Queues] /\ \A q \in Queues : \E i \in 1 .. m : a[i] = q
      /\ b \in [1 .. n -> Chunks] /\ \A i, j \in 1 .. n : b[i] = b[j] => i = j
  BY <1>3 DEF Bijection, Injection, Surjection, IsInjective
<1> DEFINE at == [q \in Queues |-> CHOOSE i \in 1 .. m : a[i] = q]
           f == [q \in Queues |-> b[at[q]]]
<1>5. \A q \in Queues : at[q] \in 1 .. m /\ a[at[q]] = q
  BY <1>4
<1> HIDE DEF at
<1>6. \A q \in Queues : at[q] \in 1 .. n
  BY <1>1, <1>5
<1>7. f \in [Queues -> Chunks]
  BY <1>4, <1>6
<1>8. \A q, r \in Queues : f[q] = f[r] => q = r
  <2> SUFFICES ASSUME NEW q \in Queues, NEW r \in Queues, f[q] = f[r] PROVE q = r
    OBVIOUS
  <2>1. b[at[q]] = b[at[r]]
    OBVIOUS
  <2>2. at[q] = at[r]
    BY <1>4, <1>6, <2>1
  <2>3. QED
    BY <1>5, <2>2
<1> HIDE DEF f
<1>9. QED
  BY <1>7, <1>8 DEF FirstChunk

LEMMA Initially == ASSUME Init PROVE IInv
<1>0. PICK first \in [Queues -> Chunks] :
        first = FirstChunk /\ \A q, r \in Queues : first[q] = first[r] => q = r
  BY FirstChunks
<1> DEFINE slot(c) == [queue |-> CHOOSE q \in Queues : c = first[q],
                       kind |-> "dummy", next |-> <<c, 1>>]
<1>1. /\ memory = [c \in Chunks |-> [o \in Offsets |->
           IF o = 0 /\ \E q \in Queues : c = first[q] THEN slot(c) ELSE Raw]]
      /\ writer = [q \in Queues |-> [chunk |-> first[q], last |-> <<first[q], 0>>,
                                     offset |-> 1, pending |-> 0]]
      /\ published = [q \in Queues |-> 0]
      /\ reader = [q \in Queues |-> [last |-> <<first[q], 0>>, newCount |-> 0,
                                     pc |-> "read", chunk |-> None]]
      /\ pool = {} /\ chunkCount = 0 /\ uncounted = FALSE /\ freeQueue = {}
      /\ heap = Chunks \ {first[q] : q \in Queues}
      /\ busy = None
  BY <1>0 DEF Init
<1>2. 0 \in Offsets /\ 0 \in 0 .. ChunkSize /\ 1 \in 0 .. ChunkSize /\ 1 <= ChunkSize - 1
  BY MemoryAssumption DEF Offsets
<1>3. memory \in Memories
  <2>1. \A c \in Chunks : (\E q \in Queues : c = first[q]) => slot(c) \in Slots
    BY <1>2 DEF Slots, MessageKinds, Addresses
  <2>2. Raw \in Slots
    BY DEF Raw, Slots
  <2> HIDE DEF slot
  <2>3. QED
    BY <1>1, <2>1, <2>2 DEF Memories
<1>4. writer \in [Queues -> Writers] /\ reader \in [Queues -> Readers]
  BY <1>0, <1>1, <1>2 DEF Writers, Readers, Addresses
<1>5. TypeOK
  <2>1. published \in [Queues -> Nat] /\ pool \subseteq Chunks /\ freeQueue \subseteq Chunks
        /\ heap \subseteq Chunks /\ chunkCount \in Int /\ busy \in Queues \cup {None}
    BY <1>1
  <2>2. uncounted \in BOOLEAN
    BY <1>1, Zenon
  <2>3. QED
    BY <1>3, <1>4, <2>1, <2>2 DEF TypeOK, Memories, Writers, Readers
<1>6. ASSUME NEW q \in Queues
      PROVE  /\ reader[q].last = <<first[q], 0>> /\ reader[q].newCount = 0 /\ reader[q].pc = "read"
             /\ reader[q].chunk = None /\ published[q] = 0
             /\ writer[q].last = <<first[q], 0>> /\ writer[q].chunk = first[q]
             /\ writer[q].offset = 1 /\ writer[q].pending = 0
  BY <1>1
<1>7. ASSUME NEW q \in Queues
      PROVE  /\ Good(q, Path(q)) /\ Unread(q) = 0 /\ Path(q)[0] = <<first[q], 0>>
             /\ Uses(q) = {first[q]}
  <2>1. Unread(q) = 0
    BY <1>6 DEF Unread
  <2> DEFINE a == <<first[q], 0>>
             p == [i \in 0 .. 0 |-> a]
  <2>2. a \in Places /\ a[1] = first[q] /\ a[2] = 0 /\ first[q] \in Chunks
    BY <1>0, <1>2 DEF Places
  <2>3. SlotAt(memory, a).next = <<first[q], 1>>
    <3>1. SlotAt(memory, a) = slot(first[q])
      BY <1>1, <1>2, <2>2 DEF SlotAt
    <3>2. QED
      BY <3>1
  <2>4. p \in [0 .. 0 -> Places] /\ p[0] = a
    BY <2>2
  <2> HIDE DEF a, p
  <2>5. Chain(memory, FALSE, 0, p)
    BY <2>4 DEF Chain
  <2>6. WriterAt(memory, writer[q], FALSE, 0, p[0])
    BY <1>2, <1>6, <2>2, <2>3, <2>4 DEF WriterAt, a
  <2>7. Layout(q).memory = memory /\ Layout(q).writer = writer[q] /\ (reader[q].pc # "read") = FALSE
    BY <1>6 DEF Layout
  <2>8. Sound(Layout(q), FALSE, 0, p)
    BY <1>3, <1>4, <2>5, <2>6, <2>7 DEF Sound
  <2>9. Good(q, p)
    <3>1. Sound(Layout(q), reader[q].pc # "read", Unread(q), p)
      BY <2>1, <2>7, <2>8
    <3>2. p[0] = reader[q].last
      BY <1>6, <2>4 DEF a
    <3>3. Unread(q) \in Nat
      BY <2>1
    <3>4. QED
      BY <3>1, <3>2, <3>3 DEF Good
  <2>10. Path(q) = p
    BY <2>9, PathGood DEF GoodPath
  <2>11. Uses(q) = {first[q]}
    BY <2>1, <2>2, <2>4, <2>10 DEF Uses, ChunksIn
  <2>12. QED
    BY <2>1, <2>4, <2>9, <2>10, <2>11 DEF a
<1>8. AllGood
  BY <1>7 DEF AllGood
<1>9. Held = {}
  BY <1>6 DEF Held
<1>10. Placed
  <2>1. \A q, r \in Queues : q # r => Uses(q) \cap Uses(r) = {}
    BY <1>0, <1>7
  <2>2. \A c \in Chunks : \/ c \in pool \cup heap \cup freeQueue \cup Held
                          \/ \E q \in Queues : c \in Uses(q)
    BY <1>1, <1>7
  <2>3. \A q \in Queues : Uses(q) \cap (pool \cup heap \cup Held) = {}
    BY <1>1, <1>7, <1>9
  <2>4. QED
    BY <1>1, <1>9, <2>1, <2>2, <2>3 DEF Placed
<1>11. Turns
  <2>1. \A q \in Queues : ~Left(q) /\ q # None
    BY <1>1, MemoryAssumption DEF Left
  <2>2. QED
    BY <1>1, <1>6, <1>7, <2>1 DEF Turns
<1>12. QED
  BY <1>5, <1>8, <1>10, <1>11 DEF IInv

(* The end of a request: no path and no chunk changes.                     *)
LEMMA CountRequestStep == ASSUME IInv, CountRequest PROVE IInv' /\ Effect
<1>1. /\ memory' = memory /\ writer' = writer /\ published' = published /\ reader' = reader
      /\ pool' = pool /\ freeQueue' = freeQueue /\ heap' = heap /\ busy' = busy
      /\ chunkCount' = chunkCount - 1 /\ uncounted' = FALSE
  BY DEF CountRequest
<1>2. TypeOK'
  <2>1. uncounted' \in BOOLEAN
    BY <1>1, Zenon
  <2>2. chunkCount' \in Int
    BY <1>1 DEF IInv, TypeOK
  <2>3. QED
    BY <1>1, <2>1, <2>2 DEF IInv, TypeOK
<1>3. \A s \in Queues : Unread(s)' = Unread(s) /\ Current(s)' = Current(s)
  BY <1>1 DEF Unread, Current, At
<1>4. \A s \in Queues : Same(s)
  BY <1>1, <1>3 DEF Same
<1>5. IInv' /\ \A s \in Queues : Kept(s)
  BY <1>1, <1>2, <1>3, <1>4, QuietStep
<1>6. ASSUME NEW s \in Queues PROVE Extends(s)
  <2>1. Good(s, Path(s)) /\ Same(s) /\ Kept(s)
    BY <1>4, <1>5 DEF IInv, AllGood
  <2>2. Shown(s)' = Shown(s) /\ Executing(s)' = Executing(s)
    BY <1>1, <1>3 DEF Shown, Executing
  <2>3. QED
    BY <2>1, <2>2, KindsKept DEF Extends
<1>7. QED
  BY <1>5, <1>6 DEF Effect

LEMMA EachStep == ASSUME IInv, [Next]_vars, ~ParallelFlush PROVE IInv' /\ Effect
<1>1. ASSUME NEW q \in Queues, NEW kind \in {"work", "free", "data"}, Allocate(q, kind),
             UNCHANGED <<published, reader, busy>>
      PROVE  IInv' /\ Effect
  <2>1. TypeOK /\ AllGood /\ Placed
    BY DEF IInv
  <2>2. PICK m, r, e : Allocated(q, m, r, e)
    BY <1>1, <2>1, AllocationGrows
  <2>3. QED
    BY <1>1, <2>2, AllocateStep
<1>2. ASSUME NEW q \in Queues, Write(q) PROVE IInv' /\ Effect
  BY <1>1, <1>2 DEF Write
<1>3. ASSUME NEW q \in Queues, Push(q) PROVE IInv' /\ Effect
  BY <1>3, PushStep
<1>4. ASSUME NEW q \in Queues, FreeChunksInFreeQueue(q) PROVE IInv' /\ Effect
  BY <1>1, <1>4 DEF FreeChunksInFreeQueue
<1>5. ASSUME NEW q \in Queues, ReadMessage(q) PROVE IInv' /\ Effect
  BY <1>5, TakeStep, SnapshotStep
<1>6. ASSUME NEW q \in Queues, ExecutePlain(q) PROVE IInv' /\ Effect
  BY <1>6, ExecuteStep DEF ExecutePlain
<1>7. ASSUME NEW q \in Queues, ExecuteSwitch(q) PROVE IInv' /\ Effect
  BY <1>7, SwitchStep
<1>8. ASSUME NEW q \in Queues, TakeFreeChunk(q) PROVE IInv' /\ Effect
  BY <1>8, TakeFreeStep
<1>9. ASSUME NEW q \in Queues, PoolChunk(q) PROVE IInv' /\ Effect
  BY <1>9, PoolStep
<1>10. ASSUME NEW q \in Queues, CountChunk(q) PROVE IInv' /\ Effect
  BY <1>10, CountStep
<1>11. ASSUME NEW q \in Queues, FreeDone(q) PROVE IInv' /\ Effect
  BY <1>11, ExecuteStep DEF FreeDone
<1>12. ASSUME CountRequest PROVE IInv' /\ Effect
  BY <1>12, CountRequestStep
<1>13. CASE UNCHANGED vars
  <2>1. /\ memory' = memory /\ writer' = writer /\ published' = published /\ reader' = reader
        /\ pool' = pool /\ chunkCount' = chunkCount
        /\ uncounted' = uncounted /\ freeQueue' = freeQueue /\ heap' = heap
        /\ busy' = busy
    BY <1>13 DEF vars
  <2>2. TypeOK'
    BY <2>1 DEF IInv, TypeOK
  <2>3. \A s \in Queues : Unread(s)' = Unread(s) /\ Current(s)' = Current(s)
    BY <2>1 DEF Unread, Current, At
  <2>4. \A s \in Queues : Same(s)
    BY <2>1, <2>3 DEF Same
  <2>5. IInv' /\ \A s \in Queues : Kept(s)
    BY <2>1, <2>2, <2>3, <2>4, QuietStep
  <2>6. ASSUME NEW s \in Queues PROVE Extends(s)
    <3>1. Good(s, Path(s)) /\ Same(s) /\ Kept(s)
      BY <2>4, <2>5 DEF IInv, AllGood
    <3>2. Shown(s)' = Shown(s) /\ Executing(s)' = Executing(s)
      BY <2>1, <2>3 DEF Shown, Executing
    <3>3. QED
      BY <3>1, <3>2, KindsKept DEF Extends
  <2>7. QED
    BY <2>5, <2>6 DEF Effect
<1>14. CASE Next
  BY <1>2, <1>3, <1>4, <1>5, <1>6, <1>7, <1>8, <1>9, <1>10, <1>11, <1>12, <1>14
  DEF Next, MainThread, Consumer
<1>15. QED
  BY <1>13, <1>14

(* As long as one device thread reads all queues, the inductive invariant  *)
(* holds (MessageQueue::allocateImpl, readMessage and MemoryAllocator).    *)
THEOREM MemoryInvariance == ASSUME ~ParallelFlush PROVE Spec => []IInv
<1>1. Init => IInv
  BY Initially
<1>2. IInv /\ [Next]_vars => IInv'
  BY EachStep
<1>3. QED
  BY <1>1, <1>2, PTL DEF Spec

------------------------------------------------------------------------------
(* The state keeps its type: no message is written past the end of its     *)
(* chunk, and the counts of messages never go below zero.                  *)
THEOREM MemoryTypeCorrect == ASSUME ~ParallelFlush PROVE Spec => []TypeOK
<1>1. IInv => TypeOK
  BY DEF IInv
<1>2. QED
  BY <1>1, MemoryInvariance, PTL

(* A switch message is in a chunk that is recycled before the reader reads *)
(* its link to the next chunk; the chunk is not handed out until then.     *)
THEOREM LinkStillThere == ASSUME ~ParallelFlush PROVE Spec => []LastReadStillAllocated
<1>1. IInv => LastReadStillAllocated
  <2> SUFFICES ASSUME IInv, NEW q \in Queues PROVE reader[q].last[1] \notin pool \cup heap
    BY DEF LastReadStillAllocated
  <2>1. TypeOK /\ AllGood /\ Placed
    BY DEF IInv
  <2>2. reader[q].last[1] \in Uses(q)
    BY <2>1, QueueFacts
  <2>3. QED
    BY <2>1, <2>2 DEF Placed
<1>2. QED
  BY <1>1, MemoryInvariance, PTL

(* The assertion of readMessage (MessageQueue.cpp:247): a reader that has  *)
(* messages to read finds a link to the next.                              *)
THEOREM LinkFound == ASSUME ~ParallelFlush PROVE Spec => []NextMessageExists
<1>1. IInv => NextMessageExists
  <2> SUFFICES ASSUME IInv, NEW q \in Queues, reader[q].newCount > 0
               PROVE  Current(q).next # Nowhere
    BY DEF NextMessageExists
  <2>1. TypeOK /\ AllGood
    BY DEF IInv
  <2>2. reader[q].newCount \in Nat /\ published[q] \in Nat /\ writer[q].pending \in Nat
    BY <2>1 DEF TypeOK
  <2>3. Unread(q) > 0
    BY <2>2 DEF Unread
  <2>4. Good(q, Path(q)) /\ Path(q)[1] \in Places
    BY <2>1, <2>3, QueueFacts
  <2>5. Current(q).next \in Places
    BY <2>3, <2>4, FirstSteps
  <2>6. QED
    BY <2>5, MemoryAssumption DEF Places, Nowhere
<1>2. QED
  BY <1>1, MemoryInvariance, PTL

(* What the property calls the chunks of a queue are those on its path,    *)
(* but for the one its reader has left.                                    *)
LEMMA ChunksOfUses ==
  ASSUME TypeOK, AllGood, Placed, Turns, NEW q \in Queues
  PROVE  ChunksOf(q) = Uses(q) \ freeQueue
<1>1. PICK n \in Nat, p \in {Path(q)} : n = Unread(q) /\ p = Path(q)
  BY QueueFacts
<1>2. /\ Good(q, Path(q)) /\ p[0] = reader[q].last /\ writer[q].chunk \in Uses(q)
      /\ \A i \in 0 .. n : p[i][1] \in Uses(q)
      /\ \A c \in Uses(q) : \E i \in 0 .. n : c = p[i][1]
  BY <1>1, QueueFacts
<1>3. {a[1] : a \in Ahead(q)} = {p[i][1] : i \in 1 .. n}
  <2>1. \A i \in 1 .. n : p[i] = Walk(q, n)[i]
    BY <1>1 DEF Path
  <2>2. Ahead(q) = {p[i] : i \in 1 .. n}
    BY <1>1, <2>1 DEF Ahead
  <2>3. QED
    BY <2>2
<1>4. \A i \in 1 .. n : p[i][1] \notin freeQueue
  BY <1>1 DEF Placed
<1>5. writer[q].chunk = p[n][1] /\ (n > 0 => writer[q].chunk \notin freeQueue)
  <2>1. writer[q].chunk = p[n][1]
    BY <1>1, <1>2 DEF Good, Sound, Layout, WriterAt
  <2>2. QED
    BY <1>4, <2>1
<1>6. CASE Left(q)
  <2>1. reader[q].pc = "read" /\ n > 0 /\ p[0][1] \in freeQueue
    BY <1>1, <1>2, <1>6 DEF Turns, Left
  <2>2. ChunksOf(q) = {p[i][1] : i \in 1 .. n}
    <3>1. writer[q].chunk \in {p[i][1] : i \in 1 .. n}
      BY <1>5, <2>1
    <3>2. QED
      BY <1>3, <2>1, <3>1 DEF ChunksOf
  <2>3. \A c \in Uses(q) : c \in freeQueue \/ \E i \in 1 .. n : c = p[i][1]
    <3>1. \A i \in 0 .. n : i = 0 \/ i \in 1 .. n
      OBVIOUS
    <3>2. QED
      BY <1>2, <2>1, <3>1
  <2>4. \A i \in 1 .. n : i \in 0 .. n
    OBVIOUS
  <2>5. QED
    BY <1>2, <1>4, <2>2, <2>3, <2>4
<1>7. CASE ~Left(q)
  <2>1. p[0][1] \notin freeQueue
    BY <1>2, <1>7 DEF Left
  <2>2. \A i \in 0 .. n : i = 0 \/ i \in 1 .. n
    OBVIOUS
  <2>3. Uses(q) \ freeQueue = Uses(q)
    BY <1>2, <1>4, <2>1, <2>2
  <2>4. p[0][1] \in ChunksOf(q)
    <3>1. CASE n = 0
      BY <1>5, <3>1 DEF ChunksOf
    <3>2. CASE reader[q].pc = "execute"
      BY <1>2, <3>2 DEF ChunksOf
    <3>3. CASE n > 0 /\ reader[q].pc # "execute"
      <4>1. p[1][1] = p[0][1]
        <5>1. CASE reader[q].pc = "read"
          BY <1>1, <1>7, <3>3, <5>1 DEF Turns
        <5>2. CASE reader[q].pc \in {"pool", "count"}
          <6>1. Current(q).kind = "free"
            BY <5>2 DEF Turns
          <6>2. QED
            BY <1>1, <1>2, <3>3, <5>2, <6>1, FirstSteps
        <5>3. reader[q].pc \in {"read", "execute", "pool", "count"}
          BY DEF TypeOK
        <5>4. QED
          BY <3>3, <5>1, <5>2, <5>3
      <4>2. 1 \in 1 .. n
        BY <3>3
      <4>3. QED
        BY <1>3, <4>1, <4>2 DEF ChunksOf
    <3>4. QED
      BY <3>1, <3>2, <3>3
  <2>5. \A c \in Uses(q) : c \in ChunksOf(q)
    BY <1>2, <1>3, <2>2, <2>4 DEF ChunksOf
  <2>6. \A c \in ChunksOf(q) : c \in Uses(q)
    <3>1. \A i \in 1 .. n : i \in 0 .. n
      OBVIOUS
    <3>2. reader[q].last[1] \in Uses(q)
      BY QueueFacts
    <3>3. QED
      BY <1>2, <1>3, <3>1, <3>2 DEF ChunksOf
  <2>7. QED
    BY <2>3, <2>5, <2>6
<1>8. QED
  BY <1>6, <1>7

(* No chunk is lost, and none is in two places, whatever queues, chunks    *)
(* and sizes the program has.                                              *)
THEOREM ChunksConserved == ASSUME ~ParallelFlush PROVE Spec => []ChunkInOnePlace
<1>1. IInv => ChunkInOnePlace
  <2> SUFFICES ASSUME IInv, NEW c \in Chunks
               PROVE  Cardinality({q \in Queues : c \in ChunksOf(q)})
                        + Cardinality({s \in {"pool", "free", "held", "heap"} :
                             \/ s = "pool" /\ c \in pool
                             \/ s = "free" /\ c \in freeQueue
                             \/ s = "held" /\ c \in Held
                             \/ s = "heap" /\ c \in heap}) = 1
    BY DEF ChunkInOnePlace
  <2> DEFINE U == {q \in Queues : c \in ChunksOf(q)}
             S == {s \in {"pool", "free", "held", "heap"} :
                     \/ s = "pool" /\ c \in pool
                     \/ s = "free" /\ c \in freeQueue
                     \/ s = "held" /\ c \in Held
                     \/ s = "heap" /\ c \in heap}
  <2>0. TypeOK /\ AllGood /\ Placed /\ Turns
    BY DEF IInv
  <2>1. \A q \in Queues : c \in ChunksOf(q) <=> c \in Uses(q) /\ c \notin freeQueue
    BY <2>0, ChunksOfUses
  <2>2. CASE c \in pool \cup heap \cup Held \cup freeQueue
    <3>1. U = {}
      BY <2>0, <2>1, <2>2 DEF Placed
    <3>2. \E s : S = {s}
      <4>1. CASE c \in pool
        <5>1. S = {"pool"}
          BY <2>0, <4>1 DEF Placed
        <5>2. QED
          BY <5>1
      <4>2. CASE c \in heap
        <5>1. S = {"heap"}
          BY <2>0, <4>2 DEF Placed
        <5>2. QED
          BY <5>1
      <4>3. CASE c \in Held
        <5>1. S = {"held"}
          BY <2>0, <4>3 DEF Placed
        <5>2. QED
          BY <5>1
      <4>4. CASE c \in freeQueue
        <5>1. S = {"free"}
          BY <2>0, <4>4 DEF Placed
        <5>2. QED
          BY <5>1
      <4>5. QED
        BY <2>2, <4>1, <4>2, <4>3, <4>4
    <3> HIDE DEF U, S
    <3>3. Cardinality(U) = 0 /\ Cardinality(S) = 1
      BY <3>1, <3>2, FS_EmptySet, FS_Singleton
    <3>4. Cardinality(U) + Cardinality(S) = 1
      BY <3>3
    <3>5. QED
      BY <3>4 DEF U, S
  <2>3. CASE c \notin pool \cup heap \cup Held \cup freeQueue
    <3>1. S = {}
      BY <2>3
    <3>2. PICK q \in Queues : c \in Uses(q)
      BY <2>0, <2>3 DEF Placed
    <3>3. U = {q}
      BY <2>0, <2>1, <2>3, <3>2 DEF Placed
    <3> HIDE DEF U, S
    <3>4. Cardinality(S) = 0 /\ Cardinality(U) = 1
      BY <3>1, <3>3, FS_EmptySet, FS_Singleton
    <3>5. Cardinality(U) + Cardinality(S) = 1
      BY <3>4
    <3>6. QED
      BY <3>5 DEF U, S
  <2>4. QED
    BY <2>2, <2>3
<1>2. QED
  BY <1>1, MemoryInvariance, PTL

------------------------------------------------------------------------------
(* The pool.  The thread that has found it below its capacity is the only  *)
(* one that puts chunks in it, and the main thread only takes them: so     *)
(* there is still room when the chunk is put there.                        *)
Counters == {q \in Queues : reader[q].pc = "count"}

PoolFits ==
  /\ PoolWithinCapacity
  /\ \A q \in Queues : reader[q].pc = "pool" => Cardinality(pool) < PoolCapacity

OneCounter ==
  IInv => \A q \in Queues : reader[q].pc # "read" =>
    /\ \A r \in Queues : r # q => reader[r].pc = "read"
    /\ Cardinality(Counters) = IF reader[q].pc = "count" THEN 1 ELSE 0

LEMMA CountersFound == OneCounter
<1> SUFFICES ASSUME IInv, NEW q \in Queues, reader[q].pc # "read"
             PROVE  /\ \A r \in Queues : r # q => reader[r].pc = "read"
                    /\ Cardinality(Counters) = IF reader[q].pc = "count" THEN 1 ELSE 0
  BY DEF OneCounter
<1>1. \A r \in Queues : r # q => reader[r].pc = "read"
  BY DEF IInv, Turns
<1>2. CASE reader[q].pc = "count"
  <2>1. Counters = {q}
    BY <1>1, <1>2 DEF Counters
  <2>2. QED
    BY <1>1, <1>2, <2>1, FS_Singleton
<1>3. CASE reader[q].pc # "count"
  <2>1. Counters = {}
    BY <1>1, <1>3 DEF Counters
  <2>2. QED
    BY <1>1, <1>3, <2>1, FS_EmptySet
<1>4. QED
  BY <1>2, <1>3

LEMMA CountersFoundNext == OneCounter'
BY CountersFound, PTL

LEMMA PoolFinite ==
  ASSUME TypeOK
  PROVE  /\ IsFiniteSet(pool) /\ Cardinality(pool) \in Nat
         /\ IsFiniteSet(Counters) /\ Cardinality(Counters) \in Nat
<1>1. IsFiniteSet(Chunks) /\ pool \subseteq Chunks
  BY MemoryAssumption DEF TypeOK
<1>2. IsFiniteSet(Queues) /\ Counters \subseteq Queues
  BY MemoryAssumption DEF Counters
<1>3. QED
  BY <1>1, <1>2, FS_Subset, FS_CardinalityType

(* The steps that have nothing to do with the pool.                        *)
LEMMA PoolUntouched ==
  ASSUME PoolFits, pool' = pool, chunkCount' = chunkCount, uncounted' = uncounted,
         \A q \in Queues : /\ reader'[q].pc = "count" <=> reader[q].pc = "count"
                           /\ reader'[q].pc = "pool" => reader[q].pc = "pool"
  PROVE  PoolFits'
<1>1. {q \in Queues : reader'[q].pc = "count"} = {q \in Queues : reader[q].pc = "count"}
  OBVIOUS
<1>2. QED
  BY <1>1 DEF PoolFits, PoolWithinCapacity

LEMMA PoolTaken ==
  ASSUME IInv, PoolFits, NEW q \in Queues, NEW kind, Allocate(q, kind), reader' = reader
  PROVE  PoolFits'
<1>1. CASE UNCHANGED allocator
  BY <1>1, PoolUntouched DEF allocator
<1>2. ASSUME NEW c \in Chunks, Request(c) PROVE PoolFits'
  <2>1. CASE pool = {}
    BY <1>2, <2>1, PoolUntouched DEF Request
  <2>2. CASE pool # {}
    <3>1. /\ c \in pool /\ pool' = pool \ {c} /\ ~uncounted /\ uncounted' = TRUE
          /\ chunkCount' = chunkCount
      BY <1>2, <2>2 DEF Request, Allocate
    <3>2. IsFiniteSet(pool) /\ Cardinality(pool) \in Nat
      BY PoolFinite DEF IInv
    <3>3. Cardinality(pool') = Cardinality(pool) - 1
      BY <3>1, <3>2, FS_RemoveElement
    <3>4. Counters' = Counters /\ Cardinality(Counters) \in Nat
      BY PoolFinite DEF Counters, IInv
    <3>5. chunkCount = Cardinality(pool) - Cardinality(Counters)
      BY <3>1, <3>2, <3>4 DEF PoolFits, PoolWithinCapacity, Counters
    <3>6. chunkCount' = Cardinality(pool') + 1 - Cardinality(Counters')
      BY <3>1, <3>2, <3>3, <3>4, <3>5
    <3>7. /\ Cardinality(pool') <= PoolCapacity
          /\ \A s \in Queues : reader'[s].pc = "pool" => Cardinality(pool') < PoolCapacity
      BY <3>2, <3>3, MemoryAssumption DEF PoolFits, PoolWithinCapacity
    <3>8. QED
      BY <3>1, <3>6, <3>7 DEF PoolFits, PoolWithinCapacity, Counters
  <2>3. QED
    BY <2>1, <2>2
<1>3. QED
  BY <1>1, <1>2 DEF Allocate

LEMMA PoolCounted ==
  ASSUME IInv, PoolFits, CountRequest
  PROVE  PoolFits'
<1>1. /\ pool' = pool /\ reader' = reader /\ uncounted /\ uncounted' = FALSE
      /\ chunkCount' = chunkCount - 1
  BY DEF CountRequest
<1>2. Cardinality(pool) \in Nat /\ Cardinality(Counters) \in Nat /\ Counters' = Counters
  BY <1>1, PoolFinite DEF IInv, Counters
<1>3. chunkCount = Cardinality(pool) + 1 - Cardinality(Counters)
  BY <1>1 DEF PoolFits, PoolWithinCapacity, Counters
<1>4. chunkCount' = Cardinality(pool') - Cardinality(Counters')
  BY <1>1, <1>2, <1>3
<1>5. chunkCount' = Cardinality(pool') + (IF uncounted' THEN 1 ELSE 0) - Cardinality(Counters')
  BY <1>1, <1>2, <1>4
<1>6. QED
  BY <1>1, <1>5 DEF PoolFits, PoolWithinCapacity, Counters

LEMMA PoolChosen ==
  ASSUME IInv, IInv', PoolFits, NEW q \in Queues, TakeFreeChunk(q)
  PROVE  PoolFits'
<1>1. /\ pool' = pool /\ chunkCount' = chunkCount /\ uncounted' = uncounted
      /\ reader[q].pc = "execute"
  BY DEF TakeFreeChunk
<1>2. CASE reader' = reader
  BY <1>1, <1>2, PoolUntouched
<1>3. CASE reader' # reader
  <2>1. PICK c \in freeQueue : reader' = [reader EXCEPT ![q].pc = "pool", ![q].chunk = c]
    BY <1>3 DEF TakeFreeChunk
  <2>2. ~AtCapacity
    BY <1>3 DEF TakeFreeChunk
  <2>3. reader \in [Queues -> Readers]
    BY DEF IInv, TypeOK, Readers
  <2>4. reader'[q].pc = "pool" /\ \A s \in Queues : s # q => reader'[s] = reader[s]
    BY <2>1, <2>3 DEF Readers
  <2>5. Cardinality(Counters) = 0 /\ Cardinality(Counters') = 0
    BY <1>1, <2>4, CountersFound, CountersFoundNext DEF OneCounter
  <2>6. Cardinality(pool) \in Nat /\ chunkCount \in Int
    BY PoolFinite DEF IInv, TypeOK
  <2>7. chunkCount = Cardinality(pool) + (IF uncounted THEN 1 ELSE 0)
    BY <2>5, <2>6 DEF PoolFits, PoolWithinCapacity, Counters
  <2>8. chunkCount < PoolCapacity
    BY <2>2, <2>6, MemoryAssumption DEF AtCapacity
  <2>9. Cardinality(pool') < PoolCapacity
    BY <1>1, <2>6, <2>7, <2>8, MemoryAssumption
  <2>10. chunkCount' = Cardinality(pool') + (IF uncounted' THEN 1 ELSE 0) - Cardinality(Counters')
    BY <1>1, <2>5, <2>6, <2>7
  <2>11. Cardinality(pool') <= PoolCapacity
    BY <1>1, <2>6, <2>9, MemoryAssumption
  <2>12. QED
    BY <2>9, <2>10, <2>11 DEF PoolFits, PoolWithinCapacity, Counters
<1>4. QED
  BY <1>2, <1>3

LEMMA PoolEntered ==
  ASSUME IInv, IInv', PoolFits, NEW q \in Queues, PoolChunk(q)
  PROVE  PoolFits'
<1>1. /\ reader[q].pc = "pool" /\ pool' = pool \cup {reader[q].chunk}
      /\ reader' = [reader EXCEPT ![q].pc = "count", ![q].chunk = None]
      /\ chunkCount' = chunkCount /\ uncounted' = uncounted
  BY DEF PoolChunk
<1>2. reader \in [Queues -> Readers]
  BY DEF IInv, TypeOK, Readers
<1>3. reader'[q].pc = "count"
  BY <1>1, <1>2 DEF Readers
<1>4. /\ Cardinality(Counters) = 0 /\ Cardinality(Counters') = 1
      /\ \A s \in Queues : reader'[s].pc # "pool"
  BY <1>1, <1>3, CountersFound, CountersFoundNext DEF OneCounter
<1>5. reader[q].chunk \notin pool
  <2>1. reader[q].chunk # None
    BY <1>1 DEF IInv, Turns
  <2>2. reader[q].chunk \in Held
    BY <2>1 DEF Held
  <2>3. QED
    BY <2>2 DEF IInv, Placed
<1>6. IsFiniteSet(pool) /\ Cardinality(pool) \in Nat
  BY PoolFinite DEF IInv
<1>7. Cardinality(pool') = Cardinality(pool) + 1
  BY <1>1, <1>5, <1>6, FS_AddElement
<1>8. /\ chunkCount = Cardinality(pool) + (IF uncounted THEN 1 ELSE 0)
      /\ Cardinality(pool) < PoolCapacity
  BY <1>1, <1>4, <1>6 DEF PoolFits, PoolWithinCapacity, Counters
<1>9. chunkCount' = Cardinality(pool') + (IF uncounted' THEN 1 ELSE 0) - Cardinality(Counters')
  BY <1>1, <1>4, <1>6, <1>7, <1>8
<1>10. Cardinality(pool') <= PoolCapacity
  BY <1>6, <1>7, <1>8, MemoryAssumption
<1>11. QED
  BY <1>4, <1>9, <1>10 DEF PoolFits, PoolWithinCapacity, Counters

LEMMA PoolEnteredCounted ==
  ASSUME IInv, IInv', PoolFits, NEW q \in Queues, CountChunk(q)
  PROVE  PoolFits'
<1>1. /\ reader[q].pc = "count" /\ pool' = pool
      /\ reader' = [reader EXCEPT ![q].pc = "execute"]
      /\ chunkCount' = chunkCount + 1 /\ uncounted' = uncounted
  BY DEF CountChunk
<1>2. reader \in [Queues -> Readers]
  BY DEF IInv, TypeOK, Readers
<1>3. reader'[q].pc = "execute"
  BY <1>1, <1>2 DEF Readers
<1>4. /\ Cardinality(Counters) = 1 /\ Cardinality(Counters') = 0
      /\ \A s \in Queues : reader'[s].pc # "pool"
  BY <1>1, <1>3, CountersFound, CountersFoundNext DEF OneCounter
<1>5. Cardinality(pool) \in Nat
  BY PoolFinite DEF IInv
<1>6. /\ chunkCount = Cardinality(pool) + (IF uncounted THEN 1 ELSE 0) - 1
      /\ Cardinality(pool) <= PoolCapacity
  BY <1>4 DEF PoolFits, PoolWithinCapacity, Counters
<1>7. chunkCount' = Cardinality(pool') + (IF uncounted' THEN 1 ELSE 0) - Cardinality(Counters')
  BY <1>1, <1>4, <1>5, <1>6
<1>8. QED
  BY <1>1, <1>4, <1>6, <1>7 DEF PoolFits, PoolWithinCapacity, Counters

LEMMA PoolStepFits ==
  ASSUME IInv, IInv', PoolFits, [Next]_vars
  PROVE  PoolFits'
<1>0. reader \in [Queues -> Readers]
  BY DEF IInv, TypeOK, Readers
<1>1. ASSUME NEW q \in Queues, NEW kind, Allocate(q, kind), reader' = reader
      PROVE  PoolFits'
  BY <1>1, PoolTaken
<1>2. ASSUME NEW q \in Queues, Push(q) \/ ReadMessage(q) \/ ExecutePlain(q)
                                 \/ ExecuteSwitch(q) \/ FreeDone(q)
      PROVE  PoolFits'
  <2>1. pool' = pool /\ chunkCount' = chunkCount /\ uncounted' = uncounted
    BY <1>2 DEF Push, ReadMessage, ExecutePlain, ExecuteSwitch, FreeDone, allocator
  <2>2. \A s \in Queues : s # q => reader'[s] = reader[s]
    BY <1>0, <1>2 DEF Push, ReadMessage, ExecutePlain, ExecuteSwitch, FreeDone
  <2>3. /\ reader[q].pc = "count" <=> reader'[q].pc = "count"
        /\ reader'[q].pc = "pool" => reader[q].pc = "pool"
    <3>1. CASE Push(q)
      BY <3>1 DEF Push
    <3>2. CASE ReadMessage(q)
      BY <1>0, <3>2 DEF ReadMessage, Readers
    <3>3. CASE ExecutePlain(q)
      BY <1>0, <3>3 DEF ExecutePlain, Readers
    <3>4. CASE ExecuteSwitch(q)
      BY <1>0, <3>4 DEF ExecuteSwitch, Readers
    <3>5. CASE FreeDone(q)
      BY <1>0, <3>5 DEF FreeDone, Readers
    <3>6. QED
      BY <1>2, <3>1, <3>2, <3>3, <3>4, <3>5
  <2>4. QED
    BY <2>1, <2>2, <2>3, PoolUntouched
<1>3. ASSUME NEW q \in Queues, Write(q) \/ FreeChunksInFreeQueue(q) PROVE PoolFits'
  BY <1>1, <1>3 DEF Write, FreeChunksInFreeQueue
<1>4. CASE CountRequest
  BY <1>4, PoolCounted
<1>5. ASSUME NEW q \in Queues, TakeFreeChunk(q) \/ PoolChunk(q) \/ CountChunk(q)
      PROVE  PoolFits'
  BY <1>5, PoolChosen, PoolEntered, PoolEnteredCounted
<1>6. CASE UNCHANGED vars
  BY <1>6, PoolUntouched DEF vars
<1>7. CASE Next
  BY <1>2, <1>3, <1>4, <1>5, <1>7 DEF Next, MainThread, Consumer
<1>8. QED
  BY <1>6, <1>7

(* Test, change and count of the pool are different steps of two threads;  *)
(* the count is off by exactly what they have still to count, and the pool *)
(* never exceeds its capacity (MemoryAllocator, MessageQueue.cpp:32-80).   *)
THEOREM PoolBounded == ASSUME ~ParallelFlush PROVE Spec => []PoolWithinCapacity
<1>1. Init => PoolFits
  <2> SUFFICES ASSUME Init PROVE PoolFits
    OBVIOUS
  <2>1. /\ pool = {} /\ chunkCount = 0 /\ ~uncounted
        /\ \A q \in Queues : reader[q].pc = "read"
    BY DEF Init
  <2>2. {q \in Queues : reader[q].pc = "count"} = {}
    BY <2>1
  <2>3. Cardinality(pool) = 0 /\ Cardinality({q \in Queues : reader[q].pc = "count"}) = 0
    BY <2>1, <2>2, FS_EmptySet
  <2>4. chunkCount = Cardinality(pool) + (IF uncounted THEN 1 ELSE 0)
                      - Cardinality({q \in Queues : reader[q].pc = "count"})
    BY <2>1, <2>3
  <2>5. Cardinality(pool) <= PoolCapacity
    BY <2>3, MemoryAssumption
  <2>6. QED
    BY <2>1, <2>4, <2>5 DEF PoolFits, PoolWithinCapacity
<1>2. IInv /\ IInv' /\ PoolFits /\ [Next]_vars => PoolFits'
  BY PoolStepFits
<1>3. PoolFits => PoolWithinCapacity
  BY DEF PoolFits
<1>4. QED
  BY <1>1, <1>2, <1>3, MemoryInvariance, PTL DEF Spec

------------------------------------------------------------------------------
(* The refinement.                                                         *)

LEMMA FunctionSeq ==
  ASSUME NEW S, NEW k \in Nat, NEW g \in [1 .. k -> S]
  PROVE  g \in Seq(S) /\ Len(g) = k
<1>1. g \in Seq(S)
  BY SeqDef
<1>2. Len(g) \in Nat /\ DOMAIN g = 1 .. Len(g)
  BY <1>1, LenProperties
<1>3. 1 .. k = 1 .. Len(g)
  BY <1>2
<1>4. Len(g) = k
  <2>1. CASE k = 0
    BY <1>2, <1>3, <2>1
  <2>2. CASE k > 0
    <3>1. k \in 1 .. Len(g)
      BY <1>3, <2>2
    <3>2. Len(g) \in 1 .. k
      BY <1>2, <1>3, <3>1
    <3>3. QED
      BY <1>2, <3>1, <3>2
  <2>3. QED
    BY <2>1, <2>2
<1>5. QED
  BY <1>1, <1>4

(* The kinds of the messages from after the k-th to the n-th.              *)
Part(f, k, n) == [i \in 1 .. n - k |-> f[k + i]]

LEMMA PartProperties ==
  ASSUME NEW k \in Nat, NEW n \in Nat, k <= n, NEW f, \A i \in 1 .. n : f[i] \in MessageKinds
  PROVE  /\ Part(f, k, n) \in Seq(MessageKinds) /\ Len(Part(f, k, n)) = n - k
         /\ \A i \in 1 .. n - k : Part(f, k, n)[i] = f[k + i]
<1>1. n - k \in Nat /\ \A i \in 1 .. n - k : k + i \in 1 .. n
  OBVIOUS
<1>2. Part(f, k, n) \in [1 .. n - k -> MessageKinds]
  BY <1>1 DEF Part
<1>3. Part(f, k, n) \in Seq(MessageKinds) /\ Len(Part(f, k, n)) = n - k
  BY <1>1, <1>2, FunctionSeq
<1>4. \A i \in 1 .. n - k : Part(f, k, n)[i] = f[k + i]
  BY DEF Part
<1>5. QED
  BY <1>3, <1>4

LEMMA PrefixProperties ==
  ASSUME NEW n \in Nat, NEW f, \A i \in 1 .. n : f[i] \in MessageKinds
  PROVE  /\ Part(f, 0, n) \in Seq(MessageKinds) /\ Len(Part(f, 0, n)) = n
         /\ \A i \in 1 .. n : Part(f, 0, n)[i] = f[i]
<1>1. PICK k \in Nat : k = 0 /\ k <= n
  OBVIOUS
<1>2. /\ Part(f, k, n) \in Seq(MessageKinds) /\ Len(Part(f, k, n)) = n - k
      /\ \A i \in 1 .. n - k : Part(f, k, n)[i] = f[k + i]
  BY <1>1, PartProperties
<1>3. n - k = n /\ \A i \in 1 .. n : k + i = i
  BY <1>1
<1>4. QED
  BY <1>1, <1>2, <1>3

LEMMA PartLonger ==
  ASSUME NEW k \in Nat, NEW n \in Nat, NEW m \in Nat, k <= n, n < m,
         NEW f, NEW g, \A i \in 1 .. m : g[i] \in MessageKinds, \A i \in 1 .. n : f[i] \in MessageKinds,
         \A i \in 1 .. n : g[i] = f[i]
  PROVE  /\ Part(g, k, m) \in Seq(MessageKinds) /\ Len(Part(g, k, m)) > Len(Part(f, k, n))
         /\ SubSeq(Part(g, k, m), 1, Len(Part(f, k, n))) = Part(f, k, n)
<1> DEFINE u == Part(f, k, n)
           v == Part(g, k, m)
<1>1. /\ u \in Seq(MessageKinds) /\ Len(u) = n - k /\ \A i \in 1 .. n - k : u[i] = f[k + i]
  BY PartProperties
<1>2. /\ v \in Seq(MessageKinds) /\ Len(v) = m - k /\ \A i \in 1 .. m - k : v[i] = g[k + i]
  <2>1. k <= m
    OBVIOUS
  <2>2. QED
    BY <2>1, PartProperties
<1> HIDE DEF u, v
<1>3. \A i \in 1 .. n - k : i \in 1 .. m - k /\ k + i \in 1 .. n /\ k + i \in 1 .. m /\ 1 + i - 1 = i
  OBVIOUS
<1>4. PICK l \in Nat : l = n - k
  OBVIOUS
<1>5. \A i \in 1 .. l : v[i] = u[i] /\ v[i] \in MessageKinds
  BY <1>1, <1>2, <1>3, <1>4
<1>6. /\ SubSeq(v, 1, l) \in Seq(MessageKinds) /\ Len(SubSeq(v, 1, l)) = l
      /\ \A i \in 1 .. l : SubSeq(v, 1, l)[i] = v[i]
  <2>1. \A i \in 1 .. l : v[i] \in MessageKinds
    BY <1>5
  <2>2. /\ SubSeq(v, 1, l) \in Seq(MessageKinds)
        /\ Len(SubSeq(v, 1, l)) = IF 1 <= l THEN l - 1 + 1 ELSE 0
        /\ \A i \in 1 .. l - 1 + 1 : SubSeq(v, 1, l)[i] = v[1 + i - 1]
    BY <2>1, SubSeqProperties
  <2>3. \A i \in 1 .. l : i \in 1 .. l - 1 + 1 /\ 1 + i - 1 = i
    OBVIOUS
  <2>4. QED
    BY <2>2, <2>3
<1>7. SubSeq(v, 1, l) = u
  <2> DEFINE w == SubSeq(v, 1, l)
  <2>1. w \in Seq(MessageKinds) /\ Len(w) = l /\ Len(u) = l /\ \A i \in 1 .. l : w[i] = u[i]
    BY <1>1, <1>4, <1>5, <1>6
  <2> HIDE DEF w
  <2>2. w = u
    BY <1>1, <2>1, SeqEqual
  <2>3. QED
    BY <2>2 DEF w
<1>8. QED
  BY <1>1, <1>2, <1>4, <1>7 DEF u, v

LEMMA PartEqual ==
  ASSUME NEW k \in Nat, NEW n \in Nat, NEW f, NEW g, \A i \in 1 .. n : g[i] = f[i]
  PROVE  Part(g, k, n) = Part(f, k, n)
<1>1. \A i \in 1 .. n - k : k + i \in 1 .. n
  OBVIOUS
<1>2. QED
  BY <1>1 DEF Part

LEMMA PartsJoin ==
  ASSUME NEW k \in Nat, NEW n \in Nat, k <= n, NEW f, \A i \in 1 .. n : f[i] \in MessageKinds
  PROVE  /\ Part(f, 0, k) \o Part(f, k, n) = Part(f, 0, n)
         /\ Part(f, n, n) = <<>>
<1> DEFINE u == Part(f, 0, k)
           v == Part(f, k, n)
           w == Part(f, 0, n)
<1>1. u \in Seq(MessageKinds) /\ Len(u) = k /\ \A i \in 1 .. k : u[i] = f[i]
  <2>1. \A i \in 1 .. k : f[i] \in MessageKinds
    OBVIOUS
  <2>2. QED
    BY <2>1, PrefixProperties
<1>2. v \in Seq(MessageKinds) /\ Len(v) = n - k /\ \A i \in 1 .. n - k : v[i] = f[k + i]
  BY PartProperties
<1>3. w \in Seq(MessageKinds) /\ Len(w) = n /\ \A i \in 1 .. n : w[i] = f[i]
  BY PrefixProperties
<1> HIDE DEF u, v, w
<1>4. PICK t \in Seq(MessageKinds) : t = u \o v
  BY <1>1, <1>2, ConcatProperties
<1>5. /\ Len(t) = Len(u) + Len(v)
      /\ \A i \in 1 .. Len(u) + Len(v) : t[i] = IF i <= Len(u) THEN u[i] ELSE v[i - Len(u)]
  BY <1>1, <1>2, <1>4, ConcatProperties
<1>6. Len(t) = n /\ \A i \in 1 .. n : t[i] = w[i]
  <2>1. Len(u) + Len(v) = n
    BY <1>1, <1>2
  <2>2. ASSUME NEW i \in 1 .. n PROVE t[i] = f[i]
    <3>1. CASE i <= k
      BY <1>1, <1>5, <2>1, <3>1
    <3>2. CASE ~(i <= k)
      <4>1. i - k \in 1 .. n - k /\ k + (i - k) = i
        BY <3>2
      <4>2. t[i] = v[i - k]
        BY <1>1, <1>5, <2>1, <3>2
      <4>3. QED
        BY <1>2, <4>1, <4>2
    <3>3. QED
      BY <3>1, <3>2
  <2>3. QED
    BY <1>3, <1>5, <2>1, <2>2
<1>7. t = w
  BY <1>3, <1>4, <1>6, SeqEqual
<1>8. Part(f, n, n) = <<>>
  <2>1. Part(f, n, n) \in Seq(MessageKinds) /\ Len(Part(f, n, n)) = 0
    <3>1. n <= n /\ n - n = 0
      OBVIOUS
    <3>2. QED
      BY <3>1, PartProperties
  <2>2. QED
    BY <2>1, EmptySeq
<1>9. QED
  BY <1>4, <1>7, <1>8 DEF u, v, w

(* The first message goes.                                                 *)
Shifted(f, g, k, n, l, m) ==
  /\ k <= n /\ k = l + 1 /\ n = m + 1
  /\ \A i \in 1 .. n : f[i] \in MessageKinds
  /\ \A i \in 1 .. m : g[i] = f[i + 1]

LEMMA PartsShift ==
  ASSUME NEW k \in Nat, NEW n \in Nat, NEW l \in Nat, NEW m \in Nat, NEW f, NEW g,
         Shifted(f, g, k, n, l, m)
  PROVE  /\ Part(f, 0, k) # <<>> /\ Head(Part(f, 0, k)) = f[1]
         /\ Part(g, 0, l) = Tail(Part(f, 0, k))
         /\ Part(g, l, m) = Part(f, k, n)
<1> USE DEF Shifted
<1> DEFINE u == Part(f, 0, k)
           v == Part(g, 0, l)
<1>1. u \in Seq(MessageKinds) /\ Len(u) = k /\ \A i \in 1 .. k : u[i] = f[i]
  <2>1. \A i \in 1 .. k : f[i] \in MessageKinds
    OBVIOUS
  <2>2. QED
    BY <2>1, PrefixProperties
<1>2. v \in Seq(MessageKinds) /\ Len(v) = l /\ \A i \in 1 .. l : v[i] = f[i + 1]
  <2>1. \A i \in 1 .. l : i \in 1 .. m /\ i + 1 \in 1 .. n
    OBVIOUS
  <2>2. \A i \in 1 .. l : g[i] \in MessageKinds /\ g[i] = f[i + 1]
    BY <2>1
  <2>3. v \in Seq(MessageKinds) /\ Len(v) = l /\ \A i \in 1 .. l : v[i] = g[i]
    BY <2>2, PrefixProperties
  <2>4. QED
    BY <2>2, <2>3
<1> HIDE DEF u, v
<1>3. u # <<>>
  BY <1>1, EmptySeq
<1>4. Head(u) = f[1]
  BY <1>1, <1>3
<1>5. PICK t \in Seq(MessageKinds) : t = Tail(u)
  BY <1>1, <1>3, HeadTailProperties
<1>6. Len(t) = l /\ \A i \in 1 .. l : t[i] = f[i + 1]
  <2>1. Len(t) = l /\ \A i \in 1 .. Len(t) : t[i] = u[i + 1]
    BY <1>1, <1>3, <1>5, HeadTailProperties
  <2>2. \A i \in 1 .. l : i + 1 \in 1 .. k
    OBVIOUS
  <2>3. QED
    BY <1>1, <2>1, <2>2
<1>7. v = t
  <2>1. Len(v) = Len(t) /\ \A i \in 1 .. Len(v) : v[i] = t[i]
    BY <1>2, <1>6
  <2>2. QED
    BY <1>2, <1>5, <2>1, SeqEqual
<1>8. Part(g, l, m) = Part(f, k, n)
  <2>1. m - l = n - k
    OBVIOUS
  <2>2. \A i \in 1 .. n - k : l + i \in 1 .. m /\ (l + i) + 1 = k + i
    OBVIOUS
  <2>3. \A i \in 1 .. n - k : g[l + i] = f[k + i]
    BY <2>2
  <2>4. QED
    BY <2>1, <2>3 DEF Part
<1>9. QED
  BY <1>3, <1>4, <1>5, <1>7, <1>8 DEF u, v

Kinds(q) == [i \in 1 .. Unread(q) |-> KindAt(q, i)]

(* The refinement mapping in these words.                                  *)
Mapping ==
  TypeOK /\ AllGood =>
    \A q \in Queues :
      /\ Unread(q) \in Nat /\ Shown(q) \in Nat /\ Shown(q) <= Unread(q)
      /\ \A i \in 1 .. Unread(q) : KindAt(q, i) \in MessageKinds /\ Kinds(q)[i] = KindAt(q, i)
      /\ Contents(q, 1, reader[q].newCount + published[q]) = Part(Kinds(q), 0, Shown(q))
      /\ Contents(q, reader[q].newCount + published[q] + 1, Unread(q))
           = Part(Kinds(q), Shown(q), Unread(q))

LEMMA MappingHolds == Mapping
<1> SUFFICES ASSUME TypeOK, AllGood, NEW q \in Queues
             PROVE  /\ Unread(q) \in Nat /\ Shown(q) \in Nat /\ Shown(q) <= Unread(q)
                    /\ \A i \in 1 .. Unread(q) : KindAt(q, i) \in MessageKinds /\ Kinds(q)[i] = KindAt(q, i)
                    /\ Contents(q, 1, reader[q].newCount + published[q]) = Part(Kinds(q), 0, Shown(q))
                    /\ Contents(q, reader[q].newCount + published[q] + 1, Unread(q))
                         = Part(Kinds(q), Shown(q), Unread(q))
  BY DEF Mapping
<1>1. PICK n \in Nat, k \in Nat : n = Unread(q) /\ k = Shown(q) /\ k <= n
  <2>1. reader[q].newCount \in Nat /\ published[q] \in Nat /\ writer[q].pending \in Nat
    BY DEF TypeOK
  <2>2. QED
    BY <2>1 DEF Unread, Shown
<1>2. \A i \in 1 .. n : Walk(q, n)[i] = Path(q)[i]
  BY <1>1 DEF Path
<1>3. \A i \in 1 .. n : KindAt(q, i) \in MessageKinds
  <2>1. Good(q, Path(q))
    BY DEF AllGood
  <2>2. \A i \in 1 .. n : i \in 0 .. n /\ i > 0
    OBVIOUS
  <2>3. QED
    BY <1>1, <2>1, <2>2 DEF Good, Sound, Layout, Chain, KindAt
<1>4. \A i \in 1 .. n : Kinds(q)[i] = KindAt(q, i)
  BY <1>1 DEF Kinds
<1>5. \A i \in 1 .. n : At(Walk(q, n)[i]).kind = Kinds(q)[i]
  BY <1>2, <1>4 DEF KindAt, At, SlotAt
<1>6. Contents(q, 1, k) = Part(Kinds(q), 0, k)
  <2>1. k - 1 + 1 = k - 0 /\ \A i \in 1 .. k - 0 : 1 + i - 1 = i /\ 0 + i = i /\ i \in 1 .. n
    BY <1>1
  <2>2. \A i \in 1 .. k - 0 : At(Walk(q, n)[1 + i - 1]).kind = Kinds(q)[0 + i]
    BY <1>5, <2>1
  <2>3. QED
    BY <1>1, <2>1, <2>2 DEF Contents, Part
<1>7. Contents(q, k + 1, n) = Part(Kinds(q), k, n)
  <2>1. n - (k + 1) + 1 = n - k /\ \A i \in 1 .. n - k : k + 1 + i - 1 = k + i /\ k + i \in 1 .. n
    BY <1>1
  <2>2. \A i \in 1 .. n - k : At(Walk(q, n)[k + 1 + i - 1]).kind = Kinds(q)[k + i]
    BY <1>5, <2>1
  <2>3. QED
    BY <1>1, <2>1, <2>2 DEF Contents, Part
<1>8. k = reader[q].newCount + published[q]
  BY <1>1 DEF Shown
<1>9. QED
  BY <1>1, <1>3, <1>4, <1>6, <1>7, <1>8

LEMMA MappingNext == Mapping'
BY MappingHolds, PTL

LEMMA EffectDelivers ==
  ASSUME IInv, IInv', Effect, NEW q \in Queues
  PROVE  [Promise(q)!Next]_(Promise(q)!vars)
<1> DEFINE n == Unread(q)
           k == Shown(q)
           f == Kinds(q)
<1>1. /\ n \in Nat /\ k \in Nat /\ k <= n
      /\ \A i \in 1 .. n : f[i] \in MessageKinds /\ f[i] = KindAt(q, i)
      /\ Contents(q, 1, reader[q].newCount + published[q]) = Part(f, 0, k)
      /\ Contents(q, reader[q].newCount + published[q] + 1, Unread(q)) = Part(f, k, n)
  BY MappingHolds DEF Mapping, IInv
<1>2. /\ n' \in Nat /\ k' \in Nat /\ k' <= n'
      /\ \A i \in 1 .. n' : f'[i] \in MessageKinds /\ f'[i] = KindAt(q, i)'
      /\ Contents(q, 1, reader[q].newCount + published[q])' = Part(f', 0, k')
      /\ Contents(q, reader[q].newCount + published[q] + 1, Unread(q))' = Part(f', k', n')
  BY MappingNext DEF Mapping, IInv
<1> DEFINE seen == Contents(q, 1, reader[q].newCount + published[q])
           kept == Contents(q, reader[q].newCount + published[q] + 1, Unread(q))
           now == IF reader[q].pc = "read" THEN "none" ELSE Current(q).kind
<1>3. now = Executing(q) /\ now' = Executing(q)'
  BY DEF Executing
<1>4. SUFFICES \/ /\ seen' = seen /\ now' = now
                  /\ \/ kept' = kept
                     \/ /\ kept' \in Seq(MessageKinds)
                        /\ Len(kept') > Len(kept) /\ SubSeq(kept', 1, Len(kept)) = kept
               \/ seen' = seen \o kept /\ kept' = <<>> /\ now' = now
               \/ /\ now = "none" /\ seen # <<>> /\ now' = Head(seen) /\ seen' = Tail(seen)
                  /\ kept' = kept
               \/ now # "none" /\ now' = "none" /\ kept' = kept /\ seen' = seen
  <2> HIDE DEF seen, kept, now
  <2>1. CASE seen' = seen /\ now' = now /\ kept' = kept
    BY <2>1 DEF Promise!vars, seen, kept, now
  <2>2. CASE /\ seen' = seen /\ now' = now
             /\ kept' \in Seq(MessageKinds)
             /\ Len(kept') > Len(kept) /\ SubSeq(kept', 1, Len(kept)) = kept
    <3>1. Promise(q)!Write
      BY <2>2 DEF Promise!Write, seen, kept, now
    <3>2. QED
      BY <3>1 DEF Promise!Next
  <2>3. CASE seen' = seen \o kept /\ kept' = <<>> /\ now' = now
    <3>1. Promise(q)!Publish
      BY <2>3 DEF Promise!Publish, seen, kept, now
    <3>2. QED
      BY <3>1 DEF Promise!Next
  <2>4. CASE /\ now = "none" /\ seen # <<>> /\ now' = Head(seen) /\ seen' = Tail(seen)
             /\ kept' = kept
    <3>1. Promise(q)!Take
      BY <2>4 DEF Promise!Take, seen, kept, now
    <3>2. QED
      BY <3>1 DEF Promise!Next
  <2>5. CASE now # "none" /\ now' = "none" /\ kept' = kept /\ seen' = seen
    <3>1. Promise(q)!Done
      BY <2>5 DEF Promise!Done, seen, kept, now
    <3>2. QED
      BY <3>1 DEF Promise!Next
  <2>6. QED
    BY <1>4, <2>1, <2>2, <2>3, <2>4, <2>5
<1>5. seen = Part(f, 0, k) /\ kept = Part(f, k, n) /\ seen' = Part(f', 0, k') /\ kept' = Part(f', k', n')
  BY <1>1, <1>2
<1> HIDE DEF seen, kept, now
<1>6. CASE Extends(q)
  <2>1. n' >= n /\ k' = k /\ now' = now
    BY <1>3, <1>6 DEF Extends
  <2>2. \A i \in 1 .. n : i \in 1 .. n' /\ f'[i] = f[i]
    BY <1>1, <1>2, <1>6, <2>1 DEF Extends
  <2> HIDE DEF n, k, f
  <2>3. seen' = seen
    <3>1. \A i \in 1 .. k : f'[i] = f[i]
      BY <1>1, <2>2
    <3>2. Part(f', 0, k) = Part(f, 0, k)
      BY <1>1, <3>1, PartEqual
    <3>3. QED
      BY <1>5, <2>1, <3>2
  <2>4. CASE n' = n
    <3>1. Part(f', k, n) = Part(f, k, n)
      BY <1>1, <2>2, PartEqual
    <3>2. QED
      BY <1>5, <2>1, <2>3, <2>4, <3>1
  <2>5. CASE n' > n
    <3>1. /\ Part(f', k, n') \in Seq(MessageKinds) /\ Len(Part(f', k, n')) > Len(Part(f, k, n))
          /\ SubSeq(Part(f', k, n'), 1, Len(Part(f, k, n))) = Part(f, k, n)
      <4>1. PICK a \in {f}, b \in {f'}, i \in Nat, j \in Nat, l \in Nat : a = f /\ b = f' /\ i = k /\ j = n /\ l = n'
        BY <1>1, <1>2
      <4>2. i <= j /\ j < l
        BY <1>1, <2>5, <4>1
      <4>3. \A h \in 1 .. l : b[h] \in MessageKinds
        BY <1>2, <4>1
      <4>4. \A h \in 1 .. j : a[h] \in MessageKinds
        BY <1>1, <4>1
      <4>5. \A h \in 1 .. j : b[h] = a[h]
        BY <2>2, <4>1
      <4>6. /\ Part(b, i, l) \in Seq(MessageKinds) /\ Len(Part(b, i, l)) > Len(Part(a, i, j))
            /\ SubSeq(Part(b, i, l), 1, Len(Part(a, i, j))) = Part(a, i, j)
        BY <4>1, <4>2, <4>3, <4>4, <4>5, PartLonger
      <4>7. QED
        BY <4>1, <4>6
    <3>2. QED
      BY <1>5, <2>1, <2>3, <3>1
  <2>6. QED
    BY <1>1, <1>2, <2>1, <2>4, <2>5
<1>7. CASE Publishes(q)
  <2>1. n' = n /\ k' = n /\ now' = now
    BY <1>3, <1>7 DEF Publishes
  <2>2. \A i \in 1 .. n : f'[i] = f[i]
    BY <1>1, <1>2, <1>7, <2>1 DEF Publishes
  <2> HIDE DEF n, k, f
  <2>3. Part(f', 0, n) = Part(f, 0, n) /\ Part(f', n, n) = Part(f, n, n)
    BY <1>1, <2>2, PartEqual
  <2>4. Part(f, 0, k) \o Part(f, k, n) = Part(f, 0, n) /\ Part(f, n, n) = <<>>
    <3>1. n \in Nat /\ k \in Nat /\ k <= n /\ \A i \in 1 .. n : f[i] \in MessageKinds
      BY <1>1
    <3>2. QED
      BY <3>1, PartsJoin
  <2>5. QED
    BY <1>5, <2>1, <2>3, <2>4
<1>8. CASE Takes(q)
  <2>1. n' = n - 1 /\ k' = k - 1 /\ k > 0 /\ now = "none" /\ now' = KindAt(q, 1)
    BY <1>3, <1>8 DEF Takes
  <2>2. \A i \in 1 .. n - 1 : f'[i] = f[i + 1]
    <3>1. \A i \in 1 .. n - 1 : i + 1 \in 1 .. n
      BY <1>1
    <3>2. QED
      BY <1>1, <1>2, <1>8, <2>1, <3>1 DEF Takes
  <2>3. KindAt(q, 1) = f[1]
    BY <1>1, <2>1
  <2> HIDE DEF n, k, f
  <2>4. /\ Part(f, 0, k) # <<>> /\ Head(Part(f, 0, k)) = f[1]
        /\ Part(f', 0, k - 1) = Tail(Part(f, 0, k))
        /\ Part(f', k - 1, n - 1) = Part(f, k, n)
    <3>1. /\ n \in Nat /\ k \in Nat /\ k <= n /\ k > 0
          /\ \A i \in 1 .. n : f[i] \in MessageKinds
      BY <1>1, <2>1
    <3>2. QED
      <4>1. PICK a \in {f}, b \in {f'}, i \in Nat, j \in Nat : a = f /\ b = f' /\ i = k /\ j = n
        BY <3>1
      <4>2. PICK h \in Nat, l \in Nat : h = i - 1 /\ l = j - 1 /\ i = h + 1 /\ j = l + 1 /\ i <= j
        BY <3>1, <4>1
      <4>3. \A m \in 1 .. j : a[m] \in MessageKinds
        BY <3>1, <4>1
      <4>4. \A m \in 1 .. l : b[m] = a[m + 1]
        BY <2>2, <4>1, <4>2
      <4>5. /\ Part(a, 0, i) # <<>> /\ Head(Part(a, 0, i)) = a[1]
            /\ Part(b, 0, h) = Tail(Part(a, 0, i))
            /\ Part(b, h, l) = Part(a, i, j)
        <5>1. Shifted(a, b, i, j, h, l)
          BY <4>1, <4>2, <4>3, <4>4 DEF Shifted
        <5>2. i \in Nat /\ j \in Nat /\ h \in Nat /\ l \in Nat
          BY <4>1, <4>2
        <5> HIDE <4>1, <4>2
        <5>3. QED
          BY <5>1, <5>2, PartsShift
      <4>6. QED
        BY <4>1, <4>2, <4>5
  <2>5. QED
    BY <1>5, <2>1, <2>3, <2>4
<1>9. CASE Ends(q)
  <2>1. n' = n /\ k' = k /\ now # "none" /\ now' = "none"
    BY <1>3, <1>9 DEF Ends
  <2>2. \A i \in 1 .. n : f'[i] = f[i]
    BY <1>1, <1>2, <1>9, <2>1 DEF Ends
  <2> HIDE DEF n, k, f
  <2>3. \A i \in 1 .. k : f'[i] = f[i]
    BY <1>1, <2>2
  <2>4. Part(f', 0, k) = Part(f, 0, k) /\ Part(f', k, n) = Part(f, k, n)
    BY <1>1, <2>2, <2>3, PartEqual
  <2>5. QED
    BY <1>5, <2>1, <2>4
<1>10. QED
  BY <1>6, <1>7, <1>8, <1>9 DEF Effect

(* Each queue delivers what is written to it, in order and once, however   *)
(* its messages are laid out in chunks (MessageQueue and MessageWriter).   *)
THEOREM EachQueueDelivers == ASSUME ~ParallelFlush PROVE Spec => QueuesDeliver
<1>1. ASSUME Init, NEW q \in Queues PROVE Promise(q)!Init
  <2>1. IInv
    BY <1>1, Initially
  <2>2. Unread(q) = 0 /\ Shown(q) = 0 /\ reader[q].pc = "read"
    BY <1>1 DEF Init, Unread, Shown
  <2>3. /\ Contents(q, 1, reader[q].newCount + published[q]) = Part(Kinds(q), 0, 0)
        /\ Contents(q, reader[q].newCount + published[q] + 1, Unread(q)) = Part(Kinds(q), 0, 0)
    BY <2>1, <2>2, MappingHolds DEF Mapping, IInv
  <2>4. Part(Kinds(q), 0, 0) = <<>>
    <3>1. \A i \in 1 .. 0 : Kinds(q)[i] \in MessageKinds
      OBVIOUS
    <3>2. QED
      BY <3>1, PartsJoin
  <2>5. QED
    BY <2>2, <2>3, <2>4 DEF Promise!Init
<1>2. Init => \A q \in Queues : Promise(q)!Init
  BY <1>1
<1>3. IInv /\ [Next]_vars => [\A q \in Queues : [Promise(q)!Next]_(Promise(q)!vars)]_vars
  <2> SUFFICES ASSUME IInv, [Next]_vars, NEW q \in Queues
               PROVE  [Promise(q)!Next]_(Promise(q)!vars)
    OBVIOUS
  <2>1. IInv' /\ Effect
    BY EachStep
  <2>2. QED
    BY <2>1, EffectDelivers
<1>4. QED
  BY <1>2, <1>3, MemoryInvariance, PTL DEF Spec, QueuesDeliver
====
