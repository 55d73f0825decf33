------------------------- MODULE XMLHttpRequest_proofs -------------------------
(***************************************************************************)
(* Theorems about XMLHttpRequest, for any number of requests and aborts,   *)
(* and whatever the handlers do in the middle of the functions that fire   *)
(* them: an answer is taken for another request only after an abort, a     *)
(* timer does not hit the next request, the roots are as many as the       *)
(* requests on their way, and a request has one outcome.                   *)
(*                                                                         *)
(* They rest on this: when the object takes the next request, each one     *)
(* still in the air was aborted, or had its answer taken away by that of   *)
(* an aborted one (CurrentInv).                                            *)
(***************************************************************************)
EXTENDS XMLHttpRequest, FiniteSetTheorems, SequenceTheorems, TLAPS

Steps ==
  Event \cup {"handler", "unroot", "load_started", "aborted", "timed_out", "cancel"}
Entry == [step : Steps, of : 0 .. NumSends]

(* How much of what is left to do is in E.                                 *)
Count(s, E) == Cardinality({i \in DOMAIN s : s[i] \in E})

Outcomes == {"onload", "onerror", "ontimeout"}
Fates == {"aborted", "reopened", "silenced", "confused"}

Step(x) == {e \in Entry : e.step = x}
OutcomeOf(n) == {e \in Entry : e.step \in Outcomes /\ e.of = n}

(* The outcomes of request n that are about to be told.                    *)
Telling(n) == Count(todo, OutcomeOf(n))

(* The answer to n may be missing, or be taken for another's; its timer    *)
(* may be left behind.                                                     *)
Astray(n) == fate[n] \cap {"aborted", "confused"} # {}
Loose(n) == fate[n] \cap {"aborted", "silenced"} # {}

Fresh == \A n \in Sends : n > sends => fate[n] = {}

Types ==
  /\ readyState \in {"UNSENT", "OPENED", "DONE"}
  /\ isAborted \in BOOLEAN /\ isLoadStart \in BOOLEAN
  /\ isTimeout \in BOOLEAN /\ isSending \in BOOLEAN /\ callback \in BOOLEAN
  /\ sends \in 0 .. NumSends
  /\ aborts \in Nat
  /\ timer \in 0 .. sends
  /\ flying \in SUBSET (1 .. sends)
  /\ todo \in Seq(Entry)
  /\ memory \in {"alive", "finalized", "deleted"}
  /\ rootCount \in Nat
  /\ outcome \in [Sends -> SUBSET Outcomes]
  /\ fate \in [Sends -> SUBSET Fates]
  /\ Fresh

(* What is in the air is the last request, or has gone astray; when the    *)
(* object is ready to send, all of it has.                                 *)
CurrentInv ==
  /\ \A n \in flying : n = sends \/ Astray(n)
  /\ ~isSending => \A n \in flying : Astray(n)

(* A timer that abort has not left behind is that of the last request,     *)
(* which is waited for.                                                    *)
TimerInv ==
  timer # 0 => /\ "confused" \notin fate[timer]
               /\ Loose(timer) \/ (timer = sends /\ timer \in flying /\ callback)

(* Before the first abort the object waits for whatever is in the air.     *)
QuietInv ==
  aborts = 0 =>
    /\ ~isAborted /\ Pending("aborted") = 0
    /\ \A n \in Sends : fate[n] \subseteq {"reopened"}
    /\ flying # {} => /\ callback /\ memory = "alive"
                      /\ readyState = "UNSENT" => isTimeout

(* onloadstart is fired before anything else is done, so that no root is   *)
(* taken away before it is there.                                          *)
RootInv ==
  aborts = 0 =>
    /\ Pending("onloadstart") # 0 =>
         /\ Pending("onloadstart") = 1
         /\ Head(todo).step = "onloadstart"
    /\ rootCount + Pending("onloadstart")
         = Cardinality(flying) + Pending("onloadend") + Pending("unroot")

(* After a timeout the object is not used before it is opened.             *)
StateInv == isTimeout => readyState = "UNSENT" \/ Pending("aborted") # 0

(* No answer is told that comes now, or when the functions running have    *)
(* gone on.                                                                *)
Quieted ==
  \/ isTimeout
  \/ Pending("timed_out") # 0
  \/ Pending("aborted") # 0
  \/ ~callback

Shut == readyState = "UNSENT" \/ Pending("aborted") # 0 \/ memory = "deleted"

(* A request whose outcome is known, or about to be told, has no timer     *)
(* that is not being cancelled, and no answer that would be told; without  *)
(* its callback, the object has to be opened before it is used.            *)
ToldOnce(n) ==
  /\ outcome[n] = {} \/ \E o \in Outcomes : outcome[n] = {o}
  /\ Telling(n) <= 1
  /\ outcome[n] # {} \/ Telling(n) # 0 =>
       /\ outcome[n] = {} \/ Telling(n) = 0
       /\ n <= sends
       /\ timer = n => Pending("cancel") # 0
       /\ n \in flying => Quieted
  /\ n \in flying /\ ~callback => Shut

OutcomeInv == \A n \in Sends : "reopened" \notin fate[n] => ToldOnce(n)

IInv ==
  /\ Types
  /\ CurrentInv
  /\ TimerInv
  /\ QuietInv
  /\ RootInv
  /\ StateInv
  /\ OutcomeInv

------------------------------------------------------------------------------
LEMMA CountFinite ==
  ASSUME NEW s \in Seq(Entry), NEW E
  PROVE  /\ IsFiniteSet({i \in DOMAIN s : s[i] \in E})
         /\ Count(s, E) \in Nat
<1> DEFINE n == Len(s)
           S == {i \in DOMAIN s : s[i] \in E}
<1>1. n \in Nat /\ DOMAIN s = 1..n
  BY LenProperties
<1> HIDE DEF n
<1>2. IsFiniteSet(1..n)
  BY <1>1, FS_Interval
<1>3. S \subseteq 1..n
  BY <1>1
<1> HIDE DEF S
<1>4. IsFiniteSet(S) /\ Cardinality(S) \in Nat
  BY <1>2, <1>3, FS_Subset, FS_CardinalityType
<1>5. QED
  BY <1>4 DEF Count, S

LEMMA CountEmpty == \A E : Count(<<>>, E) = 0
<1>1. ASSUME NEW E PROVE Count(<<>>, E) = 0
  <2>1. {i \in DOMAIN <<>> : <<>>[i] \in E} = {}
    OBVIOUS
  <2>2. QED
    BY <2>1, FS_EmptySet DEF Count
<1>2. QED
  BY <1>1

LEMMA CountOne == \A e, E : Count(<<e>>, E) = IF e \in E THEN 1 ELSE 0
<1>1. ASSUME NEW e, NEW E PROVE Count(<<e>>, E) = IF e \in E THEN 1 ELSE 0
  <2> DEFINE S == {i \in DOMAIN <<e>> : <<e>>[i] \in E}
  <2>1. DOMAIN <<e>> = {1} /\ <<e>>[1] = e
    OBVIOUS
  <2>2. CASE e \in E
    <3>1. S = {1}
      BY <2>1, <2>2
    <3>2. QED
      BY <2>2, <3>1, FS_Singleton DEF Count
  <2>3. CASE e \notin E
    <3>1. S = {}
      BY <2>1, <2>3
    <3>2. QED
      BY <2>3, <3>1, FS_EmptySet DEF Count
  <2>4. QED
    BY <2>2, <2>3
<1>2. QED
  BY <1>1

(* What is to be done first counts like the rest.                          *)
LEMMA CountConcat ==
  ASSUME NEW s \in Seq(Entry), NEW t \in Seq(Entry), NEW E
  PROVE  Count(s \o t, E) = Count(s, E) + Count(t, E)
<1> DEFINE m == Len(s)
           n == Len(t)
           r == s \o t
           S == {i \in DOMAIN s : s[i] \in E}
           T == {i \in DOMAIN t : t[i] \in E}
           R == {i \in DOMAIN r : r[i] \in E}
           U == R \ S
           f == [i \in T |-> i + m]
<1>1. m \in Nat /\ n \in Nat /\ DOMAIN s = 1..m /\ DOMAIN t = 1..n
  BY LenProperties
<1>2. /\ r \in Seq(Entry) /\ DOMAIN r = 1..(m + n)
      /\ \A i \in 1..(m + n) : r[i] = IF i <= m THEN s[i] ELSE t[i - m]
  BY ConcatProperties, LenProperties
<1>3. /\ IsFiniteSet(S) /\ IsFiniteSet(T) /\ IsFiniteSet(R)
      /\ Cardinality(S) \in Nat /\ Cardinality(T) \in Nat /\ Cardinality(R) \in Nat
  BY <1>2, CountFinite DEF Count
<1> HIDE DEF m, n, r
<1>4. /\ S = {i \in 1..m : s[i] \in E}
      /\ T = {i \in 1..n : t[i] \in E}
      /\ R = {i \in 1..(m + n) : r[i] \in E}
  BY <1>1, <1>2
<1>5. S \subseteq R
  BY <1>1, <1>2, <1>4
<1>6. f \in Bijection(T, U)
  <2>1. /\ U = {i \in 1..(m + n) : i > m /\ t[i - m] \in E}
    BY <1>1, <1>2, <1>4
  <2> HIDE DEF S, T, R, U
  <2>2. \A i \in T : f[i] = i + m /\ i + m \in U /\ i \in Int
    BY <1>1, <1>4, <2>1
  <2>3. \A j \in U : j - m \in T /\ f[j - m] = j
    BY <1>1, <1>4, <2>1
  <2>4. \A i, j \in T : f[i] = f[j] => i = j
    BY <1>1, <2>2
  <2>5. f \in [T -> U]
    BY <2>2
  <2>6. QED
    <3> HIDE DEF f
    <3>1. f \in Injection(T, U)
      BY <2>4, <2>5 DEF Injection, IsInjective
    <3>2. f \in Surjection(T, U)
      BY <2>3, <2>5 DEF Surjection
    <3>3. QED
      BY <3>1, <3>2 DEF Bijection
<1>7. Cardinality(T) = Cardinality(U)
  BY <1>3, <1>6, FS_Bijection DEF ExistsBijection
<1>8. /\ R = S \cup U /\ S \cap U = {} /\ IsFiniteSet(U)
  BY <1>3, <1>5, FS_Subset
<1> HIDE DEF S, T, R, U
<1>9. Cardinality(R) = Cardinality(S) + Cardinality(T)
  <2>1. Cardinality(S \cup U) = Cardinality(S) + Cardinality(U) - Cardinality(S \cap U)
    BY <1>3, <1>8, FS_Union
  <2>2. Cardinality(S \cap U) = 0
    BY <1>8, FS_EmptySet
  <2>3. Cardinality(R) = Cardinality(S \cup U)
    BY <1>8
  <2>4. QED
    BY <1>3, <1>7, <2>1, <2>2, <2>3
<1>10. QED
  BY <1>9 DEF Count, S, T, R, r

------------------------------------------------------------------------------
(* An entry is counted with its step, and with the request it tells of.    *)
LEMMA DoCounts ==
  ASSUME NEW x \in Steps, NEW n \in 0 .. NumSends
  PROVE  /\ Do(x, n) \in Seq(Entry)
         /\ \A y \in Steps : Count(Do(x, n), Step(y)) = IF x = y THEN 1 ELSE 0
         /\ \A k \in Sends :
              Count(Do(x, n), OutcomeOf(k)) = IF x \in Outcomes /\ n = k THEN 1 ELSE 0
<1> DEFINE e == [step |-> x, of |-> n]
<1>1. e \in Entry /\ e.step = x /\ e.of = n
  BY DEF Entry
<1>2. Do(x, n) = <<e>>
  BY DEF Do
<1> HIDE DEF e
<1>3. \A y : e \in Step(y) <=> x = y
  BY <1>1 DEF Step
<1>4. \A k : e \in OutcomeOf(k) <=> x \in Outcomes /\ n = k
  BY <1>1 DEF OutcomeOf
<1>5. Do(x, n) \in Seq(Entry)
  BY <1>1, <1>2
<1>6. \A E : Count(Do(x, n), E) = IF e \in E THEN 1 ELSE 0
  BY <1>2, CountOne
<1>7. QED
  BY <1>3, <1>4, <1>5, <1>6

LEMMA DoQuiet ==
  ASSUME NEW x \in Steps \ Outcomes, NEW n \in 0 .. NumSends
  PROVE  /\ Do(x, n) \in Seq(Entry)
         /\ \A y \in Steps : Count(Do(x, n), Step(y)) = IF y = x THEN 1 ELSE 0
         /\ \A k \in Sends : Count(Do(x, n), OutcomeOf(k)) = 0
BY DoCounts

LEMMA ConcatCounts ==
  ASSUME NEW s \in Seq(Entry), NEW t \in Seq(Entry)
  PROVE  /\ s \o t \in Seq(Entry)
         /\ \A E : Count(s \o t, E) = Count(s, E) + Count(t, E)
BY CountConcat, ConcatProperties

LEMMA ConcatQuiet ==
  ASSUME NEW s \in Seq(Entry), NEW t \in Seq(Entry),
         \A k \in Sends : Count(s, OutcomeOf(k)) = 0,
         \A k \in Sends : Count(t, OutcomeOf(k)) = 0
  PROVE  /\ s \o t \in Seq(Entry)
         /\ \A k \in Sends : Count(s \o t, OutcomeOf(k)) = 0
<1>1. /\ s \o t \in Seq(Entry)
      /\ \A E : Count(s \o t, E) = Count(s, E) + Count(t, E)
  BY ConcatCounts
<1>2. QED
  BY <1>1

(* The first entry, and the rest.                                          *)
LEMMA HeadCounts ==
  ASSUME NEW s \in Seq(Entry), s # <<>>
  PROVE  /\ Head(s).step \in Steps /\ Head(s).of \in 0 .. NumSends
         /\ Tail(s) \in Seq(Entry)
         /\ \A y \in Steps :
              Count(s, Step(y)) = Count(Tail(s), Step(y)) + IF Head(s).step = y THEN 1 ELSE 0
         /\ \A k \in Sends :
              Count(s, OutcomeOf(k)) =
                Count(Tail(s), OutcomeOf(k))
                  + IF Head(s).step \in Outcomes /\ Head(s).of = k THEN 1 ELSE 0
<1>1. Head(s) \in Entry /\ Tail(s) \in Seq(Entry)
  BY HeadTailProperties
<1>2. s = <<Head(s)>> \o Tail(s)
  OBVIOUS
<1>3. \A E : Count(s, E) = (IF Head(s) \in E THEN 1 ELSE 0) + Count(Tail(s), E)
  <2>1. TAKE E
  <2>2. <<Head(s)>> \in Seq(Entry)
    BY <1>1
  <2>3. Count(<<Head(s)>> \o Tail(s), E) = Count(<<Head(s)>>, E) + Count(Tail(s), E)
    BY <1>1, <2>2, CountConcat
  <2>4. Count(s, E) = Count(<<Head(s)>> \o Tail(s), E)
    BY <1>2
  <2>5. Count(<<Head(s)>>, E) = IF Head(s) \in E THEN 1 ELSE 0
    BY CountOne
  <2>6. QED
    BY <2>3, <2>4, <2>5
<1> DEFINE h == Head(s)
<1> HIDE DEF h
<1>4. h \in Entry
  BY <1>1 DEF h
<1>5. h.step \in Steps /\ h.of \in 0 .. NumSends
  BY <1>4 DEF Entry
<1>6. \A y : h \in Step(y) <=> h.step = y
  BY <1>4 DEF Step
<1>7. \A k : h \in OutcomeOf(k) <=> h.step \in Outcomes /\ h.of = k
  BY <1>4 DEF OutcomeOf
<1>8. \A E : Count(Tail(s), E) \in Nat
  BY <1>1, CountFinite
<1>9. QED
  BY <1>1, <1>3, <1>5, <1>6, <1>7, <1>8 DEF h

LEMMA PendingCounts ==
  ASSUME todo \in Seq(Entry)
  PROVE  /\ \A y \in Steps : Pending(y) = Count(todo, Step(y)) /\ Pending(y) \in Nat
         /\ \A k \in Sends : Telling(k) = Count(todo, OutcomeOf(k)) /\ Telling(k) \in Nat
<1>1. \A y : Pending(y) = Count(todo, Step(y))
  <2>1. TAKE y
  <2>2. \A i \in DOMAIN todo : todo[i] \in Entry
    BY LenProperties
  <2>3. {i \in DOMAIN todo : todo[i].step = y} = {i \in DOMAIN todo : todo[i] \in Step(y)}
    BY <2>2 DEF Step
  <2>4. QED
    BY <2>3 DEF Pending, Count
<1>2. \A E : Count(todo, E) \in Nat
  BY CountFinite
<1>3. QED
  BY <1>1, <1>2 DEF Telling

LEMMA PendingCountsNext ==
  ASSUME todo' \in Seq(Entry)
  PROVE  /\ \A y \in Steps : Pending(y)' = Count(todo', Step(y)) /\ Pending(y)' \in Nat
         /\ \A k \in Sends : Telling(k)' = Count(todo', OutcomeOf(k)) /\ Telling(k)' \in Nat
<1>1. \A y : Pending(y)' = Count(todo', Step(y))
  <2>1. TAKE y
  <2>2. \A i \in DOMAIN todo' : todo'[i] \in Entry
    BY LenProperties
  <2>3. {i \in DOMAIN todo' : todo'[i].step = y} = {i \in DOMAIN todo' : todo'[i] \in Step(y)}
    BY <2>2 DEF Step
  <2>4. QED
    BY <2>3 DEF Pending, Count
<1>2. \A E : Count(todo', E) \in Nat
  BY CountFinite
<1>3. \A k : Telling(k)' = Count(todo', OutcomeOf(k))
  BY DEF Telling, Count, OutcomeOf, Entry, Steps, Event, Outcomes
<1>4. QED
  BY <1>1, <1>2, <1>3

------------------------------------------------------------------------------
(* What a function that is called puts before what is left to do.          *)
LEMMA Pushed ==
  ASSUME NEW s \in Seq(Entry), todo \in Seq(Entry), todo' = s \o todo
  PROVE  /\ todo' \in Seq(Entry)
         /\ \A y \in Steps : Pending(y)' = Count(s, Step(y)) + Pending(y)
         /\ \A k \in Sends : Telling(k)' = Count(s, OutcomeOf(k)) + Telling(k)
<1>1. todo' \in Seq(Entry)
  BY ConcatProperties
<1>2. \A E : Count(todo', E) = Count(s, E) + Count(todo, E)
  BY CountConcat
<1>3. QED
  BY <1>1, <1>2, PendingCounts, PendingCountsNext

(* What goes on, but for the first entry.                                  *)
LEMMA Popped ==
  ASSUME NEW x \in Steps \ Event, IInv, Continue(x)
  PROVE  /\ todo' \in Seq(Entry)
         /\ \A y \in Steps : Pending(y)' \in Nat
         /\ \A y \in Steps : Pending(y) = Pending(y)' + IF x = y THEN 1 ELSE 0
         /\ \A k \in Sends : Telling(k)' = Telling(k) /\ Telling(k) \in Nat
         /\ aborts = 0 => Pending("onloadstart") = 0
<1>1. todo \in Seq(Entry) /\ todo # <<>> /\ Head(todo).step = x /\ todo' = Tail(todo)
  BY DEF IInv, Types, Continue
<1>2. x \notin Outcomes /\ x # "onloadstart"
  BY DEF Outcomes, Event
<1>3. /\ todo' \in Seq(Entry)
      /\ \A y \in Steps : Count(todo, Step(y)) = Count(todo', Step(y)) + IF x = y THEN 1 ELSE 0
      /\ \A k \in Sends : Count(todo, OutcomeOf(k)) = Count(todo', OutcomeOf(k)) + 0
  BY <1>1, <1>2, HeadCounts
<1>4. /\ \A y \in Steps : Pending(y) = Count(todo, Step(y)) /\ Pending(y) \in Nat
      /\ \A k \in Sends : Telling(k) = Count(todo, OutcomeOf(k)) /\ Telling(k) \in Nat
  BY <1>1, PendingCounts
<1>5. /\ \A y \in Steps : Pending(y)' = Count(todo', Step(y)) /\ Pending(y)' \in Nat
      /\ \A k \in Sends : Telling(k)' = Count(todo', OutcomeOf(k)) /\ Telling(k)' \in Nat
  BY <1>3, PendingCountsNext
<1>6. aborts = 0 => Pending("onloadstart") = 0
  BY <1>1, <1>2 DEF IInv, RootInv
<1>7. QED
  BY <1>3, <1>4, <1>5, <1>6

LEMMA NothingPending ==
  ASSUME todo = <<>>
  PROVE  /\ \A y \in Steps : Pending(y) = 0
         /\ \A k \in Sends : Telling(k) = 0
<1>1. todo \in Seq(Entry)
  OBVIOUS
<1>2. QED
  BY <1>1, PendingCounts, CountEmpty

LEMMA SameTodo ==
  ASSUME todo' = todo
  PROVE  /\ \A y \in Steps : Pending(y)' = Pending(y)
         /\ \A k \in Sends : Telling(k)' = Telling(k)
BY DEF Pending, Telling, Count, OutcomeOf, Entry, Steps, Event, Outcomes

LEMMA SetReadyStateCounts ==
  ASSUME NEW state, NEW n \in 0 .. NumSends
  PROVE  /\ SetReadyState(state, n) \in Seq(Entry)
         /\ \A y \in Steps \ {"onreadystatechange"} : Count(SetReadyState(state, n), Step(y)) = 0
         /\ \A k \in Sends : Count(SetReadyState(state, n), OutcomeOf(k)) = 0
<1>1. "onreadystatechange" \in Steps \ Outcomes
  BY DEF Steps, Event, Outcomes
<1>2. CASE readyState = state
  BY <1>2, CountEmpty DEF SetReadyState
<1>3. CASE readyState # state
  BY <1>1, <1>3, DoCounts DEF SetReadyState
<1>4. QED
  BY <1>2, <1>3

LEMMA StepNames ==
  /\ "onreadystatechange" \in Steps /\ "onloadstart" \in Steps /\ "onload" \in Steps
  /\ "onerror" \in Steps /\ "onabort" \in Steps /\ "ontimeout" \in Steps
  /\ "onloadend" \in Steps
  /\ "handler" \in Steps \ Event /\ "unroot" \in Steps \ Event
  /\ "load_started" \in Steps \ Event /\ "aborted" \in Steps \ Event
  /\ "timed_out" \in Steps \ Event /\ "cancel" \in Steps \ Event
BY DEF Steps, Event

LEMMA InTheAir ==
  \A F, n : F = {} \/ F = {n} => Cardinality(F) = IF F = {} THEN 0 ELSE 1
BY FS_EmptySet, FS_Singleton

(* Before the first abort one request is in the air at most.               *)
LEMMA OneInTheAir ==
  ASSUME IInv, aborts = 0
  PROVE  /\ flying = {} \/ flying = {sends}
         /\ ~isSending => flying = {}
         /\ Cardinality(flying) = IF flying = {} THEN 0 ELSE 1
<1>1. \A n \in flying : ~Astray(n)
  <2>1. \A n \in flying : n \in Sends
    BY XMLHttpRequestAssumption DEF IInv, Types, Sends
  <2>2. QED
    BY <2>1 DEF IInv, QuietInv, Astray
<1>2. (flying = {} \/ flying = {sends}) /\ (~isSending => flying = {})
  BY <1>1 DEF IInv, CurrentInv
<1>3. QED
  BY <1>2, InTheAir

(* The script runs when no root is to be added.                            *)
LEMMA NoRootToAdd ==
  ASSUME IInv, ScriptRuns, aborts = 0
  PROVE  Pending("onloadstart") = 0
BY NothingPending, StepNames DEF IInv, RootInv, ScriptRuns

(* What befalls requests in the air adds to what they are known for.       *)
LEMMA FateBefalls ==
  ASSUME Types, NEW what \in Fates, NEW S, S \subseteq flying,
         fate' = Befalls(what, S)
  PROVE  /\ fate' \in [Sends -> SUBSET Fates]
         /\ \A n \in Sends : n \in S => fate'[n] = fate[n] \cup {what}
         /\ \A n \in Sends : n \notin S => fate'[n] = fate[n]
         /\ \A n \in Sends : (Astray(n) => Astray(n)') /\ (Loose(n) => Loose(n)')
         /\ sends' = sends => Fresh'
<1>1. /\ fate' \in [Sends -> SUBSET Fates]
      /\ \A n \in Sends : n \in S => fate'[n] = fate[n] \cup {what}
      /\ \A n \in Sends : n \notin S => fate'[n] = fate[n]
  BY DEF Types, Befalls
<1>2. \A n \in Sends : fate[n] \subseteq fate'[n]
  BY <1>1
<1>3. \A n \in Sends : (Astray(n) => Astray(n)') /\ (Loose(n) => Loose(n)')
  BY <1>2 DEF Astray, Loose
<1>4. sends' = sends => Fresh'
  <2>1. SUFFICES ASSUME sends' = sends, NEW n \in Sends, n > sends PROVE fate'[n] = {}
    BY DEF Fresh
  <2>2. n \notin S
    <3>1. n \notin 1 .. sends
      BY <2>1, XMLHttpRequestAssumption DEF Types, Sends
    <3>2. QED
      BY <3>1 DEF Types
  <2>3. QED
    BY <1>1, <2>1, <2>2 DEF Types, Fresh
<1>5. QED
  BY <1>1, <1>3, <1>4

LEMMA SameFate ==
  ASSUME Types, fate' = fate, sends' = sends
  PROVE  /\ fate' \in [Sends -> SUBSET Fates]
         /\ \A n \in Sends : Astray(n)' = Astray(n) /\ Loose(n)' = Loose(n)
         /\ Fresh'
BY DEF Types, Astray, Loose, Fresh

LEMMA InAirSent ==
  ASSUME Types
  PROVE  /\ \A n \in flying : n \in Sends /\ n <= sends
         /\ timer # 0 => timer \in Sends
         /\ \A n \in Sends : n \in 0 .. NumSends /\ n # 0
<1>1. NumSends \in Nat /\ sends \in 0 .. NumSends /\ timer \in 0 .. sends
  BY XMLHttpRequestAssumption DEF Types
<1>2. flying \subseteq 1 .. sends
  BY DEF Types
<1>3. QED
  BY <1>1, <1>2 DEF Sends

------------------------------------------------------------------------------
LEMMA InitInv == Init => IInv
<1>1. SUFFICES ASSUME Init PROVE IInv
  OBVIOUS
<1>2. NumSends \in Nat
  BY XMLHttpRequestAssumption
<1>3. /\ \A y \in Steps : Pending(y) = 0
      /\ \A k \in Sends : Telling(k) = 0
  BY <1>1, NothingPending DEF Init
<1>4. /\ readyState = "UNSENT" /\ ~isAborted /\ ~isTimeout /\ ~isSending /\ ~callback
      /\ ~isLoadStart /\ timer = 0 /\ flying = {} /\ memory = "alive" /\ rootCount = 0
      /\ sends = 0 /\ aborts = 0
      /\ \A n \in Sends : outcome[n] = {} /\ fate[n] = {}
  BY <1>1 DEF Init
<1>5. Types
  <2>1. 0 \in 0 .. NumSends /\ timer \in 0 .. sends
    BY <1>2, <1>4
  <2>2. outcome \in [Sends -> SUBSET Outcomes] /\ fate \in [Sends -> SUBSET Fates]
    BY <1>1 DEF Init
  <2>3. todo \in Seq(Entry)
    BY <1>1, EmptySeq DEF Init
  <2>4. flying \in SUBSET (1 .. sends) /\ Fresh
    BY <1>4 DEF Fresh
  <2>5. {isAborted, isLoadStart, isTimeout, isSending, callback} \subseteq BOOLEAN
    BY <1>1 DEF Init
  <2>6. QED
    BY <1>4, <2>1, <2>2, <2>3, <2>4, <2>5 DEF Types
<1>6. CurrentInv /\ TimerInv /\ StateInv
  BY <1>4 DEF CurrentInv, TimerInv, StateInv
<1>7. QuietInv
  BY <1>3, <1>4, StepNames DEF QuietInv
<1>8. RootInv
  <2>1. /\ Pending("onloadstart") = 0 /\ Pending("onloadend") = 0 /\ Pending("unroot") = 0
    BY <1>3, StepNames
  <2>2. Cardinality(flying) = 0
    BY <1>4, FS_EmptySet
  <2>3. QED
    BY <1>4, <2>1, <2>2 DEF RootInv
<1>9. OutcomeInv
  BY <1>3, <1>4 DEF OutcomeInv, ToldOnce
<1>10. QED
  BY <1>5, <1>6, <1>7, <1>8, <1>9 DEF IInv

(* What is not touched stays as it is.                                     *)
LEMMA StutterInv == ASSUME IInv, UNCHANGED vars PROVE IInv'
<1>1. /\ \A y \in Steps : Pending(y)' = Pending(y)
      /\ \A k \in Sends : Telling(k)' = Telling(k)
  BY SameTodo DEF vars
<1>2. /\ UNCHANGED <<readyState, isAborted, isLoadStart, isTimeout, isSending, callback>>
      /\ UNCHANGED <<timer, flying, todo, memory, rootCount, sends, aborts, outcome, fate>>
  BY DEF vars, flags, gc, history
<1>3. /\ \A n \in Sends : Astray(n)' = Astray(n) /\ Loose(n)' = Loose(n)
      /\ \A n \in flying : n \in Sends
      /\ timer # 0 => timer \in Sends
      /\ Fresh'
  BY <1>2, SameFate, InAirSent DEF IInv
<1>4. Types'
  BY <1>2, <1>3 DEF IInv, Types
<1>5. CurrentInv' /\ TimerInv'
  BY <1>2, <1>3 DEF IInv, CurrentInv, TimerInv
<1>6. QuietInv' /\ RootInv' /\ StateInv'
  BY <1>1, <1>2, StepNames DEF IInv, QuietInv, RootInv, StateInv
<1>7. OutcomeInv'
  BY <1>1, <1>2, StepNames DEF IInv, OutcomeInv, ToldOnce, Quieted, Shut
<1>8. QED
  BY <1>4, <1>5, <1>6, <1>7 DEF IInv

(* What is in the air is opened over: it does not count for OutcomeInv.    *)
LEMMA OpenInv == ASSUME IInv, Open PROVE IInv'
<1>1. /\ readyState = "UNSENT" /\ readyState' = "OPENED"
      /\ isAborted' = FALSE /\ isTimeout' = FALSE
      /\ fate' = Befalls("reopened", flying)
      /\ UNCHANGED <<isLoadStart, isSending, callback, timer, flying, memory>>
      /\ UNCHANGED <<rootCount, sends, aborts, outcome>>
  BY DEF Open, gc
<1>2. PICK s \in Seq(Entry) :
        /\ todo' = s \o todo
        /\ \A y \in Steps \ {"onreadystatechange"} : Count(s, Step(y)) = 0
        /\ \A k \in Sends : Count(s, OutcomeOf(k)) = 0
  BY SetReadyStateCounts DEF IInv, Types, Open
<1>3. /\ todo' \in Seq(Entry)
      /\ \A y \in Steps \ {"onreadystatechange"} : Pending(y)' = Pending(y)
      /\ \A k \in Sends : Telling(k)' = Telling(k)
  <2>1. /\ \A y \in Steps : Pending(y) \in Nat
        /\ \A k \in Sends : Telling(k) \in Nat
    BY PendingCounts DEF IInv, Types
  <2>2. /\ todo' \in Seq(Entry)
        /\ \A y \in Steps : Pending(y)' = Count(s, Step(y)) + Pending(y)
        /\ \A k \in Sends : Telling(k)' = Count(s, OutcomeOf(k)) + Telling(k)
    BY <1>2, Pushed DEF IInv, Types
  <2>3. QED
    BY <1>2, <2>1, <2>2
<1>4. aborts = 0 => Pending("onloadstart") = 0
  BY NoRootToAdd DEF Open
<1>5. /\ fate' \in [Sends -> SUBSET Fates]
      /\ \A n \in Sends : n \in flying => fate'[n] = fate[n] \cup {"reopened"}
      /\ \A n \in Sends : n \notin flying => fate'[n] = fate[n]
      /\ \A n \in Sends : (Astray(n) => Astray(n)') /\ (Loose(n) => Loose(n)')
      /\ Fresh'
  <2>1. "reopened" \in Fates
    BY DEF Fates
  <2>2. QED
    BY <1>1, <2>1, FateBefalls DEF IInv
<1>6. /\ \A n \in flying : n \in Sends
      /\ timer # 0 => timer \in Sends
  BY InAirSent DEF IInv
<1>7. Types'
  BY <1>1, <1>3, <1>5 DEF IInv, Types
<1>8. CurrentInv'
  BY <1>1, <1>5, <1>6 DEF IInv, CurrentInv
<1>9. TimerInv'
  <2>1. SUFFICES ASSUME timer # 0
                 PROVE  /\ "confused" \notin fate'[timer]
                        /\ Loose(timer)' \/ (timer = sends /\ timer \in flying /\ callback)
    BY <1>1, Zenon DEF TimerInv, Loose
  <2>2. timer \in Sends /\ "confused" \notin fate[timer]
    BY <1>6, <2>1 DEF IInv, TimerInv
  <2>3. "confused" \notin fate'[timer]
    BY <1>5, <2>2
  <2>4. Loose(timer) => Loose(timer)'
    BY <1>1, <1>5, <2>2
  <2>5. QED
    BY <2>1, <2>3, <2>4 DEF IInv, TimerInv
<1>10. QuietInv'
  <2>1. SUFFICES ASSUME aborts = 0 PROVE QuietInv'
    BY <1>1 DEF QuietInv
  <2>2. /\ Pending("aborted") = 0
        /\ \A n \in Sends : fate[n] \subseteq {"reopened"}
        /\ flying # {} => callback /\ memory = "alive"
    BY <2>1 DEF IInv, QuietInv
  <2>3. \A n \in Sends : fate'[n] \subseteq {"reopened"}
    BY <1>5, <2>2
  <2>4. Pending("aborted")' = 0
    BY <1>3, <2>2, StepNames
  <2>5. QED
    BY <1>1, <2>2, <2>3, <2>4 DEF QuietInv
<1>11. RootInv'
  <2>1. /\ Pending("onloadstart")' = Pending("onloadstart")
        /\ Pending("onloadend")' = Pending("onloadend")
        /\ Pending("unroot")' = Pending("unroot")
    BY <1>3, StepNames
  <2>2. QED
    BY <1>1, <1>4, <2>1 DEF IInv, RootInv
<1>12. StateInv'
  BY <1>1 DEF StateInv
<1>13. OutcomeInv'
  <2>1. SUFFICES ASSUME NEW n \in Sends, "reopened" \notin fate'[n] PROVE ToldOnce(n)'
    BY DEF OutcomeInv
  <2>2. n \notin flying /\ "reopened" \notin fate[n]
    BY <1>5, <2>1
  <2>3. ToldOnce(n)
    BY <2>2 DEF IInv, OutcomeInv
  <2>4. Telling(n)' = Telling(n) /\ Pending("cancel")' = Pending("cancel")
    BY <1>3, StepNames
  <2>5. QED
    BY <1>1, <2>2, <2>3, <2>4 DEF ToldOnce
<1>14. QED
  BY <1>7, <1>8, <1>9, <1>10, <1>11, <1>12, <1>13 DEF IInv

(* What is still in the air has gone astray, and has no timer but what     *)
(* abort has left; what was told is not told again.                        *)
LEMMA SendRequestInv == ASSUME IInv, SendRequest PROVE IInv'
<1>1. /\ ~isSending /\ sends < NumSends /\ readyState # "UNSENT" /\ memory = "alive"
      /\ isSending' = TRUE /\ isTimeout' = FALSE /\ callback' = TRUE
      /\ flying' = flying \cup {sends'}
      /\ timer' \in {timer, IF timer = 0 THEN sends' ELSE timer}
      /\ UNCHANGED <<readyState, isAborted, isLoadStart, memory>>
      /\ UNCHANGED <<rootCount, aborts, outcome, fate>>
  BY DEF SendRequest, SendTail, ScriptRuns, gc
<1>2. \A n \in flying : Astray(n)
  BY <1>1 DEF IInv, CurrentInv
<1>3. sends \in Nat /\ sends + 1 \in 1 .. NumSends /\ sends' = sends + 1
  BY <1>1, XMLHttpRequestAssumption DEF IInv, Types, SendRequest, SendTail
<1>4. todo' = Do("onloadstart", sends + 1) \o todo
  BY <1>3 DEF SendRequest, SendTail
<1>5. /\ Do("onloadstart", sends + 1) \in Seq(Entry)
      /\ \A y \in Steps :
           Count(Do("onloadstart", sends + 1), Step(y)) = IF y = "onloadstart" THEN 1 ELSE 0
      /\ \A k \in Sends : Count(Do("onloadstart", sends + 1), OutcomeOf(k)) = 0
  <2>1. "onloadstart" \notin Outcomes
    BY DEF Outcomes
  <2>2. sends + 1 \in 0 .. NumSends
    BY <1>3, XMLHttpRequestAssumption
  <2> DEFINE n == sends + 1
  <2> HIDE DEF n
  <2>3. n \in 0 .. NumSends
    BY <2>2 DEF n
  <2>4. "onloadstart" \in Steps
    BY StepNames
  <2>5. /\ Do("onloadstart", n) \in Seq(Entry)
        /\ \A y \in Steps :
             Count(Do("onloadstart", n), Step(y)) = IF y = "onloadstart" THEN 1 ELSE 0
        /\ \A k \in Sends : Count(Do("onloadstart", n), OutcomeOf(k)) = 0
    BY <2>1, <2>3, <2>4, DoCounts
  <2>6. QED
    BY <2>5 DEF n
<1>6. /\ todo' \in Seq(Entry)
      /\ \A y \in Steps : Pending(y)' = Pending(y) + IF y = "onloadstart" THEN 1 ELSE 0
      /\ \A k \in Sends : Telling(k)' = Telling(k)
  <2>1. /\ \A y \in Steps : Pending(y) \in Nat
        /\ \A k \in Sends : Telling(k) \in Nat
    BY PendingCounts DEF IInv, Types
  <2>2. todo \in Seq(Entry)
    BY DEF IInv, Types
  <2> DEFINE s == Do("onloadstart", sends + 1)
  <2> HIDE DEF s
  <2>3. /\ todo' \in Seq(Entry)
        /\ \A y \in Steps : Pending(y)' = Count(s, Step(y)) + Pending(y)
        /\ \A k \in Sends : Telling(k)' = Count(s, OutcomeOf(k)) + Telling(k)
    BY <1>4, <1>5, <2>2, Pushed DEF s
  <2>4. /\ \A y \in Steps : Count(s, Step(y)) = IF y = "onloadstart" THEN 1 ELSE 0
        /\ \A k \in Sends : Count(s, OutcomeOf(k)) = 0
    BY <1>5 DEF s
  <2>5. QED
    BY <2>1, <2>3, <2>4
<1>7. Head(todo').step = "onloadstart"
  BY <1>4 DEF Do, IInv, Types
<1>8. aborts = 0 => Pending("onloadstart") = 0
  BY NoRootToAdd DEF SendRequest
<1>9. /\ \A n \in Sends : Astray(n)' = Astray(n) /\ Loose(n)' = Loose(n)
      /\ \A n \in flying : n \in Sends /\ n <= sends
      /\ sends' \in Sends /\ fate[sends'] = {}
  <2>1. \A n \in Sends : Astray(n)' = Astray(n) /\ Loose(n)' = Loose(n)
    BY <1>1 DEF Astray, Loose
  <2>2. sends' \in Sends /\ sends' > sends
    BY <1>3 DEF Sends
  <2>3. QED
    BY <2>1, <2>2, InAirSent DEF IInv, Types, Fresh
<1>10. \/ timer = 0 /\ timer' \in {0, sends'}
       \/ timer # 0 /\ timer' = timer /\ timer \in Sends /\ Loose(timer)
              /\ "confused" \notin fate[timer]
  <2>1. CASE timer = 0
    BY <1>1, <2>1
  <2>2. CASE timer # 0
    <3>1. timer' = timer /\ timer \in Sends
      BY <1>1, <2>2, InAirSent DEF IInv
    <3>2. "confused" \notin fate[timer] /\ (Loose(timer) \/ timer \in flying)
      BY <2>2 DEF IInv, TimerInv
    <3>3. timer \in flying => Loose(timer)
      BY <1>2, <3>2 DEF Astray, Loose
    <3>4. QED
      BY <2>2, <3>1, <3>2, <3>3
  <2>3. QED
    BY <2>1, <2>2
<1>11. Types'
  <2>1. timer \in 0 .. sends /\ flying \subseteq 1 .. sends
    BY DEF IInv, Types
  <2>2. sends' \in 0 .. NumSends /\ timer' \in 0 .. sends' /\ flying' \subseteq 1 .. sends'
    <3>1. sends' \in 0 .. NumSends
      BY <1>3, XMLHttpRequestAssumption
    <3>2. timer' \in 0 .. sends'
      BY <1>3, <1>10, <2>1
    <3>3. flying' \subseteq 1 .. sends'
      BY <1>1, <1>3, <2>1
    <3>4. QED
      BY <3>1, <3>2, <3>3
  <2>3. Fresh'
    <3>1. SUFFICES ASSUME NEW n \in Sends, n > sends' PROVE fate[n] = {}
      BY <1>1 DEF Fresh
    <3>2. n > sends
      BY <1>3, <3>1, XMLHttpRequestAssumption DEF Sends
    <3>3. QED
      BY <3>2 DEF IInv, Types, Fresh
  <2>4. QED
    BY <1>1, <1>6, <2>2, <2>3 DEF IInv, Types
<1>12. CurrentInv'
  BY <1>1, <1>2, <1>9 DEF CurrentInv
<1>13. TimerInv'
  <2>1. CASE timer' = 0
    BY <2>1 DEF TimerInv
  <2>2. CASE timer' = sends' /\ timer' # 0
    BY <1>1, <1>9, <2>2 DEF TimerInv
  <2>3. CASE timer' = timer /\ timer \in Sends /\ Loose(timer) /\ "confused" \notin fate[timer]
    <3>1. Loose(timer)'
      BY <2>3, <1>1 DEF Loose
    <3>2. QED
      BY <1>1, <2>3, <3>1 DEF TimerInv, Loose
  <2>4. QED
    BY <1>10, <2>1, <2>2, <2>3
<1>14. Pending("aborted")' = Pending("aborted") /\ Pending("cancel")' = Pending("cancel")
       /\ Pending("timed_out")' = Pending("timed_out")
  <2>1. /\ Pending("aborted") \in Nat /\ Pending("cancel") \in Nat
        /\ Pending("timed_out") \in Nat
    BY PendingCounts, StepNames DEF IInv, Types
  <2>2. /\ Pending("aborted")' = Pending("aborted") + 0
        /\ Pending("cancel")' = Pending("cancel") + 0
        /\ Pending("timed_out")' = Pending("timed_out") + 0
    BY <1>6, StepNames
  <2>3. QED
    BY <2>1, <2>2
<1>15. QuietInv'
  BY <1>1, <1>14 DEF IInv, QuietInv
<1>16. RootInv'
  <2>1. SUFFICES ASSUME aborts = 0 PROVE RootInv'
    BY <1>1 DEF RootInv
  <2>2. flying = {} /\ flying' = {sends'}
    BY <1>1, <2>1, OneInTheAir
  <2>3. Cardinality(flying) = 0 /\ Cardinality(flying') = 1
    BY <2>2, InTheAir
  <2>4. /\ Pending("onloadend")' = Pending("onloadend") /\ Pending("onloadend") \in Nat
        /\ Pending("unroot")' = Pending("unroot") /\ Pending("unroot") \in Nat
        /\ Pending("onloadstart")' = 1
    <3>1. /\ Pending("onloadend") \in Nat /\ Pending("unroot") \in Nat
      BY PendingCounts, StepNames DEF IInv, Types
    <3>2. /\ Pending("onloadend")' = Pending("onloadend") + 0
          /\ Pending("unroot")' = Pending("unroot") + 0
          /\ Pending("onloadstart")' = Pending("onloadstart") + 1
      BY <1>6, StepNames
    <3>3. QED
      BY <1>8, <2>1, <3>1, <3>2
  <2>5. rootCount' = rootCount /\ rootCount \in Nat
    BY <1>1 DEF IInv, Types
  <2>6. rootCount + 0 = 0 + Pending("onloadend") + Pending("unroot")
    BY <1>8, <2>1, <2>3 DEF IInv, RootInv
  <2>7. rootCount' + Pending("onloadstart")'
          = Cardinality(flying') + Pending("onloadend")' + Pending("unroot")'
    BY <2>3, <2>4, <2>5, <2>6
  <2>8. QED
    BY <1>7, <2>4, <2>7 DEF RootInv
<1>17. StateInv'
  BY <1>1 DEF StateInv
<1>18. OutcomeInv'
  <2>1. SUFFICES ASSUME NEW n \in Sends, "reopened" \notin fate'[n] PROVE ToldOnce(n)'
    BY DEF OutcomeInv
  <2>2. ToldOnce(n) /\ n \in Nat \ {0}
    BY <1>1, <2>1, XMLHttpRequestAssumption DEF IInv, OutcomeInv, Sends
  <2>3. outcome' = outcome /\ Telling(n)' = Telling(n) /\ callback'
    BY <1>1, <1>6
  <2>4. CASE n = sends'
    <3>1. ~(n <= sends)
      BY <1>3, <2>2, <2>4
    <3>2. outcome[n] = {} /\ Telling(n) = 0
      BY <2>2, <3>1 DEF ToldOnce
    <3>3. QED
      BY <2>3, <3>2 DEF ToldOnce
  <2>5. CASE n # sends'
    <3>1. n \in flying' => n \in flying
      BY <1>1, <2>5
    <3>2. n <= sends => n <= sends'
      BY <1>3, <2>2
    <3>3. timer' = n => timer = n
      BY <1>10, <2>2, <2>5
    <3>4. n \in flying /\ Quieted => Pending("timed_out") # 0 \/ Pending("aborted") # 0
      <4>1. isTimeout => Pending("aborted") # 0
        BY <1>1 DEF IInv, StateInv
      <4>2. n \in flying /\ ~callback => Pending("aborted") # 0
        BY <1>1, <2>2 DEF ToldOnce, Shut
      <4>3. QED
        BY <4>1, <4>2 DEF Quieted
    <3>5. n \in flying /\ Quieted => Quieted'
      BY <1>14, <3>4 DEF Quieted
    <3>6. QED
      BY <1>14, <2>2, <2>3, <3>1, <3>2, <3>3, <3>5 DEF ToldOnce
  <2>6. QED
    BY <2>4, <2>5
<1>19. QED
  BY <1>11, <1>12, <1>13, <1>15, <1>16, <1>17, <1>18 DEF IInv

(* All that is in the air is aborted, and so is its timer.                 *)
LEMMA AbortInv == ASSUME IInv, Abort PROVE IInv'
<1>1. PICK s \in Seq(Entry) :
        /\ todo' = s \o todo
        /\ Count(s, Step("aborted")) # 0
        /\ \A k \in Sends : Count(s, OutcomeOf(k)) = 0
  <2>1. sends \in 0 .. NumSends
    BY DEF IInv, Types
  <2> DEFINE a == SetReadyState("DONE", sends)
             b == Do("onabort", sends)
             c == Do("onloadend", sends)
             d == Do("aborted", sends)
  <2>2. "onabort" \notin Outcomes /\ "onloadend" \notin Outcomes /\ "aborted" \notin Outcomes
    BY DEF Outcomes
  <2>3. a \in Seq(Entry) /\ \A k \in Sends : Count(a, OutcomeOf(k)) = 0
    BY <2>1, SetReadyStateCounts
  <2>4. b \in Seq(Entry) /\ \A k \in Sends : Count(b, OutcomeOf(k)) = 0
    BY <2>1, <2>2, DoCounts, StepNames
  <2>5. c \in Seq(Entry) /\ \A k \in Sends : Count(c, OutcomeOf(k)) = 0
    BY <2>1, <2>2, DoCounts, StepNames
  <2>6. /\ d \in Seq(Entry) /\ Count(d, Step("aborted")) = 1
        /\ \A k \in Sends : Count(d, OutcomeOf(k)) = 0
    BY <2>1, <2>2, DoCounts, StepNames
  <2>7. todo' = a \o b \o c \o d \o todo
    BY DEF Abort
  <2> HIDE DEF a, b, c, d
  <2>8. PICK t \in Seq(Entry) : t = a \o b /\ \A k \in Sends : Count(t, OutcomeOf(k)) = 0
    BY <2>3, <2>4, ConcatQuiet
  <2>9. PICK u \in Seq(Entry) : u = t \o c /\ \A k \in Sends : Count(u, OutcomeOf(k)) = 0
    BY <2>5, <2>8, ConcatQuiet
  <2>10. PICK v \in Seq(Entry) : v = u \o d /\ \A k \in Sends : Count(v, OutcomeOf(k)) = 0
    BY <2>6, <2>9, ConcatQuiet
  <2>11. Count(v, Step("aborted")) # 0
    <3>1. Count(v, Step("aborted")) = Count(u, Step("aborted")) + Count(d, Step("aborted"))
      BY <2>6, <2>10, CountConcat
    <3>2. Count(u, Step("aborted")) \in Nat
      BY CountFinite
    <3>3. QED
      BY <2>6, <3>1, <3>2
  <2>12. QED
    BY <2>7, <2>8, <2>9, <2>10, <2>11
<1>2. /\ todo' \in Seq(Entry)
      /\ \A y \in Steps : Pending(y) # 0 => Pending(y)' # 0
      /\ Pending("aborted")' # 0
      /\ \A k \in Sends : Telling(k)' = Telling(k)
  <2>1. /\ \A y \in Steps : Pending(y) \in Nat
        /\ \A k \in Sends : Telling(k) \in Nat
    BY PendingCounts DEF IInv, Types
  <2>2. /\ todo' \in Seq(Entry)
        /\ \A y \in Steps : Pending(y)' = Count(s, Step(y)) + Pending(y)
        /\ \A k \in Sends : Telling(k)' = Count(s, OutcomeOf(k)) + Telling(k)
    BY <1>1, Pushed DEF IInv, Types
  <2>3. \A y : Count(s, Step(y)) \in Nat
    BY CountFinite
  <2>4. Pending("aborted")' # 0
    <3>1. "aborted" \in Steps
      BY StepNames
    <3>2. /\ Pending("aborted")' = Count(s, Step("aborted")) + Pending("aborted")
          /\ Pending("aborted") \in Nat
      BY <2>1, <2>2, <3>1
    <3>3. Count(s, Step("aborted")) \in Nat /\ Count(s, Step("aborted")) # 0
      BY <1>1, <2>3
    <3>4. QED
      BY <3>2, <3>3
  <2>5. QED
    BY <1>1, <2>1, <2>2, <2>3, <2>4
<1>3. /\ isAborted' = TRUE /\ isSending' = FALSE /\ readyState' = "DONE"
      /\ aborts' = aborts + 1 /\ aborts \in Nat
      /\ fate' = Befalls("aborted", flying)
      /\ UNCHANGED <<isLoadStart, isTimeout, callback, timer, flying, memory>>
      /\ UNCHANGED <<rootCount, sends, outcome>>
  BY DEF IInv, Types, Abort, gc
<1>4. /\ fate' \in [Sends -> SUBSET Fates]
      /\ \A n \in Sends : n \in flying => fate'[n] = fate[n] \cup {"aborted"}
      /\ \A n \in Sends : n \notin flying => fate'[n] = fate[n]
      /\ \A n \in Sends : (Astray(n) => Astray(n)') /\ (Loose(n) => Loose(n)')
      /\ Fresh'
  <2>1. "aborted" \in Fates
    BY DEF Fates
  <2>2. QED
    BY <1>3, <2>1, FateBefalls DEF IInv
<1>5. /\ \A n \in flying : n \in Sends
      /\ timer # 0 => timer \in Sends
  BY InAirSent DEF IInv
<1>6. Types'
  <2>1. aborts' \in Nat
    BY <1>3
  <2>2. isAborted' \in BOOLEAN /\ isSending' \in BOOLEAN
    BY <1>3
  <2>3. QED
    BY <1>2, <1>3, <1>4, <2>1, <2>2 DEF IInv, Types
<1>7. CurrentInv'
  <2>1. \A n \in flying : Astray(n)'
    BY <1>4, <1>5 DEF Astray
  <2>2. QED
    BY <1>3, <2>1 DEF CurrentInv
<1>8. TimerInv'
  <2>1. SUFFICES ASSUME timer # 0 PROVE "confused" \notin fate'[timer] /\ Loose(timer)'
    BY <1>3 DEF TimerInv, Loose
  <2>2. timer \in Sends /\ "confused" \notin fate[timer]
    BY <1>5, <2>1 DEF IInv, TimerInv
  <2>3. "confused" \notin fate'[timer]
    BY <1>4, <2>2
  <2>4. CASE timer \in flying
    BY <1>3, <1>4, <2>2, <2>4 DEF Loose
  <2>5. CASE timer \notin flying
    BY <1>3, <1>4, <2>1, <2>2, <2>5 DEF IInv, TimerInv, Loose
  <2>6. QED
    BY <2>3, <2>4, <2>5
<1>9. QuietInv' /\ RootInv'
  BY <1>3 DEF QuietInv, RootInv
<1>10. StateInv'
  BY <1>2 DEF StateInv
<1>11. OutcomeInv'
  <2>1. SUFFICES ASSUME NEW n \in Sends, "reopened" \notin fate'[n] PROVE ToldOnce(n)'
    BY DEF OutcomeInv
  <2>2. "reopened" \notin fate[n]
    BY <1>4, <2>1
  <2>3. ToldOnce(n)
    BY <2>2 DEF IInv, OutcomeInv
  <2>4. Telling(n)' = Telling(n) /\ (Pending("cancel") # 0 => Pending("cancel")' # 0)
    BY <1>2, StepNames
  <2>5. QED
    BY <1>2, <1>3, <2>3, <2>4 DEF ToldOnce, Quieted, Shut
<1>12. QED
  BY <1>6, <1>7, <1>8, <1>9, <1>10, <1>11 DEF IInv

(* The timer of a request that was told an outcome does not run out.       *)
LEMMA TimeoutInv == ASSUME IInv, Timeout PROVE IInv'
<1>1. /\ \A y \in Steps : Pending(y) = 0
      /\ \A k \in Sends : Telling(k) = 0
  BY NothingPending DEF Timeout
<1>2. timer \in Sends /\ timer \in 0 .. NumSends
  <2>1. NumSends \in Nat /\ sends \in 0 .. NumSends /\ timer \in 0 .. sends /\ timer # 0
    BY XMLHttpRequestAssumption DEF IInv, Types, Timeout
  <2>2. QED
    BY <2>1 DEF Sends
<1>3. /\ todo' \in Seq(Entry)
      /\ \A y \in Steps :
           Pending(y)' = IF y \in {"ontimeout", "timed_out", "cancel"} THEN 1 ELSE 0
      /\ \A k \in Sends : Telling(k)' = IF timer = k THEN 1 ELSE 0
  <2> DEFINE a == Do("ontimeout", timer)
             b == Do("timed_out", timer)
             c == Do("cancel", timer)
  <2>1. "ontimeout" \in Outcomes /\ "timed_out" \notin Outcomes /\ "cancel" \notin Outcomes
    BY DEF Outcomes
  <2>2. /\ a \in Seq(Entry)
        /\ \A y \in Steps : Count(a, Step(y)) = IF y = "ontimeout" THEN 1 ELSE 0
        /\ \A k \in Sends : Count(a, OutcomeOf(k)) = IF timer = k THEN 1 ELSE 0
    BY <1>2, <2>1, DoCounts, StepNames
  <2>3. /\ b \in Seq(Entry)
        /\ \A y \in Steps : Count(b, Step(y)) = IF y = "timed_out" THEN 1 ELSE 0
        /\ \A k \in Sends : Count(b, OutcomeOf(k)) = 0
    BY <1>2, <2>1, DoQuiet, StepNames
  <2>4. /\ c \in Seq(Entry)
        /\ \A y \in Steps : Count(c, Step(y)) = IF y = "cancel" THEN 1 ELSE 0
        /\ \A k \in Sends : Count(c, OutcomeOf(k)) = 0
    BY <1>2, <2>1, DoQuiet, StepNames
  <2>5. todo' = a \o b \o c
    BY DEF Timeout
  <2> HIDE DEF a, b, c
  <2>6. /\ a \o b \in Seq(Entry)
        /\ \A E : Count(a \o b, E) = Count(a, E) + Count(b, E)
    BY <2>2, <2>3, CountConcat, ConcatProperties
  <2>7. /\ todo' \in Seq(Entry)
        /\ \A E : Count(todo', E) = Count(a, E) + Count(b, E) + Count(c, E)
    BY <2>4, <2>5, <2>6, CountConcat, ConcatProperties
  <2>8. /\ \A y \in Steps : Pending(y)' = Count(todo', Step(y))
        /\ \A k \in Sends : Telling(k)' = Count(todo', OutcomeOf(k))
    BY <2>7, PendingCountsNext
  <2>9. ASSUME NEW y \in Steps
        PROVE  Pending(y)' = IF y \in {"ontimeout", "timed_out", "cancel"} THEN 1 ELSE 0
    <3>1. Pending(y)' = Count(a, Step(y)) + Count(b, Step(y)) + Count(c, Step(y))
      BY <2>7, <2>8
    <3>2. /\ Count(a, Step(y)) = IF y = "ontimeout" THEN 1 ELSE 0
          /\ Count(b, Step(y)) = IF y = "timed_out" THEN 1 ELSE 0
          /\ Count(c, Step(y)) = IF y = "cancel" THEN 1 ELSE 0
      BY <2>2, <2>3, <2>4
    <3>3. QED
      BY <3>1, <3>2
  <2>10. ASSUME NEW k \in Sends PROVE Telling(k)' = IF timer = k THEN 1 ELSE 0
    <3>1. Telling(k)' = Count(a, OutcomeOf(k)) + Count(b, OutcomeOf(k)) + Count(c, OutcomeOf(k))
      BY <2>7, <2>8
    <3>2. /\ Count(a, OutcomeOf(k)) = IF timer = k THEN 1 ELSE 0
          /\ Count(b, OutcomeOf(k)) = 0
          /\ Count(c, OutcomeOf(k)) = 0
      BY <2>2, <2>3, <2>4
    <3>3. Telling(k)' = (IF timer = k THEN 1 ELSE 0) + 0 + 0
      BY <3>1, <3>2, Zenon
    <3>4. QED
      BY <3>3
  <2>11. QED
    BY <2>7, <2>9, <2>10
<1>4. /\ Pending("timed_out")' = 1 /\ Pending("cancel")' = 1
      /\ \A y \in {"aborted", "onloadstart", "onloadend", "unroot"} :
           Pending(y)' = 0 /\ Pending(y) = 0
  BY <1>1, <1>3, StepNames
<1>5. /\ UNCHANGED <<readyState, isAborted, isLoadStart, isTimeout, isSending, callback>>
      /\ UNCHANGED <<timer, flying, memory, rootCount, sends, aborts, outcome, fate>>
      /\ todo = <<>>
  BY DEF Timeout, flags, gc, history
<1>6. /\ \A n \in Sends : Astray(n)' = Astray(n) /\ Loose(n)' = Loose(n)
      /\ \A n \in flying : n \in Sends
      /\ Fresh'
  BY <1>5, SameFate, InAirSent DEF IInv
<1>7. Types'
  BY <1>3, <1>5, <1>6 DEF IInv, Types
<1>8. CurrentInv' /\ TimerInv'
  BY <1>2, <1>5, <1>6 DEF IInv, CurrentInv, TimerInv
<1>9. QuietInv' /\ RootInv' /\ StateInv'
  BY <1>4, <1>5 DEF IInv, QuietInv, RootInv, StateInv
<1>10. OutcomeInv'
  <2>1. SUFFICES ASSUME NEW n \in Sends, "reopened" \notin fate[n] PROVE ToldOnce(n)'
    BY <1>5 DEF OutcomeInv
  <2>2. ToldOnce(n)
    BY <2>1 DEF IInv, OutcomeInv
  <2>3. timer = n => outcome[n] = {} /\ n <= sends
    <3>1. Pending("cancel") = 0
      BY <1>1, StepNames
    <3>2. timer <= sends
      BY DEF IInv, Types
    <3>3. QED
      BY <2>2, <3>1, <3>2 DEF ToldOnce
  <2>4. Telling(n)' = (IF timer = n THEN 1 ELSE 0) /\ Telling(n) = 0
    BY <1>1, <1>3
  <2>5. Pending("cancel")' # 0 /\ Quieted'
    BY <1>4 DEF Quieted
  <2>6. Telling(n)' <= 1
    BY <2>4
  <2>7. outcome[n] # {} \/ Telling(n)' # 0 =>
          (outcome[n] = {} \/ Telling(n)' = 0) /\ n <= sends
    BY <2>2, <2>3, <2>4 DEF ToldOnce
  <2>8. n \in flying /\ ~callback => Shut'
    <3>1. n \in flying /\ ~callback => Shut
      BY <2>2 DEF ToldOnce
    <3>2. QED
      BY <1>4, <1>5, <3>1 DEF Shut
  <2>9. QED
    BY <1>5, <2>2, <2>5, <2>6, <2>7, <2>8 DEF ToldOnce
<1>11. QED
  BY <1>7, <1>8, <1>9, <1>10 DEF IInv

(* What an answer makes the object tell, if it tells anything.             *)
LEMMA AnswerCounts ==
  ASSUME IInv, NEW n \in Sends, Dispatch(n), todo' # todo
  PROVE  \E tells \in {0, 1} :
           /\ tells = 1 => ~isTimeout
           /\ todo' \in Seq(Entry)
           /\ \A y \in Steps \ {"onreadystatechange", "onload", "onerror"} :
                Pending(y)' = IF y = "onloadend" THEN 1 ELSE 0
           /\ \A k \in Sends : Telling(k)' = IF k = n THEN tells ELSE 0
<1>1. n \in 0 .. NumSends
  BY InAirSent DEF IInv
<1>2. \/ /\ ~callback
         /\ UNCHANGED <<readyState, isSending, timer, todo>>
      \/ /\ callback /\ timer' = 0 /\ isSending' = FALSE
         /\ \/ isTimeout /\ todo' = Do("onloadend", n) /\ readyState' = readyState
            \/ /\ ~isTimeout /\ (isAborted \/ readyState = "UNSENT")
               /\ UNCHANGED <<readyState, todo>>
            \/ /\ ~(isTimeout \/ isAborted \/ readyState = "UNSENT")
               /\ \/ /\ todo' = Do("onerror", n) \o Do("onloadend", n)
                     /\ readyState' = readyState
                  \/ /\ todo' = SetReadyState("DONE", n) \o Do("onload", n)
                                  \o Do("onloadend", n)
                     /\ readyState' = "DONE"
  BY DEF Dispatch, OnResponse
<1>3. QED
  <2>1. PICK tells \in {0, 1} :
          /\ tells = 1 => ~isTimeout
          /\ todo' \in Seq(Entry)
          /\ \A y \in Steps \ {"onreadystatechange", "onload", "onerror"} :
               Count(todo', Step(y)) = IF y = "onloadend" THEN 1 ELSE 0
          /\ \A k \in Sends : Count(todo', OutcomeOf(k)) = IF k = n THEN tells ELSE 0
    <3>1. /\ Do("onloadend", n) \in Seq(Entry)
          /\ \A y \in Steps :
               Count(Do("onloadend", n), Step(y)) = IF y = "onloadend" THEN 1 ELSE 0
          /\ \A k \in Sends : Count(Do("onloadend", n), OutcomeOf(k)) = 0
      BY <1>1, DoQuiet, StepNames DEF Outcomes
    <3>2. ASSUME NEW x \in {"onload", "onerror"}
          PROVE  /\ Do(x, n) \in Seq(Entry)
                 /\ \A y \in Steps \ {"onload", "onerror"} : Count(Do(x, n), Step(y)) = 0
                 /\ \A k \in Sends : Count(Do(x, n), OutcomeOf(k)) = IF k = n THEN 1 ELSE 0
      <4>1. x \in Steps /\ x \in Outcomes
        BY StepNames DEF Outcomes
      <4>2. QED
        BY <1>1, <4>1, DoCounts
    <3>3. CASE isTimeout /\ todo' = Do("onloadend", n)
      BY <3>1, <3>3
    <3>4. CASE ~isTimeout /\ todo' = Do("onerror", n) \o Do("onloadend", n)
      <4> DEFINE a == Do("onerror", n)
                 b == Do("onloadend", n)
      <4>1. /\ a \in Seq(Entry) /\ b \in Seq(Entry)
            /\ \A y \in Steps \ {"onload", "onerror"} : Count(a, Step(y)) = 0
            /\ \A k \in Sends : Count(a, OutcomeOf(k)) = IF k = n THEN 1 ELSE 0
        BY <3>1, <3>2
      <4>2. /\ \A y \in Steps : Count(b, Step(y)) = IF y = "onloadend" THEN 1 ELSE 0
            /\ \A k \in Sends : Count(b, OutcomeOf(k)) = 0
        BY <3>1
      <4>3. todo' = a \o b
        BY <3>4
      <4> HIDE DEF a, b
      <4>4. /\ todo' \in Seq(Entry)
            /\ \A E : Count(todo', E) = Count(a, E) + Count(b, E)
        BY <4>1, <4>3, ConcatCounts
      <4>5. QED
        BY <3>4, <4>1, <4>2, <4>4
    <3>5. CASE ~isTimeout /\ todo' = SetReadyState("DONE", n) \o Do("onload", n)
                                       \o Do("onloadend", n)
      <4> DEFINE c == SetReadyState("DONE", n)
                 a == Do("onload", n)
                 b == Do("onloadend", n)
      <4>1. /\ a \in Seq(Entry) /\ b \in Seq(Entry)
            /\ \A y \in Steps \ {"onload", "onerror"} : Count(a, Step(y)) = 0
            /\ \A k \in Sends : Count(a, OutcomeOf(k)) = IF k = n THEN 1 ELSE 0
        BY <3>1, <3>2
      <4>2. /\ \A y \in Steps : Count(b, Step(y)) = IF y = "onloadend" THEN 1 ELSE 0
            /\ \A k \in Sends : Count(b, OutcomeOf(k)) = 0
        BY <3>1
      <4>3. /\ c \in Seq(Entry)
            /\ \A y \in Steps \ {"onreadystatechange"} : Count(c, Step(y)) = 0
            /\ \A k \in Sends : Count(c, OutcomeOf(k)) = 0
        BY <1>1, SetReadyStateCounts
      <4>4. todo' = c \o a \o b
        BY <3>5
      <4> HIDE DEF a, b, c
      <4>5. PICK d \in Seq(Entry) :
              d = c \o a /\ \A E : Count(d, E) = Count(c, E) + Count(a, E)
        BY <4>1, <4>3, ConcatCounts
      <4>6. /\ todo' \in Seq(Entry)
            /\ \A E : Count(todo', E) = Count(d, E) + Count(b, E)
        BY <4>1, <4>4, <4>5, ConcatCounts
      <4>7. QED
        BY <3>5, <4>1, <4>2, <4>3, <4>5, <4>6
    <3>6. QED
      BY <1>2, <3>3, <3>4, <3>5
  <2>2. /\ \A y \in Steps \ {"onreadystatechange", "onload", "onerror"} :
             Pending(y)' = IF y = "onloadend" THEN 1 ELSE 0
        /\ \A k \in Sends : Telling(k)' = IF k = n THEN tells ELSE 0
    BY <2>1, PendingCountsNext
  <2>3. QED
    BY <2>1, <2>2

(* An answer is told if its request was not told another outcome: in a     *)
(* request that has timed out or was aborted, the object knows.  Where it  *)
(* is taken for another's, all that is in the air has gone astray.         *)
LEMMA DispatchInv == ASSUME IInv, NEW n \in Sends, Dispatch(n) PROVE IInv'
<1>1. /\ todo = <<>> /\ n \in flying /\ flying' = flying \ {n}
      /\ UNCHANGED <<isAborted, isLoadStart, isTimeout, callback, memory>>
      /\ UNCHANGED <<rootCount, sends, aborts, outcome>>
      /\ fate' = IF callback /\ Astray(n) THEN Befalls("confused", flying) ELSE fate
  BY DEF Dispatch, gc, Astray
<1>2. \/ ~callback /\ UNCHANGED <<readyState, isSending, timer, todo>>
      \/ /\ callback /\ timer' = 0 /\ isSending' = FALSE
         /\ readyState' \in {readyState, "DONE"}
         /\ isTimeout => readyState' = readyState
         /\ todo' = todo => ~isTimeout /\ (isAborted \/ readyState = "UNSENT")
  <2>1. /\ Do("onloadend", n) # <<>>
        /\ Do("onerror", n) \o Do("onloadend", n) # <<>>
        /\ SetReadyState("DONE", n) \o Do("onload", n) \o Do("onloadend", n) # <<>>
    BY DEF Do, SetReadyState
  <2>2. CASE ~callback
    BY <2>2 DEF Dispatch
  <2>3. CASE callback
    BY <1>1, <2>1, <2>3 DEF Dispatch, OnResponse
  <2>4. QED
    BY <2>2, <2>3
<1>3. /\ \A y \in Steps : Pending(y) = 0
      /\ \A k \in Sends : Telling(k) = 0
  BY <1>1, NothingPending
<1>4. PICK tells \in {0, 1} :
        /\ tells = 1 => ~isTimeout /\ todo' # todo
        /\ todo' \in Seq(Entry)
        /\ \A y \in Steps \ {"onreadystatechange", "onload", "onerror", "onloadend"} :
             Pending(y)' = 0
        /\ todo' # todo => Pending("onloadend")' = 1
        /\ \A k \in Sends : Telling(k)' = IF k = n THEN tells ELSE 0
  <2>1. CASE todo' = todo
    <3>1. /\ \A y \in Steps : Pending(y)' = 0
          /\ \A k \in Sends : Telling(k)' = 0
      BY <1>3, <2>1, SameTodo
    <3>2. 0 \in {0, 1} /\ todo' \in Seq(Entry)
      BY <2>1 DEF IInv, Types
    <3>3. QED
      BY <2>1, <3>1, <3>2
  <2>2. CASE todo' # todo
    BY <2>2, AnswerCounts, StepNames
  <2>3. QED
    BY <2>1, <2>2
<1>5. /\ Pending("aborted")' = 0 /\ Pending("timed_out")' = 0 /\ Pending("cancel")' = 0
      /\ Pending("onloadstart")' = 0 /\ Pending("unroot")' = 0
      /\ Pending("aborted") = 0 /\ Pending("timed_out") = 0 /\ Pending("cancel") = 0
  BY <1>3, <1>4, StepNames
<1>6. /\ \A k \in flying : k \in Sends /\ k <= sends
      /\ timer # 0 => timer \in Sends
      /\ \A k \in Sends : k # 0
  BY InAirSent DEF IInv
<1>7. /\ fate' \in [Sends -> SUBSET Fates]
      /\ callback /\ Astray(n) => \A k \in flying : Astray(k)'
      /\ \A k \in Sends : (Astray(k) => Astray(k)') /\ (Loose(k) => Loose(k)')
      /\ \A k \in Sends : "reopened" \in fate[k] => "reopened" \in fate'[k]
      /\ ~callback \/ ~Astray(n) => fate' = fate
      /\ Fresh'
  <2>1. CASE callback /\ Astray(n)
    <3>1. "confused" \in Fates
      BY DEF Fates
    <3>2. fate' = Befalls("confused", flying)
      BY <1>1, <2>1
    <3>3. /\ fate' \in [Sends -> SUBSET Fates]
          /\ \A k \in Sends : k \in flying => fate'[k] = fate[k] \cup {"confused"}
          /\ \A k \in Sends : k \notin flying => fate'[k] = fate[k]
          /\ \A k \in Sends : (Astray(k) => Astray(k)') /\ (Loose(k) => Loose(k)')
          /\ Fresh'
      BY <1>1, <3>1, <3>2, FateBefalls DEF IInv
    <3>4. \A k \in flying : Astray(k)'
      BY <1>6, <3>3 DEF Astray
    <3>5. QED
      BY <2>1, <3>3, <3>4
  <2>2. CASE ~(callback /\ Astray(n))
    <3>1. fate' = fate
      BY <1>1, <2>2
    <3>2. QED
      BY <1>1, <2>2, <3>1, SameFate DEF IInv
  <2>3. QED
    BY <2>1, <2>2
<1>8. Types'
  <2>1. timer' \in 0 .. sends /\ isSending' \in BOOLEAN
        /\ readyState' \in {"UNSENT", "OPENED", "DONE"}
    <3>1. 0 \in 0 .. sends /\ timer \in 0 .. sends /\ isSending \in BOOLEAN
      BY DEF IInv, Types
    <3>2. CASE ~callback
      BY <1>2, <3>1, <3>2 DEF IInv, Types
    <3>3. CASE callback
      BY <1>2, <3>1, <3>3 DEF IInv, Types
    <3>4. QED
      BY <3>2, <3>3
  <2>2. flying' \in SUBSET (1 .. sends)
    BY <1>1 DEF IInv, Types
  <2>3. QED
    BY <1>1, <1>4, <1>7, <2>1, <2>2 DEF IInv, Types
<1>9. CurrentInv'
  <2>1. CASE ~callback
    BY <1>1, <1>2, <1>6, <1>7, <2>1 DEF IInv, CurrentInv
  <2>2. CASE callback
    <3>1. ASSUME NEW k \in flying, k # n PROVE Astray(k)'
      <4>1. CASE Astray(n)
        BY <1>7, <2>2, <4>1
      <4>2. CASE ~Astray(n)
        <5>1. n = sends
          BY <1>1, <4>2 DEF IInv, CurrentInv
        <5>2. Astray(k)
          BY <3>1, <5>1 DEF IInv, CurrentInv
        <5>3. QED
          BY <1>6, <1>7, <5>2
      <4>3. QED
        BY <4>1, <4>2
    <3>2. QED
      BY <1>1, <3>1 DEF CurrentInv
  <2>3. QED
    BY <2>1, <2>2
<1>10. TimerInv'
  <2>1. CASE callback
    BY <1>2, <2>1 DEF TimerInv
  <2>2. CASE ~callback
    <3>1. timer' = timer /\ fate' = fate
      BY <1>2, <1>7, <2>2
    <3>2. timer # 0 => "confused" \notin fate[timer] /\ Loose(timer)
      BY <2>2 DEF IInv, TimerInv
    <3>3. QED
      BY <3>1, <3>2 DEF TimerInv, Loose
  <2>3. QED
    BY <2>1, <2>2
<1>11. QuietInv' /\ RootInv'
  <2>1. SUFFICES ASSUME aborts = 0 PROVE QuietInv' /\ RootInv'
    BY <1>1 DEF QuietInv, RootInv
  <2>2. flying = {n} /\ flying' = {}
    BY <1>1, <2>1, OneInTheAir
  <2>3. /\ ~isAborted /\ callback /\ (readyState = "UNSENT" => isTimeout)
        /\ \A k \in Sends : fate[k] \subseteq {"reopened"}
    BY <1>1, <2>1 DEF IInv, QuietInv
  <2>4. fate' = fate
    BY <1>7, <2>3 DEF Astray
  <2>5. QuietInv'
    BY <1>1, <1>5, <2>2, <2>3, <2>4 DEF QuietInv
  <2>6. todo' # todo /\ Pending("onloadend")' = 1
    BY <1>2, <1>4, <2>3
  <2>7. Cardinality(flying) = 1 /\ Cardinality(flying') = 0
    BY <2>2, InTheAir
  <2>8. /\ Pending("onloadend") = 0 /\ Pending("onloadstart") = 0 /\ Pending("unroot") = 0
    BY <1>3, StepNames
  <2>9. rootCount = 1
    <3>1. rootCount \in Nat /\ rootCount + 0 = 1 + 0 + 0
      BY <2>1, <2>7, <2>8 DEF IInv, Types, RootInv
    <3>2. QED
      BY <3>1
  <2>10. RootInv'
    BY <1>1, <1>5, <2>6, <2>7, <2>9 DEF RootInv
  <2>11. QED
    BY <2>5, <2>10
<1>12. StateInv'
  BY <1>1, <1>2, <1>5 DEF IInv, StateInv
<1>13. OutcomeInv'
  <2>1. SUFFICES ASSUME NEW k \in Sends, "reopened" \notin fate'[k] PROVE ToldOnce(k)'
    BY DEF OutcomeInv
  <2>2. ToldOnce(k) /\ k # 0 /\ Telling(k) = 0
    BY <1>3, <1>6, <1>7, <2>1 DEF IInv, OutcomeInv
  <2>3. (timer' = k => timer = k) /\ (k \in flying' => k \in flying /\ k # n)
    BY <1>1, <1>2, <2>2
  <2>4. k \in flying' /\ ~callback => Shut'
    <3>1. ~callback => readyState' = readyState
      BY <1>2
    <3>2. QED
      BY <1>1, <1>5, <2>2, <2>3, <3>1 DEF ToldOnce, Shut
  <2>5. CASE k = n /\ tells = 1
    <3>1. outcome[k] = {}
      <4>1. ~isTimeout /\ callback /\ k \in flying
        BY <1>1, <1>2, <1>4, <2>5
      <4>2. ~Quieted
        BY <1>5, <4>1 DEF Quieted
      <4>3. QED
        BY <2>2, <4>1, <4>2 DEF ToldOnce
    <3>2. Telling(k)' = 1 /\ k <= sends /\ timer' # k
      BY <1>1, <1>2, <1>4, <1>6, <2>2, <2>5
    <3>3. QED
      BY <1>1, <2>3, <2>4, <2>5, <3>1, <3>2 DEF ToldOnce
  <2>6. CASE ~(k = n /\ tells = 1)
    <3>1. Telling(k)' = 0
      BY <1>4, <2>6
    <3>2. Quieted => Quieted'
      BY <1>1, <1>5 DEF Quieted
    <3>3. QED
      BY <1>1, <1>5, <2>2, <2>3, <2>4, <3>1, <3>2 DEF ToldOnce
  <2>7. QED
    BY <2>5, <2>6
<1>14. QED
  BY <1>8, <1>9, <1>10, <1>11, <1>12, <1>13 DEF IInv

(* An event that is fired is no longer to be told: it is.                  *)
LEMMA FireInv == ASSUME IInv, Fire PROVE IInv'
<1> DEFINE e == Head(todo).step
           n == Head(todo).of
           h == Do("handler", n)
           c == CASE e = "onloadend" -> Do("unroot", n)
                  [] e = "onloadstart" -> Do("load_started", n)
                  [] OTHER -> <<>>
           t == Tail(todo)
<1>1. /\ todo # <<>> /\ e \in Event
      /\ todo' = h \o c \o t
      /\ rootCount' = IF e = "onloadstart" THEN rootCount + 1 ELSE rootCount
      /\ outcome' = IF e \in Outcomes THEN [outcome EXCEPT ![n] = @ \cup {e}] ELSE outcome
  BY DEF Fire, Outcomes
<1>2. /\ UNCHANGED <<readyState, isAborted, isLoadStart, isTimeout, isSending, callback>>
      /\ UNCHANGED <<timer, flying, memory, sends, aborts, fate>>
  BY DEF Fire, flags, gc
<1>3. todo \in Seq(Entry)
  BY DEF IInv, Types
<1>4. /\ e \in Steps /\ n \in 0 .. NumSends
      /\ t \in Seq(Entry)
      /\ \A y \in Steps : Count(todo, Step(y)) = Count(t, Step(y)) + IF e = y THEN 1 ELSE 0
      /\ \A k \in Sends :
           Count(todo, OutcomeOf(k)) =
             Count(t, OutcomeOf(k)) + IF e \in Outcomes /\ n = k THEN 1 ELSE 0
  BY <1>1, <1>3, HeadCounts
<1>5. /\ h \in Seq(Entry)
      /\ \A y \in Steps : Count(h, Step(y)) = IF y = "handler" THEN 1 ELSE 0
      /\ \A k \in Sends : Count(h, OutcomeOf(k)) = 0
  BY <1>4, DoQuiet, StepNames DEF Outcomes
<1>6. /\ c \in Seq(Entry)
      /\ \A y \in Steps \ {"load_started"} :
           Count(c, Step(y)) = IF y = "unroot" /\ e = "onloadend" THEN 1 ELSE 0
      /\ \A k \in Sends : Count(c, OutcomeOf(k)) = 0
  <2>1. CASE e = "onloadend"
    BY <1>4, <2>1, DoQuiet, StepNames DEF Outcomes
  <2>2. CASE e = "onloadstart"
    BY <1>4, <2>2, DoQuiet, StepNames DEF Outcomes
  <2>3. CASE e \notin {"onloadend", "onloadstart"}
    BY <2>3, CountEmpty, EmptySeq
  <2>4. QED
    BY <2>1, <2>2, <2>3
<1> HIDE DEF e, n, h, c, t
<1>7. PICK d \in Seq(Entry) : d = h \o c /\ \A E : Count(d, E) = Count(h, E) + Count(c, E)
  BY <1>5, <1>6, ConcatCounts
<1>8. /\ todo' \in Seq(Entry)
      /\ \A E : Count(todo', E) = Count(d, E) + Count(t, E)
  BY <1>1, <1>4, <1>7, ConcatCounts
<1>9. /\ \A y \in Steps : Pending(y) = Count(todo, Step(y)) /\ Pending(y) \in Nat
      /\ \A k \in Sends : Telling(k) = Count(todo, OutcomeOf(k)) /\ Telling(k) \in Nat
  BY <1>3, PendingCounts
<1>10. /\ \A y \in Steps : Pending(y)' = Count(todo', Step(y)) /\ Pending(y)' \in Nat
       /\ \A k \in Sends : Telling(k)' = Count(todo', OutcomeOf(k)) /\ Telling(k)' \in Nat
  BY <1>8, PendingCountsNext
<1>11. \A E : Count(t, E) \in Nat
  BY <1>4, CountFinite
<1>12. ASSUME NEW y \in Steps \ {"handler", "load_started"}
       PROVE  Pending(y) + (IF y = "unroot" /\ e = "onloadend" THEN 1 ELSE 0)
                = Pending(y)' + IF e = y THEN 1 ELSE 0
  <2>1. Pending(y) = Count(t, Step(y)) + IF e = y THEN 1 ELSE 0
    BY <1>4, <1>9
  <2>2. Pending(y)' = Count(h, Step(y)) + Count(c, Step(y)) + Count(t, Step(y))
    BY <1>7, <1>8, <1>10
  <2>3. /\ Count(h, Step(y)) = 0 /\ Count(t, Step(y)) \in Nat
        /\ Count(c, Step(y)) = IF y = "unroot" /\ e = "onloadend" THEN 1 ELSE 0
    BY <1>5, <1>6, <1>11
  <2>4. QED
    BY <2>1, <2>2, <2>3
<1>13. ASSUME NEW k \in Sends
       PROVE  Telling(k) = Telling(k)' + IF e \in Outcomes /\ n = k THEN 1 ELSE 0
  <2>1. Telling(k) = Count(t, OutcomeOf(k)) + IF e \in Outcomes /\ n = k THEN 1 ELSE 0
    BY <1>4, <1>9
  <2>2. Telling(k)' = Count(h, OutcomeOf(k)) + Count(c, OutcomeOf(k)) + Count(t, OutcomeOf(k))
    BY <1>7, <1>8, <1>10
  <2>3. /\ Count(h, OutcomeOf(k)) = 0 /\ Count(t, OutcomeOf(k)) \in Nat
        /\ Count(c, OutcomeOf(k)) = 0
    BY <1>5, <1>6, <1>11
  <2>4. QED
    BY <2>1, <2>2, <2>3
<1>14. Types'
  <2>1. rootCount' \in Nat
    BY <1>1 DEF IInv, Types
  <2>2. outcome' \in [Sends -> SUBSET Outcomes]
    BY <1>1 DEF IInv, Types
  <2>3. Fresh'
    BY <1>2, SameFate DEF IInv
  <2>4. QED
    BY <1>2, <1>8, <2>1, <2>2, <2>3 DEF IInv, Types
<1>15. e \notin {"aborted", "cancel", "timed_out", "unroot"}
  BY <1>1 DEF Event
<1>16. ASSUME NEW y \in {"aborted", "cancel", "timed_out"} PROVE Pending(y)' = Pending(y)
  <2>1. y \in Steps \ {"handler", "load_started"} /\ e # y /\ y # "unroot"
    BY <1>15, StepNames
  <2>2. Pending(y) + 0 = Pending(y)' + 0
    BY <1>12, <2>1
  <2>3. QED
    BY <1>9, <1>10, <2>1, <2>2
<1>17. CurrentInv' /\ TimerInv' /\ QuietInv' /\ StateInv'
  <2>1. /\ \A k \in Sends : Astray(k)' = Astray(k) /\ Loose(k)' = Loose(k)
        /\ \A k \in flying : k \in Sends
        /\ timer # 0 => timer \in Sends
    BY <1>2, SameFate, InAirSent DEF IInv
  <2>2. CurrentInv' /\ TimerInv'
    BY <1>2, <2>1 DEF IInv, CurrentInv, TimerInv
  <2>3. Pending("aborted")' = Pending("aborted")
    BY <1>16
  <2>4. QuietInv' /\ StateInv'
    BY <1>2, <2>3 DEF IInv, QuietInv, StateInv
  <2>5. QED
    BY <2>2, <2>4
<1>18. RootInv'
  <2>1. SUFFICES ASSUME aborts = 0 PROVE RootInv'
    BY <1>2 DEF RootInv
  <2>2. /\ Pending("onloadstart") \in Nat /\ Pending("onloadstart")' \in Nat
        /\ Pending("onloadend") \in Nat /\ Pending("onloadend")' \in Nat
        /\ Pending("unroot") \in Nat /\ Pending("unroot")' \in Nat
    BY <1>9, <1>10, StepNames
  <2>3. /\ Pending("onloadstart") = Pending("onloadstart")' + IF e = "onloadstart" THEN 1 ELSE 0
        /\ Pending("onloadend") = Pending("onloadend")' + IF e = "onloadend" THEN 1 ELSE 0
        /\ Pending("unroot")' = Pending("unroot") + IF e = "onloadend" THEN 1 ELSE 0
    <3>1. Pending("onloadstart") + 0 = Pending("onloadstart")' + IF e = "onloadstart" THEN 1 ELSE 0
      BY <1>12, StepNames
    <3>2. Pending("onloadend") + 0 = Pending("onloadend")' + IF e = "onloadend" THEN 1 ELSE 0
      BY <1>12, StepNames
    <3>3. Pending("unroot") + (IF e = "onloadend" THEN 1 ELSE 0) = Pending("unroot")' + 0
      BY <1>12, <1>15, StepNames
    <3>4. QED
      BY <2>2, <3>1, <3>2, <3>3
  <2>4. Pending("onloadstart") = IF e = "onloadstart" THEN 1 ELSE 0
    <3>1. /\ Pending("onloadstart") # 0 => Pending("onloadstart") = 1 /\ e = "onloadstart"
      BY <2>1 DEF IInv, RootInv, e
    <3>2. e = "onloadstart" => Pending("onloadstart") # 0
      BY <2>2, <2>3
    <3>3. QED
      BY <3>1, <3>2
  <2>5. Pending("onloadstart")' = 0
    BY <2>2, <2>3, <2>4
  <2>6. rootCount + Pending("onloadstart")
          = Cardinality(flying) + Pending("onloadend") + Pending("unroot")
    BY <2>1 DEF IInv, RootInv
  <2>7. Cardinality(flying) \in Nat /\ rootCount \in Nat
    <3>1. Cardinality(flying) = 0 \/ Cardinality(flying) = 1
      BY <2>1, OneInTheAir
    <3>2. QED
      BY <3>1 DEF IInv, Types
  <2>8. rootCount' + 0 = Cardinality(flying) + Pending("onloadend")' + Pending("unroot")'
    <3> DEFINE f == Cardinality(flying)
    <3> HIDE DEF f
    <3>1. /\ f \in Nat /\ rootCount \in Nat
          /\ rootCount + Pending("onloadstart") = f + Pending("onloadend") + Pending("unroot")
      BY <2>6, <2>7 DEF f
    <3>2. CASE e = "onloadstart"
      BY <1>1, <2>2, <2>3, <2>4, <3>1, <3>2 DEF f
    <3>3. CASE e = "onloadend"
      BY <1>1, <2>2, <2>3, <2>4, <3>1, <3>3 DEF f
    <3>4. CASE e \notin {"onloadstart", "onloadend"}
      BY <1>1, <2>2, <2>3, <2>4, <3>1, <3>4 DEF f
    <3>5. QED
      BY <3>2, <3>3, <3>4
  <2>9. QED
    BY <1>2, <2>5, <2>8 DEF RootInv
<1>19. OutcomeInv'
  <2>1. SUFFICES ASSUME NEW k \in Sends, "reopened" \notin fate[k] PROVE ToldOnce(k)'
    BY <1>2 DEF OutcomeInv
  <2>2. ToldOnce(k) /\ outcome \in [Sends -> SUBSET Outcomes]
    BY <2>1 DEF IInv, OutcomeInv, Types
  <2>3. /\ Pending("cancel")' = Pending("cancel") /\ Pending("aborted")' = Pending("aborted")
        /\ Pending("timed_out")' = Pending("timed_out")
    BY <1>16
  <2>4. (Quieted => Quieted') /\ (Shut => Shut')
    BY <1>2, <2>3 DEF Quieted, Shut
  <2>5. Telling(k) \in Nat /\ Telling(k)' \in Nat
    BY <1>9, <1>10
  <2>6. CASE e \in Outcomes /\ n = k
    <3>1. Telling(k) = Telling(k)' + 1
      BY <1>13, <2>6
    <3>2. Telling(k) # 0 /\ Telling(k)' = 0
      BY <2>2, <2>5, <3>1 DEF ToldOnce
    <3>3. outcome[k] = {}
      BY <2>2, <3>2 DEF ToldOnce
    <3>4. outcome'[k] = {e}
      BY <1>1, <2>2, <2>6, <3>3
    <3>5. QED
      BY <1>2, <2>2, <2>3, <2>6, <2>4, <3>2, <3>4 DEF ToldOnce
  <2>7. CASE ~(e \in Outcomes /\ n = k)
    <3>1. Telling(k)' = Telling(k)
      BY <1>13, <2>5, <2>7
    <3>2. outcome'[k] = outcome[k]
      BY <1>1, <2>2, <2>7
    <3>3. QED
      BY <1>2, <2>2, <2>3, <2>4, <3>1, <3>2 DEF ToldOnce
  <2>8. QED
    BY <2>6, <2>7
<1>20. QED
  BY <1>14, <1>17, <1>18, <1>19 DEF IInv

(* What a function that goes on may do: the six actions below do no more.  *)
LEMMA ContinueInv ==
  ASSUME IInv, NEW x \in Steps \ Event, Continue(x),
         isLoadStart' \in BOOLEAN,
         rootCount' = IF x # "unroot" THEN rootCount
                      ELSE IF rootCount > 0 THEN rootCount - 1 ELSE 0,
         timer' \in {0, timer}, x = "cancel" => timer' = 0,
         isTimeout' = IF x = "timed_out" THEN TRUE ELSE isTimeout,
         readyState' = IF x \in {"timed_out", "aborted"} THEN "UNSENT" ELSE readyState,
         \/ /\ x = "aborted" /\ callback' = FALSE
            /\ fate' = Befalls("silenced", {n \in flying : "aborted" \notin fate[n]})
         \/ x # "aborted" /\ callback' = callback /\ fate' = fate
  PROVE  IInv'
<1>1. UNCHANGED <<isAborted, isSending, flying, memory, sends, aborts, outcome>>
  BY DEF Continue, gc
<1>2. /\ todo' \in Seq(Entry)
      /\ \A y \in Steps : Pending(y)' \in Nat
      /\ \A y \in Steps : Pending(y) = Pending(y)' + IF x = y THEN 1 ELSE 0
      /\ \A k \in Sends : Telling(k)' = Telling(k) /\ Telling(k) \in Nat
      /\ aborts = 0 => Pending("onloadstart") = 0
  BY Popped
<1>3. ASSUME NEW y \in Steps
      PROVE  /\ x # y => Pending(y)' = Pending(y)
             /\ x = y => Pending(y) # 0
  <2>1. Pending(y)' \in Nat /\ Pending(y) = Pending(y)' + IF x = y THEN 1 ELSE 0
    BY <1>2
  <2>2. QED
    BY <2>1
<1>4. /\ \A k \in flying : k \in Sends
      /\ timer # 0 => timer \in Sends
      /\ \A k \in Sends : k # 0
  BY InAirSent DEF IInv
<1>5. /\ fate' \in [Sends -> SUBSET Fates]
      /\ \A k \in Sends : (Astray(k) => Astray(k)') /\ (Loose(k) => Loose(k)')
      /\ \A k \in Sends : "confused" \in fate'[k] => "confused" \in fate[k]
      /\ \A k \in Sends : "reopened" \in fate[k] => "reopened" \in fate'[k]
      /\ x = "aborted" => \A k \in flying : Loose(k)'
      /\ Fresh'
  <2>1. CASE x = "aborted"
    <3> DEFINE S == {n \in flying : "aborted" \notin fate[n]}
    <3>1. fate' = Befalls("silenced", S) /\ S \subseteq flying
      BY <2>1
    <3>2. "silenced" \in Fates
      BY DEF Fates
    <3>3. \A k \in flying : k \notin S => "aborted" \in fate[k]
      OBVIOUS
    <3> HIDE DEF S
    <3>4. /\ fate' \in [Sends -> SUBSET Fates]
          /\ \A k \in Sends : k \in S => fate'[k] = fate[k] \cup {"silenced"}
          /\ \A k \in Sends : k \notin S => fate'[k] = fate[k]
          /\ \A k \in Sends : (Astray(k) => Astray(k)') /\ (Loose(k) => Loose(k)')
          /\ Fresh'
      BY <1>1, <3>1, <3>2, FateBefalls DEF IInv
    <3>5. \A k \in flying : Loose(k)'
      BY <1>4, <3>3, <3>4 DEF Loose
    <3>6. QED
      BY <3>4, <3>5
  <2>2. CASE x # "aborted"
    <3>1. fate' = fate
      BY <2>2
    <3>2. QED
      BY <1>1, <2>2, <3>1, SameFate DEF IInv
  <2>3. QED
    BY <2>1, <2>2
<1>6. Types'
  <2>1. rootCount' \in Nat
    BY DEF IInv, Types
  <2>2. timer' \in 0 .. sends
    BY DEF IInv, Types
  <2>3. callback' \in BOOLEAN /\ isTimeout' \in BOOLEAN
    BY DEF IInv, Types
  <2>4. readyState' \in {"UNSENT", "OPENED", "DONE"}
    BY DEF IInv, Types
  <2>5. QED
    BY <1>1, <1>2, <1>5, <2>1, <2>2, <2>3, <2>4 DEF IInv, Types
<1>7. CurrentInv'
  BY <1>1, <1>4, <1>5 DEF IInv, CurrentInv
<1>8. TimerInv'
  <2>1. SUFFICES ASSUME timer' = timer, timer # 0
                 PROVE  /\ "confused" \notin fate'[timer]
                        /\ Loose(timer)' \/ (timer = sends /\ timer \in flying /\ callback')
    BY <1>1 DEF TimerInv, Loose
  <2>2. timer \in Sends /\ "confused" \notin fate'[timer]
    BY <1>4, <1>5, <2>1 DEF IInv, TimerInv
  <2>3. Loose(timer) \/ (timer = sends /\ timer \in flying /\ callback)
    BY <2>1 DEF IInv, TimerInv
  <2>4. Loose(timer) => Loose(timer)'
    BY <1>5, <2>1, <2>2
  <2>5. x = "aborted" /\ timer \in flying => Loose(timer)'
    BY <1>5, <2>1, <2>2
  <2>6. QED
    BY <2>2, <2>3, <2>4, <2>5
<1>9. QuietInv'
  <2>1. SUFFICES ASSUME aborts = 0 PROVE QuietInv'
    BY <1>1 DEF QuietInv
  <2>2. x # "aborted" /\ Pending("aborted")' = 0
    <3>1. /\ x # "aborted" => Pending("aborted")' = Pending("aborted")
          /\ x = "aborted" => Pending("aborted") # 0
      BY <1>3, StepNames
    <3>2. QED
      BY <2>1, <3>1 DEF IInv, QuietInv
  <2>3. callback' = callback /\ fate' = fate
    BY <2>2
  <2>4. flying # {} /\ readyState' = "UNSENT" => isTimeout'
    <3>1. CASE x = "timed_out"
      BY <3>1
    <3>2. CASE x # "timed_out"
      <4>1. readyState' = readyState /\ isTimeout' = isTimeout
        BY <2>2, <3>2
      <4>2. QED
        BY <2>1, <4>1 DEF IInv, QuietInv
    <3>3. QED
      BY <3>1, <3>2
  <2>5. QED
    BY <1>1, <2>1, <2>2, <2>3, <2>4 DEF IInv, QuietInv
<1>10. RootInv'
  <2>1. SUFFICES ASSUME aborts = 0 PROVE RootInv'
    BY <1>1 DEF RootInv
  <2>2. Pending("onloadstart") = 0 /\ Pending("onloadstart")' = 0
    <3>1. x # "onloadstart"
      BY DEF Event
    <3>2. QED
      BY <1>2, <1>3, <2>1, <3>1, StepNames
  <2>3. Pending("onloadend")' = Pending("onloadend") /\ Pending("onloadend") \in Nat
    <3>1. x # "onloadend"
      BY DEF Event
    <3>2. Pending("onloadend")' = Pending("onloadend")
      BY <1>3, <3>1, StepNames
    <3>3. Pending("onloadend")' \in Nat
      BY <1>2, StepNames
    <3>4. QED
      BY <3>2, <3>3
  <2>4. /\ Pending("unroot")' \in Nat
        /\ Pending("unroot") = Pending("unroot")' + IF x = "unroot" THEN 1 ELSE 0
    BY <1>2, StepNames
  <2> DEFINE f == Cardinality(flying)
  <2>5. f \in Nat /\ rootCount \in Nat
    <3>1. f = 0 \/ f = 1
      BY <2>1, OneInTheAir
    <3>2. QED
      BY <3>1 DEF IInv, Types
  <2>6. rootCount + Pending("onloadstart") = f + Pending("onloadend") + Pending("unroot")
    BY <2>1 DEF IInv, RootInv
  <2> HIDE DEF f
  <2>7. rootCount' = f + Pending("onloadend")' + Pending("unroot")'
    <3>1. CASE x = "unroot"
      <4>1. /\ Pending("unroot") = Pending("unroot")' + 1 /\ Pending("onloadend") \in Nat
            /\ rootCount + 0 = f + Pending("onloadend") + Pending("unroot")
        BY <2>2, <2>3, <2>4, <2>6, <3>1
      <4>2. rootCount > 0 /\ rootCount - 1 = f + Pending("onloadend") + Pending("unroot")'
        BY <2>4, <2>5, <4>1
      <4>3. rootCount' = rootCount - 1
        BY <3>1, <4>2
      <4>4. QED
        BY <2>3, <4>2, <4>3
    <3>2. CASE x # "unroot"
      BY <2>2, <2>3, <2>4, <2>5, <2>6, <3>2
    <3>3. QED
      BY <3>1, <3>2
  <2>8. rootCount' + Pending("onloadstart")' = f + Pending("onloadend")' + Pending("unroot")'
    BY <2>2, <2>3, <2>4, <2>5, <2>7
  <2>9. QED
    BY <1>1, <2>2, <2>8 DEF RootInv, f
<1>11. /\ x # "aborted" => Pending("aborted")' = Pending("aborted")
       /\ x # "timed_out" => Pending("timed_out")' = Pending("timed_out")
       /\ x # "cancel" => Pending("cancel")' = Pending("cancel")
  BY <1>3, StepNames
<1>12. StateInv'
  <2>1. CASE x \in {"timed_out", "aborted"}
    BY <2>1 DEF StateInv
  <2>2. CASE x \notin {"timed_out", "aborted"}
    <3>1. readyState' = readyState /\ isTimeout' = isTimeout
      BY <2>2
    <3>2. QED
      BY <1>11, <2>2, <3>1 DEF IInv, StateInv
  <2>3. QED
    BY <2>1, <2>2
<1>13. OutcomeInv'
  <2>1. SUFFICES ASSUME NEW k \in Sends, "reopened" \notin fate'[k] PROVE ToldOnce(k)'
    BY DEF OutcomeInv
  <2>2. ToldOnce(k) /\ k # 0
    BY <1>4, <1>5, <2>1 DEF IInv, OutcomeInv
  <2>3. Telling(k)' = Telling(k)
    BY <1>2
  <2>4. (timer = k => Pending("cancel") # 0) => (timer' = k => Pending("cancel")' # 0)
    BY <1>11, <2>2
  <2>5. Quieted => Quieted'
    <3>1. CASE x = "aborted"
      <4>1. callback' = FALSE
        BY <3>1
      <4>2. QED
        BY <4>1 DEF Quieted
    <3>2. CASE x = "timed_out"
      <4>1. isTimeout' = TRUE
        BY <3>2
      <4>2. QED
        BY <4>1 DEF Quieted
    <3>3. CASE x \notin {"aborted", "timed_out"}
      <4>1. isTimeout' = isTimeout /\ callback' = callback
        BY <3>3
      <4>2. QED
        BY <1>11, <3>3, <4>1 DEF Quieted
    <3>4. QED
      BY <3>1, <3>2, <3>3
  <2>6. k \in flying /\ ~callback' => Shut'
    <3>1. CASE x \in {"aborted", "timed_out"}
      BY <3>1 DEF Shut
    <3>2. CASE x \notin {"aborted", "timed_out"}
      <4>1. readyState' = readyState /\ callback' = callback
        BY <3>2
      <4>2. k \in flying /\ ~callback => Shut
        BY <2>2 DEF ToldOnce
      <4>3. QED
        BY <1>1, <1>11, <3>2, <4>1, <4>2 DEF Shut
    <3>3. QED
      BY <3>1, <3>2
  <2>7. QED
    BY <1>1, <2>2, <2>3, <2>4, <2>5, <2>6 DEF ToldOnce
<1>14. QED
  BY <1>6, <1>7, <1>10, <1>13, <1>8, <1>9, <1>12 DEF IInv

LEMMA GoOnInv == ASSUME IInv, GoOn PROVE IInv'
<1>1. CASE Fire
  BY <1>1, FireInv
<1>2. CASE Return
  BY <1>2, ContinueInv, StepNames DEF IInv, Types, Return
<1>3. CASE Unroot
  BY <1>3, ContinueInv, StepNames DEF IInv, Types, Unroot
<1>4. CASE LoadStarted
  BY <1>4, ContinueInv, StepNames DEF IInv, Types, LoadStarted
<1>5. CASE Aborted
  BY <1>5, ContinueInv, StepNames DEF IInv, Types, Aborted
<1>6. CASE TimedOut
  BY <1>6, ContinueInv, StepNames DEF IInv, Types, TimedOut
<1>7. CASE Cancel
  BY <1>7, ContinueInv, StepNames DEF IInv, Types, Cancel
<1>8. QED
  BY <1>1, <1>2, <1>3, <1>4, <1>5, <1>6, <1>7 DEF GoOn

(* The collector takes an object that was not aborted only when nothing    *)
(* of it is in the air.                                                    *)
LEMMA CollectInv == ASSUME IInv, Drop \/ Finalize \/ Delete PROVE IInv'
<1>1. /\ todo = <<>>
      /\ UNCHANGED <<readyState, isAborted, isLoadStart, isTimeout, isSending>>
      /\ UNCHANGED <<flying, todo, rootCount, sends, aborts, outcome, fate>>
  BY DEF Drop, Finalize, Delete, flags, history
<1>2. /\ \A y \in Steps : Pending(y) = 0 /\ Pending(y)' = Pending(y)
      /\ \A k \in Sends : Telling(k) = 0 /\ Telling(k)' = Telling(k)
  BY <1>1, NothingPending, SameTodo
<1>3. aborts = 0 /\ (memory # "alive" \/ memory' # "alive") => flying = {}
  <2>1. CASE memory # "alive"
    BY <2>1 DEF IInv, QuietInv
  <2>2. CASE memory' # "alive" /\ memory = "alive"
    <3>1. rootCount = 0
      BY <2>2 DEF Drop, Finalize, Delete
    <3>2. /\ Pending("onloadstart") = 0 /\ Pending("onloadend") = 0 /\ Pending("unroot") = 0
      BY <1>2, StepNames
    <3>3. aborts = 0 => Cardinality(flying) = IF flying = {} THEN 0 ELSE 1
      BY OneInTheAir
    <3>4. aborts = 0 => 0 + 0 = Cardinality(flying) + 0 + 0
      BY <3>1, <3>2 DEF IInv, RootInv
    <3>5. QED
      BY <3>3, <3>4
  <2>3. QED
    BY <2>1, <2>2
<1>4. \/ timer' = timer /\ callback' = callback /\ memory' \in {memory, "finalized"}
         /\ (memory = "alive" \/ memory' = memory)
      \/ timer' = 0 /\ callback' = FALSE /\ memory = "finalized" /\ memory' = "deleted"
  BY DEF Drop, Finalize, Delete, flags
<1>5. /\ \A k \in Sends : Astray(k)' = Astray(k) /\ Loose(k)' = Loose(k)
      /\ \A k \in flying : k \in Sends
      /\ timer # 0 => timer \in Sends
      /\ \A k \in Sends : k # 0
      /\ Fresh'
  BY <1>1, SameFate, InAirSent DEF IInv
<1>6. Types'
  <2>1. memory' \in {"alive", "finalized", "deleted"}
    BY <1>4 DEF IInv, Types
  <2>2. timer' \in 0 .. sends /\ callback' \in BOOLEAN
    <3>1. timer \in 0 .. sends /\ 0 \in 0 .. sends /\ callback \in BOOLEAN
      BY DEF IInv, Types
    <3>2. timer' \in 0 .. sends
      BY <1>4, <3>1
    <3>3. callback' \in BOOLEAN
      BY <1>4, <3>1
    <3>4. QED
      BY <3>2, <3>3
  <2>3. QED
    BY <1>1, <1>5, <2>1, <2>2 DEF IInv, Types
<1>7. CurrentInv' /\ TimerInv'
  <2>1. CurrentInv'
    BY <1>1, <1>5 DEF IInv, CurrentInv
  <2>2. TimerInv'
    BY <1>1, <1>4, <1>5 DEF IInv, TimerInv
  <2>3. QED
    BY <2>1, <2>2
<1>8. QuietInv' /\ RootInv' /\ StateInv'
  <2>1. /\ Pending("onloadstart")' = Pending("onloadstart")
        /\ Pending("onloadend")' = Pending("onloadend")
        /\ Pending("unroot")' = Pending("unroot") /\ Pending("onloadstart") = 0
        /\ Pending("aborted")' = Pending("aborted")
    BY <1>2, StepNames
  <2>2. QuietInv'
    <3>1. aborts = 0 /\ flying # {} => memory = "alive" /\ memory' = "alive"
      BY <1>3
    <3>2. QED
      BY <1>1, <1>4, <2>1, <3>1 DEF IInv, QuietInv
  <2>3. RootInv' /\ StateInv'
    BY <1>1, <2>1 DEF IInv, RootInv, StateInv
  <2>4. QED
    BY <2>2, <2>3
<1>9. OutcomeInv'
  <2>1. SUFFICES ASSUME NEW k \in Sends, "reopened" \notin fate[k] PROVE ToldOnce(k)'
    BY <1>1 DEF OutcomeInv
  <2>2. ToldOnce(k) /\ k # 0
    BY <1>5, <2>1 DEF IInv, OutcomeInv
  <2>3. /\ Pending("cancel")' = Pending("cancel") /\ Pending("aborted")' = Pending("aborted")
        /\ Pending("timed_out")' = Pending("timed_out") /\ Telling(k)' = Telling(k)
    BY <1>2, StepNames
  <2>4. (timer' = k => timer = k) /\ (Quieted => Quieted')
    <3>1. timer' = k => timer = k
      BY <1>4, <2>2
    <3>2. ~callback => ~callback'
      BY <1>4
    <3>3. QED
      BY <1>1, <2>3, <3>1, <3>2 DEF Quieted
  <2>5. k \in flying /\ ~callback' => Shut'
    <3>1. CASE callback' = callback /\ (memory = "alive" \/ memory' = memory)
      BY <1>1, <2>2, <2>3, <3>1 DEF ToldOnce, Shut
    <3>2. CASE memory' = "deleted"
      BY <3>2 DEF Shut
    <3>3. QED
      BY <1>4, <3>1, <3>2
  <2>6. QED
    BY <1>1, <2>2, <2>3, <2>4, <2>5 DEF ToldOnce
<1>10. QED
  BY <1>6, <1>7, <1>8, <1>9 DEF IInv

------------------------------------------------------------------------------
LEMMA NextInv == ASSUME IInv, [Next]_vars PROVE IInv'
<1>1. CASE Open
  BY <1>1, OpenInv
<1>2. CASE SendRequest
  BY <1>2, SendRequestInv
<1>3. CASE Abort
  BY <1>3, AbortInv
<1>4. CASE Timeout
  BY <1>4, TimeoutInv
<1>5. ASSUME NEW n \in Sends, Dispatch(n) PROVE IInv'
  BY <1>5, DispatchInv
<1>6. CASE GoOn
  BY <1>6, GoOnInv
<1>7. CASE Drop \/ Finalize \/ Delete
  BY <1>7, CollectInv
<1>8. CASE UNCHANGED vars
  BY <1>8, StutterInv
<1>9. QED
  BY <1>1, <1>2, <1>3, <1>4, <1>5, <1>6, <1>7, <1>8 DEF Next

LEMMA Invariance == Spec => []IInv
BY InitInv, NextInv, PTL DEF Spec

(* The object has one HttpRequest and one callback for all it sends: the   *)
(* answer to a request is taken for that of a later one only if it was     *)
(* aborted, or after the answer to one that was; a timeout, open and       *)
(* whatever handlers call do not suffice (sendRequest, abort, onResponse). *)
THEOREM AnswersAreCurrent == Spec => []AnswerIsCurrent
<1>1. IInv => AnswerIsCurrent
  BY DEF IInv, CurrentInv, Astray, AnswerIsCurrent
<1>2. QED
  BY <1>1, Invariance, PTL

(* A timer that stands is that of the last request, which is in the air,   *)
(* or was left by abort: an answer takes it away before the next request   *)
(* is sent, whosever it is taken for (onResponse).                         *)
THEOREM TimersAreOwn == Spec => []TimerIsOwn
<1>1. IInv => TimerIsOwn
  BY DEF IInv, TimerInv, Loose, TimerIsOwn
<1>2. QED
  BY <1>1, Invariance, PTL

(* Until abort is called, the script object is rooted once for each        *)
(* request on its way to its onloadend, and unrooted as often, also when a *)
(* handler sends the next request meanwhile: the collector does not take   *)
(* it before, and takes it then (onloadstart and onloadend in              *)
(* jsb_xmlhttprequest.cpp).                                                *)
THEOREM RootedWhileSending == Spec => []RootsExact
<1>1. IInv => RootsExact
  BY DEF IInv, RootInv, RootsExact
<1>2. QED
  BY <1>1, Invariance, PTL

(* The script is told one of onload, onerror and ontimeout of a request,   *)
(* whatever the order of the timer, the answer and abort, unless it opens  *)
(* the object while that request is in the air.                            *)
THEOREM OneOutcomeTold == Spec => []OneOutcome
<1>1. ASSUME IInv PROVE OneOutcome
  <2>1. SUFFICES ASSUME NEW n \in Sends, "reopened" \notin fate[n]
                 PROVE  Cardinality(outcome[n]) <= 1
    BY DEF OneOutcome
  <2>2. outcome[n] = {} \/ \E o \in Outcomes : outcome[n] = {o}
    BY <1>1, <2>1 DEF IInv, OutcomeInv, ToldOnce
  <2>3. Cardinality(outcome[n]) = 0 \/ Cardinality(outcome[n]) = 1
    BY <2>2, InTheAir
  <2>4. QED
    BY <2>3
<1>2. QED
  BY <1>1, Invariance, PTL

==============================================================================
