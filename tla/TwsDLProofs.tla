---------------------------- MODULE TwsDLProofs -----------------------------
(***************************************************************************)
(* The event loop and its work lists keep their promises, for any number   *)
(* of jobs, requests and faults.  First what the operators of WorkTodo     *)
(* preserve, for all work lists; then the invariants of the loop; then     *)
(* requests, their answers and the connection they need.                   *)
(***************************************************************************)
EXTENDS TwsDL, TLAPS, SequenceTheorems, WellFoundedInduction

(***************************************************************************)
(* The work lists.  The only recursion is the loop that erases requests    *)
(* (Without); its facts are proved by taking the first position at which   *)
(* they could fail.                                                        *)
(***************************************************************************)

(* Each set of naturals has a least element.                               *)
LEMMA LeastElement ==
  ASSUME NEW P \in SUBSET Nat, P # {}
  PROVE  \E m \in P : \A k \in P : m <= k
<1>1. \E m \in P : \A k \in P : ~ (<<k, m>> \in OpToRel(<, Nat))
  BY NatLessThanWellFounded, WFMin
<1>2. \A k, m \in Nat : k < m => <<k, m>> \in OpToRel(<, Nat)
  BY DEF OpToRel
<1>3. \E m \in P : \A k \in P : ~ (k < m)
  BY <1>1, <1>2, Zenon
<1>4. QED
  BY <1>3

(* One round of the loop.                                                  *)
Round(s, S, f, i) ==
  IF i = 0 THEN << >>
  ELSE IF s[i] \in S THEN f[i - 1]
  ELSE Append(f[i - 1], s[i])

(* The loop has a result after each round.                                 *)
LEMMA RoundsExist ==
  ASSUME NEW s, NEW S, NEW n \in Nat
  PROVE  \E f : f = [i \in 0..n |-> Round(s, S, f, i)]
<1> DEFINE Runs(f, m) == f = [i \in 0..m |-> Round(s, S, f, i)]
           Stuck == {m \in Nat : ~ \E f : Runs(f, m)}
<1>1. SUFFICES ASSUME Stuck # {} PROVE FALSE
  OBVIOUS
<1>2. PICK m \in Stuck : \A k \in Stuck : m <= k
  <2> HIDE DEF Stuck
  <2>1. Stuck \in SUBSET Nat
    BY DEF Stuck
  <2>2. QED
    BY <1>1, <2>1, LeastElement
<1>3. CASE m = 0
  <2>1. Runs([i \in 0..0 |-> << >>], 0)
    BY DEF Round
  <2>2. QED
    BY <1>3, <2>1
<1>4. CASE m # 0
  <2>1. m - 1 \in Nat /\ m - 1 \notin Stuck
    BY <1>2, <1>4
  <2>2. PICK g : Runs(g, m - 1)
    BY <2>1
  <2> DEFINE h == [i \in 0..m |-> IF i < m THEN g[i] ELSE Round(s, S, g, m)]
  <2>3. \A i \in 0..m : h[i] = Round(s, S, h, i)
    <3> SUFFICES ASSUME NEW i \in 0..m PROVE h[i] = Round(s, S, h, i)
      OBVIOUS
    <3>1. i # 0 => h[i - 1] = g[i - 1]
      BY <1>2
    <3>2. Round(s, S, h, i) = Round(s, S, g, i)
      BY <3>1 DEF Round
    <3>3. CASE i < m
      <4>1. i \in 0 .. m - 1 /\ h[i] = g[i]
        BY <1>2, <3>3
      <4>2. g[i] = Round(s, S, g, i)
        BY <2>2, <4>1
      <4>3. QED
        BY <3>2, <4>1, <4>2
    <3>4. CASE i = m
      <4>1. h[i] = Round(s, S, g, m)
        BY <1>2, <3>4
      <4>2. QED
        BY <3>2, <3>4, <4>1
    <3>5. QED
      BY <1>2, <3>3, <3>4
  <2>4. Runs(h, m)
    BY <2>3
  <2>5. QED
    BY <1>2, <2>4
<1>5. QED
  BY <1>3, <1>4

(* What has been kept of the first i requests.                             *)
KeptSoFar(s, S, i, t) ==
  /\ Elems(t) = {s[j] : j \in 1..i} \ S
  /\ Distinct(s) => Distinct(t)

(* Appending adds one element, and keeps the elements distinct if the new  *)
(* one is none of them.                                                    *)
LEMMA AppendElems ==
  ASSUME NEW T, NEW t \in Seq(T), NEW x \in T
  PROVE  /\ Append(t, x) \in Seq(T)
         /\ Elems(Append(t, x)) = Elems(t) \cup {x}
         /\ Distinct(t) /\ x \notin Elems(t) => Distinct(Append(t, x))
<1>1. /\ Append(t, x) \in Seq(T)
      /\ Len(t) \in Nat /\ DOMAIN t = 1..Len(t)
      /\ DOMAIN Append(t, x) = 1 .. Len(t) + 1
      /\ \A i \in 1..Len(t) : Append(t, x)[i] = t[i]
      /\ Append(t, x)[Len(t) + 1] = x
  OBVIOUS
<1>2. QED
  BY <1>1 DEF Elems, Distinct

(* Without(s, S) is the requests of s that are not in S, none twice.       *)
LEMMA WithoutFacts ==
  ASSUME NEW T, NEW s \in Seq(T), NEW S
  PROVE  /\ Without(s, S) \in Seq(T)
         /\ Elems(Without(s, S)) = Elems(s) \ S
         /\ Distinct(s) => Distinct(Without(s, S))
<1>1. Len(s) \in Nat /\ DOMAIN s = 1..Len(s) /\ \A i \in 1..Len(s) : s[i] \in T
  OBVIOUS
<1> DEFINE kept == CHOOSE f : f = [i \in 0..Len(s) |-> Round(s, S, f, i)]
<1>2. kept = [i \in 0..Len(s) |-> Round(s, S, kept, i)]
  BY <1>1, RoundsExist
<1>3. Without(s, S) = kept[Len(s)]
  BY DEF Without, Round
<1> DEFINE Good(i) == kept[i] \in Seq(T) /\ KeptSoFar(s, S, i, kept[i])
           Bad == {i \in 0..Len(s) : ~ Good(i)}
<1>4. \A i \in 0..Len(s) : kept[i] = Round(s, S, kept, i)
  BY <1>2
<1> HIDE DEF kept
<1>5. Bad = {}
  <2>1. SUFFICES ASSUME Bad # {} PROVE FALSE
    OBVIOUS
  <2>2. PICK m \in Bad : \A k \in Bad : m <= k
    <3>1. Bad \in SUBSET Nat
      BY <1>1
    <3> HIDE DEF Bad
    <3>2. QED
      BY <2>1, <3>1, LeastElement
  <2>3. m \in 0..Len(s) /\ m \in Nat
    BY <2>2, <1>1
  <2>4. CASE m = 0
    <3>1. kept[m] = << >>
      BY <1>4, <2>3, <2>4 DEF Round
    <3>2. Good(m)
      BY <2>4, <3>1 DEF KeptSoFar, Elems, Distinct
    <3>3. QED
      BY <2>2, <3>2
  <2>5. CASE m # 0
    <3>1. m - 1 \in 0..Len(s) /\ m \in 1..Len(s) /\ m - 1 \in Nat
      BY <1>1, <2>3, <2>5
    <3>2. Good(m - 1)
      <4>1. m - 1 \notin Bad
        BY <2>2, <2>3
      <4>2. QED
        BY <3>1, <4>1
    <3> DEFINE t == kept[m - 1]
    <3>3. t \in Seq(T) /\ KeptSoFar(s, S, m - 1, t)
      BY <3>2
    <3>4. kept[m] = (IF s[m] \in S THEN t ELSE Append(t, s[m]))
      BY <1>4, <2>3, <2>5 DEF Round
    <3>5. {s[j] : j \in 1..m} = {s[j] : j \in 1 .. m - 1} \cup {s[m]}
      BY <3>1
    <3> HIDE DEF t
    <3>6. CASE s[m] \in S
      <4>1. kept[m] = t
        BY <3>4, <3>6
      <4>2. QED
        BY <2>2, <3>3, <3>5, <3>6, <4>1 DEF KeptSoFar
    <3>7. CASE s[m] \notin S
      <4>1. kept[m] = Append(t, s[m]) /\ s[m] \in T
        BY <3>4, <3>7, <3>1, <1>1
      <4>2. Distinct(s) => s[m] \notin {s[j] : j \in 1 .. m - 1}
        BY <1>1, <3>1 DEF Distinct
      <4>3. /\ Append(t, s[m]) \in Seq(T)
            /\ Elems(Append(t, s[m])) = Elems(t) \cup {s[m]}
            /\ Distinct(t) /\ s[m] \notin Elems(t) => Distinct(Append(t, s[m]))
        BY <3>3, <4>1, AppendElems
      <4>4. KeptSoFar(s, S, m, Append(t, s[m]))
        BY <3>3, <3>5, <3>7, <4>2, <4>3 DEF KeptSoFar
      <4>5. QED
        BY <2>2, <4>1, <4>3, <4>4
    <3>8. QED
      BY <3>6, <3>7
  <2>6. QED
    BY <2>4, <2>5
<1>6. Good(Len(s))
  BY <1>1, <1>5
<1>7. Elems(s) = {s[j] : j \in 1..Len(s)}
  BY <1>1 DEF Elems
<1>8. QED
  BY <1>3, <1>6, <1>7 DEF KeptSoFar

-----------------------------------------------------------------------------

(***************************************************************************)
(* Each job is in one of the lists, or checked out, and in one place only. *)
(***************************************************************************)

Kept(h) ==
  /\ h \in HistTodoType
  /\ Distinct(h.left)
  /\ Elems(h.left) \cap (h.done \cup h.errs) = {}
  /\ h.done \cap h.errs = {}
  /\ h.checkedOut \notin Elems(h.left) \cup h.done \cup h.errs
  /\ HistJobs \subseteq Elems(h.left) \cup h.done \cup h.errs \cup {h.checkedOut}

LEMMA NewKept == Kept(NewHistTodo)
<1>1. [i \in HistJobs |-> i] \in Seq(HistJobs)
  BY NHistAssumption DEF HistJobs
<1>2. Elems([i \in HistJobs |-> i]) = HistJobs /\ Distinct([i \in HistJobs |-> i])
  BY DEF Elems, Distinct
<1>3. QED
  BY <1>1, <1>2, NoJobAssumption DEF Kept, NewHistTodo, HistTodoType

(* Taking a request that is left.                                          *)
LEMMA CheckoutKept ==
  ASSUME NEW h, Kept(h), h.checkedOut = NoJob, NEW j \in Elems(h.left)
  PROVE  /\ Kept(Checkout(h, j)) /\ Checkout(h, j).checkedOut = j /\ j # NoJob
         /\ j \in HistJobs /\ j \notin h.done \cup h.errs
         /\ Checkout(h, j).done = h.done /\ Checkout(h, j).errs = h.errs
<1> DEFINE w == Without(h.left, {j})
           g == Checkout(h, j)
<1>1. h.left \in Seq(HistJobs) /\ j \in HistJobs /\ j # NoJob
  BY NoJobAssumption DEF Kept, HistTodoType, Elems
<1>2. w \in Seq(HistJobs) /\ Elems(w) = Elems(h.left) \ {j} /\ Distinct(w)
  BY <1>1, WithoutFacts DEF Kept
<1>3. g = [h EXCEPT !.left = w, !.checkedOut = j]
  BY DEF Checkout
<1> HIDE DEF w, g
<1>4. g \in HistTodoType /\ g.left = w /\ g.checkedOut = j /\ g.done = h.done /\ g.errs = h.errs
  BY <1>1, <1>2, <1>3 DEF Kept, HistTodoType
<1>5. Kept(g)
  BY <1>1, <1>2, <1>4, NoJobAssumption DEF Kept
<1>6. j \notin h.done \cup h.errs
  BY DEF Kept
<1>7. QED
  BY <1>1, <1>4, <1>5, <1>6 DEF g

(* The two ends of a list that a request may be put back to.               *)
LEMMA PutBack ==
  ASSUME NEW T, NEW s \in Seq(T), NEW x \in T
  PROVE  /\ <<x>> \o s \in Seq(T)
         /\ Elems(<<x>> \o s) = Elems(s) \cup {x}
         /\ Distinct(s) /\ x \notin Elems(s) => Distinct(<<x>> \o s)
<1> DEFINE r == <<x>> \o s
<1>1. /\ Len(s) \in Nat /\ DOMAIN s = 1..Len(s)
      /\ r \in Seq(T) /\ Len(r) = Len(s) + 1 /\ DOMAIN r = 1 .. Len(s) + 1
      /\ r[1] = x /\ \A i \in 1..Len(s) : r[i + 1] = s[i]
  OBVIOUS
<1> HIDE DEF r
<1>2. \A i \in DOMAIN r : i = 1 \/ (i - 1 \in DOMAIN s /\ r[i] = s[i - 1])
  BY <1>1
<1>3. Elems(r) \subseteq Elems(s) \cup {x}
  BY <1>1, <1>2 DEF Elems
<1>4. Elems(s) \cup {x} \subseteq Elems(r)
  <2>1. \A i \in DOMAIN s : i + 1 \in DOMAIN r /\ r[i + 1] = s[i]
    BY <1>1
  <2>2. QED
    BY <1>1, <2>1 DEF Elems
<1>5. ASSUME Distinct(s), x \notin Elems(s) PROVE Distinct(r)
  <2>1. SUFFICES ASSUME NEW i \in DOMAIN r, NEW k \in DOMAIN r, r[i] = r[k] PROVE i = k
    BY DEF Distinct
  <2>2. \A n \in DOMAIN s : s[n] # x
    BY <1>5 DEF Elems
  <2>3. CASE i = 1 \/ k = 1
    BY <1>1, <1>2, <2>1, <2>2, <2>3
  <2>4. CASE i # 1 /\ k # 1
    <3>1. i - 1 \in DOMAIN s /\ k - 1 \in DOMAIN s /\ s[i - 1] = s[k - 1]
      BY <1>2, <2>1, <2>4
    <3>2. i - 1 = k - 1
      BY <1>5, <3>1 DEF Distinct
    <3>3. QED
      BY <3>2, <1>1
  <2>5. QED
    BY <2>3, <2>4
<1>6. QED
  BY <1>1, <1>3, <1>4, <1>5 DEF r

(* The request checked out goes to one of the three lists.                 *)
LEMMA SettleKept ==
  ASSUME NEW h, Kept(h), h.checkedOut # NoJob,
         NEW g \in HistTodoType, g.checkedOut = NoJob, Distinct(g.left),
         \/ /\ Elems(g.left) = Elems(h.left) \cup {h.checkedOut}
            /\ g.done = h.done /\ g.errs = h.errs
         \/ /\ Elems(g.left) = Elems(h.left)
            /\ g.done = h.done \cup {h.checkedOut} /\ g.errs = h.errs
         \/ /\ Elems(g.left) = Elems(h.left)
            /\ g.done = h.done /\ g.errs = h.errs \cup {h.checkedOut}
  PROVE  Kept(g)
<1> DEFINE L == Elems(h.left)
           D == h.done
           E == h.errs
           x == h.checkedOut
           M == Elems(g.left)
           N == g.done
           F == g.errs
<1>1. L \subseteq HistJobs /\ M \subseteq HistJobs
  <2>1. h.left \in Seq(HistJobs) /\ g.left \in Seq(HistJobs)
    BY DEF Kept, HistTodoType
  <2>2. \A r \in Seq(HistJobs) : Elems(r) \subseteq HistJobs
    BY DEF Elems
  <2>3. QED
    BY <2>1, <2>2
<1>2. D \subseteq HistJobs /\ E \subseteq HistJobs /\ N \subseteq HistJobs
      /\ F \subseteq HistJobs /\ x \in HistJobs
  BY DEF Kept, HistTodoType
<1>3. L \cap (D \cup E) = {} /\ D \cap E = {} /\ x \notin L \cup D \cup E
      /\ HistJobs \subseteq L \cup D \cup E \cup {x}
  BY DEF Kept
<1>4. \/ M = L \cup {x} /\ N = D /\ F = E
      \/ M = L /\ N = D \cup {x} /\ F = E
      \/ M = L /\ N = D /\ F = E \cup {x}
  OBVIOUS
<1>5. M \cap (N \cup F) = {} /\ N \cap F = {} /\ HistJobs \subseteq M \cup N \cup F
  <2> HIDE DEF L, D, E, x, M, N, F
  <2>1. QED
    BY <1>3, <1>4
<1>6. NoJob \notin M \cup N \cup F
  <2> HIDE DEF M, N, F
  <2>1. QED
    BY <1>1, <1>2, NoJobAssumption
<1>7. QED
  BY <1>5, <1>6 DEF Kept

(* Repeating, or giving up, the request checked out.                       *)
LEMMA CancelKept ==
  ASSUME NEW h, Kept(h), h.checkedOut # NoJob, NEW p \in {0, 1, 2}
  PROVE  /\ Kept(CancelForRepeat(h, p)) /\ CancelForRepeat(h, p).checkedOut = NoJob
         /\ CancelForRepeat(h, p).done = h.done
         /\ p # 2 => CancelForRepeat(h, p).errs = h.errs
         /\ p = 2 => CancelForRepeat(h, p).errs = h.errs \cup {h.checkedOut}
<1> DEFINE x == h.checkedOut
           left == IF p = 0 THEN <<x>> \o h.left
                   ELSE IF p = 1 THEN Append(h.left, x) ELSE h.left
           errs == IF p = 2 THEN h.errs \cup {x} ELSE h.errs
           g == CancelForRepeat(h, p)
<1>1. h.left \in Seq(HistJobs) /\ x \in HistJobs /\ x \notin Elems(h.left)
      /\ Distinct(h.left) /\ h \in HistTodoType
  BY DEF Kept, HistTodoType
<1>2. /\ <<x>> \o h.left \in Seq(HistJobs)
      /\ Elems(<<x>> \o h.left) = Elems(h.left) \cup {x} /\ Distinct(<<x>> \o h.left)
  BY <1>1, PutBack
<1>3. /\ Append(h.left, x) \in Seq(HistJobs)
      /\ Elems(Append(h.left, x)) = Elems(h.left) \cup {x} /\ Distinct(Append(h.left, x))
  BY <1>1, AppendElems
<1>4. left \in Seq(HistJobs) /\ Distinct(left)
      /\ (p = 2 => Elems(left) = Elems(h.left))
      /\ (p # 2 => Elems(left) = Elems(h.left) \cup {x})
  BY <1>1, <1>2, <1>3
<1>5. errs \in SUBSET HistJobs /\ (p = 2 => errs = h.errs \cup {x})
      /\ (p # 2 => errs = h.errs)
  BY <1>1 DEF HistTodoType
<1>6. g = [h EXCEPT !.checkedOut = NoJob, !.left = left, !.errs = errs]
  BY DEF CancelForRepeat
<1> HIDE DEF left, errs, g
<1>7. g \in HistTodoType /\ g.left = left /\ g.checkedOut = NoJob
      /\ g.done = h.done /\ g.errs = errs
  BY <1>1, <1>4, <1>5, <1>6 DEF HistTodoType
<1>8. Kept(g)
  <2>1. \/ /\ Elems(g.left) = Elems(h.left) \cup {h.checkedOut}
           /\ g.done = h.done /\ g.errs = h.errs
        \/ /\ Elems(g.left) = Elems(h.left)
           /\ g.done = h.done /\ g.errs = h.errs \cup {h.checkedOut}
    BY <1>4, <1>5, <1>7
  <2>2. g \in HistTodoType /\ g.checkedOut = NoJob /\ Distinct(g.left)
    BY <1>4, <1>7
  <2>3. QED
    BY <2>1, <2>2, SettleKept
<1>9. QED
  BY <1>5, <1>7, <1>8 DEF g

(* The request checked out is done.                                        *)
LEMMA DoneKept ==
  ASSUME NEW h, Kept(h), h.checkedOut # NoJob
  PROVE  /\ Kept(TellDone(h)) /\ TellDone(h).checkedOut = NoJob
         /\ TellDone(h).done = h.done \cup {h.checkedOut}
         /\ TellDone(h).errs = h.errs
<1> DEFINE g == TellDone(h)
<1>1. g = [h EXCEPT !.checkedOut = NoJob, !.done = h.done \cup {h.checkedOut}]
  BY DEF TellDone
<1> HIDE DEF g
<1>2. h.checkedOut \in HistJobs /\ h \in HistTodoType /\ Distinct(h.left)
  BY DEF Kept, HistTodoType
<1>3. g \in HistTodoType /\ g.left = h.left /\ g.checkedOut = NoJob
      /\ g.done = h.done \cup {h.checkedOut} /\ g.errs = h.errs
  BY <1>1, <1>2 DEF HistTodoType
<1>4. Elems(g.left) = Elems(h.left) /\ Distinct(g.left)
  BY <1>2, <1>3
<1>5. Kept(g)
  BY <1>3, <1>4, SettleKept
<1>6. QED
  BY <1>3, <1>5 DEF g

(* Giving up all requests left that are in S.                              *)
LEMMA SkipKept ==
  ASSUME NEW h, Kept(h), NEW S
  PROVE  /\ Kept(Skip(h, S)) /\ Skip(h, S).checkedOut = h.checkedOut
         /\ Skip(h, S).done = h.done
         /\ Skip(h, S).errs = h.errs \cup (Elems(h.left) \cap S)
<1> DEFINE w == Without(h.left, S)
           g == Skip(h, S)
<1>1. h.left \in Seq(HistJobs) /\ h \in HistTodoType
  BY DEF Kept, HistTodoType
<1>2. w \in Seq(HistJobs) /\ Elems(w) = Elems(h.left) \ S /\ Distinct(w)
  BY <1>1, WithoutFacts DEF Kept
<1>3. g = [h EXCEPT !.left = w, !.errs = h.errs \cup (Elems(h.left) \cap S)]
  BY DEF Skip
<1> HIDE DEF w, g
<1>4. Elems(h.left) \subseteq HistJobs
  BY <1>1 DEF Elems
<1>5. g \in HistTodoType /\ g.left = w /\ g.checkedOut = h.checkedOut
      /\ g.done = h.done /\ g.errs = h.errs \cup (Elems(h.left) \cap S)
  BY <1>1, <1>2, <1>3, <1>4 DEF HistTodoType
<1>6. Kept(g)
  BY <1>2, <1>5 DEF Kept
<1>7. QED
  BY <1>5, <1>6 DEF g

(***************************************************************************)
(* The invariants of the loop.  The proofs first say which action may touch*)
(* which variables (Frames); the proof that an invariant is kept then has  *)
(* one step for the actions that leave its variables alone, and one for    *)
(* each action that does not.                                              *)
(***************************************************************************)

(***************************************************************************)
(* The steps.                                                              *)
(***************************************************************************)

SomeReqSimple  == \E t \in SimpleTypes : ReqSimple(t)
SomeReqIndexed == \E t \in IndexedTypes : ReqIndexed(t)
SomeReqHist    == \E i \in DOMAIN hist.left : ReqHist(i)
SomeRow        == \E r \in pending : Row(r)
SomeEnd        == \E r \in pending : End(r)
SomeAssert     == \E r \in pending : TwsErrorAsserts(r)
SomeTwsError   == \E r \in pending, e \in HistErrors : TwsError(r, e)

LEMMA StepCases ==
  ASSUME [Next]_vars
  PROVE  \/ Wake \/ ConTimerExpires \/ ReqTimerExpires
         \/ ConnectFailed \/ ConnectFinished \/ StillConnecting \/ ConnectTimeout
         \/ NothingToWaitFor \/ StillWaiting \/ FinIndexed \/ FinHist \/ FinSimple
         \/ ConnectTws \/ SomeReqSimple \/ SomeReqIndexed \/ SomeReqHist
         \/ Paced \/ NoMoreWork \/ NextValidId \/ CurrentTime
         \/ SomeRow \/ SomeEnd \/ SomeAssert \/ SomeTwsError
         \/ ConnectivityLost \/ ConnectivityRestored \/ ConnectionLost
         \/ UNCHANGED vars
  BY DEF Next, Handler, Callbacks, Terminated, SomeReqSimple, SomeReqIndexed,
         SomeReqHist, SomeRow, SomeEnd, SomeAssert, SomeTwsError

(* A failed assertion leaves everything but the thread as it was.          *)
Failed ==
  /\ pc # "abort" /\ pc' = "abort" /\ abort' \in Assertions \ {"none"}
  /\ UNCHANGED <<conn, req, todo, tws, output>>

Moves == pc # "abort" /\ pc' \in {"select", "loop", "dispatch", "quit"} /\ UNCHANGED abort

(* Which action touches which variables.                                   *)
FramesHold ==
  /\ UNCHANGED thread \/ Moves \/ Failed
  /\ \/ UNCHANGED conn
     \/ ConTimerExpires \/ ConnectFailed \/ ConnectFinished \/ ConnectTimeout
     \/ ConnectTws \/ NextValidId \/ CurrentTime
     \/ ConnectivityLost \/ ConnectivityRestored \/ ConnectionLost
  /\ \/ UNCHANGED req
     \/ ReqTimerExpires \/ ConnectTimeout \/ ConnectionLost
     \/ FinIndexed \/ FinHist \/ FinSimple
     \/ SomeReqSimple \/ SomeReqIndexed \/ SomeReqHist
     \/ SomeEnd \/ SomeTwsError \/ ConnectivityRestored
  /\ UNCHANGED hist \/ FinHist \/ SomeReqHist \/ SomeTwsError
  /\ \/ UNCHANGED <<simple, curIndex>>
     \/ FinIndexed \/ SomeReqSimple \/ SomeReqIndexed
  /\ \/ UNCHANGED tws
     \/ StillConnecting \/ ConnectTws \/ ConnectTimeout \/ ConnectionLost
     \/ SomeReqSimple \/ SomeReqIndexed \/ SomeReqHist
     \/ NextValidId \/ CurrentTime \/ SomeEnd \/ SomeTwsError
  /\ UNCHANGED output \/ FinIndexed \/ FinHist \/ FinSimple
  /\ UNCHANGED faults \/ Fault

LEMMA Frames ==
  ASSUME [Next]_vars
  PROVE  FramesHold
<1> USE DEF thread, conn, req, todo, tws, Goto, Moves, Failed, Abort, Assertions
<1>1. CASE Wake
  BY <1>1 DEF FramesHold, Wake
<1>2. CASE ConTimerExpires
  BY <1>2 DEF FramesHold, ConTimerExpires
<1>3. CASE ReqTimerExpires
  BY <1>3 DEF FramesHold, ReqTimerExpires
<1>4. CASE ConnectFailed
  BY <1>4 DEF FramesHold, ConnectFailed, WaitTwsCon
<1>5. CASE ConnectFinished
  BY <1>5 DEF FramesHold, ConnectFinished, WaitTwsCon
<1>6. CASE StillConnecting
  BY <1>6 DEF FramesHold, StillConnecting, WaitTwsCon
<1>7. CASE ConnectTimeout
  BY <1>7 DEF FramesHold, ConnectTimeout, WaitTwsCon, ConnectionClosed, CloseLink, LinkDown
<1>8. CASE NothingToWaitFor
  BY <1>8 DEF FramesHold, NothingToWaitFor, WaitData
<1>9. CASE StillWaiting
  BY <1>9 DEF FramesHold, StillWaiting, WaitData
<1>10. CASE FinIndexed
  BY <1>10 DEF FramesHold, FinIndexed, Finishing, WaitData, CloseRequest
<1>11. CASE FinHist
  BY <1>11 DEF FramesHold, FinHist, Finishing, WaitData, CloseRequest
<1>12. CASE FinSimple
  BY <1>12 DEF FramesHold, FinSimple, Finishing, WaitData, CloseRequest
<1>13. CASE ConnectTws
  BY <1>13 DEF FramesHold, ConnectTws
<1>14. CASE SomeReqSimple
  BY <1>14 DEF FramesHold, SomeReqSimple, ReqSimple, Dispatch, SendRequest
<1>15. CASE SomeReqIndexed
  BY <1>15 DEF FramesHold, SomeReqIndexed, ReqIndexed, Dispatch, SendRequest
<1>16. CASE SomeReqHist
  BY <1>16 DEF FramesHold, SomeReqHist, ReqHist, Dispatch, SendRequest
<1>17. CASE Paced
  BY <1>17 DEF FramesHold, Paced, Dispatch
<1>18. CASE NoMoreWork
  BY <1>18 DEF FramesHold, NoMoreWork
<1>19. CASE NextValidId
  BY <1>19 DEF FramesHold, NextValidId, Callback
<1>20. CASE CurrentTime
  BY <1>20 DEF FramesHold, CurrentTime, Callback
<1>21. CASE SomeRow
  BY <1>21 DEF FramesHold, SomeRow, Row, Callback, AppendAssertion
<1>22. CASE SomeEnd
  BY <1>22 DEF FramesHold, SomeEnd, End, Callback, Answered, AppendAssertion
<1>23. CASE SomeAssert
  BY <1>23 DEF FramesHold, SomeAssert, TwsErrorAsserts, Callback
<1>24. CASE SomeTwsError
  BY <1>24 DEF FramesHold, SomeTwsError, TwsError, Callback, Answered
<1>25. CASE ConnectivityLost
  BY <1>25 DEF FramesHold, ConnectivityLost, Callback
<1>26. CASE ConnectivityRestored
  BY <1>26 DEF FramesHold, ConnectivityRestored, Callback
<1>27. CASE ConnectionLost
  BY <1>27 DEF FramesHold, ConnectionLost, ConnectionClosed, CloseLink, LinkDown
<1>28. CASE UNCHANGED vars
  BY <1>28 DEF FramesHold, vars
<1>29. QED
  BY <1>1, <1>2, <1>3, <1>4, <1>5, <1>6, <1>7, <1>8, <1>9, <1>10, <1>11, <1>12, <1>13, <1>14, <1>15, <1>16, <1>17, <1>18, <1>19, <1>20, <1>21, <1>22, <1>23, <1>24, <1>25, <1>26, <1>27, <1>28, StepCases

-----------------------------------------------------------------------------

(***************************************************************************)
(* Types, and the agreement of the thread, the request and the lists.      *)
(***************************************************************************)

(* The process has aborted exactly when an assertion has failed.           *)
Thread == abort # "none" <=> pc = "abort"

(* A request for contract details or option parameters has an index.       *)
Indexed == reqType \in IndexedTypes => curIndex[reqType] >= 0

Base == TypeOK /\ Agreement /\ Kept(hist) /\ Thread /\ Indexed

LEMMA ThreadStep ==
  ASSUME Base, [Next]_vars
  PROVE  ThreadTypes' /\ Thread'
<1>1. UNCHANGED thread \/ Moves \/ Failed
  BY Frames DEF FramesHold
<1>2. ThreadTypes /\ Thread
  BY DEF Base, TypeOK
<1>3. QED
  BY <1>1, <1>2 DEF ThreadTypes, Thread, Assertions, thread, Moves, Failed

LEMMA ConnTypesStep ==
  ASSUME Base, [Next]_vars
  PROVE  ConnTypes'
<1> USE DEF Base, TypeOK, ConnTypes
<1>1. CASE UNCHANGED conn
  BY <1>1 DEF conn
<1>2. CASE ConTimerExpires
  BY <1>2 DEF ConTimerExpires
<1>3. CASE ConnectFailed
  BY <1>3 DEF ConnectFailed
<1>4. CASE ConnectFinished
  BY <1>4 DEF ConnectFinished
<1>5. CASE ConnectTimeout \/ ConnectionLost
  BY <1>5 DEF ConnectTimeout, ConnectionLost, ConnectionClosed, CloseLink, LinkDown,
             Abort, conn
<1>6. CASE ConnectTws
  BY <1>6 DEF ConnectTws, Abort, ResetHeartBeat, conn
<1>7. CASE NextValidId
  BY <1>7 DEF NextValidId
<1>8. CASE CurrentTime
  BY <1>8 DEF CurrentTime
<1>9. CASE ConnectivityLost
  BY <1>9 DEF ConnectivityLost
<1>10. CASE ConnectivityRestored
  BY <1>10 DEF ConnectivityRestored
<1>11. QED
  BY <1>1, <1>2, <1>3, <1>4, <1>5, <1>6, <1>7, <1>8, <1>9, <1>10, Frames DEF FramesHold

(* Closing a packet.                                                       *)
LEMMA CloseErrorFacts ==
  ASSUME NEW p \in Packets, NEW e \in Errors
  PROVE  /\ CloseError(p, e) \in Packets
         /\ CloseError(p, e) = NoPacket <=> p = NoPacket
         /\ Finished(p) => CloseError(p, e) = p
         /\ p = NoPacket => CloseError(p, e) = p
         /\ CloseError(p, e).error \in Errors
  BY DEF CloseError, Packets, NoPacket, Recording, Closed, Finished, Errors

LEMMA CloseFacts ==
  ASSUME NEW p \in Packets, p # NoPacket
  PROVE  /\ [p EXCEPT !.mode = "CLOSED"] \in Packets
         /\ [p EXCEPT !.mode = "CLOSED"] # NoPacket
         /\ Finished(p) => [p EXCEPT !.mode = "CLOSED"] = p
  BY DEF Packets, NoPacket, Recording, Closed, Finished, Errors

LEMMA ErrorsOfMessages ==
  ASSUME NEW e
  PROVE  /\ e \in ContractErrors => ContractError(e) \in Errors
         /\ e \in HistErrors => HistError(e) \in Errors
  BY DEF ContractErrors, HistErrors, ContractError, HistError, Errors

(* The kinds of request.                                                   *)
LEMMA Kinds ==
  /\ SimpleTypes \subseteq RequestTypes /\ IndexedTypes \subseteq RequestTypes
  /\ "HIST" \in RequestTypes /\ "HIST" \notin SimpleTypes \cup IndexedTypes
  /\ "NONE" \notin RequestTypes /\ SimpleTypes \cap IndexedTypes = {}
  /\ RequestTypes = SimpleTypes \cup IndexedTypes \cup {"HIST"}
  BY DEF RequestTypes, SimpleTypes, IndexedTypes

(* What is sent out.                                                       *)
LEMMA Sent ==
  ASSUME Base, SomeReqSimple \/ SomeReqIndexed \/ SomeReqHist, ~ Failed
  PROVE  /\ pc = "dispatch" /\ connected
         /\ \E t \in RequestTypes : SendRequest(t)
         /\ SomeReqSimple => \E t \in SimpleTypes : SendRequest(t)
         /\ SomeReqIndexed => \E t \in IndexedTypes : SendRequest(t)
         /\ SomeReqHist => SendRequest("HIST") /\ hist.checkedOut = NoJob
<1>1. pc = "dispatch" /\ connected
  BY DEF SomeReqSimple, SomeReqIndexed, SomeReqHist, ReqSimple, ReqIndexed, ReqHist, Dispatch
<1>2. SomeReqSimple => \E t \in SimpleTypes : SendRequest(t)
  BY Zenon DEF SomeReqSimple, ReqSimple
<1>3. SomeReqIndexed => \E t \in IndexedTypes : SendRequest(t)
  BY Zenon DEF SomeReqIndexed, ReqIndexed
<1>4. ASSUME SomeReqHist
      PROVE  SendRequest("HIST") /\ hist.checkedOut = NoJob
  <2>1. hist.checkedOut = NoJob
    BY <1>1, <1>4 DEF SomeReqHist, ReqHist, Failed, Abort, Assertions, req, conn, todo, tws
  <2>2. QED
    BY <1>4, <2>1, Zenon DEF SomeReqHist, ReqHist
<1>5. QED
  BY <1>1, <1>2, <1>3, <1>4, Kinds, Zenon

(* The answer of a finished request.                                       *)
LEMMA VerdictType ==
  ASSUME Base
  PROVE  Verdict \in Errors
  BY CloseErrorFacts DEF Base, TypeOK, ReqTypes, Verdict, Errors

LEMMA FiledKept ==
  ASSUME Base, hist.checkedOut # NoJob
  PROVE  /\ Kept(Filed(Verdict)) /\ Filed(Verdict).checkedOut = NoJob
         /\ Verdict = "NONE" => Filed(Verdict).done = hist.done \cup {hist.checkedOut}
         /\ hist.done \subseteq Filed(Verdict).done
<1>1. Kept(hist)
  BY DEF Base
<1>2. CASE Verdict \in {"NONE", "NODATA", "NAV"}
  <2>1. Filed(Verdict) = TellDone(hist)
    BY <1>2 DEF Filed
  <2>2. QED
    BY <1>1, <2>1, DoneKept
<1>3. CASE Verdict \in {"TWSCON", "TIMEOUT", "REQUEST"}
  <2>1. \E p \in {0, 1, 2} : Filed(Verdict) = CancelForRepeat(hist, p)
    BY <1>3 DEF Filed
  <2>2. QED
    BY <1>1, <1>3, <2>1, CancelKept
<1>4. QED
  BY <1>2, <1>3, VerdictType DEF Errors

(* The list of jobs, and when one is checked out.                          *)
LEMMA HistStep ==
  ASSUME Base, [Next]_vars
  PROVE  /\ Kept(hist')
         /\ FinHist /\ ~ Failed => hist'.checkedOut = NoJob
         /\ SomeReqHist /\ ~ Failed => hist'.checkedOut # NoJob
         /\ (~ FinHist /\ ~ SomeReqHist) \/ Failed => hist'.checkedOut = hist.checkedOut
<1>1. Kept(hist)
  BY DEF Base
<1>2. CASE UNCHANGED hist /\ ~ FinHist /\ ~ SomeReqHist
  BY <1>1, <1>2
<1>3. CASE Failed
  BY <1>1, <1>3 DEF Failed, todo
<1>4. CASE FinHist /\ ~ Failed
  <2>1. hist.checkedOut # NoJob /\ hist' = Filed(Verdict)
    BY <1>4 DEF FinHist, Finishing, WaitData, Abort, Failed, Assertions, conn, req, todo, tws
  <2>2. pc = "loop" /\ ~ SomeReqHist
    BY <1>4 DEF FinHist, Finishing, WaitData, SomeReqHist, ReqHist, Dispatch
  <2>3. QED
    BY <1>4, <2>1, <2>2, FiledKept
<1>5. CASE SomeReqHist /\ ~ Failed
  <2>1. pc = "dispatch" /\ hist.checkedOut = NoJob
    BY <1>5, Sent
  <2>2. ~ FinHist
    BY <2>1 DEF FinHist, Finishing, WaitData
  <2>3. PICK i \in DOMAIN hist.left : hist' = Checkout(hist, hist.left[i])
    BY <1>5, <2>1, Zenon DEF SomeReqHist, ReqHist
  <2>4. hist.left[i] \in Elems(hist.left)
    BY DEF Elems
  <2>5. QED
    BY <1>1, <1>5, <2>1, <2>2, <2>3, <2>4, CheckoutKept
<1>6. CASE SomeTwsError
  <2>1. pc = "select" /\ ~ FinHist /\ ~ SomeReqHist
    BY <1>6 DEF SomeTwsError, TwsError, Callback, FinHist, Finishing, WaitData,
               SomeReqHist, ReqHist, Dispatch
  <2>2. hist' = hist \/ hist' = SkipByNodata(hist) \/ hist' = SkipByPerm(hist)
    BY <1>6 DEF SomeTwsError, TwsError
  <2>3. Kept(hist') /\ hist'.checkedOut = hist.checkedOut
    BY <1>1, <2>2, SkipKept DEF SkipByNodata, SkipByPerm
  <2>4. QED
    BY <2>1, <2>3
<1>7. QED
  BY <1>2, <1>3, <1>4, <1>5, <1>6, Frames DEF FramesHold

(* The current request.                                                    *)
LEMMA ReqTypesStep ==
  ASSUME Base, [Next]_vars
  PROVE  ReqTypes'
<1>1. ReqTypes
  BY DEF Base, TypeOK
<1>2. CASE UNCHANGED req
  BY <1>1, <1>2 DEF ReqTypes, req
<1>3. CASE ReqTimerExpires
  BY <1>1, <1>3 DEF ReqTypes, ReqTimerExpires
<1>4. CASE Failed
  BY <1>1, <1>4 DEF ReqTypes, Failed, req
<1>5. CASE (ConnectTimeout \/ ConnectionLost) /\ ~ Failed
  <2>1. UNCHANGED <<reqType, reqId, reqTimer>> /\ packet' = InterruptPacket
    BY <1>5 DEF ConnectTimeout, ConnectionLost, WaitTwsCon, ConnectionClosed, Abort,
               Failed, Assertions, conn, req, todo, tws
  <2>2. InterruptPacket \in Packets
    BY <1>1, CloseErrorFacts DEF ReqTypes, InterruptPacket, Errors
  <2>3. QED
    BY <1>1, <2>1, <2>2 DEF ReqTypes
<1>6. CASE (FinIndexed \/ FinHist \/ FinSimple) /\ ~ Failed
  <2>1. CloseRequest
    BY <1>6 DEF FinIndexed, FinHist, FinSimple, Finishing, WaitData, Abort,
               Failed, Assertions, conn, req, todo, tws
  <2>2. QED
    BY <1>1, <2>1 DEF ReqTypes, CloseRequest, Packets
<1>7. CASE (SomeReqSimple \/ SomeReqIndexed \/ SomeReqHist) /\ ~ Failed
  <2>1. PICK t \in RequestTypes : SendRequest(t)
    BY <1>7, Sent
  <2>2. QED
    BY <1>1, <2>1 DEF ReqTypes, SendRequest, Packets
<1>8. CASE (SomeEnd \/ SomeTwsError \/ ConnectivityRestored) /\ ~ Failed
  <2>1. UNCHANGED <<reqType, reqId, reqTimer>>
    BY <1>8 DEF SomeEnd, End, Callback, SomeTwsError, TwsError, ConnectivityRestored,
               Abort, Failed, Assertions, AppendAssertion, conn, req, todo, tws
  <2>2. packet' \in Packets
    <3>1. CASE SomeEnd
      <4>1. packet' = packet \/ packet' = [packet EXCEPT !.mode = "CLOSED"]
        BY <1>8, <3>1 DEF SomeEnd, End, Abort, req
      <4>2. QED
        BY <1>1, <4>1 DEF ReqTypes, Packets, NoPacket, Recording, Closed, Errors
    <3>2. CASE SomeTwsError \/ ConnectivityRestored
      <4>1. packet' = packet \/ \E e \in Errors : packet' = CloseError(packet, e)
        BY <3>2, ErrorsOfMessages DEF SomeTwsError, TwsError, ConnectivityRestored, Errors
      <4>2. QED
        BY <1>1, <4>1, CloseErrorFacts DEF ReqTypes
    <3>3. QED
      BY <1>8, <3>1, <3>2
  <2>3. QED
    BY <1>1, <2>1, <2>2 DEF ReqTypes
<1>9. QED
  BY <1>2, <1>3, <1>4, <1>5, <1>6, <1>7, <1>8, Frames DEF FramesHold

(* Only what is sent or closed changes the type of the current request.    *)
LEMMA ReqTypeChanges ==
  ASSUME Base, [Next]_vars
  PROVE  \/ UNCHANGED <<reqType, reqId>>
         \/ (FinIndexed \/ FinHist \/ FinSimple) /\ ~ Failed /\ CloseRequest
         \/ (SomeReqSimple \/ SomeReqIndexed \/ SomeReqHist) /\ ~ Failed
<1>1. CASE UNCHANGED req \/ Failed
  BY <1>1 DEF req, Failed
<1>2. CASE (FinIndexed \/ FinHist \/ FinSimple) /\ ~ Failed
  BY <1>2 DEF FinIndexed, FinHist, FinSimple, Finishing, WaitData, Abort,
              Failed, Assertions, conn, req, todo, tws
<1>3. CASE ReqTimerExpires \/ SomeEnd \/ SomeTwsError \/ ConnectivityRestored
  BY <1>3 DEF ReqTimerExpires, SomeEnd, End, SomeTwsError, TwsError,
              ConnectivityRestored, Abort, req
<1>4. CASE ConnectTimeout \/ ConnectionLost
  BY <1>4 DEF ConnectTimeout, ConnectionLost, ConnectionClosed, Abort, req
<1>5. QED
  BY <1>1, <1>2, <1>3, <1>4, Frames DEF FramesHold

(* The two lists with an index, and the flags.                             *)
IndexTypes ==
  /\ curIndex \in [IndexedTypes -> Int]
  /\ \A t \in IndexedTypes : curIndex[t] \in -1 .. Count[t] - 1

LEMMA IndexStep ==
  ASSUME Base, [Next]_vars
  PROVE  simple' \subseteq SimpleTypes /\ IndexTypes' /\ Indexed'
<1>1. simple \subseteq SimpleTypes /\ IndexTypes /\ Indexed
  BY DEF Base, TypeOK, TodoTypes, IndexTypes
<1>2. CASE FinIndexed /\ ~ Failed
  <2>1. /\ reqType \in IndexedTypes /\ reqType' = "NONE" /\ UNCHANGED simple
        /\ \/ UNCHANGED curIndex
           \/ /\ curIndex[reqType] > 0
              /\ curIndex' = [curIndex EXCEPT ![reqType] = @ - 1]
    BY <1>2 DEF FinIndexed, Finishing, WaitData, CloseRequest, Abort, MayRepeat, Repeat,
                Failed, Assertions, conn, req, todo, tws
  <2>2. QED
    BY <1>1, <2>1, CountAssumption DEF IndexTypes, Indexed, IndexedTypes
<1>3. CASE SomeReqSimple
  <2>1. UNCHANGED curIndex /\ simple' \subseteq simple
        /\ \E t \in SimpleTypes : reqType' = t
    BY <1>3 DEF SomeReqSimple, ReqSimple, SendRequest
  <2>2. QED
    BY <1>1, <2>1, Kinds DEF IndexTypes, Indexed
<1>4. CASE SomeReqIndexed
  <2>1. PICK t \in IndexedTypes : ReqIndexed(t)
    BY <1>4, Zenon DEF SomeReqIndexed
  <2>2. t \notin simple /\ t # "HIST"
    BY <1>1, Kinds
  <2>3. CountLeftOf(t) > 0
    BY <2>1, <2>2 DEF ReqIndexed, Dispatch, HasWork
  <2>4. reqType' = t /\ UNCHANGED simple /\ curIndex' = [curIndex EXCEPT ![t] = @ + 1]
    BY <2>1 DEF ReqIndexed, SendRequest
  <2>5. curIndex[t] \in Int /\ Count[t] \in Int /\ curIndex[t] + 1 \in 0 .. Count[t] - 1
    BY <1>1, <2>3, CountAssumption DEF IndexTypes, CountLeftOf, CountLeft
  <2>6. QED
    BY <1>1, <2>4, <2>5 DEF IndexTypes, Indexed
<1>5. CASE UNCHANGED <<simple, curIndex>> \/ Failed
  <2>1. UNCHANGED <<simple, curIndex>> /\ IndexTypes'
    BY <1>1, <1>5 DEF Failed, todo, IndexTypes
  <2>2. CASE UNCHANGED reqType
    BY <1>1, <2>1, <2>2 DEF Indexed
  <2>3. CASE CloseRequest
    BY <1>1, <2>1, <2>3, Kinds DEF Indexed, CloseRequest
  <2>4. CASE (SomeReqSimple \/ SomeReqIndexed \/ SomeReqHist) /\ ~ Failed
    <3>1. CASE SomeReqHist
      <4>1. reqType' = "HIST"
        BY <2>4, <3>1, Sent DEF SendRequest
      <4>2. QED
        BY <1>1, <2>1, <4>1, Kinds DEF Indexed
    <3>2. QED
      BY <1>3, <1>4, <2>4, <3>1
  <2>5. QED
    BY <2>2, <2>3, <2>4, ReqTypeChanges
<1>6. QED
  BY <1>2, <1>3, <1>4, <1>5, Frames DEF FramesHold

(* What the TWS still has to send.                                         *)
LEMMA TwsTypesStep ==
  ASSUME Base, [Next]_vars
  PROVE  TwsTypes'
<1>1. TwsTypes /\ reqId \in Nat
  BY DEF Base, TypeOK, ReqTypes
<1>2. CASE UNCHANGED tws \/ Failed
  BY <1>1, <1>2 DEF TwsTypes, tws, Failed
<1>3. CASE StillConnecting
  BY <1>1, <1>3 DEF TwsTypes, StillConnecting
<1>4. CASE ConnectTws /\ ~ Failed
  BY <1>1, <1>4 DEF TwsTypes, ConnectTws, Abort, Failed, tws, Goto
<1>5. CASE ConnectTimeout \/ ConnectionLost
  BY <1>1, <1>5 DEF TwsTypes, ConnectTimeout, ConnectionLost, ConnectionClosed,
                    CloseLink, LinkDown, Abort, tws
<1>6. CASE (SomeReqSimple \/ SomeReqIndexed \/ SomeReqHist) /\ ~ Failed
  <2>1. PICK t \in RequestTypes : SendRequest(t)
    BY <1>6, Sent
  <2>2. pending' = pending \cup {[type |-> t, id |-> reqId + 1]} /\ UNCHANGED <<hello, clock>>
    BY <2>1 DEF SendRequest
  <2>3. [type |-> t, id |-> reqId + 1] \in PendingType
    BY <1>1 DEF PendingType
  <2>4. QED
    BY <1>1, <2>2, <2>3 DEF TwsTypes
<1>7. CASE NextValidId
  BY <1>1, <1>7 DEF TwsTypes, NextValidId
<1>8. CASE CurrentTime
  BY <1>1, <1>8 DEF TwsTypes, CurrentTime
<1>9. CASE SomeEnd \/ SomeTwsError
  BY <1>1, <1>9 DEF TwsTypes, SomeEnd, End, SomeTwsError, TwsError, Answered, Abort, tws
<1>10. QED
  BY <1>2, <1>3, <1>4, <1>5, <1>6, <1>7, <1>8, <1>9, Frames DEF FramesHold

(* What is written out.                                                    *)
LEMMA OutputStep ==
  ASSUME Base, [Next]_vars
  PROVE  output' \in Seq(RequestTypes \X Nat)
<1>1. output \in Seq(RequestTypes \X Nat)
  BY DEF Base, TypeOK
<1>2. CASE UNCHANGED output \/ Failed
  BY <1>1, <1>2 DEF Failed
<1>3. CASE FinIndexed /\ ~ Failed
  <2>1. UNCHANGED output \/ output' = Append(output, <<reqType, curIndex[reqType]>>)
    BY <1>3 DEF FinIndexed, Dump, Abort
  <2>2. reqType \in IndexedTypes
    BY <1>3 DEF FinIndexed, Finishing
  <2>3. curIndex[reqType] \in Int /\ curIndex[reqType] >= 0
    BY <2>2 DEF Base, Indexed, TypeOK, TodoTypes
  <2>4. <<reqType, curIndex[reqType]>> \in RequestTypes \X Nat
    BY <2>2, <2>3, Kinds
  <2>5. Append(output, <<reqType, curIndex[reqType]>>) \in Seq(RequestTypes \X Nat)
    BY <1>1, <2>4, AppendElems, Zenon
  <2>6. QED
    BY <1>1, <2>1, <2>5, Zenon
<1>4. CASE FinHist /\ ~ Failed
  <2>1. /\ reqType = "HIST"
        /\ UNCHANGED output \/ output' = Append(output, <<reqType, hist.checkedOut>>)
    BY <1>4 DEF FinHist, Finishing, Dump, Abort
  <2>2. hist.checkedOut \in Nat
    BY <2>1 DEF Base, Agreement, Kept, HistTodoType, HistJobs
  <2>3. <<reqType, hist.checkedOut>> \in RequestTypes \X Nat
    BY <2>1, <2>2, Kinds
  <2>4. Append(output, <<reqType, hist.checkedOut>>) \in Seq(RequestTypes \X Nat)
    BY <1>1, <2>3, AppendElems, Zenon
  <2>5. QED
    BY <1>1, <2>1, <2>4, Zenon
<1>5. CASE FinSimple
  <2>1. reqType \in RequestTypes /\ output' = Append(output, <<reqType, 0>>)
    BY <1>5, Kinds DEF FinSimple, Finishing, Dump
  <2>2. <<reqType, 0>> \in RequestTypes \X Nat
    BY <2>1
  <2>3. QED
    BY <1>1, <2>1, <2>2, AppendElems, Zenon
<1>6. QED
  BY <1>2, <1>3, <1>4, <1>5, Frames DEF FramesHold

LEMMA FaultsStep ==
  ASSUME faults \in 0..MaxFaults, UNCHANGED faults \/ Fault
  PROVE  faults' \in 0..MaxFaults
  BY MaxFaultsAssumption DEF Fault

-----------------------------------------------------------------------------

(* The four parts of the agreement.                                        *)
PacketAgrees == packet = NoPacket <=> reqType = "NONE"
JobAgrees    == hist.checkedOut # NoJob <=> reqType = "HIST"
StateAgrees  == state = "WAIT_TWS_CON" => reqType = "NONE"
PcAgrees     == pc = "dispatch" => reqType = "NONE" /\ state = "IDLE"

LEMMA PacketStep ==
  ASSUME Base, [Next]_vars
  PROVE  PacketAgrees'
<1>1. PacketAgrees /\ packet \in Packets /\ reqType \in RequestTypes \cup {"NONE"}
  BY DEF Base, Agreement, PacketAgrees, TypeOK, ReqTypes
<1>2. CASE UNCHANGED req \/ Failed
  BY <1>1, <1>2 DEF PacketAgrees, req, Failed
<1>3. CASE ReqTimerExpires
  BY <1>1, <1>3 DEF PacketAgrees, ReqTimerExpires
<1>4. CASE (FinIndexed \/ FinHist \/ FinSimple) /\ ~ Failed
  <2>1. CloseRequest
    BY <1>4 DEF FinIndexed, FinHist, FinSimple, Finishing, WaitData, Abort,
                Failed, Assertions, conn, req, todo, tws
  <2>2. QED
    BY <2>1 DEF CloseRequest, PacketAgrees
<1>5. CASE (SomeReqSimple \/ SomeReqIndexed \/ SomeReqHist) /\ ~ Failed
  <2>1. PICK t \in RequestTypes : SendRequest(t)
    BY <1>5, Sent
  <2>2. packet' = Recording /\ reqType' = t
    BY <2>1 DEF SendRequest
  <2>3. QED
    BY <2>2, Kinds DEF PacketAgrees, NoPacket, Recording
<1>6. CASE (ConnectTimeout \/ ConnectionLost) /\ ~ Failed
  <2>1. packet' = InterruptPacket /\ UNCHANGED reqType
    BY <1>6 DEF ConnectTimeout, ConnectionLost, WaitTwsCon, ConnectionClosed, Abort,
                Failed, Assertions, conn, req, todo, tws
  <2>2. QED
    BY <1>1, <2>1, CloseErrorFacts DEF PacketAgrees, InterruptPacket, Errors
<1>7. CASE SomeEnd
  <2>1. UNCHANGED reqType
    BY <1>7 DEF SomeEnd, End, Abort, req
  <2>2. \/ UNCHANGED packet
        \/ /\ reqType # "NONE" /\ packet' = [packet EXCEPT !.mode = "CLOSED"]
    BY <1>7, Kinds DEF SomeEnd, End, Abort, req, IsCurrent, Base, TypeOK, TwsTypes, PendingType
  <2>3. QED
    BY <1>1, <2>1, <2>2, CloseFacts DEF PacketAgrees
<1>8. CASE SomeTwsError \/ ConnectivityRestored
  <2>1. UNCHANGED reqType
    BY <1>8 DEF SomeTwsError, TwsError, ConnectivityRestored
  <2>2. packet' = packet \/ \E e \in Errors : packet' = CloseError(packet, e)
    BY <1>8, ErrorsOfMessages DEF SomeTwsError, TwsError, ConnectivityRestored, Errors
  <2>3. QED
    BY <1>1, <2>1, <2>2, CloseErrorFacts DEF PacketAgrees
<1>9. QED
  BY <1>2, <1>3, <1>4, <1>5, <1>6, <1>7, <1>8, Frames DEF FramesHold

LEMMA JobStep ==
  ASSUME Base, [Next]_vars
  PROVE  JobAgrees'
<1>1. JobAgrees
  BY DEF Base, Agreement, JobAgrees
<1>2. CASE UNCHANGED reqType /\ hist'.checkedOut = hist.checkedOut
  BY <1>1, <1>2 DEF JobAgrees
<1>3. CASE (FinIndexed \/ FinHist \/ FinSimple) /\ ~ Failed
  <2>1. reqType' = "NONE" /\ (reqType \in SimpleTypes \cup IndexedTypes \/ FinHist) /\ pc = "loop"
    BY <1>3, ReqTypeChanges DEF CloseRequest, FinIndexed, FinHist, FinSimple, Finishing,
         WaitData, Abort, Failed, Assertions, conn, req, todo, tws
  <2>2. ~ SomeReqHist
    BY <2>1 DEF SomeReqHist, ReqHist, Dispatch
  <2>3. hist'.checkedOut = NoJob
    BY <1>1, <1>3, <2>1, <2>2, HistStep, Kinds DEF JobAgrees
  <2>4. QED
    BY <2>1, <2>3 DEF JobAgrees
<1>4. CASE (SomeReqSimple \/ SomeReqIndexed) /\ ~ Failed
  <2>1. pc = "dispatch" /\ \E t \in SimpleTypes \cup IndexedTypes : SendRequest(t)
    BY <1>4, Sent
  <2>2. reqType' \in SimpleTypes \cup IndexedTypes /\ reqType = "NONE"
    BY <2>1 DEF SendRequest, Base, Agreement
  <2>3. UNCHANGED hist
    BY <1>4 DEF SomeReqSimple, SomeReqIndexed, ReqSimple, ReqIndexed
  <2>4. QED
    BY <1>1, <2>2, <2>3, Kinds DEF JobAgrees
<1>5. CASE SomeReqHist /\ ~ Failed
  <2>1. reqType' = "HIST"
    BY <1>5, Sent DEF SendRequest
  <2>2. QED
    BY <1>5, <2>1, HistStep DEF JobAgrees
<1>6. CASE UNCHANGED reqType /\ (FinHist \/ SomeReqHist) /\ ~ Failed
  BY <1>3, <1>5, <1>6
<1>7. QED
  BY <1>2, <1>3, <1>4, <1>5, <1>6, ReqTypeChanges, HistStep

LEMMA PlaceStep ==
  ASSUME Base, [Next]_vars
  PROVE  StateAgrees' /\ PcAgrees'
<1>1. StateAgrees /\ PcAgrees
  BY DEF Base, Agreement, StateAgrees, PcAgrees
<1> USE DEF StateAgrees, PcAgrees
<1>2. CASE Failed
  BY <1>1, <1>2 DEF Failed, conn, req
<1>3. CASE (FinIndexed \/ FinHist \/ FinSimple) /\ ~ Failed
  <2>1. CloseRequest /\ state = "IDLE"
    BY <1>3 DEF FinIndexed, FinHist, FinSimple, Finishing, WaitData, Abort,
                Failed, Assertions, conn, req, todo, tws
  <2>2. QED
    BY <2>1 DEF CloseRequest, conn
<1>4. CASE (SomeReqSimple \/ SomeReqIndexed \/ SomeReqHist) /\ ~ Failed
  <2>1. pc = "dispatch" /\ \E t \in RequestTypes : SendRequest(t)
    BY <1>4, Sent
  <2>2. state' = state /\ state = "IDLE" /\ pc' = "select"
    BY <1>1, <2>1 DEF SendRequest, conn, Goto
  <2>3. QED
    BY <2>2
<1>5. CASE /\ UNCHANGED reqType /\ ~ Failed
           /\ ~ (FinIndexed \/ FinHist \/ FinSimple)
           /\ ~ (SomeReqSimple \/ SomeReqIndexed \/ SomeReqHist)
  <2>1. CASE UNCHANGED state /\ pc' # "dispatch"
    BY <1>1, <1>5, <2>1
  <2>2. CASE NothingToWaitFor
    BY <1>1, <1>5, <2>2 DEF NothingToWaitFor, WaitData, Goto, conn, Base, Agreement
  <2>3. CASE ConnectTws
    BY <1>1, <1>5, <2>3 DEF ConnectTws, Goto, Abort, conn
  <2>4. CASE UNCHANGED state /\ UNCHANGED pc
    BY <1>1, <1>5, <2>4
  <2>5. CASE ConnectFailed \/ ConnectFinished
    BY <1>1, <1>5, <2>5 DEF ConnectFailed, ConnectFinished, Goto
  <2>6. UNCHANGED state \/ ConnectFailed \/ ConnectFinished \/ ConnectTws
    <3>1. CASE UNCHANGED conn
      BY <3>1 DEF conn
    <3>2. CASE ConTimerExpires \/ NextValidId \/ CurrentTime
               \/ ConnectivityLost \/ ConnectivityRestored
      BY <3>2 DEF ConTimerExpires, NextValidId, CurrentTime, ConnectivityLost,
                  ConnectivityRestored
    <3>3. CASE ConnectTimeout \/ ConnectionLost
      BY <1>5, <3>3 DEF ConnectTimeout, ConnectionLost, ConnectionClosed, CloseLink,
                  LinkDown, Abort, conn
    <3>4. QED
      BY <3>1, <3>2, <3>3, Frames DEF FramesHold
  <2>7. pc' = pc \/ pc' # "dispatch" \/ NothingToWaitFor
    BY <1>5, StepCases DEF vars, Wake, ConTimerExpires, ReqTimerExpires, ConnectFailed,
       ConnectFinished, StillConnecting, ConnectTimeout, ConnectionLost, ConnectionClosed,
       StillWaiting, ConnectTws, Paced, NoMoreWork, NextValidId, CurrentTime, SomeRow,
       Row, SomeEnd, End, SomeAssert, TwsErrorAsserts, SomeTwsError, TwsError,
       ConnectivityLost, ConnectivityRestored, Goto, Abort, thread
  <2>8. QED
    BY <2>1, <2>2, <2>3, <2>4, <2>5, <2>6, <2>7
<1>6. QED
  BY <1>2, <1>3, <1>4, <1>5, ReqTypeChanges

LEMMA BaseInit == Init => Base
<1>1. SUFFICES ASSUME Init PROVE Base
  OBVIOUS
<1>2. ThreadTypes /\ ConnTypes /\ ReqTypes /\ Thread
  BY <1>1 DEF Init, ThreadTypes, ConnTypes, ReqTypes, Thread, Assertions, Packets
<1>3. Kept(hist) /\ hist.checkedOut = NoJob
  BY <1>1, NewKept DEF Init, NewHistTodo
<1>4. TodoTypes /\ Indexed
  <2>1. simple \subseteq SimpleTypes
    BY <1>1, SimpleWorkAssumption DEF Init
  <2>2. curIndex = [t \in IndexedTypes |-> -1] /\ reqType = "NONE"
    BY <1>1 DEF Init
  <2>3. Indexed
    BY <2>2 DEF Indexed, IndexedTypes
  <2>4. QED
    BY <1>3, <2>1, <2>2, <2>3, CountAssumption DEF TodoTypes, Kept
<1>5. TwsTypes /\ output \in Seq(RequestTypes \X Nat) /\ faults \in 0..MaxFaults
  <2>1. \A T : << >> \in Seq(T)
    OBVIOUS
  <2>2. output \in Seq(RequestTypes \X Nat)
    BY <1>1, <2>1, Zenon DEF Init
  <2>3. TwsTypes
    BY <1>1 DEF Init, TwsTypes
  <2>4. QED
    BY <1>1, <2>2, <2>3, MaxFaultsAssumption DEF Init
<1>6. Agreement
  BY <1>1, <1>3 DEF Init, Agreement
<1>7. QED
  BY <1>2, <1>3, <1>4, <1>5, <1>6 DEF Base, TypeOK

LEMMA BaseStep ==
  ASSUME Base, [Next]_vars
  PROVE  Base'
<1>1. ThreadTypes' /\ ConnTypes' /\ ReqTypes' /\ TwsTypes' /\ Thread'
  BY ThreadStep, ConnTypesStep, ReqTypesStep, TwsTypesStep
<1>2. TodoTypes' /\ Indexed' /\ Kept(hist)'
  BY IndexStep, HistStep DEF TodoTypes, IndexTypes, Kept
<1>3. (output \in Seq(RequestTypes \X Nat))' /\ (faults \in 0..MaxFaults)'
  BY OutputStep, FaultsStep, Frames DEF FramesHold, Base, TypeOK
<1>4. Agreement'
  BY PacketStep, JobStep, PlaceStep DEF Agreement, PacketAgrees, JobAgrees, StateAgrees, PcAgrees
<1>5. QED
  BY <1>1, <1>2, <1>3, <1>4 DEF Base, TypeOK

(* The types, the agreement of lists and states, and the facts about the   *)
(* thread that every other proof about TwsDL starts from hold always.       *)
THEOREM BaseHolds == Spec => []Base
<1>1. Base /\ [Next]_vars => Base'
  BY BaseStep
<1>2. QED
  BY BaseInit, <1>1, PTL DEF Spec

(* Every variable has its type, whatever the TWS sends.                    *)
THEOREM TypesHold == Spec => []TypeOK
<1>1. Base => TypeOK
  BY DEF Base
<1>2. QED
  BY <1>1, BaseHolds, PTL

(* The request, its packet and the job checked out always agree.           *)
THEOREM AgreementHolds == Spec => []Agreement
<1>1. Base => Agreement
  BY DEF Base
<1>2. QED
  BY <1>1, BaseHolds, PTL

(* No sequence of retries, skips and lost connections loses a job of the   *)
(* work file or has it in two lists.                                       *)
THEOREM ConservationHolds == Spec => []Conservation
<1>1. Base => Conservation
  BY DEF Base, Kept, Conservation
<1>2. QED
  BY <1>1, BaseHolds, PTL

(***************************************************************************)
(* Requests, their answers and the connection they need: that no answer is *)
(* taken for another, that the first verdict stands, and that of the       *)
(* assertions on the way only four can fail.  And what becomes of the      *)
(* requests of a work file: that the program quits only when all are worked*)
(* off, that no answer is written twice, and that the lists keep the       *)
(* promise of JobLedger.                                                   *)
(***************************************************************************)

Sending == \E t \in RequestTypes : SendRequest(t) /\ reqType' = t

(* What the TWS has to answer only shrinks, until something is sent, which *)
(* takes a connection and a thread without a request.                      *)
LEMMA PendingSteps ==
  ASSUME Base, [Next]_vars
  PROVE  \/ /\ pending' \subseteq pending /\ reqId' = reqId
            /\ reqType' \in {reqType, "NONE"}
         \/ /\ Sending /\ pc = "dispatch" /\ connected
            /\ reqType = "NONE" /\ packet = NoPacket /\ state = "IDLE"
<1>1. CASE (SomeReqSimple \/ SomeReqIndexed \/ SomeReqHist) /\ ~ Failed
  <2>1. pc = "dispatch" /\ connected /\ \E t \in RequestTypes : SendRequest(t)
    BY <1>1, Sent
  <2>2. reqType = "NONE" /\ packet = NoPacket /\ state = "IDLE"
    BY <2>1 DEF Base, Agreement
  <2>3. QED
    BY <2>1, <2>2 DEF Sending, SendRequest
<1>2. CASE ~ ((SomeReqSimple \/ SomeReqIndexed \/ SomeReqHist) /\ ~ Failed)
  <2>1. pending' \subseteq pending
    <3>1. CASE UNCHANGED tws \/ Failed
      BY <3>1 DEF tws, Failed
    <3>2. CASE StillConnecting \/ NextValidId \/ CurrentTime
      BY <3>2 DEF StillConnecting, NextValidId, CurrentTime
    <3>3. CASE ConnectTws /\ ~ Failed
      BY <3>3 DEF ConnectTws, Abort, tws
    <3>4. CASE ConnectTimeout \/ ConnectionLost
      BY <3>4 DEF ConnectTimeout, ConnectionLost, ConnectionClosed, CloseLink, LinkDown, Abort, tws
    <3>5. CASE SomeEnd \/ SomeTwsError
      BY <3>5 DEF SomeEnd, End, SomeTwsError, TwsError, Answered, Abort, tws
    <3>6. QED
      BY <1>2, <3>1, <3>2, <3>3, <3>4, <3>5, Frames DEF FramesHold
  <2>2. reqId' = reqId /\ reqType' \in {reqType, "NONE"}
    BY <1>2, ReqTypeChanges DEF CloseRequest
  <2>3. QED
    BY <2>1, <2>2
<1>3. QED
  BY <1>1, <1>2

LEMMA AnswersStep ==
  ASSUME Base, AnswersMatch, [Next]_vars
  PROVE  AnswersMatch'
<1>1. CASE pending' \subseteq pending /\ reqId' = reqId /\ reqType' \in {reqType, "NONE"}
  BY <1>1 DEF AnswersMatch
<1>2. CASE Sending /\ reqType = "NONE"
  <2>1. PICK t \in RequestTypes :
          /\ reqType' = t /\ reqId' = reqId + 1
          /\ pending' = pending \cup {[type |-> t, id |-> reqId + 1]}
    BY <1>2 DEF Sending, SendRequest
  <2>2. reqId \in Nat /\ \A r \in pending : r.id \in Nat /\ r.id <= reqId
    BY DEF Base, TypeOK, ReqTypes, TwsTypes, PendingType, AnswersMatch
  <2>3. \A r \in pending' : \/ r \in pending /\ r.id # reqId'
                            \/ r = [type |-> t, id |-> reqId'] /\ r.id = reqId' /\ r.type = t
    BY <2>1, <2>2
  <2>4. \A r \in pending' : r.id <= reqId'
    BY <2>1, <2>2
  <2>5. QED
    BY <2>1, <2>3, <2>4 DEF AnswersMatch
<1>3. QED
  BY <1>1, <1>2, PendingSteps

(* No late answer is taken for one to the current request, for any number  *)
(* of requests, timeouts and repetitions.                                  *)
THEOREM AnswersMatchHolds == Spec => []AnswersMatch
<1>1. Init => AnswersMatch
  BY DEF Init, AnswersMatch
<1>2. Base /\ AnswersMatch /\ [Next]_vars => AnswersMatch'
  BY AnswersStep
<1>3. QED
  BY <1>1, <1>2, BaseHolds, PTL DEF Spec

(* A packet that is finished stays as it is until it is filed: no message, *)
(* timeout or loss of the connection replaces the first verdict.           *)
THEOREM FirstVerdictHolds == Spec => FirstVerdictStands
<1>1. ASSUME Base, [Next]_vars, Finished(packet)
      PROVE  packet' \in {packet, NoPacket}
  <2>1. packet \in Packets /\ packet # NoPacket
    BY <1>1 DEF Base, TypeOK, ReqTypes, Finished, NoPacket
  <2>2. CASE UNCHANGED req \/ Failed \/ ReqTimerExpires
    BY <2>2 DEF req, Failed, ReqTimerExpires
  <2>3. CASE (FinIndexed \/ FinHist \/ FinSimple) /\ ~ Failed
    BY <2>3 DEF FinIndexed, FinHist, FinSimple, Finishing, WaitData, CloseRequest, Abort,
                Failed, Assertions, conn, req, todo, tws
  <2>4. CASE (SomeReqSimple \/ SomeReqIndexed \/ SomeReqHist) /\ ~ Failed
    <3>1. packet = NoPacket
      BY <1>1, <2>4, Sent DEF Base, Agreement
    <3>2. QED
      BY <2>1, <3>1
  <2>5. CASE ConnectTimeout \/ ConnectionLost
    <3>1. packet' = packet \/ packet' = InterruptPacket
      BY <2>5 DEF ConnectTimeout, ConnectionLost, ConnectionClosed, Abort, req
    <3>2. QED
      BY <1>1, <2>1, <3>1, CloseErrorFacts DEF InterruptPacket, Errors
  <2>6. CASE SomeEnd
    <3>1. packet' = packet \/ packet' = [packet EXCEPT !.mode = "CLOSED"]
      BY <2>6 DEF SomeEnd, End, Abort, req
    <3>2. QED
      BY <1>1, <2>1, <3>1, CloseFacts
  <2>7. CASE SomeTwsError \/ ConnectivityRestored
    <3>1. packet' = packet \/ \E e \in Errors : packet' = CloseError(packet, e)
      BY <2>7, ErrorsOfMessages DEF SomeTwsError, TwsError, ConnectivityRestored, Errors
    <3>2. QED
      BY <1>1, <2>1, <3>1, CloseErrorFacts
  <2>8. QED
    BY <1>1, <2>2, <2>3, <2>4, <2>5, <2>6, <2>7, Frames DEF FramesHold
<1>2. Base /\ [Next]_vars => [Finished(packet) => packet' \in {packet, NoPacket}]_packet
  BY <1>1
<1>3. QED
  BY <1>2, BaseHolds, PTL DEF Spec, FirstVerdictStands

(***************************************************************************)
(* The connection.                                                         *)
(***************************************************************************)

(* The flags of an earlier connection do not outlive it: the time is       *)
(* forgotten before the next one, where the TWS has yet to be asked.       *)
Link ==
  /\ ~connected => ~connectivity
  /\ connected /\ twsTime => clock = "answered"
  /\ connected /\ state = "IDLE" => HandshakeDone

LEMMA LinkStep ==
  ASSUME Base, Link, [Next]_vars
  PROVE  Link'
<1> USE DEF Link, HandshakeDone
<1>1. CASE (UNCHANGED conn /\ UNCHANGED tws) \/ Failed
  BY <1>1 DEF conn, tws, Failed
<1>2. CASE ConTimerExpires
  BY <1>2 DEF ConTimerExpires, tws
<1>3. CASE ConnectFailed
  BY <1>3 DEF ConnectFailed, WaitTwsCon, tws
<1>4. CASE ConnectFinished
  BY <1>4 DEF ConnectFinished, WaitTwsCon, tws
<1>5. CASE StillConnecting
  BY <1>5 DEF StillConnecting, WaitTwsCon, conn
<1>6. CASE (ConnectTimeout \/ ConnectionLost) /\ ~ Failed
  <2>1. CloseLink
    BY <1>6 DEF ConnectTimeout, ConnectionLost, WaitTwsCon, ConnectionClosed, Abort,
                Failed, Assertions, conn, req, todo, tws
  <2>2. QED
    BY <2>1 DEF CloseLink, LinkDown
<1>7. CASE ConnectTws /\ ~ Failed
  <2>1. CASE Abort("connectTws: !connectivity_IB_TWS")
    BY <1>7, <2>1 DEF ConnectTws, Abort, Failed, Assertions
  <2>2. CASE UNCHANGED conn /\ UNCHANGED tws
    BY <1>1, <2>2
  <2>3. CASE /\ ~connected /\ twsTime' = FALSE
             /\ \/ state' = "WAIT_TWS_CON" /\ connected' = TRUE
                \/ UNCHANGED <<connected, connectivity>>
    BY <2>3
  <2>4. QED
    BY <1>7, <2>1, <2>2, <2>3 DEF ConnectTws, ResetHeartBeat
<1>8. CASE NextValidId
  BY <1>8 DEF NextValidId
<1>9. CASE CurrentTime
  BY <1>9 DEF CurrentTime
<1>10. CASE ConnectivityLost \/ ConnectivityRestored
  BY <1>10 DEF ConnectivityLost, ConnectivityRestored, Callback, tws
<1>11. CASE (SomeReqSimple \/ SomeReqIndexed \/ SomeReqHist) /\ ~ Failed
  <2>1. PICK t \in RequestTypes : SendRequest(t)
    BY <1>11, Sent
  <2>2. QED
    BY <2>1 DEF SendRequest, conn
<1>12. CASE SomeEnd \/ SomeTwsError
  <2>1. UNCHANGED conn /\ UNCHANGED clock
    BY <1>12 DEF SomeEnd, End, SomeTwsError, TwsError, Answered, Abort, tws
  <2>2. QED
    BY <2>1 DEF conn
<1>13. QED
  BY <1>1, <1>2, <1>3, <1>4, <1>5, <1>6, <1>7, <1>8, <1>9, <1>10, <1>11, <1>12, Frames DEF FramesHold

(* The TWS has nothing more to send for an indexed request whose packet is *)
(* closed: what closes it is the answer, an error, or the lost connection. *)
Settled ==
  reqType \in IndexedTypes /\ Finished(packet) => \A r \in pending : r.id # reqId

LEMMA SettledStep ==
  ASSUME Base, AnswersMatch, Settled, [Next]_vars
  PROVE  Settled'
<1>1. CASE Sending
  BY <1>1 DEF Sending, SendRequest, Settled, Finished, Recording
<1>2. CASE /\ pending' \subseteq pending /\ reqId' = reqId
           /\ reqType' \in {reqType, "NONE"}
  <2>1. SUFFICES ASSUME reqType' \in IndexedTypes, Finished(packet)'
                 PROVE  \A r \in pending' : r.id # reqId
    BY <1>2 DEF Settled
  <2>2. reqType' = reqType /\ reqType \in IndexedTypes /\ reqType \notin SimpleTypes
        /\ reqType # "HIST"
    BY <1>2, <2>1, Kinds
  <2>3. CASE Finished(packet)
    BY <1>2, <2>2, <2>3 DEF Settled
  <2>4. CASE ~ Finished(packet)
    <3>1. packet' # packet
      BY <2>1, <2>4 DEF Finished
    <3>2. ~ UNCHANGED req /\ ~ Failed /\ ~ ReqTimerExpires
      BY <3>1 DEF req, Failed, ReqTimerExpires
    <3>3. CASE (FinIndexed \/ FinHist \/ FinSimple) /\ ~ Failed
      BY <2>2, <3>3, Kinds DEF FinIndexed, FinHist, FinSimple, Finishing, WaitData,
         CloseRequest, Abort, Failed, Assertions, conn, req, todo, tws
    <3>4. CASE (SomeReqSimple \/ SomeReqIndexed \/ SomeReqHist) /\ ~ Failed
      <4>1. packet' = Recording
        BY <3>4, Sent DEF SendRequest
      <4>2. QED
        BY <2>1, <4>1 DEF Finished, Recording
    <3>5. CASE ConnectTimeout \/ ConnectionLost
      <4>1. pending' = {}
        BY <3>1, <3>5 DEF ConnectTimeout, ConnectionLost, ConnectionClosed, CloseLink, LinkDown,
                          Abort, req
      <4>2. QED
        BY <4>1
    <3>6. CASE SomeEnd
      <4>1. PICK r \in pending : IsCurrent(r) /\ pending' = pending \ {r}
        BY <3>1, <3>6 DEF SomeEnd, End, Answered, Abort, req
      <4>2. r.id = reqId
        BY <2>2, <4>1 DEF IsCurrent
      <4>3. QED
        BY <4>1, <4>2 DEF AnswersMatch
    <3>7. CASE SomeTwsError
      <4>1. PICK r \in pending : r.id = reqId /\ pending' = pending \ {r}
        BY <3>1, <3>7 DEF SomeTwsError, TwsError, Answered
      <4>2. QED
        BY <4>1 DEF AnswersMatch
    <3>8. CASE ConnectivityRestored
      BY <2>2, <3>1, <3>8 DEF ConnectivityRestored
    <3>9. QED
      BY <3>2, <3>3, <3>4, <3>5, <3>6, <3>7, <3>8, Frames DEF FramesHold
  <2>5. QED
    BY <2>3, <2>4
<1>3. QED
  BY <1>1, <1>2, PendingSteps

(***************************************************************************)
(* The assertions that can fail.                                           *)
(***************************************************************************)

Failing == {"twsConnectionClosed: TODO repeat", "repeat: curIndex > 0",
            "twsError: request type", "twsHistoricalData: !packet->finished()"}

LEMMA FailingStep ==
  ASSUME Base, AnswersMatch, Link, Settled, abort \in Failing \cup {"none"}, [Next]_vars
  PROVE  abort' \in Failing \cup {"none"}
<1>1. CASE UNCHANGED thread \/ Moves
  BY <1>1 DEF thread, Moves
<1>2. CASE Failed
  <2> USE DEF Goto, Failed, Failing
  <2>1. CASE FinIndexed \/ ConnectTimeout \/ ConnectionLost
    BY <1>2, <2>1 DEF FinIndexed, CloseRequest, ConnectTimeout, ConnectionLost,
                      ConnectionClosed, Abort
  <2>2. CASE ConnectTws
    BY <1>2, <2>2 DEF ConnectTws, Link
  <2>3. CASE FinHist
    <3>1. hist.checkedOut # NoJob
      BY <2>3 DEF FinHist, Finishing, Base, Agreement
    <3>2. QED
      BY <1>2, <2>3, <3>1 DEF FinHist, CloseRequest
  <2>4. CASE SomeReqHist
    <3>1. hist.checkedOut = NoJob
      BY <2>4, Kinds DEF SomeReqHist, ReqHist, Dispatch, Base, Agreement
    <3>2. QED
      BY <1>2, <2>4, <3>1 DEF SomeReqHist, ReqHist, SendRequest
  <2>5. CASE SomeRow \/ SomeEnd
    <3>1. PICK r \in pending :
            /\ IsCurrent(r) /\ r.type \notin SimpleTypes /\ packet.mode # "RECORD"
            /\ abort' = AppendAssertion(r.type)
      BY <1>2, <2>5 DEF SomeRow, Row, SomeEnd, End, Abort, thread
    <3>2. r.type \in RequestTypes /\ r.type = reqType /\ r.id = reqId
      BY <3>1 DEF IsCurrent, Base, TypeOK, TwsTypes, PendingType
    <3>3. packet # NoPacket /\ packet \in Packets
      BY <3>2, Kinds DEF Base, Agreement, TypeOK, ReqTypes
    <3>4. Finished(packet)
      <4>1. packet = Recording \/ \E e \in Errors : packet = Closed(e)
        BY <3>3, Zenon DEF Packets
      <4>2. Recording.mode = "RECORD" /\ \A e \in Errors : Closed(e).mode = "CLOSED"
        BY DEF Recording, Closed
      <4>3. QED
        BY <3>1, <4>1, <4>2 DEF Finished
    <3>5. r.type = "HIST"
      BY <3>1, <3>2, <3>4, Kinds DEF Settled
    <3>6. QED
      BY <3>1, <3>5 DEF AppendAssertion
  <2>6. CASE SomeAssert
    <3>1. hist.checkedOut # NoJob \/ reqType # "HIST"
      BY DEF Base, Agreement
    <3>2. QED
      BY <2>6, <3>1 DEF SomeAssert, TwsErrorAsserts, Abort
  <2>7. QED
    BY <1>2, <2>1, <2>2, <2>3, <2>4, <2>5, <2>6, StepCases DEF vars, thread, Wake,
       ConTimerExpires, ReqTimerExpires, ConnectFailed, ConnectFinished, StillConnecting,
       NothingToWaitFor, StillWaiting, FinSimple, CloseRequest, SomeReqSimple, ReqSimple,
       SomeReqIndexed, ReqIndexed, SendRequest, Paced, NoMoreWork, NextValidId,
       CurrentTime, SomeTwsError, TwsError, ConnectivityLost, ConnectivityRestored
<1>3. QED
  BY <1>1, <1>2, Frames DEF FramesHold

(* Base besides, all that is known of answers and connections.             *)
Sound == AnswersMatch /\ Link /\ Settled /\ abort \in Failing \cup {"none"}

LEMMA SoundHolds == Spec => [](Base /\ Sound)
<1>1. Init => Sound
  BY DEF Init, Sound, AnswersMatch, Link, Settled, Finished, NoPacket
<1>2. Base /\ Sound /\ [Next]_vars => Sound'
  BY AnswersStep, LinkStep, SettledStep, FailingStep DEF Sound
<1>3. QED
  BY <1>1, <1>2, BaseHolds, PTL DEF Spec

(* The flags say what the connection is, and of all assertions on the way  *)
(* only four can fail, whatever the TWS sends.                             *)
THEOREM ConnectionHolds == Spec => []ConnectionSound
<1>1. Sound => ConnectionSound
  BY DEF Sound, Link, HandshakeDone, ConnectionSound, Failing
<1>2. QED
  BY <1>1, SoundHolds, PTL

(* A request goes out only on a connection whose TWS has answered, and only*)
(* when no other is open.                                                  *)
THEOREM OneRequestHolds == Spec => OneReadyRequest
<1>1. ASSUME Base, Sound, [Next]_vars
      PROVE  [connected /\ clock = "answered" /\ reqType = "NONE" /\ reqId' = reqId + 1]_reqId
  <2>1. CASE reqId' = reqId
    BY <2>1
  <2>2. CASE Sending /\ connected /\ reqType = "NONE" /\ state = "IDLE"
    BY <1>1, <2>2 DEF Sending, SendRequest, Sound, Link, HandshakeDone
  <2>3. QED
    BY <1>1, <2>1, <2>2, PendingSteps
<1>2. Base /\ Sound /\ [Next]_vars =>
        [connected /\ clock = "answered" /\ reqType = "NONE" /\ reqId' = reqId + 1]_reqId
  BY <1>1
<1>3. QED
  BY <1>2, SoundHolds, PTL DEF Spec, OneReadyRequest

(***************************************************************************)
(* The end.                                                                *)
(***************************************************************************)

LEMMA Stopped ==
  ASSUME pc = "quit", [Next]_vars
  PROVE  UNCHANGED vars
BY StepCases DEF Wake, ConTimerExpires, ReqTimerExpires, ConnectFailed, ConnectFinished,
   StillConnecting, ConnectTimeout, WaitTwsCon, NothingToWaitFor, StillWaiting, FinIndexed,
   FinHist, FinSimple, Finishing, WaitData, ConnectTws, SomeReqSimple, SomeReqIndexed,
   SomeReqHist, ReqSimple, ReqIndexed, ReqHist, Dispatch, Paced, NoMoreWork, NextValidId,
   CurrentTime, SomeRow, Row, SomeEnd, End, SomeAssert, TwsErrorAsserts, SomeTwsError,
   TwsError, Callback, ConnectivityLost, ConnectivityRestored, ConnectionLost

LEMMA Quits ==
  ASSUME pc # "quit", pc' = "quit", [Next]_vars
  PROVE  NoMoreWork
BY StepCases DEF vars, thread, Goto, Abort, Wake, ConTimerExpires, ReqTimerExpires,
   ConnectFailed, ConnectFinished, StillConnecting, ConnectTimeout, ConnectionLost,
   ConnectionClosed, NothingToWaitFor, StillWaiting, FinIndexed, FinHist, FinSimple,
   CloseRequest, ConnectTws, SomeReqSimple, SomeReqIndexed, SomeReqHist, ReqSimple,
   ReqIndexed, ReqHist, SendRequest, Paced, NextValidId, CurrentTime, SomeRow, Row,
   SomeEnd, End, SomeAssert, TwsErrorAsserts, SomeTwsError, TwsError, ConnectivityLost,
   ConnectivityRestored

(* When there is no work there is no work of any kind.                     *)
LEMMA AllDone ==
  ASSUME Base, NoMoreWork
  PROVE  /\ simple = {} /\ \A t \in IndexedTypes : CountLeftOf(t) = 0
         /\ reqType = "NONE" /\ hist.done \cup hist.errs = HistJobs
<1>1. reqType = "NONE" /\ hist.checkedOut = NoJob /\ \A t \in RequestTypes : ~ HasWork(t)
  BY Kinds DEF NoMoreWork, Base, Agreement
<1>2. simple = {}
  BY <1>1, Kinds DEF HasWork, Base, TypeOK, TodoTypes
<1>3. ASSUME NEW t \in IndexedTypes
      PROVE  CountLeftOf(t) = 0
  <2>1. curIndex[t] \in Int /\ Count[t] \in Int /\ curIndex[t] <= Count[t] - 1
    BY CountAssumption DEF Base, TypeOK, TodoTypes
  <2>2. ~ (CountLeftOf(t) > 0)
    BY <1>1, Kinds DEF HasWork
  <2>3. QED
    BY <2>1, <2>2 DEF CountLeftOf, CountLeft
<1>4. hist.done \cup hist.errs = HistJobs
  <2>1. hist.left = << >>
    BY <1>1, Kinds DEF HasWork
  <2>2. Elems(hist.left) = {}
    BY <2>1 DEF Elems
  <2>3. QED
    BY <1>1, <2>2, NoJobAssumption DEF Base, Kept, HistTodoType
<1>5. QED
  BY <1>1, <1>2, <1>3, <1>4

LEMMA QuitStep ==
  ASSUME Base, QuitComplete, [Next]_vars
  PROVE  QuitComplete'
<1>1. CASE pc = "quit"
  BY <1>1, Stopped DEF vars, thread, req, todo, QuitComplete, CountLeftOf
<1>2. CASE pc # "quit" /\ pc' = "quit"
  <2>1. NoMoreWork
    BY <1>2, Quits
  <2>2. UNCHANGED <<simple, curIndex, reqType, hist>>
    BY <2>1 DEF NoMoreWork, todo, req
  <2>3. QED
    BY <2>1, <2>2, AllDone DEF QuitComplete, CountLeftOf
<1>3. CASE pc' # "quit"
  BY <1>3 DEF QuitComplete
<1>4. QED
  BY <1>1, <1>2, <1>3

(* The program quits by itself only when every list is worked off and each *)
(* job is done or given up.                                                *)
THEOREM QuitHolds == Spec => []QuitComplete
<1>1. Init => QuitComplete
  BY DEF Init, QuitComplete
<1>2. Base /\ QuitComplete /\ [Next]_vars => QuitComplete'
  BY QuitStep
<1>3. QED
  BY <1>1, <1>2, BaseHolds, PTL DEF Spec

(***************************************************************************)
(* The ledger.                                                             *)
(***************************************************************************)

Status == [j \in HistJobs |-> StatusOf(j)]

(* The job checked out, those left, and those settled are apart.           *)
LEMMA StatusFacts ==
  ASSUME Base, NEW j \in HistJobs
  PROVE  /\ Status[j] = "asked" <=> j = hist.checkedOut
         /\ j \in Elems(hist.left) => Status[j] = "waiting"
         /\ j = hist.checkedOut => j \notin hist.done \cup hist.errs \cup Elems(hist.left)
BY DEF Status, StatusOf, Base, Kept

LEMMA AskStep ==
  ASSUME Base, [Next]_vars, SomeReqHist, ~ Failed
  PROVE  \E j \in HistJobs : Ledger!Ask(j)
<1>1. hist.checkedOut = NoJob
  BY Sent
<1>2. PICK i \in DOMAIN hist.left : hist' = Checkout(hist, hist.left[i])
  BY <1>1, Zenon DEF SomeReqHist, ReqHist
<1> DEFINE j == hist.left[i]
<1>3. j \in Elems(hist.left)
  BY DEF Elems
<1>4. /\ hist'.checkedOut = j /\ j \in HistJobs
      /\ hist'.done = hist.done /\ hist'.errs = hist.errs
  BY <1>1, <1>2, <1>3, CheckoutKept DEF Base
<1> HIDE DEF j
<1>5. \A k \in HistJobs : Status[k] # "asked"
  BY <1>1, StatusFacts, NoJobAssumption
<1>6. Status[j] = "waiting"
  BY <1>3, <1>4, StatusFacts
<1>7. Status' = [Status EXCEPT ![j] = "asked"]
  BY <1>1, <1>4, NoJobAssumption DEF Status, StatusOf
<1>8. QED
  BY <1>4, <1>5, <1>6, <1>7 DEF Ledger!Ask, Status

LEMMA AnswerStep ==
  ASSUME Base, [Next]_vars, FinHist, ~ Failed
  PROVE  \E j \in HistJobs : Ledger!Answer(j)
<1> DEFINE j == hist.checkedOut
<1>1. j # NoJob /\ hist' = Filed(Verdict)
  BY DEF FinHist, Finishing, WaitData, Abort, Failed, Assertions, conn, req, todo, tws
<1>2. j \in HistJobs /\ j \notin hist.done \cup hist.errs
  BY <1>1 DEF Base, Kept, HistTodoType
<1>3. /\ hist'.checkedOut = NoJob
      /\ \/ hist'.done = hist.done \cup {j} /\ hist'.errs = hist.errs
         \/ hist'.done = hist.done /\ hist'.errs = hist.errs \cup {j}
         \/ hist'.done = hist.done /\ hist'.errs = hist.errs
  <2>1. Kept(hist)
    BY DEF Base
  <2>2. CASE Verdict \in {"NONE", "NODATA", "NAV"}
    BY <1>1, <2>1, <2>2, DoneKept DEF Filed
  <2>3. CASE Verdict \in {"TWSCON", "TIMEOUT", "REQUEST"}
    <3>1. \E p \in {0, 1, 2} : hist' = CancelForRepeat(hist, p)
      BY <1>1, <2>3 DEF Filed
    <3>2. QED
      BY <1>1, <2>1, <3>1, CancelKept
  <2>4. QED
    BY <2>2, <2>3, VerdictType DEF Errors
<1> HIDE DEF j
<1>4. Status[j] = "asked"
  BY <1>2, StatusFacts DEF j
<1>5. \E s \in {"done", "failed", "waiting"} : Status' = [Status EXCEPT ![j] = s]
  <2>1. \A k \in HistJobs : k # j => Status'[k] = Status[k]
    BY <1>3, NoJobAssumption DEF Status, StatusOf, j
  <2>2. Status'[j] \in {"done", "failed", "waiting"}
    BY <1>2, <1>3, NoJobAssumption DEF Status, StatusOf
  <2>3. Status' = [Status EXCEPT ![j] = Status'[j]]
    BY <1>2, <2>1 DEF Status
  <2>4. QED
    BY <2>2, <2>3
<1>6. QED
  BY <1>2, <1>4, <1>5 DEF Ledger!Answer, Ledger!Settled, Status

LEMMA GiveUpStep ==
  ASSUME Base, [Next]_vars, SomeTwsError, hist' # hist
  PROVE  \E S \in SUBSET HistJobs : Ledger!GiveUp(S)
<1>1. PICK L : hist' = Skip(hist, L)
  BY DEF SomeTwsError, TwsError, SkipByNodata, SkipByPerm
<1>2. hist.checkedOut # NoJob /\ hist.checkedOut \in HistJobs
  BY DEF SomeTwsError, TwsError, Base, Kept, HistTodoType
<1> DEFINE S == Elems(hist.left) \cap L
<1>3. /\ hist'.checkedOut = hist.checkedOut /\ hist'.done = hist.done
      /\ hist'.errs = hist.errs \cup S
  BY <1>1, SkipKept DEF Base
<1>4. S \subseteq HistJobs
  BY DEF Base, Kept, HistTodoType, Elems
<1>5. \A k \in S : Status[k] = "waiting"
  BY <1>4, StatusFacts
<1>6. Status[hist.checkedOut] = "asked"
  BY <1>2, StatusFacts
<1>7. \A k \in S : k # hist.checkedOut /\ k \notin hist.done
  BY DEF Base, Kept
<1> HIDE DEF S
<1>8. Status' = [k \in HistJobs |-> IF k \in S THEN "failed" ELSE Status[k]]
  BY <1>3, <1>7 DEF Status, StatusOf
<1>9. QED
  BY <1>2, <1>4, <1>5, <1>6, <1>8 DEF Ledger!GiveUp, Status

LEMMA LedgerStep ==
  ASSUME Base, [Next]_vars
  PROVE  Ledger!Next \/ UNCHANGED Status
<1>1. CASE hist' = hist
  BY <1>1 DEF Status, StatusOf
<1>2. CASE hist' # hist
  <2>1. ~ Failed
    BY <1>2 DEF Failed, todo
  <2>2. QED
    BY <1>2, <2>1, AskStep, AnswerStep, GiveUpStep, Frames DEF FramesHold, Ledger!Next
<1>3. QED
  BY <1>1, <1>2

(* The lists of historical-data jobs implement the ledger, for any jobs.   *)
THEOREM LedgerImplemented == Spec => ImplementsLedger
<1>1. Init => Ledger!Init
  BY NoJobAssumption DEF Init, NewHistTodo, StatusOf, Ledger!Init
<1>2. Base /\ [Next]_vars => [Ledger!Next]_Status
  BY LedgerStep
<1>3. QED
  BY <1>1, <1>2, BaseHolds, PTL DEF Spec, ImplementsLedger, Ledger!Spec, Status

(***************************************************************************)
(* What is written out.                                                    *)
(***************************************************************************)

Written == Elems(output)

(* An answer that was written belongs to a request that will not be sent   *)
(* again: its flag is down, the index has passed it, the job is done.      *)
SimpleWritten ==
  \A t \in SimpleTypes, n \in Nat :
    <<t, n>> \in Written => t \notin simple /\ reqType # t

IndexedWritten ==
  \A t \in IndexedTypes, n \in Nat :
    <<t, n>> \in Written => n <= curIndex[t] /\ (reqType = t => n < curIndex[t])

HistWritten == \A n \in Nat : <<"HIST", n>> \in Written => n \in hist.done

(* The flag of a request is down once it was sent.                         *)
FlagDown == reqType \in SimpleTypes => reqType \notin simple

OutputInv == DumpedOnce /\ SimpleWritten /\ IndexedWritten /\ HistWritten /\ FlagDown

LEMMA WriteOne ==
  ASSUME Base, DumpedOnce, NEW t \in RequestTypes, NEW n \in Nat,
         <<t, n>> \notin Written, output' = Append(output, <<t, n>>)
  PROVE  DumpedOnce' /\ Written' = Written \cup {<<t, n>>}
<1>1. output \in Seq(RequestTypes \X Nat) /\ <<t, n>> \in RequestTypes \X Nat
  BY DEF Base, TypeOK
<1> DEFINE T == RequestTypes \X Nat
           x == <<t, n>>
<1>2. output \in Seq(T) /\ x \in T
  BY <1>1
<1> HIDE DEF T, x
<1>3. /\ Elems(Append(output, x)) = Elems(output) \cup {x}
      /\ Distinct(output) /\ x \notin Elems(output) => Distinct(Append(output, x))
  BY <1>2, AppendElems
<1>4. output' = Append(output, x) /\ x \notin Elems(output)
  BY DEF Written, x
<1>5. DumpedOnce' /\ Written' = Written \cup {x}
  BY <1>3, <1>4 DEF DumpedOnce, Written
<1>6. QED
  BY <1>5 DEF x

LEMMA FinSimpleWrites ==
  ASSUME Base, OutputInv, FinSimple
  PROVE  OutputInv'
<1>1. reqType \in SimpleTypes /\ reqType' = "NONE" /\ UNCHANGED <<simple, curIndex, hist>>
      /\ output' = Append(output, <<reqType, 0>>)
  BY DEF FinSimple, Finishing, Dump, CloseRequest, todo
<1>2. <<reqType, 0>> \notin Written
  BY <1>1 DEF OutputInv, SimpleWritten
<1>3. DumpedOnce' /\ Written' = Written \cup {<<reqType, 0>>}
  BY <1>1, <1>2, WriteOne, Kinds DEF OutputInv
<1>4. QED
  BY <1>1, <1>3, Kinds DEF OutputInv, SimpleWritten, IndexedWritten, HistWritten, FlagDown

LEMMA FinIndexedWrites ==
  ASSUME Base, OutputInv, FinIndexed, ~ Failed
  PROVE  OutputInv'
<1> DEFINE i == curIndex[reqType]
<1>1. /\ reqType \in IndexedTypes /\ reqType' = "NONE" /\ UNCHANGED <<simple, hist>>
      /\ \/ curIndex' = [curIndex EXCEPT ![reqType] = @ - 1] /\ UNCHANGED output
         \/ UNCHANGED curIndex /\ output' = Append(output, <<reqType, i>>)
         \/ UNCHANGED <<curIndex, output>>
  BY DEF FinIndexed, Finishing, WaitData, CloseRequest, Dump, Repeat, Abort,
         Failed, Assertions, conn, req, todo, tws
<1>2. i \in Nat /\ curIndex \in [IndexedTypes -> Int]
  BY <1>1 DEF Base, Indexed, TypeOK, TodoTypes
<1>3. CASE UNCHANGED output
  <2>1. Written' = Written /\ DumpedOnce'
    BY <1>3 DEF Written, OutputInv, DumpedOnce
  <2>2. IndexedWritten'
    <3>1. ASSUME NEW t \in IndexedTypes, NEW n \in Nat, <<t, n>> \in Written
          PROVE  n <= curIndex'[t]
      <4>1. CASE t = reqType
        <5>1. n < curIndex[t]
          BY <3>1, <4>1 DEF OutputInv, IndexedWritten
        <5>2. curIndex[t] \in Int /\ curIndex'[t] \in {curIndex[t], curIndex[t] - 1}
          BY <1>1, <1>2, <4>1, <1>3
        <5>3. QED
          BY <5>1, <5>2
      <4>2. CASE t # reqType
        <5>1. curIndex'[t] = curIndex[t]
          BY <1>1, <1>2, <4>2
        <5>2. QED
          BY <3>1, <5>1 DEF OutputInv, IndexedWritten
      <4>3. QED
        BY <4>1, <4>2
    <3>2. QED
      BY <1>1, <2>1, <3>1, Kinds DEF IndexedWritten
  <2>3. QED
    BY <1>1, <2>1, <2>2, Kinds DEF OutputInv, SimpleWritten, HistWritten, FlagDown
<1>4. CASE UNCHANGED curIndex /\ output' = Append(output, <<reqType, i>>)
  <2>1. <<reqType, i>> \notin Written
    BY <1>1, <1>2 DEF OutputInv, IndexedWritten
  <2>2. DumpedOnce' /\ Written' = Written \cup {<<reqType, i>>}
    BY <1>1, <1>2, <1>4, <2>1, WriteOne, Kinds DEF OutputInv
  <2>3. IndexedWritten'
    BY <1>1, <1>2, <1>4, <2>2, Kinds DEF OutputInv, IndexedWritten
  <2>4. QED
    BY <1>1, <2>2, <2>3, Kinds DEF OutputInv, SimpleWritten, HistWritten, FlagDown
<1>5. QED
  BY <1>1, <1>3, <1>4

LEMMA FinHistWrites ==
  ASSUME Base, OutputInv, FinHist, ~ Failed
  PROVE  OutputInv'
<1> DEFINE j == hist.checkedOut
<1>1. /\ reqType = "HIST" /\ reqType' = "NONE" /\ UNCHANGED <<simple, curIndex>>
      /\ j # NoJob /\ hist' = Filed(Verdict)
      /\ IF Verdict = "NONE" THEN output' = Append(output, <<"HIST", j>>)
         ELSE UNCHANGED output
  BY DEF FinHist, Finishing, WaitData, CloseRequest, Dump, Abort,
         Failed, Assertions, conn, req, todo, tws
<1>2. j \in Nat /\ j \notin hist.done
  BY <1>1 DEF Base, Kept, HistTodoType, HistJobs
<1>3. hist.done \subseteq hist'.done /\ (Verdict = "NONE" => j \in hist'.done)
  BY <1>1, FiledKept
<1>4. CASE Verdict # "NONE"
  <2>1. Written' = Written /\ DumpedOnce'
    BY <1>1, <1>4 DEF Written, OutputInv, DumpedOnce
  <2>2. QED
    BY <1>1, <1>3, <2>1, Kinds DEF OutputInv, SimpleWritten, IndexedWritten, HistWritten, FlagDown
<1>5. CASE Verdict = "NONE"
  <2>1. <<"HIST", j>> \notin Written
    BY <1>2 DEF OutputInv, HistWritten
  <2>2. DumpedOnce' /\ Written' = Written \cup {<<"HIST", j>>}
    BY <1>1, <1>2, <1>5, <2>1, WriteOne, Kinds DEF OutputInv
  <2>3. HistWritten'
    BY <1>3, <1>5, <2>2 DEF OutputInv, HistWritten
  <2>4. QED
    BY <1>1, <2>2, <2>3, Kinds DEF OutputInv, SimpleWritten, IndexedWritten, FlagDown
<1>6. QED
  BY <1>4, <1>5

(* What is sent was not written: that of a flag, of a new index, of a job. *)
LEMMA SendWrites ==
  ASSUME Base, OutputInv, SomeReqSimple \/ SomeReqIndexed \/ SomeReqHist, ~ Failed, [Next]_vars
  PROVE  OutputInv'
<1>1. Written' = Written /\ DumpedOnce' /\ UNCHANGED output
  <2>1. \E t \in RequestTypes : SendRequest(t)
    BY Sent
  <2>2. QED
    BY <2>1 DEF SendRequest, Written, DumpedOnce, OutputInv
<1>2. CASE SomeReqSimple
  <2>1. PICK t \in SimpleTypes : ReqSimple(t)
    BY <1>2 DEF SomeReqSimple
  <2>2. reqType' = t /\ simple' = simple \ {t} /\ UNCHANGED <<curIndex, hist>> /\ t \in simple
    BY <2>1, Kinds DEF ReqSimple, SendRequest, Dispatch, HasWork
  <2>3. QED
    BY <1>1, <2>2, Kinds DEF OutputInv, SimpleWritten, IndexedWritten, HistWritten, FlagDown
<1>3. CASE SomeReqIndexed
  <2>1. PICK t \in IndexedTypes : ReqIndexed(t)
    BY <1>3, Zenon DEF SomeReqIndexed
  <2>2. /\ reqType' = t /\ UNCHANGED <<simple, hist>>
        /\ curIndex' = [curIndex EXCEPT ![t] = @ + 1]
    BY <2>1 DEF ReqIndexed, SendRequest
  <2>3. curIndex \in [IndexedTypes -> Int]
    BY DEF Base, TypeOK, TodoTypes
  <2>4. IndexedWritten'
    <3>1. ASSUME NEW u \in IndexedTypes, NEW n \in Nat, <<u, n>> \in Written
          PROVE  n <= curIndex'[u] /\ (t = u => n < curIndex'[u])
      <4>1. n <= curIndex[u] /\ curIndex[u] \in Int
        BY <2>3, <3>1 DEF OutputInv, IndexedWritten
      <4>2. curIndex'[u] = IF u = t THEN curIndex[u] + 1 ELSE curIndex[u]
        BY <2>2, <2>3
      <4>3. QED
        BY <4>1, <4>2
    <3>2. QED
      BY <1>1, <2>2, <3>1 DEF IndexedWritten
  <2>5. QED
    BY <1>1, <2>2, <2>4, Kinds DEF OutputInv, SimpleWritten, HistWritten, FlagDown
<1>4. CASE SomeReqHist
  <2>1. PICK i \in DOMAIN hist.left : hist' = Checkout(hist, hist.left[i])
    BY <1>4, Sent, Zenon DEF SomeReqHist, ReqHist
  <2>2. hist'.done = hist.done
    BY <2>1 DEF Checkout, Base, Kept, HistTodoType
  <2>3. reqType' = "HIST" /\ UNCHANGED <<simple, curIndex>>
    BY <1>4, Sent DEF SendRequest, SomeReqHist, ReqHist, Abort, todo
  <2>4. QED
    BY <1>1, <2>2, <2>3, Kinds DEF OutputInv, SimpleWritten, IndexedWritten, HistWritten, FlagDown
<1>5. QED
  BY <1>2, <1>3, <1>4

LEMMA OutputInvStep ==
  ASSUME Base, OutputInv, [Next]_vars
  PROVE  OutputInv'
<1>1. CASE UNCHANGED <<output, simple, curIndex, reqType>> /\ hist'.done = hist.done
  BY <1>1 DEF OutputInv, DumpedOnce, Written, SimpleWritten, IndexedWritten, HistWritten, FlagDown
<1>2. CASE Failed
  BY <1>1, <1>2 DEF Failed, req, todo
<1>3. CASE (FinIndexed \/ FinHist \/ FinSimple) /\ ~ Failed
  BY <1>3, FinSimpleWrites, FinIndexedWrites, FinHistWrites
<1>4. CASE (SomeReqSimple \/ SomeReqIndexed \/ SomeReqHist) /\ ~ Failed
  BY <1>4, SendWrites
<1>5. CASE /\ ~ Failed /\ ~ (FinIndexed \/ FinHist \/ FinSimple)
           /\ ~ (SomeReqSimple \/ SomeReqIndexed \/ SomeReqHist)
  <2>1. UNCHANGED <<output, simple, curIndex, reqType>>
    BY <1>5, Frames, ReqTypeChanges DEF FramesHold
  <2>2. hist'.done = hist.done
    <3>1. UNCHANGED hist \/ SomeTwsError
      BY <1>5, Frames DEF FramesHold
    <3>2. CASE SomeTwsError
      <4>1. hist' = hist \/ \E L : hist' = Skip(hist, L)
        BY <3>2 DEF SomeTwsError, TwsError, SkipByNodata, SkipByPerm
      <4>2. QED
        BY <4>1, SkipKept DEF Base
    <3>3. QED
      BY <3>1, <3>2
  <2>3. QED
    BY <1>1, <2>1, <2>2
<1>6. QED
  BY <1>2, <1>3, <1>4, <1>5

(* No answer is written twice, whatever is repeated, for any work file.    *)
THEOREM DumpedOnceHolds == Spec => []DumpedOnce
<1>1. Init => OutputInv
  BY DEF Init, OutputInv, DumpedOnce, Distinct, Written, Elems, SimpleWritten,
         IndexedWritten, HistWritten, FlagDown, SimpleTypes
<1>2. Base /\ OutputInv /\ [Next]_vars => OutputInv'
  BY OutputInvStep
<1>3. OutputInv => DumpedOnce
  BY DEF OutputInv
<1>4. QED
  BY <1>1, <1>2, <1>3, BaseHolds, PTL DEF Spec
=============================================================================
