------------------------------ MODULE CallsProofs ------------------------------
(***************************************************************************)
(* What holds of calls and conferences for any number of users, calls,     *)
(* clicks, timeouts and crashes.                                           *)
(*                                                                         *)
(* The loops of the code are folds, and nothing is known of a fold but the *)
(* equation that defines it.  The first sections show, with the natural    *)
(* numbers as a set, that a fold is the end of a run of rounds, each one   *)
(* the body of the loop: what every round keeps, the loop keeps.  Each     *)
(* handler then keeps the invariant operator by operator, in the order in  *)
(* which it calls them.                                                    *)
(***************************************************************************)
EXTENDS Calls, FiniteSetTheorems, WellFoundedInduction, TLAPS

-----------------------------------------------------------------------------
(* The natural numbers, by induction over a set of them. *)
LEMMA NatSetInduction ==
    ASSUME NEW T, T \subseteq Nat, 0 \in T, \A n \in T : n + 1 \in T
    PROVE  T = Nat
<1> DEFINE R == {ss \in Nat \X Nat : ss[1] < ss[2]}
           B == Nat \ T
<1>1. IsWellFoundedOn(R, Nat)
  BY NatLessThanWellFounded DEF OpToRel
<1>2. SUFFICES ASSUME B # {} PROVE FALSE
  OBVIOUS
<1>3. PICK x \in B : \A y \in B : ~(<<y, x>> \in R)
  <2> HIDE DEF R
  <2> B \subseteq Nat OBVIOUS
  <2> HIDE DEF B
  <2> QED BY <1>1, <1>2, WFMin
<1>4. x \in Nat /\ x # 0 /\ x - 1 \in Nat /\ x - 1 < x /\ (x - 1) + 1 = x
  OBVIOUS
<1>5. <<x - 1, x>> \in R
  BY <1>4
<1>6. x - 1 \notin B
  BY <1>3, <1>5
<1> QED BY <1>4, <1>6

(* A non-empty set of numbers of a sequence has a greatest. *)
LEMMA MaxInSet ==
    ASSUME NEW n \in Nat, NEW s \in SUBSET (1 .. n), s # {}
    PROVE  Max(s) \in s /\ \A x \in s : Max(s) >= x
<1> DEFINE T == {j \in Nat : \A t \in SUBSET (1 .. j) :
                    t # {} => \E x \in t : \A y \in t : x >= y}
<1>1. 0 \in T
  <2>1. \A t \in SUBSET (1 .. 0) : t = {}
    <3>1. 1 .. 0 = {}
      OBVIOUS
    <3> QED BY <3>1
  <2> QED BY <2>1
<1>2. ASSUME NEW j \in T PROVE j + 1 \in T
  <2> SUFFICES ASSUME NEW t \in SUBSET (1 .. j + 1), t # {}
               PROVE  \E x \in t : \A y \in t : x >= y
    BY <1>2
  <2>1. CASE j + 1 \in t
    BY <2>1, <1>2
  <2>2. CASE j + 1 \notin t
    <3> t \in SUBSET (1 .. j)
      BY <2>2, <1>2
    <3> QED BY <1>2
  <2> QED BY <2>1, <2>2
<1>3. n \in T
  <2> HIDE DEF T
  <2>1. T \subseteq Nat
    BY DEF T
  <2> QED BY <2>1, <1>1, <1>2, NatSetInduction
<1>4. \E x \in s : \A y \in s : x >= y
  BY <1>3
<1> QED BY <1>4 DEF Max

-----------------------------------------------------------------------------
(* The bodies of the loops of the code. *)
Body(k, a, x, T) ==
    CASE k = "queue"  -> TakeWaiting(T, a, x)
      [] k = "start"  -> MaybeStart(T, x, FALSE)
      [] k = "call"   -> DoCall(T, x, TRUE)
      [] k = "hangup" -> HangUp(T, a, x)
      [] k = "send"   -> Send(T, x, a)
      [] k = "mail"   -> IF x[1] = a THEN Append(T, x[2]) ELSE T

(* What a fold computes, set by set: F are the elements, h chooses. *)
Folded(k, a, b, D, F, h, g) ==
    g = [s \in SUBSET D |-> IF s = {} THEN b
                            ELSE Body(k, a, F[h[s]], g[s \ {h[s]}])]

\* A fold over a finite set has a value for every subset.
LEMMA FoldExists ==
    ASSUME NEW k, NEW a, NEW b, NEW D, IsFiniteSet(D), NEW F, NEW h,
           \A s \in SUBSET D : s # {} => h[s] \in s
    PROVE  \E g : Folded(k, a, b, D, F, h, g)
<1> DEFINE Sub(j) == {s \in SUBSET D : Cardinality(s) <= j}
           Next1(g, s) == IF s = {} THEN b ELSE Body(k, a, F[h[s]], g[s \ {h[s]}])
           T == {j \in Nat : \E g : g = [s \in Sub(j) |-> Next1(g, s)]}
<1>0. \A s \in SUBSET D : /\ IsFiniteSet(s) /\ Cardinality(s) \in Nat
                          /\ (Cardinality(s) = 0 <=> s = {})
                          /\ s # {} => /\ s \ {h[s]} \in SUBSET D
                                       /\ Cardinality(s \ {h[s]}) = Cardinality(s) - 1
  <2> SUFFICES ASSUME NEW s \in SUBSET D
               PROVE  /\ IsFiniteSet(s) /\ Cardinality(s) \in Nat
                      /\ (Cardinality(s) = 0 <=> s = {})
                      /\ s # {} => /\ s \ {h[s]} \in SUBSET D
                                   /\ Cardinality(s \ {h[s]}) = Cardinality(s) - 1
    OBVIOUS
  <2>1. IsFiniteSet(s)
    BY FS_Subset
  <2>2. Cardinality(s) \in Nat
    BY <2>1, FS_CardinalityType
  <2>3. Cardinality(s) = 0 <=> s = {}
    BY <2>1, FS_EmptySet
  <2>4. ASSUME s # {} PROVE Cardinality(s \ {h[s]}) = Cardinality(s) - 1
    <3>1. h[s] \in s
      BY <2>4
    <3> QED BY <3>1, <2>1, FS_RemoveElement
  <2> QED BY <2>1, <2>2, <2>3, <2>4
<1>1. 0 \in T
  <2> DEFINE g == [s \in Sub(0) |-> b]
  <2>1. \A s \in Sub(0) : s = {}
    <3> SUFFICES ASSUME NEW s \in Sub(0) PROVE s = {}
      OBVIOUS
    <3>1. s \in SUBSET D /\ Cardinality(s) <= 0
      OBVIOUS
    <3>2. Cardinality(s) \in Nat /\ (Cardinality(s) = 0 <=> s = {})
      BY <1>0, <3>1
    <3> QED BY <3>1, <3>2
  <2>2. g = [s \in Sub(0) |-> Next1(g, s)]
    BY <2>1
  <2> QED BY <2>2
<1>2. ASSUME NEW j \in T PROVE j + 1 \in T
  <2>0. j \in Nat
    OBVIOUS
  <2>1. PICK g : g = [s \in Sub(j) |-> Next1(g, s)]
    <3> HIDE DEF Sub, Next1
    <3> QED OBVIOUS
  <2> DEFINE f == [s \in Sub(j + 1) |-> Next1(g, s)]
  <2>2. \A s \in Sub(j + 1) : s # {} => s \ {h[s]} \in Sub(j)
    <3> SUFFICES ASSUME NEW s \in Sub(j + 1), s # {} PROVE s \ {h[s]} \in Sub(j)
      OBVIOUS
    <3> HIDE DEF T, f, Next1
    <3>1. s \in SUBSET D /\ Cardinality(s) <= j + 1
      OBVIOUS
    <3>2. Cardinality(s) \in Nat /\ Cardinality(s \ {h[s]}) = Cardinality(s) - 1
      BY <1>0, <3>1
    <3>3. Cardinality(s \ {h[s]}) <= j
      BY <2>0, <3>1, <3>2
    <3> QED BY <3>1, <3>3
  <2>3. \A s \in Sub(j) : s \in Sub(j + 1)
    <3> SUFFICES ASSUME NEW s \in Sub(j) PROVE s \in Sub(j + 1)
      OBVIOUS
    <3> HIDE DEF T, f, Next1
    <3>1. s \in SUBSET D /\ Cardinality(s) <= j
      OBVIOUS
    <3>2. Cardinality(s) \in Nat
      BY <1>0, <3>1
    <3>3. Cardinality(s) <= j + 1
      BY <2>0, <3>1, <3>2
    <3> QED BY <3>1, <3>3
  <2>4. \A s \in Sub(j) : g[s] = Next1(g, s)
    <3> HIDE DEF Sub, Next1
    <3> QED BY <2>1
  <2>4a. \A s \in Sub(j) : f[s] = g[s]
    <3> HIDE DEF Sub, Next1
    <3> QED BY <2>3, <2>4
  <2>5. \A s \in Sub(j + 1) : Next1(g, s) = Next1(f, s)
    <3> SUFFICES ASSUME NEW s \in Sub(j + 1), s # {}
                 PROVE  g[s \ {h[s]}] = f[s \ {h[s]}]
      <4> HIDE DEF Sub, f
      <4> QED OBVIOUS
    <3> HIDE DEF Sub, f
    <3> QED BY <2>2, <2>4a
  <2>6. f = [s \in Sub(j + 1) |-> Next1(f, s)]
    <3>1. f = [s \in Sub(j + 1) |-> Next1(g, s)]
      OBVIOUS
    <3> HIDE DEF Sub, Next1, f
    <3> QED BY <3>1, <2>5
  <2> HIDE DEF f, Sub, Next1
  <2> QED BY <2>6, <2>0
<1>3. Cardinality(D) \in T
  <2>1. T \subseteq Nat
    OBVIOUS
  <2>2. Cardinality(D) \in Nat
    BY FS_CardinalityType
  <2> HIDE DEF T
  <2>3. \A j \in T : j + 1 \in T
    BY <1>2
  <2>4. T = Nat
    BY <2>1, <2>3, <1>1, NatSetInduction
  <2> QED BY <2>2, <2>4
<1>4. Sub(Cardinality(D)) = SUBSET D
  BY FS_Subset, FS_CardinalityType
<1>5. PICK g : g = [s \in Sub(Cardinality(D)) |-> Next1(g, s)]
  BY <1>3
<1>6. g = [s \in SUBSET D |-> Next1(g, s)]
  <2> HIDE DEF Sub, Next1
  <2> QED BY <1>4, <1>5
<1> QED BY <1>6 DEF Folded

(* A loop runs through its elements, in some order. *)
Run1(k, a, e, n, b, z) ==
    \E r : r[0] = b /\ r[n] = z /\ \A i \in 1 .. n : r[i] = Body(k, a, e[i], r[i - 1])

\* A fold over a sequence takes its elements in their order.
LEMMA SeqRuns ==
    ASSUME NEW k, NEW a, NEW b, NEW n \in Nat, NEW q, NEW g,
           Folded(k, a, b, 1 .. n, q, [s \in SUBSET (1 .. n) |-> Max(s)], g)
    PROVE  Run1(k, a, q, n, b, g[1 .. n])
<1> DEFINE r == [i \in 0 .. n |-> g[1 .. i]]
<1>1. r[0] = b
  <2>1. 1 .. 0 = {} /\ {} \in SUBSET (1 .. n)
    OBVIOUS
  <2>2. g[{}] = b
    BY <2>1 DEF Folded
  <2> QED BY <2>1, <2>2
<1>2. ASSUME NEW i \in 1 .. n PROVE r[i] = Body(k, a, q[i], r[i - 1])
  <2>1. 1 .. i \in SUBSET (1 .. n) /\ 1 .. i # {} /\ (1 .. i) \ {i} = 1 .. (i - 1)
    OBVIOUS
  <2>2. Max(1 .. i) = i
    <3>1. Max(1 .. i) \in 1 .. i /\ \A x \in 1 .. i : Max(1 .. i) >= x
      BY <2>1, MaxInSet
    <3>2. i \in 1 .. i
      OBVIOUS
    <3>3. Max(1 .. i) >= i
      BY <3>1, <3>2
    <3> HIDE DEF r
    <3> QED BY <3>1, <3>3
  <2>3. g[1 .. i] = Body(k, a, q[i], g[1 .. (i - 1)])
    BY <2>1, <2>2 DEF Folded
  <2>4. i \in 0 .. n /\ i - 1 \in 0 .. n
    OBVIOUS
  <2> QED BY <2>3, <2>4
<1>3. r[n] = g[1 .. n]
  OBVIOUS
<1> HIDE DEF r
<1> QED BY <1>1, <1>2, <1>3 DEF Run1

\* A fold over a finite set takes each of its elements, in the order chosen.
LEMMA SetRuns ==
    ASSUME NEW k, NEW a, NEW b, NEW D, IsFiniteSet(D), NEW h, NEW g,
           \A s \in SUBSET D : s # {} => h[s] \in s,
           Folded(k, a, b, D, [x \in D |-> x], h, g)
    PROVE  \E n \in Nat : \E e \in [1 .. n -> D] :
              /\ \A x \in D : \E i \in 1 .. n : e[i] = x
              /\ Run1(k, a, e, n, b, g[D])
<1> DEFINE Good(s, n) == \E e \in [1 .. n -> D] :
              /\ \A x \in s : \E i \in 1 .. n : e[i] = x
              /\ Run1(k, a, e, n, b, g[s])
           T == {n \in Nat : \A s \in SUBSET D : Cardinality(s) = n => Good(s, n)}
<1>1. 0 \in T
  <2>1. SUFFICES ASSUME NEW s \in SUBSET D, Cardinality(s) = 0 PROVE Good(s, 0)
    OBVIOUS
  <2>2. s = {}
    BY <2>1, FS_EmptySet, FS_Subset
  <2>3. g[{}] = b
    BY DEF Folded
  <2> DEFINE e == [i \in 1 .. 0 |-> b]
             r == [i \in {0} |-> b]
  <2>4. 1 .. 0 = {}
    OBVIOUS
  <2>5. e \in [1 .. 0 -> D]
    BY <2>4
  <2>6. r[0] = b
    OBVIOUS
  <2>7. Run1(k, a, e, 0, b, g[s])
    <3> HIDE DEF r, e
    <3> QED BY <2>2, <2>3, <2>4, <2>6 DEF Run1
  <2> HIDE DEF e
  <2> QED BY <2>2, <2>5, <2>7
<1>2. ASSUME NEW n \in T PROVE n + 1 \in T
  <2>0. n \in Nat /\ n + 1 \in Nat
    OBVIOUS
  <2>1. SUFFICES ASSUME NEW s \in SUBSET D, Cardinality(s) = n + 1
                 PROVE  Good(s, n + 1)
    BY <2>0
  <2> DEFINE x == h[s]
             t == s \ {x}
  <2>2. IsFiniteSet(s) /\ s # {}
    BY <2>0, <2>1, FS_Subset, FS_EmptySet
  <2>3. x \in s /\ x \in D /\ t \in SUBSET D
    BY <2>2
  <2>4. Cardinality(t) = n
    <3>1. Cardinality(t) = Cardinality(s) - 1
      <4> HIDE DEF x, T
      <4> QED BY <2>2, <2>3, FS_RemoveElement
    <3> QED BY <2>0, <2>1, <3>1
  <2>5. g[s] = Body(k, a, x, g[t])
    BY <2>2, <2>3 DEF Folded
  <2> HIDE DEF x, t
  <2>6. PICK e \in [1 .. n -> D] : /\ \A y \in t : \E i \in 1 .. n : e[i] = y
                                  /\ Run1(k, a, e, n, b, g[t])
    BY <2>3, <2>4
  <2>7. PICK r : r[0] = b /\ r[n] = g[t] /\ \A i \in 1 .. n : r[i] = Body(k, a, e[i], r[i - 1])
    BY <2>6 DEF Run1
  <2> DEFINE f == [i \in 1 .. n + 1 |-> IF i = n + 1 THEN x ELSE e[i]]
             v == [i \in 0 .. n + 1 |-> IF i = n + 1 THEN g[s] ELSE r[i]]
  <2>8. f \in [1 .. n + 1 -> D]
    BY <2>0, <2>3
  <2>9. \A y \in s : \E i \in 1 .. n + 1 : f[i] = y
    <3> SUFFICES ASSUME NEW y \in s PROVE \E i \in 1 .. n + 1 : f[i] = y
      OBVIOUS
    <3>1. CASE y = x
      <4>1. n + 1 \in 1 .. n + 1 /\ f[n + 1] = y
        BY <2>0, <3>1
      <4> QED BY <4>1
    <3>2. CASE y # x
      <4>1. PICK i \in 1 .. n : e[i] = y
        BY <2>6, <3>2 DEF t
      <4>2. i \in 1 .. n + 1 /\ f[i] = y
        BY <2>0, <4>1
      <4> QED BY <4>2
    <3> QED BY <3>1, <3>2
  <2>10. v[0] = b /\ v[n + 1] = g[s]
    BY <2>0, <2>7
  <2>11. ASSUME NEW i \in 1 .. n + 1 PROVE v[i] = Body(k, a, f[i], v[i - 1])
    <3>1. CASE i = n + 1
      <4>1. v[i] = g[s] /\ f[i] = x /\ v[i - 1] = g[t]
        BY <2>0, <2>7, <3>1
      <4> HIDE DEF f, v
      <4> QED BY <4>1, <2>5
    <3>2. CASE i # n + 1
      <4>1. i \in 1 .. n /\ v[i] = r[i] /\ f[i] = e[i] /\ v[i - 1] = r[i - 1]
        BY <2>0, <3>2
      <4> HIDE DEF f, v
      <4> QED BY <4>1, <2>7
    <3> QED BY <3>1, <3>2
  <2>12. Run1(k, a, f, n + 1, b, g[s])
    <3> HIDE DEF f, v
    <3> QED BY <2>10, <2>11 DEF Run1
  <2> HIDE DEF f
  <2> QED BY <2>8, <2>9, <2>12
<1>3. T = Nat
  <2>1. T \subseteq Nat
    OBVIOUS
  <2> HIDE DEF T
  <2>2. \A j \in T : j + 1 \in T
    BY <1>2
  <2> QED BY <2>1, <2>2, <1>1, NatSetInduction
<1>4. Cardinality(D) \in Nat
  BY FS_CardinalityType
<1>5. Good(D, Cardinality(D))
  <2> HIDE DEF Good
  <2> QED BY <1>3, <1>4
<1> QED BY <1>4, <1>5

-----------------------------------------------------------------------------
(* The loops of the code run. *)
StartEach(b, F)          == FoldLeft(LAMBDA T, c : MaybeStart(T, c, FALSE), b, F)
CallEach(b, D)           == FoldSet(LAMBDA q, T : DoCall(T, q, TRUE), b, D)
HangUpEach(b, D, reason) == FoldSet(LAMBDA q, T : HangUp(T, reason, q), b, D)
SendEach(b, D, m)        == FoldSet(LAMBDA q, T : Send(T, q, m), b, D)

\* processPendingMessages takes the waiting documents one after the other.
LEMMA QueueRuns ==
    ASSUME NEW S, NEW q, NEW n \in Nat, DOMAIN S.queues[q] = 1 .. n
    PROVE  Run1("queue", q, S.queues[q], n, [S EXCEPT !.queues[q] = <<>>], TakeQueue(S, q))
<1> DEFINE b == [S EXCEPT !.queues[q] = <<>>]
           F == S.queues[q]
           h == [s \in SUBSET (1 .. n) |-> Max(s)]
<1>1. PICK f : Folded("queue", q, b, 1 .. n, F, h, f)
  <2>1. IsFiniteSet(1 .. n)
    BY FS_Interval
  <2>2. \A s \in SUBSET (1 .. n) : s # {} => h[s] \in s
    BY MaxInSet
  <2> HIDE DEF h, F, b
  <2> QED BY <2>1, <2>2, FoldExists
<1>2. PICK g : Folded("queue", q, b, 1 .. n, F, h, g) /\ TakeQueue(S, q) = g[1 .. n]
  <2>1. 1 .. n = DOMAIN F
    OBVIOUS
  <2> HIDE DEF b, F
  <2>2. f = [s \in SUBSET (DOMAIN F) |-> IF s = {} THEN b
                                        ELSE TakeWaiting(f[s \ {Max(s)}], q, F[Max(s)])]
    <3>1. \A s \in SUBSET (1 .. n) : Body("queue", q, F[h[s]], f[s \ {h[s]}])
                                      = TakeWaiting(f[s \ {Max(s)}], q, F[Max(s)])
      BY DEF Body
    <3> HIDE DEF h
    <3> QED BY <1>1, <2>1, <3>1 DEF Folded
  <2>3. PICK g : /\ g = [s \in SUBSET (DOMAIN F) |-> IF s = {} THEN b
                                        ELSE TakeWaiting(g[s \ {Max(s)}], q, F[Max(s)])]
                 /\ FoldLeft(LAMBDA T, m : TakeWaiting(T, q, m), b, F) = g[DOMAIN F]
    BY <2>2 DEF FoldLeft, MapThenFoldSet
  <2>4. \A s \in SUBSET (1 .. n) : Body("queue", q, F[h[s]], g[s \ {h[s]}])
                                      = TakeWaiting(g[s \ {Max(s)}], q, F[Max(s)])
    BY DEF Body
  <2>5. Folded("queue", q, b, 1 .. n, F, h, g)
    <3> HIDE DEF h
    <3> QED BY <2>1, <2>3, <2>4 DEF Folded
  <2>6. TakeQueue(S, q) = g[1 .. n]
    BY <2>1, <2>3 DEF TakeQueue, b, F
  <2> QED BY <2>5, <2>6
<1> HIDE DEF b, F
<1>3. Run1("queue", q, F, n, b, g[1 .. n])
  BY <1>2, SeqRuns
<1> QED BY <1>2, <1>3 DEF b, F

\* maybeStartLocalVideo starts the calls that waited for the camera in order.
LEMMA StartsRun ==
    ASSUME NEW b, NEW F, NEW n \in Nat, DOMAIN F = 1 .. n
    PROVE  Run1("start", 0, F, n, b, StartEach(b, F))
<1> DEFINE h == [s \in SUBSET (1 .. n) |-> Max(s)]
<1>1. PICK f : Folded("start", 0, b, 1 .. n, F, h, f)
  <2>1. IsFiniteSet(1 .. n)
    BY FS_Interval
  <2>2. \A s \in SUBSET (1 .. n) : s # {} => h[s] \in s
    BY MaxInSet
  <2> HIDE DEF h
  <2> QED BY <2>1, <2>2, FoldExists
<1>2. f = [s \in SUBSET (DOMAIN F) |-> IF s = {} THEN b
                                      ELSE MaybeStart(f[s \ {Max(s)}], F[Max(s)], FALSE)]
  <2>1. \A s \in SUBSET (1 .. n) : Body("start", 0, F[h[s]], f[s \ {h[s]}])
                                    = MaybeStart(f[s \ {Max(s)}], F[Max(s)], FALSE)
    BY DEF Body
  <2> HIDE DEF h
  <2> QED BY <1>1, <2>1 DEF Folded
<1>3. PICK g : /\ g = [s \in SUBSET (DOMAIN F) |-> IF s = {} THEN b
                                      ELSE MaybeStart(g[s \ {Max(s)}], F[Max(s)], FALSE)]
               /\ FoldLeft(LAMBDA T, c : MaybeStart(T, c, FALSE), b, F) = g[DOMAIN F]
  BY <1>2 DEF FoldLeft, MapThenFoldSet
<1>4. Folded("start", 0, b, 1 .. n, F, h, g)
  <2>1. \A s \in SUBSET (1 .. n) : Body("start", 0, F[h[s]], g[s \ {h[s]}])
                                    = MaybeStart(g[s \ {Max(s)}], F[Max(s)], FALSE)
    BY DEF Body
  <2> HIDE DEF h
  <2> QED BY <1>3, <2>1 DEF Folded
<1>5. Run1("start", 0, F, n, b, g[1 .. n])
  BY <1>4, SeqRuns
<1> QED BY <1>3, <1>5 DEF StartEach

\* What is sent to one browser is picked from what a handler sent, in order.
LEMMA MailRuns ==
    ASSUME NEW q, NEW F, NEW n \in Nat, DOMAIN F = 1 .. n
    PROVE  Run1("mail", q, F, n, <<>>, Mail(q, F))
<1> DEFINE h == [s \in SUBSET (1 .. n) |-> Max(s)]
           Round(x, T) == IF x[1] = q THEN Append(T, x[2]) ELSE T
<1>1. PICK f : Folded("mail", q, <<>>, 1 .. n, F, h, f)
  <2>1. IsFiniteSet(1 .. n)
    BY FS_Interval
  <2>2. \A s \in SUBSET (1 .. n) : s # {} => h[s] \in s
    BY MaxInSet
  <2> HIDE DEF h
  <2> QED BY <2>1, <2>2, FoldExists
<1>2. f = [s \in SUBSET (DOMAIN F) |-> IF s = {} THEN <<>>
                                      ELSE Round(F[Max(s)], f[s \ {Max(s)}])]
  <2>1. \A s \in SUBSET (1 .. n) : Body("mail", q, F[h[s]], f[s \ {h[s]}])
                                    = Round(F[Max(s)], f[s \ {Max(s)}])
    BY DEF Body
  <2> HIDE DEF h, Round
  <2> QED BY <1>1, <2>1 DEF Folded
<1>3. PICK g : /\ g = [s \in SUBSET (DOMAIN F) |-> IF s = {} THEN <<>>
                                      ELSE Round(F[Max(s)], g[s \ {Max(s)}])]
               /\ Mail(q, F) = g[DOMAIN F]
  BY <1>2 DEF Mail, FoldLeft, MapThenFoldSet
<1>4. Folded("mail", q, <<>>, 1 .. n, F, h, g)
  <2>1. \A s \in SUBSET (1 .. n) : Body("mail", q, F[h[s]], g[s \ {h[s]}])
                                    = Round(F[Max(s)], g[s \ {Max(s)}])
    BY DEF Body
  <2> HIDE DEF h, Round
  <2> QED BY <1>3, <2>1 DEF Folded
<1>5. Run1("mail", q, F, n, <<>>, g[1 .. n])
  BY <1>4, SeqRuns
<1> QED BY <1>3, <1>5

\* A conference document has its members called one by one.
LEMMA CallsRun ==
    ASSUME NEW b, NEW D, IsFiniteSet(D)
    PROVE  \E n \in Nat : \E e \in [1 .. n -> D] :
              /\ \A x \in D : \E i \in 1 .. n : e[i] = x
              /\ Run1("call", 0, e, n, b, CallEach(b, D))
<1> DEFINE F == [x \in D |-> x]
           h == [s \in SUBSET D |-> CHOOSE x \in s : TRUE]
<1>0. \A s \in SUBSET D : s # {} => h[s] \in s
  OBVIOUS
<1>1. PICK f : Folded("call", 0, b, D, F, h, f)
  <2> HIDE DEF h, F
  <2> QED BY <1>0, FoldExists
<1>2. f = [s \in SUBSET D |-> IF s = {} THEN b
                              ELSE DoCall(f[s \ {CHOOSE x \in s : TRUE}], CHOOSE x \in s : TRUE, TRUE)]
  <2>1. \A s \in SUBSET D : s # {} => Body("call", 0, F[h[s]], f[s \ {h[s]}])
                                        = DoCall(f[s \ {CHOOSE x \in s : TRUE}], CHOOSE x \in s : TRUE, TRUE)
    BY DEF Body
  <2> HIDE DEF h, F
  <2> QED BY <1>1, <2>1 DEF Folded
<1>3. PICK g : /\ g = [s \in SUBSET D |-> IF s = {} THEN b
                              ELSE DoCall(g[s \ {CHOOSE x \in s : TRUE}], CHOOSE x \in s : TRUE, TRUE)]
               /\ FoldSet(LAMBDA q, T : DoCall(T, q, TRUE), b, D) = g[D]
  BY <1>2 DEF FoldSet, MapThenFoldSet
<1>4. Folded("call", 0, b, D, F, h, g)
  <2>1. \A s \in SUBSET D : s # {} => Body("call", 0, F[h[s]], g[s \ {h[s]}])
                                        = DoCall(g[s \ {CHOOSE x \in s : TRUE}], CHOOSE x \in s : TRUE, TRUE)
    BY DEF Body
  <2> HIDE DEF h, F
  <2> QED BY <1>3, <2>1 DEF Folded
<1>5. \E n \in Nat : \E e \in [1 .. n -> D] :
              /\ \A x \in D : \E i \in 1 .. n : e[i] = x
              /\ Run1("call", 0, e, n, b, g[D])
  <2> HIDE DEF h
  <2> QED BY <1>0, <1>4, SetRuns
<1> QED BY <1>3, <1>5 DEF CallEach

\* Hanging up a conference hangs up its calls one by one.
LEMMA HangUpsRun ==
    ASSUME NEW b, NEW D, IsFiniteSet(D), NEW reason
    PROVE  \E n \in Nat : \E e \in [1 .. n -> D] :
              /\ \A x \in D : \E i \in 1 .. n : e[i] = x
              /\ Run1("hangup", reason, e, n, b, HangUpEach(b, D, reason))
<1> DEFINE F == [x \in D |-> x]
           h == [s \in SUBSET D |-> CHOOSE x \in s : TRUE]
<1>0. \A s \in SUBSET D : s # {} => h[s] \in s
  OBVIOUS
<1>1. PICK f : Folded("hangup", reason, b, D, F, h, f)
  <2> HIDE DEF h, F
  <2> QED BY <1>0, FoldExists
<1>2. f = [s \in SUBSET D |-> IF s = {} THEN b
                              ELSE HangUp(f[s \ {CHOOSE x \in s : TRUE}], reason, CHOOSE x \in s : TRUE)]
  <2>1. \A s \in SUBSET D : s # {} => Body("hangup", reason, F[h[s]], f[s \ {h[s]}])
                                        = HangUp(f[s \ {CHOOSE x \in s : TRUE}], reason, CHOOSE x \in s : TRUE)
    BY DEF Body
  <2> HIDE DEF h, F
  <2> QED BY <1>1, <2>1 DEF Folded
<1>3. PICK g : /\ g = [s \in SUBSET D |-> IF s = {} THEN b
                              ELSE HangUp(g[s \ {CHOOSE x \in s : TRUE}], reason, CHOOSE x \in s : TRUE)]
               /\ FoldSet(LAMBDA q, T : HangUp(T, reason, q), b, D) = g[D]
  BY <1>2 DEF FoldSet, MapThenFoldSet
<1>4. Folded("hangup", reason, b, D, F, h, g)
  <2>1. \A s \in SUBSET D : s # {} => Body("hangup", reason, F[h[s]], g[s \ {h[s]}])
                                        = HangUp(g[s \ {CHOOSE x \in s : TRUE}], reason, CHOOSE x \in s : TRUE)
    BY DEF Body
  <2> HIDE DEF h, F
  <2> QED BY <1>3, <2>1 DEF Folded
<1>5. \E n \in Nat : \E e \in [1 .. n -> D] :
              /\ \A x \in D : \E i \in 1 .. n : e[i] = x
              /\ Run1("hangup", reason, e, n, b, g[D])
  <2> HIDE DEF h
  <2> QED BY <1>0, <1>4, SetRuns
<1> QED BY <1>3, <1>5 DEF HangUpEach

\* The conference document goes to the connected calls one by one.
LEMMA SendsRun ==
    ASSUME NEW b, NEW D, IsFiniteSet(D), NEW m
    PROVE  \E n \in Nat : \E e \in [1 .. n -> D] :
              /\ \A x \in D : \E i \in 1 .. n : e[i] = x
              /\ Run1("send", m, e, n, b, SendEach(b, D, m))
<1> DEFINE F == [x \in D |-> x]
           h == [s \in SUBSET D |-> CHOOSE x \in s : TRUE]
<1>0. \A s \in SUBSET D : s # {} => h[s] \in s
  OBVIOUS
<1>1. PICK f : Folded("send", m, b, D, F, h, f)
  <2> HIDE DEF h, F
  <2> QED BY <1>0, FoldExists
<1>2. f = [s \in SUBSET D |-> IF s = {} THEN b
                              ELSE Send(f[s \ {CHOOSE x \in s : TRUE}], CHOOSE x \in s : TRUE, m)]
  <2>1. \A s \in SUBSET D : s # {} => Body("send", m, F[h[s]], f[s \ {h[s]}])
                                        = Send(f[s \ {CHOOSE x \in s : TRUE}], CHOOSE x \in s : TRUE, m)
    BY DEF Body
  <2> HIDE DEF h, F
  <2> QED BY <1>1, <2>1 DEF Folded
<1>3. PICK g : /\ g = [s \in SUBSET D |-> IF s = {} THEN b
                              ELSE Send(g[s \ {CHOOSE x \in s : TRUE}], CHOOSE x \in s : TRUE, m)]
               /\ FoldSet(LAMBDA q, T : Send(T, q, m), b, D) = g[D]
  BY <1>2 DEF FoldSet, MapThenFoldSet
<1>4. Folded("send", m, b, D, F, h, g)
  <2>1. \A s \in SUBSET D : s # {} => Body("send", m, F[h[s]], g[s \ {h[s]}])
                                        = Send(g[s \ {CHOOSE x \in s : TRUE}], CHOOSE x \in s : TRUE, m)
    BY DEF Body
  <2> HIDE DEF h, F
  <2> QED BY <1>3, <2>1 DEF Folded
<1>5. \E n \in Nat : \E e \in [1 .. n -> D] :
              /\ \A x \in D : \E i \in 1 .. n : e[i] = x
              /\ Run1("send", m, e, n, b, g[D])
  <2> HIDE DEF h
  <2> QED BY <1>0, <1>4, SetRuns
<1> QED BY <1>3, <1>5 DEF SendEach

(* What a browser's state is made of. *)
Ids    == Peer \cup {Nobody}
ConfId == {NoConf} \cup (Peer \X Nat)
Pc     == {"none", "stable", "local", "done"}
Ice    == {"new", "connected", "disconnected", "failed"}
Call   == [n : Nat \ {0}, out : BOOLEAN, auto : BOOLEAN, pc : Pc, far : Nat,
           needs : BOOLEAN, ice : Ice]
Line     == {"waiting", "ringing", "connecting", "connected", "waitforusermedia"}
Reason   == {"busy", "reject", "none", "abort", "failed", "error", "pickuptimeout",
             "ringertimeout", "receivedbye"}
Named    == {"ringing", "connecting", "waitforusermedia"}
CallRef  == [id : Peer, n : Nat \ {0}, out : BOOLEAN, auto : BOOLEAN]
Task     == [do : {"hangup"}, who : Peer] \cup [do : {"state"}, ice : Ice, who : Peer]
            \cup [do : {"done"}]
OfferDoc == [type : {"Offer"}, n : Nat, conf : ConfId]
Document == OfferDoc \cup [type : {"Answer"}, n : Nat] \cup [type : {"Bye"}, reason : Reason]
            \cup [type : {"Conference"}, id : ConfId, ids : SUBSET Peer]
Table    == [Peer -> {NoCall} \cup Call]
Camera   == {"off", "asking", "ready"}
Refs     == Seq(CallRef)
Waits    == [Peer -> Seq(OfferDoc)]
Tasks    == Seq(Task)
Timers   == Seq(Peer)
Posts    == Seq(Peer \X Document)
\* The types of the fields have names, so that a step may leave them unexpanded.
Fields ==
    [me : Peer, calls : Table, count : Nat, linked : SUBSET Peer, lost : SUBSET Peer,
     conf : ConfId, confs : Nat, media : Camera, pending : Refs, queues : Waits,
     tasks : Tasks, ghosts : SUBSET CallRef, status : Line, who : Ids, shown : Ids,
     isConf : BOOLEAN, pickup : Ids, pickups : Timers, dialer : BOOLEAN, ringer : BOOLEAN,
     ringers : Nat, n : Nat,
     acts : Nat, agreed : BOOLEAN, failed : BOOLEAN, slipped : BOOLEAN,
     offerless : SUBSET Peer, out : Posts]
\* The line says who calls, or who is called.
LineOK(st, q) == st \in Named => q \in Peer
Browser == {S \in Fields : LineOK(S.status, S.who)}

\* The count of the calls is the size of their table.
Counted(S)      == S.count = Cardinality(CallIds(S))
\* Who lost the connection has a call that was negotiated.
LostAnswered(S) == \A q \in S.lost : HasCall(S, q) /\ S.calls[q].far # 0
\* A call without a peer connection does not know the far call.
FreshFar(S)     == \A q \in CallIds(S) : S.calls[q].pc = "none" => S.calls[q].far = 0
\* Camera and conference follow from a click, or from a conference document of
\* one whose call merely rings (slipped).
Consent(S)      == S.media # "off" \/ S.conf # NoConf => S.agreed \/ S.slipped
\* Calls are numbered as they are made.
Numbered(S)     == \A q \in Peer : S.calls[q].n <= S.n
\* A reference kept while the camera starts is to this call or to an older one.
RefOK(S, c)     == c.n <= S.n /\ (S.calls[c.id].n = c.n => S.calls[c.id].out = c.out)
RefsOK(S, P)    == /\ P \subseteq CallRef
                   /\ \A i \in DOMAIN S.pending : RefOK(S, S.pending[i])
                   /\ \A c \in P : RefOK(S, c)
\* The camera is on for some call, or a negotiation failed.
CameraUsed(S)   == S.media # "off" => S.failed \/ CallIds(S) # {}
\* The pickup timer is for a call that came in and whose Offer waits: it has no
\* peer connection. X are exceptions.
PickupWaits(S, X) ==
    \A q \in (CallIds(S) \ S.offerless) \ X :
        S.pickup = q => S.calls[q].pc = "none" /\ ~S.calls[q].out /\ S.queues[q] # <<>>

\* P are references on their way to the calls that wait for the camera; a says
\* that the user has just agreed.
Base(S, P, a) ==
    /\ S \in Browser
    /\ Counted(S) /\ LostAnswered(S) /\ FreshFar(S) /\ Consent(S) /\ Numbered(S)
    /\ RefsOK(S, P) /\ (a => S.agreed \/ S.slipped)
GoodBut(S, P, a, X) == Base(S, P, a) /\ CameraUsed(S) /\ PickupWaits(S, X)
Good(S, P, a) == GoodBut(S, P, a, {})

-----------------------------------------------------------------------------
(* Steps that leave alone what the invariant reads. *)
Quiet(S, T) ==
    /\ T \in Browser
    /\ T.calls = S.calls /\ T.count = S.count /\ T.lost = S.lost /\ T.conf = S.conf
    /\ T.media = S.media /\ T.pending = S.pending /\ T.queues = S.queues
    /\ T.n = S.n /\ T.agreed = S.agreed /\ T.failed = S.failed
    /\ T.slipped = S.slipped /\ T.offerless = S.offerless /\ T.me = S.me

\* What a quiet step keeps, part by part.
LEMMA QuietKeeps ==
    ASSUME NEW S, NEW T, Quiet(S, T)
    PROVE  /\ CallIds(T) = CallIds(S)
           /\ \A P, a : Base(S, P, a) => Base(T, P, a)
           /\ CameraUsed(S) => CameraUsed(T)
           /\ T.pickup \in {S.pickup, Nobody} => \A X : PickupWaits(S, X) => PickupWaits(T, X)
<1>1. CallIds(T) = CallIds(S)
  BY DEF CallIds, HasCall, Quiet
<1>2. ASSUME NEW P, NEW a, Base(S, P, a) PROVE Base(T, P, a)
  <2>1. Counted(T)
    BY <1>1, <1>2 DEF Base, Counted, Quiet
  <2>2. LostAnswered(T) /\ FreshFar(T) /\ Consent(T) /\ Numbered(T)
    BY <1>1, <1>2 DEF Base, LostAnswered, FreshFar, Consent, Numbered, Quiet, HasCall
  <2>3. RefsOK(T, P)
    BY <1>2 DEF Base, RefsOK, RefOK, Quiet
  <2> QED BY <1>2, <2>1, <2>2, <2>3 DEF Base, Quiet
<1>3. CameraUsed(S) => CameraUsed(T)
  BY <1>1 DEF CameraUsed, Quiet
<1>4. ASSUME T.pickup \in {S.pickup, Nobody}, NEW X, PickupWaits(S, X) PROVE PickupWaits(T, X)
  <2> SUFFICES ASSUME NEW q \in (CallIds(T) \ T.offerless) \ X, T.pickup = q
               PROVE  T.calls[q].pc = "none" /\ ~T.calls[q].out /\ T.queues[q] # <<>>
    BY DEF PickupWaits
  <2>1. q # Nobody
    BY CallsAssumption DEF CallIds
  <2> QED BY <1>1, <1>4, <2>1 DEF PickupWaits, Quiet
<1> QED BY <1>1, <1>2, <1>3, <1>4

\* A quiet step that leaves the pickup timer or stops it keeps the invariant.
LEMMA QuietGood ==
    ASSUME NEW S, NEW T, Quiet(S, T), T.pickup \in {S.pickup, Nobody}
    PROVE  \A P, a, X : GoodBut(S, P, a, X) => GoodBut(T, P, a, X)
BY QuietKeeps DEF GoodBut

-----------------------------------------------------------------------------
(* The user interface. *)
LEMMA StatusQuiet ==
    ASSUME NEW S \in Browser, NEW st \in Line, NEW q \in Ids,
           LineOK(st, q)
    PROVE  Quiet(S, Status(S, st, q)) /\ Status(S, st, q).pickup = S.pickup
           /\ Status(S, st, q).linked = S.linked
<1> DEFINE r == (st = "connecting" /\ S.dialer)
           k == IF r /\ S.ringer THEN S.ringers + 1 ELSE S.ringers
           T == [S EXCEPT !.status = st, !.who = q, !.ringer = r, !.ringers = k]
<1>1. r \in BOOLEAN /\ k \in Nat
  BY DEF Browser, Fields
<1>2. Status(S, st, q) = T
  <2>1. S \in Fields
    BY DEF Browser
  <2> QED BY <2>1 DEF Status, Fields
<1> HIDE DEF r, k
<1>3. Quiet(S, T) /\ T.pickup = S.pickup /\ T.linked = S.linked
  <2>1. S \in Fields
    BY DEF Browser
  <2>2. T \in Fields /\ T.status = st /\ T.who = q /\ T.pickup = S.pickup /\ T.linked = S.linked
    BY <1>1, <2>1 DEF Fields
  <2>3. T \in Browser
    BY <2>2 DEF Browser
  <2> QED BY <2>1, <2>2, <2>3 DEF Quiet, Fields
<1> HIDE DEF T
<1> QED BY <1>2, <1>3

\* The peer named for a conference is one of its members.
LEMMA MinInPeer ==
    ASSUME NEW D \in SUBSET Peer, D # {}
    PROVE  Min(D) \in Peer
<1> DEFINE T == {j \in Nat : \A t \in SUBSET Peer :
                    (\E x \in t : x <= j) => \E x \in t : \A y \in t : x <= y}
<1>1. 0 \in T
  BY CallsAssumption
<1>2. ASSUME NEW j \in T PROVE j + 1 \in T
  <2> SUFFICES ASSUME NEW t \in SUBSET Peer, NEW x \in t, x <= j + 1
               PROVE  \E z \in t : \A y \in t : z <= y
    BY <1>2
  <2>1. CASE \E y \in t : y <= j
    BY <1>2, <2>1
  <2>2. CASE ~\E y \in t : y <= j
    <3>1. \A y \in t : y \in Nat /\ y >= j + 1
      BY <1>2, <2>2, CallsAssumption
    <3> QED BY <3>1
  <2> QED BY <2>1, <2>2
<1>3. T = Nat
  <2>1. T \subseteq Nat
    OBVIOUS
  <2> HIDE DEF T
  <2> QED BY <1>1, <1>2, <2>1, NatSetInduction
<1>4. PICK x \in D : TRUE
  OBVIOUS
<1>5. x \in Nat /\ x \in T
  BY <1>3, CallsAssumption
<1>6. \E z \in D : \A y \in D : z <= y
  BY <1>5
<1> QED BY <1>6 DEF Min

\* Showing that a call is connected is quiet.
LEMMA ConnectedQuiet ==
    ASSUME NEW S \in Browser
    PROVE  Quiet(S, Connected(S)) /\ Connected(S).pickup = S.pickup
           /\ Connected(S).linked = S.linked
<1> DEFINE ids == CallIds(S)
           peerShown == IF ~S.isConf \/ S.shown \in ids THEN S.shown
                     ELSE IF ids = {} THEN Nobody ELSE Min(ids)
           T == [S EXCEPT !.shown = peerShown]
<1>1. peerShown \in Ids
  <2>1. ids \in SUBSET Peer /\ S.shown \in Ids
    BY DEF CallIds, Browser, Fields
  <2> HIDE DEF ids
  <2> QED BY <2>1, MinInPeer DEF Ids
<1> HIDE DEF peerShown
<1>2. T \in Browser /\ Quiet(S, T) /\ T.pickup = S.pickup /\ T.linked = S.linked
  BY <1>1 DEF Browser, Fields, Quiet
<1>3. Connected(S) = IF peerShown = Nobody THEN T ELSE Status(T, "connected", Nobody)
  BY DEF Connected, peerShown
<1>4. Quiet(T, Status(T, "connected", Nobody)) /\ Status(T, "connected", Nobody).pickup = T.pickup
      /\ Status(T, "connected", Nobody).linked = T.linked
  <2>1. Nobody \in Ids
    BY DEF Ids
  <2>2. "connected" \in Line /\ LineOK("connected", Nobody)
    BY DEF Line, Named, LineOK
  <2> HIDE DEF T
  <2> QED BY <1>2, <2>1, <2>2, StatusQuiet
<1> HIDE DEF T
<1> QED BY <1>2, <1>3, <1>4 DEF Quiet

\* Showing a call stops the pickup timer and is quiet otherwise.
LEMMA ShowCallQuiet ==
    ASSUME NEW S \in Browser, NEW q \in Peer, NEW call, call.out \in BOOLEAN
    PROVE  Quiet(S, ShowCall(S, q, call)) /\ ShowCall(S, q, call).pickup = Nobody
<1> DEFINE d == ~call.out
           T == [S EXCEPT !.pickup = Nobody, !.dialer = d, !.shown = q]
<1>0. d \in BOOLEAN /\ q \in Ids /\ Nobody \in Ids
  BY DEF Ids
<1> HIDE DEF d
<1>1. T \in Browser /\ Quiet(S, T) /\ T.pickup = Nobody
  <2>1. S \in Fields
    BY DEF Browser
  <2>2. T \in Fields /\ T.status = S.status /\ T.who = S.who
    BY <1>0, <2>1 DEF Fields
  <2>3. T \in Browser
    BY <2>2 DEF Browser
  <2> QED BY <2>1, <2>3 DEF Quiet, Fields
<1> HIDE DEF T
<1>2. Quiet(T, Connected(T)) /\ Connected(T).pickup = T.pickup
  BY <1>1, ConnectedQuiet
<1>3. ShowCall(S, q, call) = Connected(T)
  BY DEF ShowCall, T, d
<1> QED BY <1>1, <1>2, <1>3 DEF Quiet

\* Showing a conference is quiet.
LEMMA ShowConferenceQuiet ==
    ASSUME NEW S \in Browser, NEW b \in BOOLEAN
    PROVE  Quiet(S, ShowConference(S, b)) /\ ShowConference(S, b).pickup = S.pickup
<1> DEFINE T == [S EXCEPT !.isConf = b]
<1>1. T \in Browser /\ Quiet(S, T) /\ T.pickup = S.pickup
  <2>1. S \in Fields
    BY DEF Browser
  <2>2. T \in Fields /\ T.status = S.status /\ T.who = S.who
    BY <2>1 DEF Fields
  <2>3. T \in Browser
    BY <2>2 DEF Browser
  <2> QED BY <2>1, <2>3 DEF Quiet, Fields
<1> HIDE DEF T
<1>2. Quiet(T, Connected(T)) /\ Connected(T).pickup = T.pickup
  BY <1>1, ConnectedQuiet
<1>3. ShowConference(S, b) = Connected(T)
  BY DEF ShowConference, T
<1> QED BY <1>1, <1>2, <1>3 DEF Quiet

\* Sending a document is quiet.
LEMMA SendQuiet ==
    ASSUME NEW S \in Browser, NEW q \in Peer, NEW m \in Document
    PROVE  Quiet(S, Send(S, q, m)) /\ Send(S, q, m).pickup = S.pickup
           /\ Send(S, q, m).linked = S.linked
<1> DEFINE o == Append(S.out, <<q, m>>)
           T == [S EXCEPT !.out = o]
<1>1. o \in Seq(Peer \X Document)
  <2>1. S.out \in Seq(Peer \X Document) /\ <<q, m>> \in Peer \X Document
    BY DEF Browser, Fields, Posts
  <2> QED BY <2>1
<1> HIDE DEF o
<1>2. Quiet(S, T) /\ T.pickup = S.pickup /\ T.linked = S.linked
  BY <1>1 DEF Quiet, Browser, Fields, Posts
<1> QED BY <1>2 DEF Send, o

(* What is called a call. *)
LEMMA CallTypes ==
    ASSUME NEW S \in Browser
    PROVE  /\ CallIds(S) \subseteq Peer /\ IsFiniteSet(CallIds(S))
           /\ Cardinality(CallIds(S)) \in Nat
           /\ \A q \in Peer : /\ S.calls[q] \in {NoCall} \cup Call
                              /\ HasCall(S, q) => S.calls[q] \in Call
                              /\ HasCall(S, q) <=> q \in CallIds(S)
                              /\ S.calls[q].n \in Nat
                              /\ ~HasCall(S, q) => S.calls[q].n = 0
<1>1. CallIds(S) \subseteq Peer
  BY DEF CallIds
<1>2. IsFiniteSet(CallIds(S))
  BY <1>1, FS_Subset, CallsAssumption
<1>3. Cardinality(CallIds(S)) \in Nat
  BY <1>2, FS_CardinalityType
<1>4. ASSUME NEW q \in Peer
      PROVE  /\ S.calls[q] \in {NoCall} \cup Call
             /\ HasCall(S, q) => S.calls[q] \in Call
             /\ HasCall(S, q) <=> q \in CallIds(S)
             /\ S.calls[q].n \in Nat
             /\ ~HasCall(S, q) => S.calls[q].n = 0
  <2>1. S.calls[q] \in {NoCall} \cup Call
    BY DEF Browser, Fields, Table
  <2>2. HasCall(S, q) => S.calls[q] \in Call
    BY <2>1 DEF HasCall
  <2>3. HasCall(S, q) <=> q \in CallIds(S)
    BY DEF CallIds
  <2>4. NoCall.n = 0
    BY DEF NoCall
  <2>5. S.calls[q].n \in Nat
    BY <2>1, <2>4 DEF Call
  <2>6. ~HasCall(S, q) => S.calls[q].n = 0
    BY <2>4 DEF HasCall
  <2> QED BY <2>1, <2>2, <2>3, <2>5, <2>6
<1> QED BY <1>1, <1>2, <1>3, <1>4

(* The wider the exceptions, the weaker. *)
LEMMA Weaker ==
    ASSUME NEW S, NEW P, NEW a, NEW X, NEW Y, X \subseteq Y, GoodBut(S, P, a, X)
    PROVE  GoodBut(S, P, a, Y)
BY DEF GoodBut, PickupWaits

\* Nor is what holds of all calls lost for all but one.
LEMMA WeakerFor ==
    ASSUME NEW S, NEW P, NEW a, NEW q, Good(S, P, a)
    PROVE  GoodBut(S, P, a, {q})
BY Weaker DEF Good
\* The user did not just agree: the weaker statement.
LEMMA WeakerFlag ==
    ASSUME NEW S, NEW P, NEW a, NEW X, GoodBut(S, P, a, X)
    PROVE  GoodBut(S, P, FALSE, X)
BY DEF GoodBut, Base

-----------------------------------------------------------------------------
(* The table of calls. *)
\* What the table of calls leaves alone.
Rest(S, T) ==
    /\ T.media = S.media /\ T.failed = S.failed /\ T.offerless = S.offerless
    /\ T.queues = S.queues /\ T.conf = S.conf /\ T.agreed = S.agreed
    /\ T.slipped = S.slipped /\ T.pending = S.pending /\ T.pickup = S.pickup
    /\ T.me = S.me

\* A call that is removed takes its entries in the other tables along.
LEMMA RemoveCallKeeps ==
    ASSUME NEW S, NEW P, NEW a, Base(S, P, a), NEW q \in Peer
    PROVE  /\ Base(RemoveCall(S, q), P, a)
           /\ CallIds(RemoveCall(S, q)) = CallIds(S) \ {q}
           /\ Rest(S, RemoveCall(S, q))
           /\ RemoveCall(S, q).n = S.n
           /\ q \notin RemoveCall(S, q).lost
           /\ \A r \in Peer \ {q} : RemoveCall(S, q).calls[r] = S.calls[r]
           /\ RemoveCall(S, q).calls[q] = NoCall
<1> DEFINE cs == [S.calls EXCEPT ![q] = NoCall]
           k == S.count - 1
           li == S.linked \ {q}
           lo == S.lost \ {q}
           T == [S EXCEPT !.calls = cs, !.count = k, !.linked = li, !.lost = lo]
<1>0. S \in Browser /\ Counted(S)
  BY DEF Base
<1>a. CASE ~HasCall(S, q)
  <2>1. RemoveCall(S, q) = S
    BY <1>a DEF RemoveCall
  <2>2. CallIds(S) = CallIds(S) \ {q}
    BY <1>a DEF CallIds
  <2>3. q \notin S.lost
    BY <1>a DEF Base, LostAnswered
  <2>4. S.calls[q] = NoCall
    BY <1>a DEF HasCall
  <2> QED BY <2>1, <2>2, <2>3, <2>4 DEF Rest
<1>b. CASE HasCall(S, q)
  <2>0. S.calls \in [Peer -> {NoCall} \cup Call]
    BY <1>0 DEF Browser, Fields, Table
  <2>1. cs \in [Peer -> {NoCall} \cup Call] /\ cs[q] = NoCall
        /\ \A r \in Peer \ {q} : cs[r] = S.calls[r]
    BY <2>0
  <2>2. k = Cardinality(CallIds(S) \ {q}) /\ k \in Nat
    <3>1. q \in CallIds(S) /\ IsFiniteSet(CallIds(S))
      BY <1>0, <1>b, CallTypes
    <3>2. Cardinality(CallIds(S) \ {q}) = Cardinality(CallIds(S)) - 1
      BY <3>1, FS_RemoveElement
    <3>3. IsFiniteSet(CallIds(S) \ {q})
      BY <3>1, FS_RemoveElement
    <3>4. Cardinality(CallIds(S) \ {q}) \in Nat
      BY <3>3, FS_CardinalityType
    <3> QED BY <1>0, <3>2, <3>4 DEF Counted
  <2>3. li \in SUBSET Peer /\ lo \in SUBSET Peer
    BY <1>0 DEF Browser, Fields
  <2>4. RemoveCall(S, q) = T
    <3>1. RemoveCall(S, q) = [S EXCEPT !.calls[q] = NoCall, !.count = @ - 1,
                                     !.linked = @ \ {q}, !.lost = @ \ {q}]
      BY <1>b DEF RemoveCall
    <3> QED BY <1>0, <3>1 DEF Browser, Fields
  <2> HIDE DEF cs, k, li
  <2>5. T \in Browser /\ T.calls = cs /\ T.count = k /\ T.lost = lo /\ Rest(S, T) /\ T.n = S.n
    <3>1. S \in Fields
      BY <1>0 DEF Browser
    <3>2. T \in Fields /\ T.status = S.status /\ T.who = S.who
      <4>1. cs \in Table /\ k \in Nat
        BY <2>1, <2>2 DEF Table
      <4> HIDE DEF lo
      <4> QED BY <2>3, <3>1, <4>1 DEF Fields
    <3>3. T \in Browser
      BY <1>0, <3>2 DEF Browser
    <3> QED BY <3>1, <3>3 DEF Rest, Fields
  <2> HIDE DEF T
  <2>6. CallIds(T) = CallIds(S) \ {q}
    BY <2>1, <2>5 DEF CallIds, HasCall
  <2>7. Counted(T)
    BY <2>2, <2>5, <2>6 DEF Counted
  <2>8. LostAnswered(T)
    BY <2>1, <2>3, <2>5 DEF Base, LostAnswered, HasCall
  <2>9. FreshFar(T)
    BY <2>1, <2>5, <2>6 DEF Base, FreshFar, CallIds
  <2>10. Consent(T) /\ (a => T.agreed \/ T.slipped)
    BY <2>5 DEF Base, Consent, Rest
  <2>11. NoCall.n = 0 /\ S.n \in Nat
    BY <1>0 DEF NoCall, Browser, Fields
  <2>12. Numbered(T)
    BY <2>1, <2>5, <2>11 DEF Base, Numbered
  <2>13. ASSUME NEW c \in CallRef, RefOK(S, c) PROVE RefOK(T, c)
    <3>1. c.id \in Peer /\ c.n \in Nat \ {0}
      BY DEF CallRef
    <3>2. CASE c.id = q
      BY <2>1, <2>5, <2>11, <2>13, <3>1, <3>2 DEF RefOK
    <3>3. CASE c.id # q
      BY <2>1, <2>5, <2>13, <3>1, <3>3 DEF RefOK
    <3> QED BY <3>2, <3>3
  <2>14. RefsOK(T, P)
    <3>1. S.pending \in Seq(CallRef)
      BY <1>0 DEF Browser, Fields, Refs
    <3>2. \A i \in DOMAIN S.pending : S.pending[i] \in CallRef
      BY <3>1
    <3> QED BY <2>5, <2>13, <3>2 DEF Base, RefsOK, Rest
  <2>15. Base(T, P, a)
    BY <2>5, <2>7, <2>8, <2>9, <2>10, <2>12, <2>14 DEF Base
  <2> QED BY <2>1, <2>4, <2>5, <2>6, <2>15
<1> QED BY <1>a, <1>b

(* The reference of a call. *)
RefOf(q, call) == [id |-> q, n |-> call.n, out |-> call.out, auto |-> call.auto]

\* A call that is added is the newest one; its reference is in order.
LEMMA AddKeeps ==
    ASSUME NEW S, NEW P, NEW a, Base(S, P, a), NEW q \in Peer,
           NEW call \in Call, call.n = S.n + 1, call.far = 0
    PROVE  /\ Base(Add(S, q, call), P \cup {RefOf(q, call)}, a)
           /\ CallIds(Add(S, q, call)) = CallIds(S) \cup {q}
           /\ Add(S, q, call).media = S.media /\ Add(S, q, call).failed = S.failed
           /\ Add(S, q, call).offerless = S.offerless \ {q}
           /\ Add(S, q, call).queues = S.queues /\ Add(S, q, call).conf = S.conf
           /\ Add(S, q, call).pickup = S.pickup
           /\ \A r \in Peer \ {q} : Add(S, q, call).calls[r] = S.calls[r]
           /\ Add(S, q, call).calls[q] = call
<1> DEFINE R == RemoveCall(S, q)
           cs == [R.calls EXCEPT ![q] = call]
           k == R.count + 1
           ol == R.offerless \ {q}
           m == call.n
           T == [R EXCEPT !.calls = cs, !.count = k, !.n = m, !.offerless = ol]
<1>1. Base(R, P, a) /\ CallIds(R) = CallIds(S) \ {q} /\ Rest(S, R) /\ R.n = S.n
      /\ q \notin R.lost
      /\ (\A r \in Peer \ {q} : R.calls[r] = S.calls[r]) /\ R.calls[q] = NoCall
  BY RemoveCallKeeps
<1>2. Add(S, q, call) = [R EXCEPT !.calls[q] = call, !.count = @ + 1, !.n = call.n,
                                !.offerless = @ \ {q}]
  BY DEF Add
<1> HIDE DEF R
<1>3. R \in Browser
  BY <1>1 DEF Base
<1>4. Add(S, q, call) = T
  BY <1>2, <1>3 DEF Browser, Fields
<1>5. R.calls \in [Peer -> {NoCall} \cup Call]
  BY <1>3 DEF Browser, Fields, Table
<1>6. cs \in [Peer -> {NoCall} \cup Call] /\ cs[q] = call
      /\ \A r \in Peer \ {q} : cs[r] = R.calls[r]
  BY <1>5
<1>7. k \in Nat /\ ol \in SUBSET Peer /\ m \in Nat \ {0} /\ R.n \in Nat
  BY <1>3 DEF Browser, Fields, Call
<1>8. k = Cardinality(CallIds(R) \cup {q})
  <2>1. IsFiniteSet(CallIds(R)) /\ q \notin CallIds(R)
    BY <1>1, <1>3, CallTypes
  <2>2. Cardinality(CallIds(R) \cup {q}) = Cardinality(CallIds(R)) + 1
    BY <2>1, FS_AddElement
  <2> QED BY <1>1, <2>2 DEF Base, Counted
<1> HIDE DEF cs, k, m
<1>9. T \in Browser /\ T.calls = cs /\ T.count = k /\ T.lost = R.lost /\ T.n = m
      /\ T.offerless = ol /\ T.pending = R.pending /\ T.media = R.media /\ T.conf = R.conf
      /\ T.agreed = R.agreed /\ T.slipped = R.slipped /\ T.failed = R.failed
      /\ T.queues = R.queues /\ T.pickup = R.pickup
  BY <1>3, <1>6, <1>7 DEF Browser, Fields, Table
<1> HIDE DEF T
<1>10. call # NoCall
  BY DEF Call, NoCall
<1>11. CallIds(T) = CallIds(R) \cup {q}
  BY <1>6, <1>9, <1>10 DEF CallIds, HasCall
<1>12. Counted(T)
  BY <1>8, <1>9, <1>11 DEF Counted
<1>13. LostAnswered(T)
  <2>1. R.lost \subseteq Peer
    BY <1>3 DEF Browser, Fields
  <2>2. \A r \in R.lost : T.calls[r] = R.calls[r]
    BY <1>1, <1>6, <1>9, <2>1
  <2> QED BY <1>1, <1>9, <2>2 DEF Base, LostAnswered, HasCall
<1>14. FreshFar(T)
  BY <1>1, <1>6, <1>9, <1>11 DEF Base, FreshFar, CallIds
<1>15. Consent(T) /\ (a => T.agreed \/ T.slipped)
  BY <1>1, <1>9 DEF Base, Consent
<1>16. m = R.n + 1
  BY <1>1 DEF m
<1>17. Numbered(T)
  <2>1. \A r \in Peer : R.calls[r].n \in Nat /\ R.calls[r].n <= R.n
    BY <1>1, <1>3, CallTypes DEF Base, Numbered
  <2> QED BY <1>6, <1>7, <1>9, <1>16, <2>1 DEF Numbered, m
<1>18. ASSUME NEW c \in CallRef, RefOK(R, c) PROVE RefOK(T, c)
  <2>1. c.id \in Peer /\ c.n \in Nat \ {0}
    BY DEF CallRef
  <2>2. CASE c.id = q
    BY <1>6, <1>7, <1>9, <1>16, <1>18, <2>1, <2>2 DEF RefOK, m
  <2>3. CASE c.id # q
    BY <1>6, <1>7, <1>9, <1>16, <1>18, <2>1, <2>3 DEF RefOK
  <2> QED BY <2>2, <2>3
<1>19. RefOf(q, call) \in CallRef
  BY DEF RefOf, CallRef, Call
<1>20. RefOK(T, RefOf(q, call))
  BY <1>6, <1>7, <1>9 DEF RefOK, RefOf, m
<1>21. RefsOK(T, P \cup {RefOf(q, call)})
  <2>1. R.pending \in Seq(CallRef)
    BY <1>3 DEF Browser, Fields, Refs
  <2>2. \A i \in DOMAIN R.pending : R.pending[i] \in CallRef
    BY <2>1
  <2> QED BY <1>1, <1>9, <1>18, <1>19, <1>20, <2>2 DEF Base, RefsOK
<1>22. Base(T, P \cup {RefOf(q, call)}, a)
  BY <1>9, <1>12, <1>13, <1>14, <1>15, <1>17, <1>21 DEF Base
<1> QED BY <1>1, <1>4, <1>6, <1>9, <1>11, <1>22 DEF Rest

(* A loop keeps what each of its rounds keeps: J[i] are the states after i rounds. *)
LEMMA LoopKeeps ==
    ASSUME NEW k, NEW a, NEW e, NEW n \in Nat, NEW b, NEW z, Run1(k, a, e, n, b, z),
           NEW J, b \in J[0], \A i \in 1 .. n : \A T \in J[i - 1] : Body(k, a, e[i], T) \in J[i]
    PROVE  z \in J[n]
<1>1. PICK r : r[0] = b /\ r[n] = z /\ \A i \in 1 .. n : r[i] = Body(k, a, e[i], r[i - 1])
  BY DEF Run1
<1> DEFINE T == {i \in Nat : i <= n => r[i] \in J[i]}
<1>2. 0 \in T
  BY <1>1
<1>3. ASSUME NEW i \in T PROVE i + 1 \in T
  <2>1. SUFFICES ASSUME i + 1 <= n PROVE r[i + 1] \in J[i + 1]
    OBVIOUS
  <2>2. i \in Nat /\ i + 1 \in 1 .. n /\ (i + 1) - 1 = i /\ i <= n
    BY <2>1
  <2>3. r[i] \in J[i]
    BY <2>2
  <2>4. r[i + 1] = Body(k, a, e[i + 1], r[i])
    BY <1>1, <2>2
  <2>5. \A S \in J[(i + 1) - 1] : Body(k, a, e[i + 1], S) \in J[i + 1]
    BY <2>2
  <2> QED BY <2>2, <2>3, <2>4, <2>5
<1>4. T = Nat
  <2>1. T \subseteq Nat
    OBVIOUS
  <2> HIDE DEF T
  <2> QED BY <1>2, <1>3, <2>1, NatSetInduction
<1> QED BY <1>1, <1>4

\* A loop whose rounds keep a set of states stays in it.
LEMMA LoopStays ==
    ASSUME NEW k, NEW a, NEW e, NEW n \in Nat, NEW b, NEW z, Run1(k, a, e, n, b, z),
           NEW G, b \in G, \A i \in 1 .. n : \A T \in G : Body(k, a, e[i], T) \in G
    PROVE  z \in G
<1> DEFINE J == [i \in Nat |-> G]
<1>1. J[0] = G /\ J[n] = G /\ \A i \in 1 .. n : J[i - 1] = G /\ J[i] = G
  OBVIOUS
<1> HIDE DEF J
<1>2. b \in J[0] /\ \A i \in 1 .. n : \A T \in J[i - 1] : Body(k, a, e[i], T) \in J[i]
  BY <1>1
<1>3. z \in J[n]
  BY <1>2, LoopKeeps
<1> QED BY <1>1, <1>3

-----------------------------------------------------------------------------
(* The conference id. *)
LEMMA GetOrCreateIdKeeps ==
    ASSUME NEW S, NEW P, NEW a, NEW X, GoodBut(S, P, a, X)
    PROVE  /\ GoodBut(GetOrCreateId(S), P, a, X)
           /\ GetOrCreateId(S).calls = S.calls /\ GetOrCreateId(S).lost = S.lost
           /\ GetOrCreateId(S).linked = S.linked /\ GetOrCreateId(S).n = S.n
           /\ GetOrCreateId(S).offerless = S.offerless /\ GetOrCreateId(S).me = S.me
           /\ GetOrCreateId(S).pickup = S.pickup /\ GetOrCreateId(S).queues = S.queues
<1>0. S \in Browser
  BY DEF GoodBut, Base
<1>1. CASE S.conf # NoConf
  BY <1>1 DEF GetOrCreateId
<1>2. CASE S.conf = NoConf
  <2> DEFINE k == S.confs + 1
             i == <<S.me, S.confs + 1>>
             s == (S.slipped \/ ~S.agreed)
             T == [S EXCEPT !.confs = k, !.conf = i, !.slipped = s]
  <2>1. k \in Nat /\ i \in ConfId
    BY <1>0 DEF Browser, Fields, ConfId
  <2>2. s \in BOOLEAN /\ (S.agreed \/ s) /\ (S.slipped => s)
    BY <1>0 DEF Browser, Fields
  <2>3. GetOrCreateId(S) = T
    BY <1>0, <1>2 DEF GetOrCreateId, Browser, Fields
  <2> HIDE DEF k, i, s
  <2>4. /\ T \in Browser /\ T.calls = S.calls /\ T.count = S.count /\ T.lost = S.lost
        /\ T.media = S.media /\ T.pending = S.pending /\ T.queues = S.queues
        /\ T.n = S.n /\ T.agreed = S.agreed /\ T.failed = S.failed
        /\ T.slipped = s /\ T.offerless = S.offerless /\ T.pickup = S.pickup
        /\ T.linked = S.linked /\ T.me = S.me
    <3>1. S \in Fields
      BY <1>0 DEF Browser
    <3>2. T \in Fields /\ T.status = S.status /\ T.who = S.who
      BY <2>1, <2>2, <3>1 DEF Fields
    <3>3. T \in Browser
      BY <1>0, <3>2 DEF Browser
    <3> QED BY <3>1, <3>3 DEF Fields
  <2> HIDE DEF T
  <2>5. CallIds(T) = CallIds(S)
    BY <2>4 DEF CallIds, HasCall
  <2>6. Counted(T) /\ LostAnswered(T) /\ FreshFar(T) /\ Numbered(T)
    BY <2>4, <2>5 DEF GoodBut, Base, Counted, LostAnswered, FreshFar, Numbered, HasCall
  <2>7. RefsOK(T, P)
    BY <2>4 DEF GoodBut, Base, RefsOK, RefOK
  <2>8. Consent(T) /\ (a => T.agreed \/ T.slipped)
    BY <2>2, <2>4 DEF Consent
  <2>9. CameraUsed(T)
    BY <2>4, <2>5 DEF GoodBut, CameraUsed
  <2>10. PickupWaits(T, X)
    BY <2>4, <2>5 DEF GoodBut, PickupWaits
  <2>11. Base(T, P, a)
    BY <2>4, <2>6, <2>7, <2>8 DEF Base
  <2>12. GoodBut(T, P, a, X)
    BY <2>9, <2>10, <2>11 DEF GoodBut
  <2> QED BY <2>3, <2>4, <2>12
<1> QED BY <1>1, <1>2

\* The conference document that a change of the calls sends.
LEMMA PushUpdateKeeps ==
    ASSUME NEW S, NEW P, NEW a, NEW X, GoodBut(S, P, a, X)
    PROVE  GoodBut(PushUpdate(S), P, a, X)
<1> DEFINE T == GetOrCreateId(S)
           m == Conference(T.conf, S.linked \cup {S.me})
<1>0. S \in Browser
  BY DEF GoodBut, Base
<1>1. GoodBut(T, P, a, X)
  BY GetOrCreateIdKeeps
<1>2. CASE ~(Cardinality(S.linked) > 1)
  BY <1>2 DEF PushUpdate
<1>3. CASE Cardinality(S.linked) > 1
  <2>1. S.linked \subseteq Peer /\ S.me \in Peer
    BY <1>0 DEF Browser, Fields
  <2>2. IsFiniteSet(S.linked)
    BY <2>1, FS_Subset, CallsAssumption
  <2>3. m \in Document
    <3>1. T.conf \in ConfId
      BY <1>1 DEF GoodBut, Base, Browser, Fields
    <3> HIDE DEF T
    <3> QED BY <2>1, <3>1 DEF Conference, Document
  <2> HIDE DEF T, m
  <2> DEFINE z == SendEach(T, S.linked, m)
             G == {U \in Browser : GoodBut(U, P, a, X)}
  <2>3a. PICK n \in Nat : \E e \in [1 .. n -> S.linked] :
            /\ \A x \in S.linked : \E i \in 1 .. n : e[i] = x
            /\ Run1("send", m, e, n, T, z)
    BY <2>2, SendsRun
  <2>4. PICK e \in [1 .. n -> S.linked] : Run1("send", m, e, n, T, z)
    <3> HIDE DEF z
    <3> QED BY <2>3a
  <2>5. PushUpdate(S) = z
    BY <1>3 DEF PushUpdate, SendEach, T, m
  <2>6. T \in G
    BY <1>1 DEF GoodBut, Base
  <2>7. ASSUME NEW i \in 1 .. n, NEW U \in G PROVE Body("send", m, e[i], U) \in G
    <3>1. e[i] \in Peer
      BY <2>1
    <3> DEFINE V == Send(U, e[i], m)
    <3>2. Quiet(U, V) /\ V.pickup = U.pickup
      <4> HIDE DEF V
      <4> QED BY <3>1, <2>3, SendQuiet DEF V
    <3>3. GoodBut(V, P, a, X)
      <4> HIDE DEF V
      <4> QED BY <3>2, QuietGood
    <3>4. Body("send", m, e[i], U) = V
      BY DEF Body
    <3>5. V \in Browser
      <4> HIDE DEF V
      <4> QED BY <3>3 DEF GoodBut, Base
    <3> HIDE DEF V
    <3> QED BY <3>3, <3>4, <3>5
  <2> HIDE DEF z, G
  <2>10. z \in G
    BY <2>4, <2>6, <2>7, LoopStays
  <2> QED BY <2>5, <2>10 DEF G
<1> QED BY <1>2, <1>3

(* Hanging up. *)
LEMMA StopGood ==
    ASSUME NEW S, NEW P, NEW a, Base(S, P, a), CallIds(S) = {}
    PROVE  Good(Stop(S), P, FALSE) /\ CallIds(Stop(S)) = {}
<1> DEFINE qs == [q \in Peer |-> <<>>]
           T == [S EXCEPT !.linked = {}, !.count = 0, !.conf = NoConf,
                          !.media = "off", !.queues = qs,
                          !.agreed = FALSE, !.failed = FALSE,
                          !.slipped = FALSE, !.offerless = {}]
           U == [T EXCEPT !.pickup = Nobody, !.dialer = FALSE, !.shown = Nobody, !.isConf = FALSE]
<1>0. S \in Browser
  BY DEF Base
<1>1. qs \in [Peer -> Seq(OfferDoc)]
  <2>1. <<>> \in Seq(OfferDoc)
    OBVIOUS
  <2> QED BY <2>1
<1>2. Stop(S) = Status(U, "waiting", Nobody)
  BY DEF Stop, ShowNoCall
<1> HIDE DEF qs
<1>3. NoConf \in ConfId
  BY DEF ConfId
<1>4. /\ T \in Browser /\ T.calls = S.calls /\ T.count = 0 /\ T.lost = S.lost /\ T.conf = NoConf
      /\ T.media = "off" /\ T.pending = S.pending /\ T.n = S.n
  <2>1. S \in Fields
    BY <1>0 DEF Browser
  <2>2. T \in Fields /\ T.status = S.status /\ T.who = S.who
    <3>1. qs \in Waits /\ "off" \in Camera /\ {} \in SUBSET Peer
      BY <1>1 DEF Waits, Camera
    <3> QED BY <1>3, <2>1, <3>1 DEF Fields
  <2>3. T \in Browser
    BY <1>0, <2>2 DEF Browser
  <2>4. T.calls = S.calls /\ T.lost = S.lost /\ T.pending = S.pending /\ T.n = S.n
    BY <2>1 DEF Fields
  <2>5. T.count = 0 /\ T.conf = NoConf /\ T.media = "off"
    BY <2>1 DEF Fields
  <2> QED BY <2>3, <2>4, <2>5
<1> HIDE DEF T
<1>5. U \in Browser /\ Quiet(T, U) /\ U.pickup = Nobody
  <2>1. T \in Fields
    BY <1>4 DEF Browser
  <2>2. U \in Fields /\ U.status = T.status /\ U.who = T.who /\ U.pickup = Nobody
    BY <2>1 DEF Fields, Ids
  <2>3. U \in Browser
    BY <1>4, <2>2 DEF Browser
  <2> QED BY <2>1, <2>2, <2>3 DEF Quiet, Fields
<1> HIDE DEF U
<1>6. CallIds(T) = {}
  BY <1>4 DEF CallIds, HasCall
<1>7. Base(T, P, FALSE)
  <2>1. Counted(T)
    BY <1>4, <1>6, FS_EmptySet DEF Counted
  <2>2. LostAnswered(T) /\ Numbered(T)
    BY <1>4 DEF Base, LostAnswered, Numbered, HasCall
  <2>3. FreshFar(T) /\ Consent(T)
    BY <1>4, <1>6 DEF FreshFar, Consent
  <2>4. RefsOK(T, P)
    BY <1>4 DEF Base, RefsOK, RefOK
  <2> QED BY <1>4, <2>1, <2>2, <2>3, <2>4 DEF Base
<1>8. CallIds(U) = {} /\ Base(U, P, FALSE)
  BY <1>5, <1>6, <1>7, QuietKeeps
<1>9. Good(U, P, FALSE)
  BY <1>4, <1>5, <1>8 DEF Good, GoodBut, CameraUsed, PickupWaits, Quiet
<1>10. Quiet(U, Status(U, "waiting", Nobody)) /\ Status(U, "waiting", Nobody).pickup = U.pickup
  <2>1. "waiting" \in Line /\ LineOK("waiting", Nobody) /\ Nobody \in Ids
    BY DEF Line, Named, LineOK, Ids
  <2> QED BY <1>5, <2>1, StatusQuiet
<1> QED BY <1>2, <1>8, <1>9, <1>10, QuietGood, QuietKeeps DEF Good

\* A Bye is a document.
LEMMA ByeIsDocument ==
    ASSUME NEW reason \in Reason
    PROVE  Bye(reason) \in Document
BY DEF Bye, Document

\* "done" is deferred.
Ended(S) == [S EXCEPT !.tasks = Append(@, [do |-> "done"])]
LEMMA EndedQuiet ==
    ASSUME NEW S \in Browser
    PROVE  Quiet(S, Ended(S)) /\ Ended(S).pickup = S.pickup
<1> DEFINE ts == Append(S.tasks, [do |-> "done"])
           T == [S EXCEPT !.tasks = ts]
<1>1. S \in Fields /\ LineOK(S.status, S.who)
  BY DEF Browser
<1>2. Ended(S) = T
  BY <1>1 DEF Ended, Fields
<1>3. ts \in Tasks
  <2>1. [do |-> "done"] \in Task
    BY DEF Task
  <2>2. S.tasks \in Seq(Task)
    BY <1>1 DEF Fields, Tasks
  <2> QED BY <2>1, <2>2 DEF Tasks
<1> HIDE DEF ts
<1>4. T \in Fields /\ T.status = S.status /\ T.who = S.who /\ T.pickup = S.pickup
  BY <1>1, <1>3 DEF Fields
<1>5. T \in Browser
  BY <1>1, <1>4 DEF Browser
<1> QED BY <1>1, <1>2, <1>4, <1>5 DEF Quiet, Fields

\* Hanging up one call: the last one turns the camera off.
LEMMA HangUpGood ==
    ASSUME NEW S, NEW P, NEW a, Good(S, P, a), NEW q \in Peer, NEW reason \in Reason
    PROVE  /\ Good(HangUp(S, reason, q), P, FALSE)
           /\ CallIds(HangUp(S, reason, q)) \subseteq CallIds(S) \ {q}
<1> DEFINE T == RemoveCall(S, q)
           U == IF reason = "receivedbye" THEN T ELSE Send(T, q, Bye(reason))
           left == CallIds(U)
           r == CHOOSE r \in left : TRUE
           V == [U EXCEPT !.conf = NoConf]
           W == ShowConference(V, FALSE)
<1>0. S \in Browser /\ Base(S, P, a) /\ PickupWaits(S, {})
  BY DEF Good, GoodBut, Base
<1>1. CASE ~HasCall(S, q)
  <2>1. HangUp(S, reason, q) = S
    BY <1>1 DEF HangUp
  <2>2. CallIds(S) \subseteq CallIds(S) \ {q}
    BY <1>1 DEF CallIds
  <2> QED BY <2>1, <2>2, WeakerFlag DEF Good
<1>2. CASE HasCall(S, q)
  <2>1. /\ Base(T, P, a) /\ CallIds(T) = CallIds(S) \ {q} /\ Rest(S, T)
        /\ \A x \in Peer \ {q} : T.calls[x] = S.calls[x]
    BY <1>0, RemoveCallKeeps
  <2>2. PickupWaits(T, {})
    BY <1>0, <2>1 DEF PickupWaits, Rest, CallIds
  <2> HIDE DEF T
  <2>3. T \in Browser
    BY <2>1 DEF Base
  <2>4. U \in Browser /\ (U = T \/ (Quiet(T, U) /\ U.pickup = T.pickup))
    <3>1. CASE reason = "receivedbye"
      BY <2>3, <3>1
    <3>2. CASE reason # "receivedbye"
      <4>1. Quiet(T, Send(T, q, Bye(reason))) /\ Send(T, q, Bye(reason)).pickup = T.pickup
        BY <2>3, SendQuiet, ByeIsDocument
      <4> QED BY <3>2, <4>1 DEF Quiet
    <3> QED BY <3>1, <3>2
  <2>5. HangUp(S, reason, q) =
           IF left = {} THEN Stop(Ended(U))
           ELSE IF Cardinality(left) = 1 THEN ShowCall(W, r, U.calls[r]) ELSE U
    BY <1>2 DEF HangUp, Ended, T
  <2> HIDE DEF U
  <2>6. Base(U, P, a) /\ CallIds(U) = CallIds(S) \ {q} /\ PickupWaits(U, {})
    BY <2>1, <2>2, <2>4, QuietKeeps
  <2>7. CASE left = {}
    <3> DEFINE E == Ended(U)
    <3>1. Quiet(U, E) /\ E.pickup = U.pickup
      BY <2>4, EndedQuiet
    <3> HIDE DEF E
    <3>2. Base(E, P, a) /\ CallIds(E) = CallIds(U) /\ PickupWaits(E, {})
      BY <2>6, <3>1, QuietKeeps
    <3> QED BY <2>5, <2>6, <2>7, <3>2, StopGood DEF E
  <2>8. CASE left # {}
    <3>1. Good(U, P, FALSE)
      BY <2>6, <2>8 DEF Good, GoodBut, CameraUsed, Base
    <3>2. CASE Cardinality(left) # 1
      BY <2>5, <2>6, <2>8, <3>1, <3>2
    <3>3. CASE Cardinality(left) = 1
      <4>1. HangUp(S, reason, q) = ShowCall(W, r, U.calls[r])
        BY <2>5, <2>8, <3>3
      <4>2. r \in left /\ r \in Peer
        BY <2>8 DEF CallIds
      <4>3. U.calls[r].out \in BOOLEAN
        BY <2>4, <4>2, CallTypes DEF Call
      <4> HIDE DEF r, left
      <4>4. NoConf \in ConfId
        BY DEF ConfId
      <4>5. /\ V \in Browser /\ V.calls = U.calls /\ V.count = U.count /\ V.lost = U.lost
            /\ V.conf = NoConf /\ V.media = U.media /\ V.pending = U.pending
            /\ V.queues = U.queues /\ V.n = U.n /\ V.agreed = U.agreed /\ V.failed = U.failed
            /\ V.slipped = U.slipped /\ V.offerless = U.offerless /\ V.pickup = U.pickup
        BY <2>4, <4>4 DEF Browser, Fields
      <4> HIDE DEF V
      <4>6. CallIds(V) = CallIds(U)
        BY <4>5 DEF CallIds, HasCall
      <4>7. Good(V, P, FALSE)
        <5>1. Counted(V) /\ LostAnswered(V) /\ FreshFar(V) /\ Numbered(V)
          BY <2>6, <4>5, <4>6 DEF Base, Counted, LostAnswered, FreshFar, Numbered, HasCall
        <5>2. Consent(V) /\ RefsOK(V, P)
          BY <2>6, <4>5 DEF Base, Consent, RefsOK, RefOK
        <5>3. CameraUsed(V) /\ PickupWaits(V, {})
          BY <3>1, <4>5, <4>6 DEF Good, GoodBut, CameraUsed, PickupWaits
        <5> QED BY <4>5, <5>1, <5>2, <5>3 DEF Good, GoodBut, Base
      <4>8. Quiet(V, W) /\ W.pickup = V.pickup
        BY <4>5, ShowConferenceQuiet
      <4> HIDE DEF W
      <4>9. Good(W, P, FALSE) /\ CallIds(W) = CallIds(U) /\ W \in Browser
        BY <4>6, <4>7, <4>8, QuietGood, QuietKeeps DEF Good, Quiet
      <4> DEFINE Y == ShowCall(W, r, U.calls[r])
      <4>10. Quiet(W, Y) /\ Y.pickup = Nobody
        BY <4>2, <4>3, <4>9, ShowCallQuiet
      <4> HIDE DEF Y
      <4>11. Good(Y, P, FALSE) /\ CallIds(Y) = CallIds(U)
        BY <4>9, <4>10, QuietGood, QuietKeeps DEF Good
      <4> QED BY <2>6, <4>1, <4>11 DEF Y
    <3> QED BY <3>2, <3>3
  <2> QED BY <2>7, <2>8
<1> QED BY <1>1, <1>2

\* Hanging up all calls.
LEMMA HangUpAllGood ==
    ASSUME NEW S, NEW P, NEW a, Good(S, P, a), NEW reason \in Reason
    PROVE  Good(HangUpAll(S, reason), P, FALSE)
<1> DEFINE D == CallIds(S)
           z == HangUpEach(S, D, reason)
<1>0. S \in Browser /\ D \subseteq Peer /\ IsFiniteSet(D)
  BY CallTypes DEF Good, GoodBut, Base
<1>1. HangUpAll(S, reason) = Stop(z)
  BY DEF HangUpAll, HangUpEach
<1> HIDE DEF z
<1>2. PICK n \in Nat : \E e \in [1 .. n -> D] :
         /\ \A x \in D : \E i \in 1 .. n : e[i] = x
         /\ Run1("hangup", reason, e, n, S, z)
  BY <1>0, HangUpsRun DEF z
<1>3. PICK e \in [1 .. n -> D] : /\ \A x \in D : \E i \in 1 .. n : e[i] = x
                                 /\ Run1("hangup", reason, e, n, S, z)
  BY <1>2
<1> DEFINE G(i) == {T \in Browser : /\ Good(T, P, FALSE)
                                    /\ CallIds(T) \subseteq D \ {e[j] : j \in 1 .. i}}
           J == [i \in Nat |-> G(i)]
<1>4. S \in G(0)
  <2>1. D \subseteq D \ {e[j] : j \in 1 .. 0}
    <3>1. 1 .. 0 = {}
      OBVIOUS
    <3> QED BY <3>1
  <2> QED BY <1>0, <2>1, WeakerFlag DEF Good
<1>5. ASSUME NEW i \in 1 .. n, NEW T \in G(i - 1) PROVE Body("hangup", reason, e[i], T) \in G(i)
  <2> DEFINE U == HangUp(T, reason, e[i])
  <2>1. e[i] \in Peer /\ Good(T, P, FALSE) /\ CallIds(T) \subseteq D \ {e[j] : j \in 1 .. (i - 1)}
    BY <1>0
  <2>2. Good(U, P, FALSE) /\ CallIds(U) \subseteq CallIds(T) \ {e[i]}
    BY <2>1, HangUpGood
  <2>3. \A j \in 1 .. i : j = i \/ j \in 1 .. (i - 1)
    OBVIOUS
  <2> HIDE DEF U
  <2>4. CallIds(U) \subseteq D \ {e[j] : j \in 1 .. i}
    BY <2>1, <2>2, <2>3
  <2>5. U \in Browser
    BY <2>2 DEF Good, GoodBut, Base
  <2>6. Body("hangup", reason, e[i], T) = U
    BY DEF Body, U
  <2> QED BY <2>2, <2>4, <2>5, <2>6
<1> HIDE DEF G
<1>6. \A i \in 0 .. n : J[i] = G(i)
  OBVIOUS
<1> HIDE DEF J
<1>7. S \in J[0] /\ \A i \in 1 .. n : \A T \in J[i - 1] : Body("hangup", reason, e[i], T) \in J[i]
  <2>1. \A i \in 1 .. n : J[i - 1] = G(i - 1) /\ J[i] = G(i)
    BY <1>6
  <2>2. J[0] = G(0)
    BY <1>6
  <2> QED BY <1>4, <1>5, <2>1, <2>2
<1>8. z \in J[n]
  BY <1>3, <1>7, LoopKeeps
<1>9. z \in G(n)
  BY <1>6, <1>8
<1>10. CallIds(z) = {}
  BY <1>3, <1>9 DEF G
<1>11. Base(z, P, FALSE)
  BY <1>9 DEF G, Good, GoodBut
<1> QED BY <1>1, <1>10, <1>11, StopGood

\* A negotiation that fails removes its call, and the camera may stay on (failed).
LEMMA FailGood ==
    ASSUME NEW S, NEW P, NEW a, NEW q \in Peer, GoodBut(S, P, a, {q})
    PROVE  Good(Fail(S, q), P, a) /\ ~HasCall(Fail(S, q), q)
<1> DEFINE T == RemoveCall(S, q)
           t == Append(T.tasks, [do |-> "hangup", who |-> q])
           U == [T EXCEPT !.tasks = t, !.failed = TRUE]
<1>1. /\ Base(T, P, a) /\ CallIds(T) = CallIds(S) \ {q} /\ Rest(S, T)
      /\ (\A x \in Peer \ {q} : T.calls[x] = S.calls[x]) /\ T.calls[q] = NoCall
  BY RemoveCallKeeps DEF GoodBut
<1>2. Fail(S, q) = [T EXCEPT !.tasks = Append(@, [do |-> "hangup", who |-> q]), !.failed = TRUE]
  BY DEF Fail
<1> HIDE DEF T
<1>3. T \in Browser
  BY <1>1 DEF Base
<1>4. Fail(S, q) = U
  BY <1>2, <1>3 DEF Browser, Fields
<1>5. t \in Seq(Task)
  <2>1. [do |-> "hangup", who |-> q] \in Task
    BY DEF Task
  <2>2. T.tasks \in Seq(Task)
    BY <1>3 DEF Browser, Fields, Tasks
  <2> QED BY <2>1, <2>2
<1> HIDE DEF t
<1>6. /\ U \in Browser /\ U.calls = T.calls /\ U.count = T.count /\ U.lost = T.lost
      /\ U.conf = T.conf /\ U.media = T.media /\ U.pending = T.pending /\ U.failed = TRUE
      /\ U.queues = T.queues /\ U.n = T.n /\ U.agreed = T.agreed
      /\ U.slipped = T.slipped /\ U.offerless = T.offerless /\ U.pickup = T.pickup
  BY <1>3, <1>5 DEF Browser, Fields, Tasks
<1> HIDE DEF U
<1>7. CallIds(U) = CallIds(S) \ {q}
  BY <1>1, <1>6 DEF CallIds, HasCall
<1>8. Base(U, P, a)
  <2>1. Counted(U) /\ LostAnswered(U) /\ FreshFar(U) /\ Numbered(U)
    <3>1. Counted(U)
      BY <1>1, <1>6, <1>7 DEF Base, Counted
    <3>2. LostAnswered(U)
      BY <1>1, <1>6, <1>7 DEF Base, LostAnswered, HasCall
    <3>3. FreshFar(U)
      BY <1>1, <1>6, <1>7 DEF Base, FreshFar
    <3>4. Numbered(U)
      BY <1>1, <1>6, <1>7 DEF Base, Numbered
    <3> QED BY <3>1, <3>2, <3>3, <3>4
  <2>2. Consent(U) /\ RefsOK(U, P) /\ (a => U.agreed \/ U.slipped)
    BY <1>1, <1>6 DEF Base, Consent, RefsOK, RefOK
  <2> QED BY <1>6, <2>1, <2>2 DEF Base
<1>9. PickupWaits(U, {})
  BY <1>1, <1>6, <1>7 DEF GoodBut, PickupWaits, Rest, CallIds
<1>10. CameraUsed(U)
  BY <1>6 DEF CameraUsed
<1> QED BY <1>1, <1>4, <1>6, <1>8, <1>9, <1>10 DEF Good, GoodBut, HasCall

(* A call changes its state. *)
SetCall(S, q, d) == [S EXCEPT !.calls[q] = d]

\* A call may change all but its number and its direction.
LEMMA SetCallKeeps ==
    ASSUME NEW S, NEW P, NEW a, Base(S, P, a), NEW q \in Peer, HasCall(S, q),
           NEW d \in Call, d.n = S.calls[q].n, d.out = S.calls[q].out,
           d.pc = "none" => d.far = 0, q \in S.lost => d.far # 0
    PROVE  /\ Base(SetCall(S, q, d), P, a)
           /\ CallIds(SetCall(S, q, d)) = CallIds(S)
           /\ Rest(S, SetCall(S, q, d)) /\ SetCall(S, q, d).lost = S.lost
           /\ SetCall(S, q, d).calls[q] = d
           /\ \A r \in Peer \ {q} : SetCall(S, q, d).calls[r] = S.calls[r]
           /\ CameraUsed(S) => CameraUsed(SetCall(S, q, d))
<1> DEFINE cs == [S.calls EXCEPT ![q] = d]
           T == [S EXCEPT !.calls = cs]
<1>0. S \in Browser /\ S.calls \in [Peer -> {NoCall} \cup Call]
  BY DEF Base, Browser, Fields, Table
<1>1. SetCall(S, q, d) = T
  BY <1>0 DEF SetCall, Browser, Fields
<1>2. cs \in [Peer -> {NoCall} \cup Call] /\ cs[q] = d /\ \A r \in Peer \ {q} : cs[r] = S.calls[r]
  BY <1>0
<1> HIDE DEF cs
<1>3. /\ T \in Browser /\ T.calls = cs /\ Rest(S, T) /\ T.lost = S.lost /\ T.count = S.count
      /\ T.n = S.n
  BY <1>0, <1>2 DEF Browser, Fields, Rest, Table
<1> HIDE DEF T
<1>4. d # NoCall
  BY DEF Call, NoCall
<1>5. \A r \in Peer : HasCall(T, r) <=> HasCall(S, r)
  BY <1>2, <1>3, <1>4 DEF HasCall
<1>6. CallIds(T) = CallIds(S)
  BY <1>5 DEF CallIds
<1>7. Counted(T)
  BY <1>3, <1>6 DEF Base, Counted
<1>8. LostAnswered(T)
  <2>1. S.lost \subseteq Peer
    BY <1>0 DEF Browser, Fields
  <2> QED BY <1>2, <1>3, <1>5, <2>1 DEF Base, LostAnswered
<1>9. FreshFar(T)
  BY <1>2, <1>3, <1>6 DEF Base, FreshFar, CallIds
<1>10. Consent(T) /\ (a => T.agreed \/ T.slipped)
  BY <1>3 DEF Base, Consent, Rest
<1>11. Numbered(T)
  BY <1>2, <1>3 DEF Base, Numbered
<1>12. ASSUME NEW c \in CallRef, RefOK(S, c) PROVE RefOK(T, c)
  <2>1. c.id \in Peer
    BY DEF CallRef
  <2> QED BY <1>2, <1>3, <1>12, <2>1 DEF RefOK
<1>13. RefsOK(T, P)
  <2>1. S.pending \in Seq(CallRef)
    BY <1>0 DEF Browser, Fields, Refs
  <2>2. \A i \in DOMAIN S.pending : S.pending[i] \in CallRef
    BY <2>1
  <2> QED BY <1>3, <1>12, <2>2 DEF Base, RefsOK, Rest
<1>14. CameraUsed(S) => CameraUsed(T)
  BY <1>3, <1>6 DEF CameraUsed, Rest
<1>15. Base(T, P, a)
  BY <1>3, <1>7, <1>8, <1>9, <1>10, <1>11, <1>13 DEF Base
<1> QED BY <1>1, <1>2, <1>3, <1>6, <1>14, <1>15

-----------------------------------------------------------------------------
(* Offers. *)
LEMMA TakeOfferGood ==
    ASSUME NEW S, NEW P, NEW a, NEW q \in Peer, GoodBut(S, P, a, {q}), Gets(S, q),
           NEW m \in OfferDoc
    PROVE  IF S.calls[q].pc = "none" THEN TakeOffer(S, q, m) = S
           ELSE /\ Good(TakeOffer(S, q, m), P, a)
                /\ TakeOffer(S, q, m).pickup # q \/ ~HasCall(TakeOffer(S, q, m), q)
<1> DEFINE call == S.calls[q]
           T == IF call.auto THEN GetOrCreateId(S) ELSE S
           d == [call EXCEPT !.pc = "done", !.far = m.n, !.needs = FALSE]
           U == SetCall(T, q, d)
           V == ShowCall(U, q, call)
           W == Send(V, q, Answer(call.n))
<1>0. S \in Browser /\ HasCall(S, q) /\ q \notin S.lost /\ call \in Call
  <2>1. S \in Browser /\ HasCall(S, q) /\ q \notin S.lost
    BY DEF GoodBut, Base, Gets
  <2> QED BY <2>1, CallTypes
<1>1. GoodBut(T, P, a, {q}) /\ T.calls = S.calls /\ T.lost = S.lost
  BY GetOrCreateIdKeeps
<1>2. T \in Browser
  BY <1>1 DEF GoodBut, Base
<1>3. CASE call.pc = "none"
  BY <1>3 DEF TakeOffer
<1>4. CASE call.pc = "local"
  <2>1. TakeOffer(S, q, m) = Fail(S, q)
    BY <1>4 DEF TakeOffer
  <2> QED BY <1>4, <2>1, FailGood
<1>5. CASE call.pc \notin {"none", "local"}
  <2>1. TakeOffer(S, q, m) =
           Send(ShowCall([T EXCEPT !.calls[q].pc = "done", !.calls[q].far = m.n,
                                   !.calls[q].needs = FALSE], q, call), q, Answer(call.n))
    BY <1>5 DEF TakeOffer
  <2> HIDE DEF T
  <2>2. [T EXCEPT !.calls[q].pc = "done", !.calls[q].far = m.n, !.calls[q].needs = FALSE] = U
    <3>1. T.calls \in [Peer -> {NoCall} \cup Call] /\ T.calls[q] = call
      BY <1>1, <1>2 DEF Browser, Fields, Table
    <3> QED BY <1>2, <3>1 DEF SetCall, Browser, Fields
  <2>3. d \in Call /\ d.n = call.n /\ d.out = call.out /\ d.pc = "done"
    BY <1>0 DEF Call, OfferDoc, Pc
  <2>4. HasCall(T, q) /\ T.calls[q] = call /\ q \notin T.lost
    BY <1>0, <1>1 DEF HasCall
  <2> HIDE DEF d, call
  <2>5. Base(U, P, a) /\ CameraUsed(U)
    BY <1>1, <2>3, <2>4, SetCallKeeps DEF GoodBut
  <2> HIDE DEF U
  <2>6. Quiet(U, V) /\ V.pickup = Nobody
    <3>1. U \in Browser /\ call.out \in BOOLEAN
      BY <1>0, <2>5 DEF Base, Call
    <3> QED BY <3>1, ShowCallQuiet
  <2> HIDE DEF V
  <2>7. Quiet(V, W) /\ W.pickup = V.pickup
    <3>1. Answer(call.n) \in Document
      BY <1>0 DEF Answer, Document, Call
    <3>2. V \in Browser
      BY <2>6 DEF Quiet
    <3> QED BY <3>1, <3>2, SendQuiet
  <2> HIDE DEF W
  <2>8. Base(W, P, a) /\ CameraUsed(W)
    BY <2>5, <2>6, <2>7, QuietKeeps
  <2>9. W.pickup # q /\ W.pickup \notin Peer
    BY <2>6, <2>7, CallsAssumption
  <2>10. PickupWaits(W, {})
    BY <2>9 DEF PickupWaits, CallIds
  <2> QED BY <1>5, <2>1, <2>2, <2>8, <2>9, <2>10 DEF Good, GoodBut, V, W, call
<1> QED BY <1>3, <1>4, <1>5

\* A caller is told that the user is busy.
LEMMA BusyGood ==
    ASSUME NEW S, NEW P, NEW a, NEW X, GoodBut(S, P, a, X), NEW q \in Peer
    PROVE  GoodBut(Busy(S, q), P, a, X)
<1>1. Bye("busy") \in Document
  BY ByeIsDocument DEF Reason
<1>2. S \in Browser
  BY DEF GoodBut, Base
<1>3. Quiet(S, Busy(S, q)) /\ Busy(S, q).pickup = S.pickup
  BY <1>1, <1>2, SendQuiet DEF Busy
<1> QED BY <1>3, QuietGood

\* A new call is numbered next and has no peer connection.
LEMMA NewCallIsCall ==
    ASSUME NEW n \in Nat, NEW o \in BOOLEAN, NEW au \in BOOLEAN
    PROVE  /\ NewCall(n + 1, o, au) \in Call
           /\ NewCall(n + 1, o, au).n = n + 1 /\ NewCall(n + 1, o, au).far = 0
           /\ NewCall(n + 1, o, au).pc = "none" /\ NewCall(n + 1, o, au).out = o
BY DEF NewCall, Call, Pc, Ice

(* A call that comes in, with its Offer in front of its queue. *)
Queued(S, q, m) == [Add(S, q, NewCall(S.n + 1, FALSE, FALSE)) EXCEPT !.queues[q] = <<m>> \o @]

\* The Offer of a call that comes in waits, and the call can be accepted.
LEMMA QueuedGood ==
    ASSUME NEW S, NEW P, NEW a, NEW X, GoodBut(S, P, a, X), NEW q \in Peer, NEW m \in OfferDoc
    PROVE  /\ GoodBut(Queued(S, q, m), P, a, X)
           /\ q \in CallIds(Queued(S, q, m))
           /\ Queued(S, q, m).pickup = S.pickup
           /\ Queued(S, q, m).calls[q].pc = "none" /\ ~Queued(S, q, m).calls[q].out
           /\ Queued(S, q, m).queues[q] # <<>>
           /\ RefOK(Queued(S, q, m), Ref(Queued(S, q, m), q)) /\ Ref(Queued(S, q, m), q) \in CallRef
<1> DEFINE c == NewCall(S.n + 1, FALSE, FALSE)
           A == Add(S, q, c)
           s == <<m>> \o A.queues[q]
           qs == [A.queues EXCEPT ![q] = s]
           T == [A EXCEPT !.queues = qs]
<1>0. S \in Browser /\ S.n \in Nat /\ Base(S, P, a)
  BY DEF GoodBut, Base, Browser, Fields
<1>1. c \in Call /\ c.n = S.n + 1 /\ c.far = 0 /\ c.pc = "none" /\ c.out = FALSE
  BY <1>0, NewCallIsCall
<1> HIDE DEF c
<1>2. /\ Base(A, P \cup {RefOf(q, c)}, a) /\ CallIds(A) = CallIds(S) \cup {q}
      /\ A.media = S.media /\ A.failed = S.failed /\ A.offerless = S.offerless \ {q}
      /\ A.queues = S.queues /\ A.conf = S.conf /\ A.pickup = S.pickup
      /\ (\A r \in Peer \ {q} : A.calls[r] = S.calls[r]) /\ A.calls[q] = c
  BY <1>0, <1>1, AddKeeps
<1>3. Queued(S, q, m) = [A EXCEPT !.queues[q] = <<m>> \o @]
  BY DEF Queued, c
<1> HIDE DEF A
<1>4. A \in Browser /\ A.queues \in [Peer -> Seq(OfferDoc)]
  BY <1>2 DEF Base, Browser, Fields, Waits
<1>5. s \in Seq(OfferDoc) /\ s # <<>>
  <2>1. A.queues[q] \in Seq(OfferDoc) /\ <<m>> \in Seq(OfferDoc)
    BY <1>4
  <2> QED BY <2>1
<1>6. Queued(S, q, m) = T
  BY <1>3, <1>4 DEF Browser, Fields
<1> HIDE DEF s
<1>7. qs \in [Peer -> Seq(OfferDoc)] /\ qs[q] = s /\ \A r \in Peer \ {q} : qs[r] = A.queues[r]
  BY <1>4, <1>5
<1> HIDE DEF qs
<1>8. /\ T \in Browser /\ T.calls = A.calls /\ T.count = A.count /\ T.lost = A.lost
      /\ T.conf = A.conf /\ T.media = A.media /\ T.pending = A.pending /\ T.failed = A.failed
      /\ T.queues = qs /\ T.n = A.n /\ T.agreed = A.agreed
      /\ T.slipped = A.slipped /\ T.offerless = A.offerless /\ T.pickup = A.pickup
  BY <1>4, <1>7 DEF Browser, Fields, Waits
<1> HIDE DEF T
<1>9. CallIds(T) = CallIds(S) \cup {q}
  BY <1>2, <1>8 DEF CallIds, HasCall
<1>10. Base(T, P \cup {RefOf(q, c)}, a)
  <2>0. CallIds(T) = CallIds(A)
    BY <1>2, <1>9
  <2>1. Counted(T) /\ LostAnswered(T) /\ FreshFar(T) /\ Numbered(T)
    <3>1. Counted(T)
      BY <1>2, <1>8, <2>0 DEF Base, Counted
    <3>2. LostAnswered(T)
      BY <1>2, <1>8, <2>0 DEF Base, LostAnswered, HasCall
    <3>3. FreshFar(T)
      BY <1>2, <1>8, <2>0 DEF Base, FreshFar
    <3>4. Numbered(T)
      BY <1>2, <1>8, <2>0 DEF Base, Numbered
    <3> QED BY <3>1, <3>2, <3>3, <3>4
  <2>2. Consent(T) /\ RefsOK(T, P \cup {RefOf(q, c)}) /\ (a => T.agreed \/ T.slipped)
    BY <1>2, <1>8 DEF Base, Consent, RefsOK, RefOK
  <2> QED BY <1>8, <2>1, <2>2 DEF Base
<1>11. Base(T, P, a) /\ RefOK(T, RefOf(q, c)) /\ RefOf(q, c) \in CallRef
  BY <1>10 DEF Base, RefsOK
<1>12. CameraUsed(T)
  BY <1>9 DEF CameraUsed
<1>13. T.calls[q].pc = "none" /\ ~T.calls[q].out /\ T.queues[q] # <<>> /\ T.pickup = S.pickup
  BY <1>1, <1>2, <1>5, <1>7, <1>8
<1>14. PickupWaits(T, X)
  <2> SUFFICES ASSUME NEW r \in (CallIds(T) \ T.offerless) \ X, T.pickup = r
               PROVE  T.calls[r].pc = "none" /\ ~T.calls[r].out /\ T.queues[r] # <<>>
    BY DEF PickupWaits
  <2>1. CASE r = q
    BY <1>13, <2>1
  <2>2. CASE r # q
    <3>1. r \in (CallIds(S) \ S.offerless) \ X /\ S.pickup = r /\ r \in Peer
      BY <1>2, <1>8, <1>9, <1>13, <2>2 DEF CallIds
    <3>2. T.calls[r] = S.calls[r] /\ T.queues[r] = S.queues[r]
      BY <1>2, <1>7, <1>8, <2>2, <3>1
    <3> QED BY <3>1, <3>2 DEF GoodBut, PickupWaits
  <2> QED BY <2>1, <2>2
<1>15. Ref(T, q) = RefOf(q, c)
  BY <1>2, <1>8 DEF Ref, RefOf
<1> QED BY <1>6, <1>9, <1>11, <1>12, <1>13, <1>14, <1>15 DEF GoodBut

\* The pickup timer starts for a call that came in and whose Offer waits.
LEMMA RingGood ==
    ASSUME NEW S, NEW P, NEW a, NEW X, GoodBut(S, P, a, X), NEW q \in Peer,
           S.calls[q].pc = "none", ~S.calls[q].out, S.queues[q] # <<>>
    PROVE  GoodBut(Ring(S, q), P, a, X)
<1> DEFINE T == Status(S, "ringing", q)
           ts == IF S.pickup = Nobody THEN T.pickups ELSE Append(T.pickups, S.pickup)
           U == [T EXCEPT !.pickup = q, !.pickups = ts]
<1>0. S \in Browser
  BY DEF GoodBut, Base
<1>1. Quiet(S, T)
  <2>1. "ringing" \in Line /\ q \in Ids /\ LineOK("ringing", q)
    BY DEF Line, Ids, LineOK
  <2> QED BY <1>0, <2>1, StatusQuiet
<1> HIDE DEF T
<1>2. T \in Fields
  BY <1>1 DEF Quiet, Browser
<1>8. ts \in Timers
  <2>1. S.pickup \in Peer \cup {Nobody} /\ T.pickups \in Seq(Peer)
    BY <1>0, <1>2 DEF Browser, Fields, Ids, Timers
  <2> QED BY <2>1 DEF Timers
<1>7. Ring(S, q) = U
  <2>1. Ring(S, q) = [T EXCEPT !.pickup = q,
                         !.pickups = IF S.pickup = Nobody THEN @ ELSE Append(@, S.pickup)]
    BY DEF Ring, T
  <2> QED BY <1>2, <2>1 DEF Fields
<1> HIDE DEF ts
<1>3. Quiet(T, U) /\ U.pickup = q
  <2>1. T \in Fields /\ T \in Browser /\ q \in Ids
    BY <1>1 DEF Quiet, Browser, Ids
  <2>2. U \in Fields /\ U.status = T.status /\ U.who = T.who /\ U.pickup = q
    BY <1>8, <2>1 DEF Fields
  <2>3. U \in Browser
    BY <2>1, <2>2 DEF Browser
  <2> QED BY <2>1, <2>2, <2>3 DEF Quiet, Fields
<1> HIDE DEF U
<1>4. Quiet(S, U)
  BY <1>1, <1>3 DEF Quiet
<1>5. Base(U, P, a) /\ CameraUsed(U) /\ CallIds(U) = CallIds(S)
  BY <1>4, QuietKeeps DEF GoodBut
<1>6. PickupWaits(U, X)
  BY <1>3, <1>4 DEF PickupWaits, Quiet
<1> QED BY <1>5, <1>6, <1>7 DEF GoodBut

\* An Offer of an unknown caller rings.
LEMMA IncomingGood ==
    ASSUME NEW S, NEW P, NEW a, NEW X, GoodBut(S, P, a, X), NEW q \in Peer, NEW m \in OfferDoc
    PROVE  GoodBut(Incoming(S, q, m), P, a, X)
<1>1. CASE S.count > 0 /\ q \notin S.lost
  BY <1>1, BusyGood DEF Incoming
<1>2. CASE ~(S.count > 0 /\ q \notin S.lost) /\ ~MayAdd(S, q)
  BY <1>2 DEF Incoming
<1>3. CASE ~(S.count > 0 /\ q \notin S.lost) /\ MayAdd(S, q)
  <2>1. Incoming(S, q, m) = Ring(Queued(S, q, m), q)
    BY <1>3 DEF Incoming, Queued
  <2> QED BY <2>1, QueuedGood, RingGood
<1> QED BY <1>1, <1>2, <1>3

(* The pickup timer is q's, and q's call is to be in order. *)
Owes(S, q) == S.pickup = q /\ HasCall(S, q) /\ q \notin S.offerless

\* With nothing owed, the exception for the call is not needed.
LEMMA NothingOwed ==
    ASSUME NEW S, NEW P, NEW a, NEW q \in Peer, GoodBut(S, P, a, {q}), ~Owes(S, q)
    PROVE  Good(S, P, a)
<1>1. PickupWaits(S, {})
  <2> SUFFICES ASSUME NEW r \in CallIds(S) \ S.offerless, S.pickup = r
               PROVE  S.calls[r].pc = "none" /\ ~S.calls[r].out /\ S.queues[r] # <<>>
    BY DEF PickupWaits
  <2>1. r # q
    BY DEF Owes, CallIds
  <2> QED BY <2>1 DEF GoodBut, PickupWaits
<1> QED BY <1>1 DEF Good, GoodBut

\* The first waiting document that reaches the call spares it.
LEMMA TakeWaitingKeeps ==
    ASSUME NEW S, NEW P, NEW a, NEW q \in Peer, GoodBut(S, P, a, {q}), NEW m \in OfferDoc,
           Owes(S, q) => Gets(S, q) /\ S.calls[q].pc # "none"
    PROVE  GoodBut(TakeWaiting(S, q, m), P, a, {q}) /\ ~Owes(TakeWaiting(S, q, m), q)
<1>1. CASE Gets(S, q)
  <2>1. TakeWaiting(S, q, m) = TakeOffer(S, q, m)
    BY <1>1 DEF TakeWaiting
  <2> QED BY <1>1, <2>1, TakeOfferGood, Weaker DEF Good, Owes
<1>2. CASE ~Gets(S, q)
  <2> DEFINE I == Incoming(S, q, m)
             qs == [I.queues EXCEPT ![q] = <<>>]
             ol == I.offerless \cup {q}
             T == [I EXCEPT !.queues = qs, !.offerless = ol]
  <2>1. GoodBut(I, P, a, {q})
    BY IncomingGood
  <2>2. TakeWaiting(S, q, m) = [I EXCEPT !.queues[q] = <<>>, !.offerless = @ \cup {q}]
    BY <1>2 DEF TakeWaiting
  <2> HIDE DEF I
  <2>3. I \in Browser /\ I.queues \in [Peer -> Seq(OfferDoc)] /\ I.offerless \subseteq Peer
    BY <2>1 DEF GoodBut, Base, Browser, Fields, Waits
  <2>4. TakeWaiting(S, q, m) = T
    BY <2>2, <2>3 DEF Browser, Fields
  <2>5. qs \in [Peer -> Seq(OfferDoc)] /\ ol \in SUBSET Peer
        /\ \A r \in Peer \ {q} : qs[r] = I.queues[r]
    BY <2>3
  <2> HIDE DEF qs
  <2>6. /\ T \in Browser /\ T.calls = I.calls /\ T.count = I.count /\ T.lost = I.lost
        /\ T.conf = I.conf /\ T.media = I.media /\ T.pending = I.pending /\ T.failed = I.failed
        /\ T.queues = qs /\ T.n = I.n /\ T.agreed = I.agreed
        /\ T.slipped = I.slipped /\ T.offerless = ol /\ T.pickup = I.pickup
    <3>1. I \in Fields
      BY <2>3 DEF Browser
    <3>2. T \in Fields /\ T.status = I.status /\ T.who = I.who
      BY <3>1, <2>5 DEF Fields, Waits
    <3>3. T \in Browser
      BY <2>3, <3>2 DEF Browser
    <3> QED BY <3>1, <3>3, <2>5 DEF Fields
  <2> HIDE DEF T
  <2>7. CallIds(T) = CallIds(I)
    BY <2>6 DEF CallIds, HasCall
  <2>8. Base(T, P, a) /\ CameraUsed(T)
    <3>1. Counted(T) /\ LostAnswered(T) /\ FreshFar(T) /\ Numbered(T)
      BY <2>1, <2>6, <2>7 DEF GoodBut, Base, Counted, LostAnswered, FreshFar, Numbered, HasCall
    <3>2. Consent(T) /\ RefsOK(T, P) /\ (a => T.agreed \/ T.slipped)
      BY <2>1, <2>6 DEF GoodBut, Base, Consent, RefsOK, RefOK
    <3>3. CameraUsed(T)
      BY <2>1, <2>6, <2>7 DEF GoodBut, CameraUsed
    <3> QED BY <2>6, <3>1, <3>2, <3>3 DEF Base
  <2>9. PickupWaits(T, {q})
    <3> SUFFICES ASSUME NEW r \in (CallIds(T) \ T.offerless) \ {q}, T.pickup = r
                 PROVE  T.calls[r].pc = "none" /\ ~T.calls[r].out /\ T.queues[r] # <<>>
      BY DEF PickupWaits
    <3>1. r \in Peer \ {q} /\ r \in (CallIds(I) \ I.offerless) \ {q}
      BY <2>6, <2>7 DEF CallIds
    <3> QED BY <2>1, <2>5, <2>6, <3>1 DEF GoodBut, PickupWaits
  <2>10. ~Owes(T, q)
    BY <2>6 DEF Owes
  <2> QED BY <2>4, <2>8, <2>9, <2>10 DEF GoodBut
<1> QED BY <1>1, <1>2

\* Once the waiting Offer is processed the pickup timer has stopped.
LEMMA TakeQueueGood ==
    ASSUME NEW S, NEW P, NEW a, NEW q \in Peer, GoodBut(S, P, a, {q}),
           Owes(S, q) => Gets(S, q) /\ S.calls[q].pc # "none" /\ S.queues[q] # <<>>
    PROVE  Good(TakeQueue(S, q), P, a)
<1> DEFINE e == S.queues[q]
           n == Len(e)
           qs == [S.queues EXCEPT ![q] = <<>>]
           b == [S EXCEPT !.queues = qs]
           z == TakeQueue(S, q)
<1>0. S \in Browser /\ S.queues \in [Peer -> Seq(OfferDoc)]
  BY DEF GoodBut, Base, Browser, Fields, Waits
<1>1. e \in Seq(OfferDoc) /\ n \in Nat /\ DOMAIN e = 1 .. n /\ (n = 0 => e = <<>>)
      /\ \A i \in 1 .. n : e[i] \in OfferDoc
  <2>1. e \in Seq(OfferDoc)
    BY <1>0
  <2> HIDE DEF e
  <2> QED BY <2>1
<1>2. b = [S EXCEPT !.queues[q] = <<>>]
  BY <1>0 DEF Browser, Fields
<1>3. Run1("queue", q, e, n, b, z)
  <2> HIDE DEF n, z, b
  <2> QED BY <1>1, <1>2, QueueRuns DEF z
<1> HIDE DEF n, z
<1>4. qs \in [Peer -> Seq(OfferDoc)] /\ \A r \in Peer \ {q} : qs[r] = S.queues[r]
  <2>1. <<>> \in Seq(OfferDoc)
    OBVIOUS
  <2> QED BY <1>0, <2>1
<1> HIDE DEF qs
<1>5. /\ b \in Browser /\ b.calls = S.calls /\ b.count = S.count /\ b.lost = S.lost
      /\ b.conf = S.conf /\ b.media = S.media /\ b.pending = S.pending /\ b.failed = S.failed
      /\ b.queues = qs /\ b.n = S.n /\ b.agreed = S.agreed
      /\ b.slipped = S.slipped /\ b.offerless = S.offerless /\ b.pickup = S.pickup
  <2>1. S \in Fields
    BY <1>0 DEF Browser
  <2>2. b \in Fields /\ b.status = S.status /\ b.who = S.who
    BY <2>1, <1>4 DEF Fields, Waits
  <2>3. b \in Browser
    BY <1>0, <2>2 DEF Browser
  <2> QED BY <2>1, <2>3, <1>4 DEF Fields
<1> HIDE DEF b
<1>6. CallIds(b) = CallIds(S)
  BY <1>5 DEF CallIds, HasCall
<1>7. GoodBut(b, P, a, {q})
  <2>1. Counted(b) /\ LostAnswered(b) /\ FreshFar(b) /\ Numbered(b)
    BY <1>5, <1>6 DEF GoodBut, Base, Counted, LostAnswered, FreshFar, Numbered, HasCall
  <2>2. Consent(b) /\ RefsOK(b, P) /\ (a => b.agreed \/ b.slipped)
    BY <1>5 DEF GoodBut, Base, Consent, RefsOK, RefOK
  <2>3. CameraUsed(b)
    BY <1>5, <1>6 DEF GoodBut, CameraUsed
  <2>4. PickupWaits(b, {q})
    BY <1>4, <1>5, <1>6 DEF GoodBut, PickupWaits, CallIds
  <2> QED BY <1>5, <2>1, <2>2, <2>3, <2>4 DEF GoodBut, Base
<1>8. Owes(b, q) <=> Owes(S, q)
  BY <1>5 DEF Owes, HasCall
<1>9. Owes(b, q) => Gets(b, q) /\ b.calls[q].pc # "none" /\ n # 0
  BY <1>1, <1>5, <1>8 DEF Gets, HasCall, e
<1> HIDE DEF e
<1> DEFINE G(i) == {T \in Browser :
                      /\ GoodBut(T, P, a, {q})
                      /\ Owes(T, q) => i = 0 /\ n # 0 /\ Gets(T, q) /\ T.calls[q].pc # "none"}
           J == [i \in Nat |-> G(i)]
<1>10. b \in G(0)
  BY <1>5, <1>7, <1>9
<1>11. ASSUME NEW i \in 1 .. n, NEW T \in G(i - 1) PROVE Body("queue", q, e[i], T) \in G(i)
  <2> DEFINE U == TakeWaiting(T, q, e[i])
  <2>1. GoodBut(U, P, a, {q}) /\ ~Owes(U, q)
    BY <1>1, TakeWaitingKeeps
  <2> HIDE DEF U
  <2>2. U \in Browser
    BY <2>1 DEF GoodBut, Base
  <2>3. Body("queue", q, e[i], T) = U
    BY DEF Body, U
  <2> QED BY <2>1, <2>2, <2>3
<1>12. ASSUME NEW T \in G(n) PROVE Good(T, P, a)
  <2>1. GoodBut(T, P, a, {q}) /\ ~Owes(T, q)
    OBVIOUS
  <2> QED BY <2>1, NothingOwed
<1> HIDE DEF G
<1>13. \A i \in 0 .. n : J[i] = G(i)
  BY <1>1
<1> HIDE DEF J
<1>14. b \in J[0] /\ \A i \in 1 .. n : \A T \in J[i - 1] : Body("queue", q, e[i], T) \in J[i]
  <2>1. \A i \in 1 .. n : J[i - 1] = G(i - 1) /\ J[i] = G(i)
    BY <1>1, <1>13
  <2>2. J[0] = G(0)
    BY <1>1, <1>13
  <2> QED BY <1>10, <1>11, <2>1, <2>2
<1>15. z \in J[n]
  BY <1>1, <1>3, <1>14, LoopKeeps
<1>16. z \in G(n)
  BY <1>1, <1>13, <1>15
<1> QED BY <1>12, <1>16 DEF z

-----------------------------------------------------------------------------
(* Starting calls. *)
LEMMA ConnectingQuiet ==
    ASSUME NEW S, NEW P, NEW a, NEW X, GoodBut(S, P, a, X), NEW q \in Peer, NEW auto,
           NEW T, T = IF auto THEN S ELSE Status(S, "connecting", q)
    PROVE  /\ GoodBut(T, P, a, X) /\ T.calls = S.calls /\ T.lost = S.lost
           /\ T.pickup = S.pickup /\ T.queues = S.queues /\ T.offerless = S.offerless
           /\ T.pending = S.pending /\ T.n = S.n /\ T.media = S.media
<1>1. "connecting" \in Line /\ q \in Ids /\ LineOK("connecting", q)
  BY DEF Line, Ids, LineOK
<1>2. S \in Browser
  BY DEF GoodBut, Base
<1> DEFINE U == Status(S, "connecting", q)
<1>3. Quiet(S, U) /\ U.pickup = S.pickup
  BY <1>1, <1>2, StatusQuiet
<1> HIDE DEF U
<1>4. GoodBut(U, P, a, X)
  BY <1>3, QuietGood
<1>5. T = S \/ T = U
  BY DEF U
<1> QED BY <1>3, <1>4, <1>5 DEF Quiet

\* The call that waited for the camera, still in the table, gets its connection.
LEMMA StartLiveGood ==
    ASSUME NEW S, NEW P, NEW a, Good(S, P, a), NEW c \in CallRef, RefOK(S, c), Alive(S, c),
           NEW auto
    PROVE  Good(StartLive(S, c, auto), P, a)
<1> DEFINE q == c.id
           T == IF auto THEN S ELSE Status(S, "connecting", q)
           d == [T.calls[q] EXCEPT !.pc = "stable", !.needs = TRUE]
           U == SetCall(T, q, d)
<1>0. q \in Peer /\ c.n # 0 /\ S \in Browser /\ S.calls[q].out = c.out
  BY DEF CallRef, Good, GoodBut, Base, Alive, RefOK
<1>1. GoodBut(T, P, a, {}) /\ T.calls = S.calls /\ T.lost = S.lost
      /\ T.pickup = S.pickup /\ T.queues = S.queues /\ T.offerless = S.offerless
  BY <1>0, ConnectingQuiet DEF Good
<1>2. HasCall(S, q) /\ S.calls[q] \in Call
  <2>1. S.calls[q].n # 0
    BY <1>0 DEF Alive
  <2> QED BY <1>0, <2>1, CallTypes
<1>3. StartLive(S, c, auto) =
         IF S.calls[q].pc # "none" THEN S
         ELSE IF c.out THEN [T EXCEPT !.calls[c.id].pc = "stable", !.calls[c.id].needs = TRUE]
         ELSE TakeQueue([T EXCEPT !.calls[c.id].pc = "stable", !.calls[c.id].needs = TRUE], q)
  BY DEF StartLive
<1> HIDE DEF T
<1>4. T \in Browser /\ HasCall(T, q) /\ T.calls[q] \in Call
  BY <1>1, <1>2 DEF GoodBut, Base, HasCall
<1>5. [T EXCEPT !.calls[c.id].pc = "stable", !.calls[c.id].needs = TRUE] = U
  <2>1. T.calls \in [Peer -> {NoCall} \cup Call]
    BY <1>4 DEF Browser, Fields, Table
  <2> QED BY <1>0, <1>4, <2>1 DEF SetCall, Browser, Fields
<1> HIDE DEF q
<1>6. CASE S.calls[q].pc # "none"
  BY <1>3, <1>6
<1>7. CASE S.calls[q].pc = "none"
  <2>1. T.calls[q].far = 0 /\ q \notin T.lost
    <3>1. S.calls[q].far = 0
      BY <1>0, <1>2, <1>7, CallTypes DEF Good, GoodBut, Base, FreshFar
    <3> QED BY <1>1, <3>1 DEF Good, GoodBut, Base, LostAnswered
  <2>2. d \in Call /\ d.n = T.calls[q].n /\ d.out = T.calls[q].out /\ d.pc = "stable"
    BY <1>4 DEF Call, Pc
  <2> HIDE DEF d
  <2>3. /\ Base(U, P, a) /\ CallIds(U) = CallIds(T) /\ Rest(T, U) /\ U.lost = T.lost
        /\ U.calls[q] = d /\ CameraUsed(U)
        /\ \A r \in Peer \ {q} : U.calls[r] = T.calls[r]
    BY <1>0, <1>1, <1>4, <2>1, <2>2, SetCallKeeps DEF GoodBut
  <2> HIDE DEF U
  <2>4. GoodBut(U, P, a, {q})
    <3>1. PickupWaits(U, {q})
      BY <1>1, <2>3 DEF GoodBut, PickupWaits, Rest, CallIds
    <3> QED BY <2>3, <3>1 DEF GoodBut
  <2>5. Owes(U, q) => Gets(U, q) /\ U.calls[q].pc # "none" /\ U.queues[q] # <<>> /\ ~c.out
    <3> SUFFICES ASSUME Owes(U, q)
                 PROVE  Gets(U, q) /\ U.calls[q].pc # "none" /\ U.queues[q] # <<>> /\ ~c.out
      OBVIOUS
    <3>1. Gets(U, q) /\ U.calls[q].pc # "none"
      BY <2>1, <2>2, <2>3 DEF Owes, Gets
    <3>2. q \in CallIds(S) /\ q \notin S.offerless /\ S.pickup = q
      BY <1>0, <1>1, <1>2, <2>3, CallTypes DEF Owes, Rest
    <3>3. ~S.calls[q].out /\ S.queues[q] # <<>>
      BY <3>2 DEF Good, GoodBut, PickupWaits
    <3> QED BY <1>0, <1>1, <2>3, <3>1, <3>3 DEF Rest
  <2>6. CASE c.out
    BY <1>0, <1>3, <1>5, <1>7, <2>4, <2>5, <2>6, NothingOwed
  <2>7. CASE ~c.out
    BY <1>0, <1>3, <1>5, <1>7, <2>4, <2>5, <2>7, TakeQueueGood
  <2> QED BY <2>6, <2>7
<1> QED BY <1>6, <1>7

\* A call that was closed while it waited takes the Offer of another one (offerless).
LEMMA StartClosedGood ==
    ASSUME NEW S, NEW P, NEW a, Good(S, P, a), NEW c \in CallRef, NEW auto
    PROVE  Good(StartClosed(S, c, auto), P, a)
<1> DEFINE q == c.id
           T == IF auto THEN S ELSE Status(S, "connecting", q)
           g == T.ghosts \cup {c}
           U == [T EXCEPT !.ghosts = g]
           ol == U.offerless \cup {q}
           V == [U EXCEPT !.offerless = ol]
<1>0. q \in Peer
  BY DEF CallRef
<1>1. GoodBut(T, P, a, {})
  BY <1>0, ConnectingQuiet DEF Good
<1>2. StartClosed(S, c, auto) =
         IF c \in S.ghosts THEN S
         ELSE IF c.out THEN [T EXCEPT !.ghosts = @ \cup {c}]
         ELSE TakeQueue([[T EXCEPT !.ghosts = @ \cup {c}] EXCEPT !.offerless = @ \cup {q}], q)
  BY DEF StartClosed
<1> HIDE DEF T
<1>3. T \in Browser
  BY <1>1 DEF GoodBut, Base
<1>4. [T EXCEPT !.ghosts = @ \cup {c}] = U /\ g \in SUBSET CallRef
  BY <1>3 DEF Browser, Fields
<1> HIDE DEF g, q
<1>5. U \in Browser /\ Quiet(T, U) /\ U.pickup = T.pickup
  <2>1. T \in Fields
    BY <1>3 DEF Browser
  <2>2. U \in Fields /\ U.status = T.status /\ U.who = T.who
    BY <2>1, <1>4 DEF Fields
  <2>3. U \in Browser
    BY <1>3, <2>2 DEF Browser
  <2> QED BY <2>1, <2>3, <1>4 DEF Quiet, Fields
<1> HIDE DEF U
<1>6. GoodBut(U, P, a, {})
  BY <1>1, <1>5, QuietGood
<1>7. [U EXCEPT !.offerless = @ \cup {q}] = V /\ ol \in SUBSET Peer
  BY <1>0, <1>5 DEF Browser, Fields
<1>8. U.offerless \subseteq ol /\ q \in ol
  OBVIOUS
<1> HIDE DEF ol
<1>9. /\ V \in Browser /\ V.calls = U.calls /\ V.count = U.count /\ V.lost = U.lost
      /\ V.conf = U.conf /\ V.media = U.media /\ V.pending = U.pending /\ V.failed = U.failed
      /\ V.queues = U.queues /\ V.n = U.n /\ V.agreed = U.agreed
      /\ V.slipped = U.slipped /\ V.offerless = ol /\ V.pickup = U.pickup
  <2>1. U \in Fields
    BY <1>5 DEF Browser
  <2>2. V \in Fields /\ V.status = U.status /\ V.who = U.who
    BY <2>1, <1>7 DEF Fields
  <2>3. V \in Browser
    BY <1>5, <2>2 DEF Browser
  <2> QED BY <2>1, <2>3, <1>7 DEF Fields
<1> HIDE DEF V
<1>10. CallIds(V) = CallIds(U)
  BY <1>9 DEF CallIds, HasCall
<1>11. GoodBut(V, P, a, {})
  <2>1. Counted(V) /\ LostAnswered(V) /\ FreshFar(V) /\ Numbered(V)
    BY <1>6, <1>9, <1>10 DEF GoodBut, Base, Counted, LostAnswered, FreshFar, Numbered, HasCall
  <2>2. Consent(V) /\ RefsOK(V, P) /\ (a => V.agreed \/ V.slipped)
    BY <1>6, <1>9 DEF GoodBut, Base, Consent, RefsOK, RefOK
  <2>3. CameraUsed(V) /\ PickupWaits(V, {})
    BY <1>6, <1>8, <1>9, <1>10 DEF GoodBut, CameraUsed, PickupWaits
  <2> QED BY <1>9, <2>1, <2>2, <2>3 DEF GoodBut, Base
<1>12. ~Owes(V, q)
  BY <1>8, <1>9 DEF Owes
<1>13. GoodBut(V, P, a, {q})
  BY <1>11, Weaker
<1>14. Good(TakeQueue(V, q), P, a)
  BY <1>0, <1>12, <1>13, TakeQueueGood
<1> QED BY <1>2, <1>4, <1>6, <1>7, <1>14 DEF Good

\* A call that waited for the camera is started, whether closed or not.
LEMMA MaybeStartGood ==
    ASSUME NEW S, NEW P, NEW a, Good(S, P, a), NEW c \in CallRef, RefOK(S, c), NEW auto
    PROVE  Good(MaybeStart(S, c, auto), P, a)
BY StartLiveGood, StartClosedGood DEF MaybeStart


(* The camera. *)
Waiting(S, c, md) == [S EXCEPT !.media = md, !.pending = Append(@, c)]

\* A call joins those that wait for the camera.
LEMMA WaitingGood ==
    ASSUME NEW S, NEW P, Good(S, P, TRUE), NEW c \in CallRef, RefOK(S, c),
           CallIds(S) # {}, NEW md \in {"off", "asking", "ready"}
    PROVE  Good(Waiting(S, c, md), P, TRUE)
<1> DEFINE s == Append(S.pending, c)
           T == [S EXCEPT !.media = md, !.pending = s]
<1>0. S \in Browser /\ S.pending \in Seq(CallRef)
  BY DEF Good, GoodBut, Base, Browser, Fields, Refs
<1>1. s \in Seq(CallRef) /\ \A i \in DOMAIN s : s[i] = c \/ (i \in DOMAIN S.pending /\ s[i] = S.pending[i])
  BY <1>0
<1>2. Waiting(S, c, md) = T
  BY <1>0 DEF Waiting, Browser, Fields
<1> HIDE DEF s
<1>3. /\ T \in Browser /\ T.calls = S.calls /\ T.count = S.count /\ T.lost = S.lost
      /\ T.conf = S.conf /\ T.media = md /\ T.pending = s /\ T.failed = S.failed
      /\ T.queues = S.queues /\ T.n = S.n /\ T.agreed = S.agreed
      /\ T.slipped = S.slipped /\ T.offerless = S.offerless /\ T.pickup = S.pickup
  <2>1. S \in Fields
    BY <1>0 DEF Browser
  <2>2. T \in Fields /\ T.status = S.status /\ T.who = S.who
    BY <2>1, <1>1 DEF Fields, Refs, Camera
  <2>3. T \in Browser
    BY <1>0, <2>2 DEF Browser
  <2> QED BY <2>1, <2>3, <1>1 DEF Fields
<1> HIDE DEF T
<1>4. CallIds(T) = CallIds(S)
  BY <1>3 DEF CallIds, HasCall
<1>5. Counted(T) /\ LostAnswered(T) /\ FreshFar(T) /\ Numbered(T)
  BY <1>3, <1>4 DEF Good, GoodBut, Base, Counted, LostAnswered, FreshFar, Numbered, HasCall
<1>6. Consent(T) /\ (T.agreed \/ T.slipped)
  BY <1>3 DEF Good, GoodBut, Base, Consent
<1>7. RefsOK(T, P)
  BY <1>1, <1>3 DEF Good, GoodBut, Base, RefsOK, RefOK
<1>8. CameraUsed(T) /\ PickupWaits(T, {})
  BY <1>3, <1>4 DEF Good, GoodBut, CameraUsed, PickupWaits
<1> QED BY <1>2, <1>3, <1>5, <1>6, <1>7, <1>8 DEF Good, GoodBut, Base

\* A call asks for the camera, or waits for it.
LEMMA DoCallUserMediaGood ==
    ASSUME NEW S, NEW P, Good(S, P, TRUE), NEW c \in CallRef, RefOK(S, c), CallIds(S) # {}
    PROVE  Good(DoCallUserMedia(S, c), P, TRUE)
<1>0. S \in Browser /\ S.media \in {"off", "asking", "ready"}
  BY DEF Good, GoodBut, Base, Browser, Fields, Camera
<1>1. CASE S.media = "off"
  <2> DEFINE T == Waiting(S, c, "asking")
             U == Status(T, "waitforusermedia", c.id)
  <2>1. DoCallUserMedia(S, c) = U
    BY <1>1 DEF DoCallUserMedia, Waiting
  <2>2. Good(T, P, TRUE)
    BY WaitingGood
  <2> HIDE DEF T
  <2>3. T \in Browser /\ "waitforusermedia" \in Line /\ c.id \in Ids
        /\ LineOK("waitforusermedia", c.id)
    BY <2>2 DEF Good, GoodBut, Base, Line, CallRef, Ids, LineOK
  <2>4. Quiet(T, U) /\ U.pickup = T.pickup
    BY <2>3, StatusQuiet
  <2> HIDE DEF U
  <2> QED BY <2>1, <2>2, <2>4, QuietGood DEF Good
<1>2. CASE S.media = "asking"
  <2>1. DoCallUserMedia(S, c) = Waiting(S, c, "asking")
    BY <1>0, <1>2 DEF DoCallUserMedia, Waiting, Browser, Fields
  <2> QED BY <2>1, WaitingGood
<1>3. CASE S.media = "ready"
  <2>1. DoCallUserMedia(S, c) = MaybeStart(S, c, FALSE)
    BY <1>3 DEF DoCallUserMedia
  <2> QED BY <2>1, MaybeStartGood
<1> QED BY <1>0, <1>1, <1>2, <1>3

\* A call of a conference starts at once when the camera is on.
LEMMA AutoStartGood ==
    ASSUME NEW S, NEW P, Good(S, P, TRUE), NEW c \in CallRef, RefOK(S, c), CallIds(S) # {}
    PROVE  Good(AutoStart(S, c), P, TRUE)
<1>0. S \in Browser /\ S.media \in {"off", "asking", "ready"}
  BY DEF Good, GoodBut, Base, Browser, Fields, Camera
<1>1. CASE S.media = "off"
  BY <1>1, DoCallUserMediaGood DEF AutoStart
<1>2. CASE S.media = "asking"
  <2>1. AutoStart(S, c) = Waiting(S, c, "asking")
    BY <1>0, <1>2 DEF AutoStart, Waiting, Browser, Fields
  <2> QED BY <2>1, WaitingGood
<1>3. CASE S.media = "ready"
  <2>1. AutoStart(S, c) = MaybeStart(S, c, TRUE)
    BY <1>3 DEF AutoStart
  <2> QED BY <2>1, MaybeStartGood
<1> QED BY <1>0, <1>1, <1>2, <1>3

\* Calling somebody, once the user has agreed to a call.
LEMMA DoCallGood ==
    ASSUME NEW S, NEW P, Good(S, P, TRUE), NEW q \in Peer, NEW auto \in BOOLEAN
    PROVE  Good(DoCall(S, q, auto), P, TRUE)
<1> DEFINE au == (auto /\ S.count > 0)
           c == NewCall(S.n + 1, TRUE, au)
           A == Add(S, q, c)
           T == ShowCall(A, q, c)
           U == IF auto THEN T ELSE Status(T, "connecting", q)
           V == IF S.count = 1 THEN ShowConference(U, TRUE) ELSE U
           y == TRUE
           R == P \cup {RefOf(q, c)}
<1>y. y /\ y = TRUE
  OBVIOUS
<1> HIDE DEF y
<1>0. S \in Browser /\ S.n \in Nat /\ Base(S, P, y)
  BY <1>y DEF Good, GoodBut, Base, Browser, Fields
<1>1. CASE ~MayAdd(S, q)
  BY <1>1 DEF DoCall
<1>2. CASE MayAdd(S, q)
  <2>1. c \in Call /\ c.n = S.n + 1 /\ c.far = 0 /\ c.out = TRUE
    <3>1. au \in BOOLEAN
      OBVIOUS
    <3> HIDE DEF au
    <3> QED BY <1>0, <3>1, NewCallIsCall
  <2>2. DoCall(S, q, auto) = IF S.count > 0 THEN AutoStart(V, Ref(V, q))
                             ELSE DoCallUserMedia(V, Ref(V, q))
    BY <1>2 DEF DoCall
  <2> HIDE DEF au, c
  <2>3. Base(A, R, y) /\ CallIds(A) = CallIds(S) \cup {q} /\ A.calls[q] = c
    <3>1. /\ Base(Add(S, q, c), P \cup {RefOf(q, c)}, y)
          /\ CallIds(Add(S, q, c)) = CallIds(S) \cup {q} /\ Add(S, q, c).calls[q] = c
      <4> HIDE DEF T, U, V, R, A
      <4> QED BY <1>0, <2>1, AddKeeps
    <3> QED BY <3>1
  <2> HIDE DEF A, R
  <2>4. A \in Browser
    BY <2>3 DEF Base
  <2>5. Quiet(A, T) /\ T.pickup = Nobody
    <3>1. c.out \in BOOLEAN
      BY <2>1
    <3>2. Quiet(A, ShowCall(A, q, c)) /\ ShowCall(A, q, c).pickup = Nobody
      <4> HIDE DEF T, U, V
      <4> QED BY <2>4, <3>1, ShowCallQuiet
    <3> QED BY <3>2
  <2> HIDE DEF T
  <2>6. Good(T, R, y) /\ T.calls = A.calls
    <3>1. Base(T, R, y) /\ CallIds(T) # {} /\ T.calls = A.calls
      BY <2>3, <2>5, QuietKeeps DEF Quiet
    <3>2. CameraUsed(T)
      BY <3>1 DEF CameraUsed
    <3>3. PickupWaits(T, {})
      BY <2>5, CallsAssumption DEF PickupWaits, CallIds
    <3> QED BY <3>1, <3>2, <3>3 DEF Good, GoodBut
  <2>7. GoodBut(U, R, y, {}) /\ U.calls = T.calls
    <3>1. GoodBut(T, R, y, {})
      BY <2>6 DEF Good
    <3> QED BY <3>1, ConnectingQuiet
  <2> HIDE DEF U
  <2>8. Good(V, R, y) /\ V.calls = U.calls
    <3>1. CASE S.count = 1
      <4>1. U \in Browser
        BY <2>7 DEF GoodBut, Base
      <4>2. Quiet(U, ShowConference(U, TRUE)) /\ ShowConference(U, TRUE).pickup = U.pickup
        BY <4>1, ShowConferenceQuiet
      <4>3. GoodBut(ShowConference(U, TRUE), R, y, {})
        BY <2>7, <4>2, QuietGood
      <4> QED BY <3>1, <4>2, <4>3 DEF Good, Quiet
    <3>2. CASE S.count # 1
      BY <2>7, <3>2 DEF Good
    <3> QED BY <3>1, <3>2
  <2> HIDE DEF V
  <2>9. Ref(V, q) = RefOf(q, c)
    BY <2>3, <2>6, <2>7, <2>8 DEF Ref, RefOf
  <2>10. Good(V, P, y) /\ RefOK(V, Ref(V, q)) /\ Ref(V, q) \in CallRef
    BY <2>8, <2>9 DEF Good, GoodBut, Base, RefsOK, R
  <2>11. CallIds(V) # {}
    <3>1. HasCall(V, q)
      BY <2>1, <2>3, <2>6, <2>7, <2>8 DEF HasCall, Call, NoCall
    <3> QED BY <3>1 DEF CallIds
  <2> QED BY <1>y, <2>2, <2>10, <2>11, AutoStartGood, DoCallUserMediaGood
<1> QED BY <1>1, <1>2

\* Calling the members of a conference.
LEMMA CallMembersGood ==
    ASSUME NEW S, NEW P, Good(S, P, TRUE), NEW ids \in SUBSET Peer
    PROVE  Good(CallMembers(S, ids), P, TRUE)
<1> DEFINE D == {q \in ids : S.me < q}
           z == CallEach(S, D)
<1>1. CallMembers(S, ids) = z
  BY DEF CallMembers, CallEach
<1>2. D \subseteq Peer /\ IsFiniteSet(D)
  BY FS_Subset, CallsAssumption
<1> HIDE DEF D, z
<1>3. PICK n \in Nat : \E e \in [1 .. n -> D] :
         /\ \A x \in D : \E i \in 1 .. n : e[i] = x
         /\ Run1("call", 0, e, n, S, z)
  BY <1>2, CallsRun DEF z
<1>4. PICK e \in [1 .. n -> D] : Run1("call", 0, e, n, S, z)
  BY <1>3
<1> DEFINE G == {T \in Browser : Good(T, P, TRUE)}
<1>5. S \in G
  BY DEF Good, GoodBut, Base
<1>6. ASSUME NEW i \in 1 .. n, NEW T \in G PROVE Body("call", 0, e[i], T) \in G
  <2> DEFINE U == DoCall(T, e[i], TRUE)
  <2>1. e[i] \in Peer
    BY <1>2
  <2>2. Good(U, P, TRUE)
    BY <2>1, DoCallGood
  <2> HIDE DEF U
  <2>3. U \in Browser
    BY <2>2 DEF Good, GoodBut, Base
  <2>4. Body("call", 0, e[i], T) = U
    BY DEF Body, U
  <2> QED BY <2>2, <2>3, <2>4
<1> HIDE DEF G
<1>7. z \in G
  BY <1>4, <1>5, <1>6, LoopStays
<1> QED BY <1>1, <1>7 DEF G

\* Accepting an Offer.
LEMMA AcceptOfferGood ==
    ASSUME NEW S, NEW P, Good(S, P, TRUE), NEW q \in Peer, NEW m \in OfferDoc
    PROVE  Good(AcceptOffer(S, q, m), P, TRUE)
<1> DEFINE T == Queued(S, q, m)
<1>1. AcceptOffer(S, q, m) = AutoStart(T, Ref(T, q))
  BY DEF AcceptOffer, Queued
<1>2. Good(T, P, TRUE) /\ q \in CallIds(T) /\ RefOK(T, Ref(T, q)) /\ Ref(T, q) \in CallRef
  BY QueuedGood DEF Good
<1> HIDE DEF T
<1> QED BY <1>1, <1>2, AutoStartGood

-----------------------------------------------------------------------------
(* Documents. *)
\* What the user agreed to before holds now.
LEMMA Consented ==
    ASSUME NEW S, NEW P, NEW a, Good(S, P, a), S.agreed \/ S.slipped
    PROVE  Good(S, P, TRUE)
BY DEF Good, GoodBut, Base

\* An Offer is processed.
LEMMA ProcessOfferGood ==
    ASSUME NEW S, Good(S, {}, FALSE), NEW q \in Peer, NEW m \in OfferDoc
    PROVE  Good(ProcessOffer(S, q, m), {}, FALSE)
<1>1. CASE Gets(S, q)
  <2>1. ProcessOffer(S, q, m) = TakeOffer(S, q, m)
    BY <1>1 DEF ProcessOffer
  <2>3. GoodBut(S, {}, FALSE, {q})
    BY WeakerFor
  <2> QED BY <1>1, <2>1, <2>3, TakeOfferGood
<1>2. CASE ~Gets(S, q) /\ m.conf = NoConf
  BY <1>2, IncomingGood DEF ProcessOffer, Good
<1>3. CASE ~Gets(S, q) /\ m.conf # NoConf /\ S.conf # m.conf
  BY <1>3, BusyGood DEF ProcessOffer, Good
<1>4. CASE ~Gets(S, q) /\ m.conf # NoConf /\ S.conf = m.conf
  <2>1. S.agreed \/ S.slipped
    BY <1>4 DEF Good, GoodBut, Base, Consent
  <2>2. Good(S, {}, TRUE)
    BY <2>1, Consented
  <2> DEFINE o == [m EXCEPT !.conf = NoConf]
  <2>3. o \in OfferDoc
    BY DEF OfferDoc, ConfId
  <2>4. ProcessOffer(S, q, m) = IF MayAdd(S, q) THEN AcceptOffer(S, q, o) ELSE S
    BY <1>4 DEF ProcessOffer
  <2> HIDE DEF o
  <2>5. Good(AcceptOffer(S, q, o), {}, FALSE)
    BY <2>2, <2>3, AcceptOfferGood, WeakerFlag DEF Good
  <2> QED BY <2>4, <2>5
<1> QED BY <1>1, <1>2, <1>3, <1>4

\* An Answer is processed.
LEMMA TakeAnswerGood ==
    ASSUME NEW S, Good(S, {}, FALSE), NEW q \in Peer, NEW m, m.n \in Nat
    PROVE  Good(TakeAnswer(S, q, m), {}, FALSE)
<1>0. S \in Browser /\ GoodBut(S, {}, FALSE, {q})
  BY WeakerFor DEF Good, GoodBut, Base
<1>1. CASE ~Gets(S, q) \/ S.calls[q].pc = "none"
  BY <1>1 DEF TakeAnswer
<1>2. CASE Gets(S, q) /\ S.calls[q].pc = "local"
  <2> DEFINE d == [S.calls[q] EXCEPT !.pc = "done", !.far = m.n]
             T == SetCall(S, q, d)
  <2>1. HasCall(S, q) /\ q \notin S.lost /\ S.calls[q] \in Call
    BY <1>0, <1>2, CallTypes DEF Gets
  <2>2. TakeAnswer(S, q, m) = [S EXCEPT !.calls[q].pc = "done", !.calls[q].far = m.n]
    BY <1>2 DEF TakeAnswer
  <2>3. TakeAnswer(S, q, m) = T
    <3>1. S.calls \in [Peer -> {NoCall} \cup Call]
      BY <1>0 DEF Browser, Fields, Table
    <3> QED BY <1>0, <2>2, <3>1 DEF SetCall, Browser, Fields
  <2>4. d \in Call /\ d.n = S.calls[q].n /\ d.out = S.calls[q].out /\ d.pc = "done"
    BY <2>1 DEF Call, Pc
  <2> HIDE DEF d
  <2>5. /\ Base(T, {}, FALSE) /\ CallIds(T) = CallIds(S) /\ Rest(S, T) /\ CameraUsed(T)
        /\ \A r \in Peer \ {q} : T.calls[r] = S.calls[r]
    <3> DEFINE none == {}
               no == FALSE
    <3>1. Base(S, none, no) /\ CameraUsed(S)
      BY <1>0 DEF GoodBut
    <3>2. d.pc = "none" => d.far = 0
      BY <2>4
    <3>3. SUFFICES /\ Base(T, none, no) /\ CallIds(T) = CallIds(S) /\ Rest(S, T)
                   /\ CameraUsed(T) /\ \A r \in Peer \ {q} : T.calls[r] = S.calls[r]
      OBVIOUS
    <3> HIDE DEF none, no
    <3> QED BY <2>1, <2>4, <3>1, <3>2, SetCallKeeps
  <2> HIDE DEF T
  <2>6. PickupWaits(T, {})
    <3> SUFFICES ASSUME NEW r \in CallIds(T) \ T.offerless, T.pickup = r
                 PROVE  T.calls[r].pc = "none" /\ ~T.calls[r].out /\ T.queues[r] # <<>>
      BY DEF PickupWaits
    <3>1. r \in CallIds(S) \ S.offerless /\ S.pickup = r /\ r \in Peer
      BY <2>5 DEF Rest, CallIds
    <3>2. S.calls[r].pc = "none" /\ ~S.calls[r].out /\ S.queues[r] # <<>>
      BY <3>1 DEF Good, GoodBut, PickupWaits
    <3>3. r # q
      BY <1>2, <3>2
    <3> QED BY <2>5, <3>1, <3>2, <3>3 DEF Rest
  <2> QED BY <2>3, <2>5, <2>6 DEF Good, GoodBut
<1>3. CASE Gets(S, q) /\ S.calls[q].pc \notin {"none", "local"}
  <2>1. TakeAnswer(S, q, m) = Fail(S, q)
    BY <1>3 DEF TakeAnswer
  <2> QED BY <1>0, <2>1, FailGood
<1> QED BY <1>1, <1>2, <1>3

\* A conference document is processed.
LEMMA TakeConferenceGood ==
    ASSUME NEW S, Good(S, {}, FALSE), NEW q \in Peer,
           NEW m, m.id \in ConfId, m.ids \in SUBSET Peer
    PROVE  Good(TakeConference(S, q, m), {}, FALSE)
<1> DEFINE i == m.id
           s == (S.slipped \/ ~S.agreed)
           T == [S EXCEPT !.conf = i, !.slipped = s]
           U == CallMembers(T, m.ids)
           V == ShowConference(U, TRUE)
<1>0. S \in Browser
  BY DEF Good, GoodBut, Base
<1>1. TakeConference(S, q, m) = V \/ TakeConference(S, q, m) = S
  <2>1. T = [S EXCEPT !.conf = m.id, !.slipped = @ \/ ~S.agreed]
    BY <1>0 DEF Browser, Fields
  <2> HIDE DEF T
  <2> QED BY <2>1 DEF TakeConference
<1>2. s \in BOOLEAN /\ (S.agreed \/ s)
  BY <1>0 DEF Browser, Fields
<1> HIDE DEF s, i
<1>3. /\ T \in Browser /\ T.calls = S.calls /\ T.count = S.count /\ T.lost = S.lost
      /\ T.media = S.media /\ T.pending = S.pending /\ T.failed = S.failed
      /\ T.queues = S.queues /\ T.n = S.n /\ T.agreed = S.agreed
      /\ T.slipped = s /\ T.offerless = S.offerless /\ T.pickup = S.pickup
  <2>0. S \in Fields /\ i \in ConfId
    BY <1>0 DEF Browser, i
  <2>1. T \in Fields /\ T.status = S.status /\ T.who = S.who
    <3>1. s \in BOOLEAN
      BY <1>2
    <3> QED BY <2>0, <3>1 DEF Fields
  <2>2. T \in Browser
    BY <1>0, <2>1 DEF Browser
  <2> QED BY <2>0, <2>2 DEF Fields
<1> HIDE DEF T
<1>4. CallIds(T) = CallIds(S)
  BY <1>3 DEF CallIds, HasCall
<1>5. Good(T, {}, TRUE)
  <2>1. Counted(T) /\ LostAnswered(T) /\ FreshFar(T) /\ Numbered(T)
    BY <1>3, <1>4 DEF Good, GoodBut, Base, Counted, LostAnswered, FreshFar, Numbered, HasCall
  <2>2. Consent(T) /\ (T.agreed \/ T.slipped)
    BY <1>2, <1>3 DEF Consent
  <2>3. RefsOK(T, {})
    BY <1>3 DEF Good, GoodBut, Base, RefsOK, RefOK
  <2>4. CameraUsed(T) /\ PickupWaits(T, {})
    BY <1>3, <1>4 DEF Good, GoodBut, CameraUsed, PickupWaits
  <2> QED BY <1>3, <2>1, <2>2, <2>3, <2>4 DEF Good, GoodBut, Base
<1>6. Good(U, {}, TRUE)
  BY <1>5, CallMembersGood
<1> HIDE DEF U
<1>7. U \in Browser
  BY <1>6 DEF Good, GoodBut, Base
<1>8. Quiet(U, V) /\ V.pickup = U.pickup
  BY <1>7, ShowConferenceQuiet
<1> HIDE DEF V
<1>9. Good(V, {}, FALSE)
  BY <1>6, <1>8, QuietGood, WeakerFlag DEF Good
<1> QED BY <1>1, <1>9

\* Any document is processed.
LEMMA ProcessGood ==
    ASSUME NEW S, Good(S, {}, FALSE), NEW q \in Peer, NEW m \in Document
    PROVE  Good(Process(S, q, m), {}, FALSE)
<1>1. CASE m.type = "Offer"
  <2>1. m \in OfferDoc
    BY <1>1 DEF Document
  <2> QED BY <1>1, <2>1, ProcessOfferGood DEF Process
<1>2. CASE m.type = "Answer"
  <2>1. m.n \in Nat
    BY <1>2 DEF Document, OfferDoc
  <2> QED BY <1>2, <2>1, TakeAnswerGood DEF Process
<1>3. CASE m.type = "Bye"
  <2>1. "receivedbye" \in Reason
    BY DEF Reason
  <2> QED BY <1>3, <2>1, HangUpGood DEF Process
<1>4. CASE m.type = "Conference"
  <2>1. m.id \in ConfId /\ m.ids \in SUBSET Peer
    BY <1>4 DEF Document, OfferDoc
  <2> QED BY <1>4, <2>1, TakeConferenceGood DEF Process
<1> QED BY <1>1, <1>2, <1>3, <1>4 DEF Document, OfferDoc

-----------------------------------------------------------------------------
(* Deferred functions. *)
LEMMA StateChangeGood ==
    ASSUME NEW S, Good(S, {}, FALSE), NEW t, t.ice \in Ice, t.who \in Peer
    PROVE  Good(StateChange(S, t), {}, FALSE)
<1>0. S \in Browser
  BY DEF Good, GoodBut, Base
<1>1. CASE t.ice = "connected"
  <2> DEFINE l == S.linked \cup {t.who}
             L == [S EXCEPT !.linked = l]
             T == IF t.who \in S.linked THEN S ELSE PushUpdate(L)
             U == Connected(T)
  <2>1. StateChange(S, t) = U
    <3>1. L = [S EXCEPT !.linked = @ \cup {t.who}]
      BY <1>0 DEF Browser, Fields
    <3> HIDE DEF L
    <3> QED BY <1>1, <3>1 DEF StateChange
  <2>2. l \in SUBSET Peer
    BY <1>0 DEF Browser, Fields
  <2> HIDE DEF l
  <2>3. Quiet(S, L) /\ L.pickup = S.pickup
    <3>1. S \in Fields
      BY <1>0 DEF Browser
    <3>2. L \in Fields /\ L.status = S.status /\ L.who = S.who
      BY <3>1, <2>2 DEF Fields
    <3>3. L \in Browser
      BY <1>0, <3>2 DEF Browser
    <3> QED BY <3>1, <3>3, <2>2 DEF Quiet, Fields
  <2> HIDE DEF L
  <2>4. GoodBut(L, {}, FALSE, {})
    BY <2>3, QuietGood DEF Good
  <2>5. GoodBut(T, {}, FALSE, {})
    BY <2>4, PushUpdateKeeps DEF Good
  <2> HIDE DEF T
  <2>6. Quiet(T, U) /\ U.pickup = T.pickup
    BY <2>5, ConnectedQuiet DEF GoodBut, Base
  <2> HIDE DEF U
  <2> QED BY <2>1, <2>5, <2>6, QuietGood DEF Good
<1>2. CASE t.ice = "failed"
  <2>1. "failed" \in Reason
    BY DEF Reason
  <2>2. StateChange(S, t) = HangUp(S, "failed", t.who)
    BY <1>2 DEF StateChange
  <2>3. Good(HangUp(S, "failed", t.who), {}, FALSE)
    BY <2>1, HangUpGood
  <2> QED BY <2>2, <2>3
<1>3. CASE t.ice \notin {"connected", "failed"}
  BY <1>3 DEF StateChange
<1> QED BY <1>1, <1>2, <1>3

\* A deferred function runs.
LEMMA RunGood ==
    ASSUME NEW S, Good(S, {}, FALSE), NEW t \in Task
    PROVE  Good(Run(S, t), {}, FALSE)
<1>1. CASE t.do = "hangup"
  <2>1. t \in [do : {"hangup"}, who : Peer]
    BY <1>1 DEF Task
  <2>2. "error" \in Reason /\ t.who \in Peer
    BY <2>1 DEF Reason
  <2> QED BY <1>1, <2>2, HangUpGood DEF Run
<1>2. CASE t.do = "state"
  <2>2. t \in [do : {"state"}, ice : Ice, who : Peer]
    BY <1>2 DEF Task
  <2>1. t.ice \in Ice /\ t.who \in Peer
    BY <2>2
  <2> QED BY <1>2, <2>1, StateChangeGood DEF Run
<1>3. CASE t.do = "done"
  <2> DEFINE T == Status(S, "waiting", Nobody)
  <2>1. "waiting" \in Line /\ LineOK("waiting", Nobody) /\ Nobody \in Ids
    BY DEF Line, Named, LineOK, Ids
  <2>2. S \in Browser
    BY DEF Good, GoodBut, Base
  <2>3. Quiet(S, T) /\ T.pickup = S.pickup
    BY <2>1, <2>2, StatusQuiet
  <2>4. Run(S, t) = T
    BY <1>3 DEF Run
  <2> HIDE DEF T
  <2> QED BY <2>3, <2>4, QuietGood DEF Good
<1> QED BY <1>1, <1>2, <1>3 DEF Task

(* The inductive invariant. *)
IInv ==
    /\ peer \in [Peer -> Browser]
    /\ net \in [Peer \X Peer -> Seq(Document)]
    /\ gone \subseteq Crashers
    /\ trouble \in 0 .. MaxTrouble
    /\ \A p \in Peer : Good(peer[p], {}, FALSE) /\ peer[p].out = <<>>

\* What is sent to one browser is a sequence of documents.
LEMMA MailTyped ==
    ASSUME NEW q, NEW out \in Seq(Peer \X Document)
    PROVE  Mail(q, out) \in Seq(Document)
<1> DEFINE n == Len(out)
           z == Mail(q, out)
<1>1. n \in Nat /\ DOMAIN out = 1 .. n /\ \A i \in 1 .. n : out[i] \in Peer \X Document
  OBVIOUS
<1> HIDE DEF n, z
<1>2. Run1("mail", q, out, n, <<>>, z)
  BY <1>1, MailRuns DEF z
<1>3. <<>> \in Seq(Document)
  OBVIOUS
<1>4. ASSUME NEW i \in 1 .. n, NEW T \in Seq(Document)
      PROVE  Body("mail", q, out[i], T) \in Seq(Document)
  <2>1. out[i][2] \in Document
    BY <1>1
  <2> DEFINE d == out[i][2]
  <2>2. Append(T, d) \in Seq(Document)
    <3> HIDE DEF d
    <3> QED BY <2>1 DEF d
  <2>3. Body("mail", q, out[i], T) = IF out[i][1] = q THEN Append(T, d) ELSE T
    BY DEF Body
  <2> HIDE DEF d
  <2> QED BY <2>2, <2>3
<1> DEFINE G == Seq(Document)
<1> HIDE DEF G
<1>5. z \in G
  BY <1>1, <1>2, <1>3, <1>4, LoopStays DEF G
<1> QED BY <1>5 DEF z, G

\* A handler of one browser that ends well keeps the invariant.
LEMMA BecomeKeeps ==
    ASSUME IInv, NEW p \in Peer, NEW S, Good(S, {}, FALSE), NEW read,
           read \in Peer => net[<<read, p>>] # <<>>, Become(p, S, read),
           trouble' \in 0 .. MaxTrouble
    PROVE  IInv'
<1> DEFINE R == [S EXCEPT !.out = <<>>]
<1>0. S \in Browser
  BY DEF Good, GoodBut, Base
<1>1. Quiet(S, R) /\ R.pickup = S.pickup /\ R.out = <<>>
  <2>1. S \in Fields
    BY <1>0 DEF Browser
  <2>2. <<>> \in Seq(Peer \X Document)
    OBVIOUS
  <2>3. R \in Fields /\ R.status = S.status /\ R.who = S.who /\ R.out = <<>>
    BY <2>1, <2>2 DEF Fields, Posts
  <2>4. R \in Browser
    BY <1>0, <2>3 DEF Browser
  <2> QED BY <2>1, <2>3, <2>4 DEF Quiet, Fields
<1>2. peer' = [peer EXCEPT ![p] = R]
  BY DEF Become
<1> HIDE DEF R
<1>3. Good(R, {}, FALSE) /\ R \in Browser
  BY <1>1, QuietGood DEF Good, Quiet
<1>4. peer' \in [Peer -> Browser] /\ \A q \in Peer : peer'[q] = IF q = p THEN R ELSE peer[q]
  BY <1>2, <1>3 DEF IInv
<1>5. net' \in [Peer \X Peer -> Seq(Document)]
  <2> DEFINE N(pq) == IF pq[1] = p /\ pq[2] \notin gone
                      THEN net[pq] \o Mail(pq[2], S.out)
                      ELSE IF pq = <<read, p>> THEN Tail(net[pq]) ELSE net[pq]
  <2>1. net' = [pq \in Peer \X Peer |-> N(pq)]
    BY DEF Become
  <2>2. ASSUME NEW pq \in Peer \X Peer PROVE N(pq) \in Seq(Document)
    <3>1. net[pq] \in Seq(Document)
      BY DEF IInv
    <3>2. Mail(pq[2], S.out) \in Seq(Document)
      BY <1>0, MailTyped DEF Browser, Fields, Posts
    <3>3. net[pq] \o Mail(pq[2], S.out) \in Seq(Document)
      BY <3>1, <3>2
    <3>4. pq = <<read, p>> => Tail(net[pq]) \in Seq(Document)
      BY <3>1
    <3> QED BY <3>1, <3>3, <3>4
  <2> HIDE DEF N
  <2> QED BY <2>1, <2>2
<1>6. gone' = gone
  BY DEF Become
<1> QED BY <1>1, <1>3, <1>4, <1>5, <1>6 DEF IInv

\* A browser without calls.
LEMMA IdleGood ==
    ASSUME NEW p \in Peer
    PROVE  Good(Idle(p, 0), {}, FALSE) /\ Idle(p, 0).out = <<>>
<1> DEFINE S == Idle(p, 0)
           cs == [q \in Peer |-> NoCall]
           qs == [q \in Peer |-> <<>>]
<1>1. cs \in [Peer -> {NoCall} \cup Call]
  OBVIOUS
<1>2. qs \in [Peer -> Seq(OfferDoc)]
  <2>1. <<>> \in Seq(OfferDoc)
    OBVIOUS
  <2> QED BY <2>1
<1>3. /\ <<>> \in Seq(CallRef) /\ <<>> \in Seq(Task) /\ <<>> \in Seq(Peer)
      /\ <<>> \in Seq(Peer \X Document)
  OBVIOUS
<1>3a. NoConf \in ConfId /\ "waiting" \in Line /\ LineOK("waiting", Nobody) /\ Nobody \in Ids
  BY DEF ConfId, Line, LineOK, Named, Ids
<1>4. S \in Fields /\ S.status = "waiting" /\ S.who = Nobody
  BY <1>1, <1>2, <1>3, <1>3a DEF Idle, Fields, Table, Camera, Refs, Waits, Tasks, Posts, Timers
<1>5. S \in Browser
  BY <1>3a, <1>4 DEF Browser
<1>6. /\ S.calls = cs /\ S.count = 0 /\ S.lost = {} /\ S.media = "off" /\ S.conf = NoConf
      /\ S.pending = <<>> /\ S.n = 0 /\ S.pickup = Nobody /\ S.out = <<>>
  BY DEF Idle
<1> HIDE DEF S
<1>7. \A q \in Peer : ~HasCall(S, q) /\ S.calls[q].n = 0
  BY <1>6 DEF HasCall, NoCall
<1>8. CallIds(S) = {}
  BY <1>7 DEF CallIds
<1>9. Counted(S)
  BY <1>6, <1>8, FS_EmptySet DEF Counted
<1>10. LostAnswered(S) /\ FreshFar(S) /\ Consent(S) /\ Numbered(S)
  BY <1>6, <1>7, <1>8 DEF LostAnswered, FreshFar, Consent, Numbered
<1>11. RefsOK(S, {})
  BY <1>6 DEF RefsOK
<1>12. CameraUsed(S) /\ PickupWaits(S, {})
  BY <1>6, <1>8 DEF CameraUsed, PickupWaits
<1> QED BY <1>5, <1>6, <1>9, <1>10, <1>11, <1>12 DEF Good, GoodBut, Base, S

\* The invariant holds initially.
LEMMA InitInv ==
    ASSUME Init
    PROVE  IInv
<1>1. \A p \in Peer : peer[p] = Idle(p, 0)
  BY DEF Init
<1>2. \A p \in Peer : Good(peer[p], {}, FALSE) /\ peer[p].out = <<>>
  BY <1>1, IdleGood
<1>3. peer \in [Peer -> Browser]
  <2>1. \A p \in Peer : Idle(p, 0) \in Browser
    BY IdleGood DEF Good, GoodBut, Base
  <2> QED BY <2>1 DEF Init
<1>4. net \in [Peer \X Peer -> Seq(Document)]
  <2>1. <<>> \in Seq(Document)
    OBVIOUS
  <2> QED BY <2>1 DEF Init
<1>5. gone \subseteq Crashers /\ trouble \in 0 .. MaxTrouble
  BY CallsAssumption DEF Init
<1> QED BY <1>2, <1>3, <1>4, <1>5 DEF IInv

-----------------------------------------------------------------------------
(* Clicks. *)
\* The click that calls or accepts.
Agree(S) == [S EXCEPT !.acts = @ + 1, !.agreed = TRUE]

\* A click on call or accept is the consent to use the camera.
LEMMA AgreeGood ==
    ASSUME NEW S, Good(S, {}, FALSE)
    PROVE  /\ Good(Agree(S), {}, TRUE) /\ Agree(S).calls = S.calls
           /\ CallIds(Agree(S)) = CallIds(S)
<1> DEFINE k == S.acts + 1
           T == [S EXCEPT !.acts = k, !.agreed = TRUE]
<1>0. S \in Browser /\ S \in Fields
  BY DEF Good, GoodBut, Base, Browser
<1>1. Agree(S) = T /\ k \in Nat
  BY <1>0 DEF Agree, Fields
<1> HIDE DEF k
<1>2. T \in Fields /\ T.status = S.status /\ T.who = S.who
  BY <1>0, <1>1 DEF Fields
<1>3. T \in Browser
  BY <1>0, <1>2 DEF Browser
<1>4. /\ T.calls = S.calls /\ T.count = S.count /\ T.lost = S.lost
      /\ T.media = S.media /\ T.pending = S.pending /\ T.failed = S.failed
      /\ T.queues = S.queues /\ T.n = S.n /\ T.slipped = S.slipped
      /\ T.offerless = S.offerless /\ T.pickup = S.pickup
  BY <1>0 DEF Fields
<1>5. T.agreed
  BY <1>0 DEF Fields
<1> HIDE DEF T
<1>6. CallIds(T) = CallIds(S)
  BY <1>4 DEF CallIds, HasCall
<1>7. Counted(T) /\ LostAnswered(T) /\ FreshFar(T) /\ Numbered(T)
  BY <1>4, <1>6 DEF Good, GoodBut, Base, Counted, LostAnswered, FreshFar, Numbered, HasCall
<1>8. Consent(T) /\ (T.agreed \/ T.slipped)
  BY <1>5 DEF Consent
<1>9. RefsOK(T, {})
  BY <1>4 DEF Good, GoodBut, Base, RefsOK, RefOK
<1>10. CameraUsed(T) /\ PickupWaits(T, {})
  BY <1>4, <1>6 DEF Good, GoodBut, CameraUsed, PickupWaits
<1> QED BY <1>1, <1>3, <1>4, <1>6, <1>7, <1>8, <1>9, <1>10 DEF Good, GoodBut, Base

\* The user calls somebody.
LEMMA DialKeeps ==
    ASSUME IInv, NEW p \in Peer, NEW q \in Peer, Dial(p, q)
    PROVE  IInv'
<1> DEFINE S == DoCall(Agree(peer[p]), q, FALSE)
<1>1. Good(peer[p], {}, FALSE) /\ trouble' \in 0 .. MaxTrouble
  BY DEF IInv, Dial
<1>2. Become(p, S, Nobody)
  BY DEF Dial, Agree
<1>3. Good(S, {}, FALSE)
  BY <1>1, AgreeGood, DoCallGood, WeakerFlag DEF Good
<1> HIDE DEF S
<1> QED BY <1>1, <1>2, <1>3, BecomeKeeps, CallsAssumption

\* The user accepts.
LEMMA AcceptKeeps ==
    ASSUME IInv, NEW p \in Peer, Accept(p)
    PROVE  IInv'
<1> DEFINE S == peer[p]
           T == Agree(S)
           c == Ref(S, S.who)
           U == DoCallUserMedia(T, c)
<1>1. Good(S, {}, FALSE) /\ trouble' \in 0 .. MaxTrouble
  BY DEF IInv, Accept
<1>2. S \in Browser /\ S.who \in Peer /\ HasCall(S, S.who)
  <2>1. S \in Browser
    BY DEF IInv
  <2>2. S.status = "ringing" /\ Gets(S, S.who)
    BY DEF Accept
  <2> QED BY <2>1, <2>2 DEF Browser, LineOK, Named, Gets
<1>3. Become(p, U, Nobody)
  BY DEF Accept, Agree
<1> HIDE DEF S
<1>4. Good(T, {}, TRUE) /\ T.calls = S.calls /\ CallIds(T) = CallIds(S)
  BY <1>1, AgreeGood
<1>5. c \in CallRef /\ c.id = S.who /\ c.n = S.calls[S.who].n /\ c.out = S.calls[S.who].out
  <2>1. S.calls[S.who] \in Call
    BY <1>2, CallTypes
  <2> QED BY <1>2, <2>1 DEF Ref, CallRef, Call
<1> HIDE DEF T
<1>6. RefOK(T, c)
  <2>1. T.calls[S.who].n <= T.n
    BY <1>2, <1>4 DEF Good, GoodBut, Base, Numbered
  <2> QED BY <1>4, <1>5, <2>1 DEF RefOK
<1>7. CallIds(T) # {}
  BY <1>2, <1>4 DEF CallIds
<1> HIDE DEF c
<1>8. Good(U, {}, FALSE)
  BY <1>4, <1>5, <1>6, <1>7, DoCallUserMediaGood, WeakerFlag DEF Good
<1> HIDE DEF U
<1> QED BY <1>1, <1>3, <1>8, BecomeKeeps, CallsAssumption

\* Troubles are counted up to their bound.
LEMMA SpendTyped ==
    ASSUME IInv, Spend
    PROVE  trouble' \in 0 .. MaxTrouble
BY CallsAssumption DEF IInv, Spend

\* The user rejects.
LEMMA RejectKeeps ==
    ASSUME IInv, NEW p \in Peer, Reject(p)
    PROVE  IInv'
<1> DEFINE r == IF peer[p].status = "ringing" THEN "reject" ELSE "none"
           S == HangUpAll(peer[p], r)
<1>1. Good(peer[p], {}, FALSE) /\ trouble' \in 0 .. MaxTrouble
  BY SpendTyped DEF IInv, Reject
<1>2. Become(p, S, Nobody)
  BY DEF Reject
<1>3. r \in Reason
  BY DEF Reason
<1> HIDE DEF r
<1>4. Good(S, {}, FALSE)
  BY <1>1, <1>3, HangUpAllGood
<1> HIDE DEF S
<1> QED BY <1>1, <1>2, <1>4, BecomeKeeps, CallsAssumption

\* The user gives up.
LEMMA AbortKeeps ==
    ASSUME IInv, NEW p \in Peer, Abort(p)
    PROVE  IInv'
<1> DEFINE S == HangUp(peer[p], "abort", peer[p].who)
<1>1. Good(peer[p], {}, FALSE) /\ trouble' \in 0 .. MaxTrouble
  BY SpendTyped DEF IInv, Abort
<1>2. Become(p, S, Nobody)
  BY DEF Abort
<1>3. "abort" \in Reason
  BY DEF Reason
<1>4. peer[p].who \in Peer
  <2>1. peer[p] \in Browser
    BY DEF IInv
  <2> QED BY <2>1 DEF Abort, Browser, LineOK, Named
<1>5. Good(S, {}, FALSE)
  BY <1>1, <1>3, <1>4, HangUpGood
<1> HIDE DEF S
<1> QED BY <1>1, <1>2, <1>5, BecomeKeeps, CallsAssumption

\* The user mutes or shows the camera, and connected calls negotiate again.
LEMMA MuteKeeps ==
    ASSUME IInv, NEW p \in Peer, Mute(p)
    PROVE  IInv'
<1> DEFINE S == peer[p]
           Muted(call) == IF call # NoCall /\ call.pc # "none"
                          THEN [call EXCEPT !.needs = TRUE] ELSE call
           cs == [q \in Peer |-> Muted(S.calls[q])]
           T == [S EXCEPT !.calls = cs]
<1>1. Good(S, {}, FALSE) /\ trouble' \in 0 .. MaxTrouble
  BY SpendTyped DEF IInv, Mute
<1>2. S \in Browser /\ S \in Fields
  BY DEF IInv, Browser
<1>3. Become(p, T, Nobody)
  <2>1. T = [S EXCEPT !.calls = [q \in Peer |->
                    IF @[q] # NoCall /\ @[q].pc # "none" THEN [@[q] EXCEPT !.needs = TRUE] ELSE @[q]]]
    BY <1>2 DEF Fields
  <2> HIDE DEF T
  <2> QED BY <2>1 DEF Mute
<1> HIDE DEF S
<1>4. ASSUME NEW q \in Peer
      PROVE  /\ cs[q] \in {NoCall} \cup Call /\ (cs[q] = NoCall <=> S.calls[q] = NoCall)
             /\ cs[q].n = S.calls[q].n
             /\ S.calls[q] # NoCall => /\ cs[q].out = S.calls[q].out /\ cs[q].pc = S.calls[q].pc
                                       /\ cs[q].far = S.calls[q].far
             /\ cs[q].out = S.calls[q].out
  <2>1. S.calls[q] \in {NoCall} \cup Call /\ NoCall \notin Call
    BY <1>2 DEF Fields, Call, NoCall, Table
  <2>2. cs[q] = Muted(S.calls[q])
    OBVIOUS
  <2>3. CASE S.calls[q] = NoCall
    BY <2>2, <2>3
  <2>4. CASE S.calls[q] # NoCall
    <3>1. S.calls[q] \in Call
      BY <2>1, <2>4
    <3>2. Muted(S.calls[q]) \in Call /\ Muted(S.calls[q]).n = S.calls[q].n
          /\ Muted(S.calls[q]).out = S.calls[q].out /\ Muted(S.calls[q]).pc = S.calls[q].pc
          /\ Muted(S.calls[q]).far = S.calls[q].far
      BY <3>1 DEF Call
    <3> HIDE DEF Muted, cs
    <3> QED BY <2>1, <2>2, <2>4, <3>2
  <2> QED BY <2>3, <2>4
<1>5. cs \in [Peer -> {NoCall} \cup Call]
  <2> HIDE DEF Muted
  <2>1. \A q \in Peer : Muted(S.calls[q]) \in {NoCall} \cup Call
    BY <1>4
  <2> QED BY <2>1
<1> HIDE DEF cs
<1>6. T \in Fields /\ T.status = S.status /\ T.who = S.who
  BY <1>2, <1>5 DEF Fields, Table
<1>7. T \in Browser
  BY <1>2, <1>6 DEF Browser
<1>8. /\ T.calls = cs /\ T.count = S.count /\ T.lost = S.lost /\ T.conf = S.conf
      /\ T.media = S.media /\ T.pending = S.pending /\ T.failed = S.failed
      /\ T.queues = S.queues /\ T.n = S.n /\ T.slipped = S.slipped /\ T.agreed = S.agreed
      /\ T.offerless = S.offerless /\ T.pickup = S.pickup
  BY <1>2 DEF Fields
<1> HIDE DEF T
<1>9. CallIds(T) = CallIds(S) /\ \A q \in Peer : HasCall(T, q) <=> HasCall(S, q)
  BY <1>4, <1>8 DEF CallIds, HasCall
<1>10. S.lost \subseteq Peer
  BY <1>2 DEF Fields
<1>11. Counted(T) /\ LostAnswered(T)
  BY <1>1, <1>4, <1>8, <1>9, <1>10 DEF Good, GoodBut, Base, Counted, LostAnswered, HasCall
<1>12. FreshFar(T) /\ Numbered(T)
  BY <1>1, <1>4, <1>8, <1>9 DEF Good, GoodBut, Base, FreshFar, Numbered, CallIds, HasCall
<1>13. Consent(T)
  BY <1>1, <1>8 DEF Good, GoodBut, Base, Consent
<1>14. RefsOK(T, {})
  <2>1. S.pending \in Seq(CallRef)
    BY <1>2 DEF Fields, Refs
  <2>2. \A i \in DOMAIN S.pending : S.pending[i] \in CallRef
    BY <2>1
  <2>3. \A c \in CallRef : c.id \in Peer
    BY DEF CallRef
  <2> QED BY <1>1, <1>4, <1>8, <2>2, <2>3 DEF Good, GoodBut, Base, RefsOK, RefOK
<1>15. CameraUsed(T)
  BY <1>1, <1>8, <1>9 DEF Good, GoodBut, CameraUsed
<1>16. PickupWaits(T, {})
  BY <1>1, <1>4, <1>8, <1>9 DEF Good, GoodBut, PickupWaits, CallIds, HasCall
<1>17. Good(T, {}, FALSE)
  BY <1>7, <1>11, <1>12, <1>13, <1>14, <1>15, <1>16 DEF Good, GoodBut, Base
<1> QED BY <1>1, <1>3, <1>17, BecomeKeeps, CallsAssumption

(* Events of the browser. *)
LEMMA MediaKeeps ==
    ASSUME IInv, NEW p \in Peer, Media(p)
    PROVE  IInv'
<1> DEFINE S == peer[p]
           F == S.pending
           n == Len(F)
           P == {F[i] : i \in 1 .. n}
           e == <<>>
           b == [S EXCEPT !.media = "ready", !.pending = e]
           z == StartEach(b, F)
<1>1. Good(S, {}, FALSE) /\ trouble' \in 0 .. MaxTrouble /\ S.media = "asking"
  BY DEF IInv, Media
<1>2. S \in Browser /\ S \in Fields
  BY DEF IInv, Browser
<1>3. Become(p, z, Nobody)
  BY DEF Media, StartEach
<1> HIDE DEF z, S
<1>4. n \in Nat /\ DOMAIN F = 1 .. n /\ \A i \in 1 .. n : F[i] \in CallRef
  <2>1. F \in Seq(CallRef)
    BY <1>2 DEF Fields, Refs
  <2> HIDE DEF F
  <2> QED BY <2>1
<1> HIDE DEF n
<1>5. Run1("start", 0, F, n, b, z)
  BY <1>4, StartsRun DEF z
<1>6. e \in Seq(CallRef) /\ DOMAIN e = {}
  OBVIOUS
<1> HIDE DEF e
<1>7. b \in Fields /\ b.status = S.status /\ b.who = S.who
  BY <1>2, <1>6 DEF Fields, Refs, Camera
<1>8. b \in Browser
  BY <1>2, <1>7 DEF Browser
<1>9. /\ b.calls = S.calls /\ b.count = S.count /\ b.lost = S.lost /\ b.conf = S.conf
      /\ b.media = "ready" /\ b.pending = e /\ b.failed = S.failed
      /\ b.queues = S.queues /\ b.n = S.n /\ b.slipped = S.slipped /\ b.agreed = S.agreed
      /\ b.offerless = S.offerless /\ b.pickup = S.pickup
  BY <1>2 DEF Fields
<1> HIDE DEF b
<1>10. CallIds(b) = CallIds(S)
  BY <1>9 DEF CallIds, HasCall
<1>11. Good(b, P, FALSE)
  <2>1. Counted(b) /\ LostAnswered(b) /\ FreshFar(b) /\ Numbered(b)
    BY <1>1, <1>9, <1>10 DEF Good, GoodBut, Base, Counted, LostAnswered, FreshFar, Numbered, HasCall
  <2>2. Consent(b)
    BY <1>1, <1>9 DEF Good, GoodBut, Base, Consent
  <2>3. RefsOK(b, P)
    <3>1. \A i \in 1 .. n : RefOK(S, F[i])
      BY <1>1, <1>4 DEF Good, GoodBut, Base, RefsOK
    <3>2. \A i \in 1 .. n : RefOK(b, F[i])
      BY <1>9, <3>1 DEF RefOK
    <3>3. P \subseteq CallRef /\ \A c \in P : RefOK(b, c)
      BY <1>4, <3>2
    <3> HIDE DEF P
    <3> QED BY <1>6, <1>9, <3>3 DEF RefsOK
  <2>4. CameraUsed(b) /\ PickupWaits(b, {})
    BY <1>1, <1>9, <1>10 DEF Good, GoodBut, CameraUsed, PickupWaits
  <2> HIDE DEF P
  <2> QED BY <1>8, <2>1, <2>2, <2>3, <2>4 DEF Good, GoodBut, Base
<1>12. \A i \in 1 .. n : F[i] \in P
  OBVIOUS
<1> HIDE DEF P, F
<1> DEFINE G == {T \in Browser : Good(T, P, FALSE)}
<1>13. b \in G
  BY <1>8, <1>11
<1>14. ASSUME NEW i \in 1 .. n, NEW T \in G PROVE Body("start", 0, F[i], T) \in G
  <2> DEFINE U == MaybeStart(T, F[i], FALSE)
  <2>1. F[i] \in CallRef /\ RefOK(T, F[i])
    BY <1>4, <1>12 DEF Good, GoodBut, Base, RefsOK
  <2>2. Good(U, P, FALSE)
    BY <2>1, MaybeStartGood
  <2> HIDE DEF U
  <2>3. U \in Browser
    BY <2>2 DEF Good, GoodBut, Base
  <2>4. Body("start", 0, F[i], T) = U
    BY DEF Body, U
  <2> QED BY <2>2, <2>3, <2>4
<1> HIDE DEF G
<1>15. z \in G
  BY <1>4, <1>5, <1>13, <1>14, LoopStays
<1>16. Good(z, {}, FALSE)
  BY <1>15 DEF G, Good, GoodBut, Base, RefsOK
<1> QED BY <1>1, <1>3, <1>16, BecomeKeeps, CallsAssumption

\* An Offer is a document.
LEMMA OfferIsDocument ==
    ASSUME NEW n \in Nat, NEW conf \in ConfId
    PROVE  Offer(n, conf) \in Document
BY DEF Offer, OfferDoc, Document

\* The browser has made the Offer of a call.
LEMMA SendOfferKeeps ==
    ASSUME IInv, NEW p \in Peer, NEW q \in Peer, SendOffer(p, q)
    PROVE  IInv'
<1> DEFINE S == peer[p]
           T == IF S.calls[q].auto THEN GetOrCreateId(S) ELSE S
           k == IF S.calls[q].auto THEN T.conf ELSE NoConf
           m == Offer(S.calls[q].n, k)
           d == [T.calls[q] EXCEPT !.needs = FALSE, !.pc = "local"]
           U == SetCall(T, q, d)
           V == Send(U, q, m)
<1>1. GoodBut(S, {}, FALSE, {}) /\ trouble' \in 0 .. MaxTrouble /\ HasCall(S, q)
      /\ S.calls[q].pc \in {"stable", "done"}
  BY DEF IInv, SendOffer, Good
<1>2. Become(p, Send([T EXCEPT !.calls[q].needs = FALSE, !.calls[q].pc = "local"], q, m), Nobody)
  BY DEF SendOffer
<1>3. S \in Browser
  BY DEF IInv
<1> HIDE DEF S
<1>4. GoodBut(T, {}, FALSE, {}) /\ T.calls = S.calls
  BY <1>1, GetOrCreateIdKeeps
<1> HIDE DEF T
<1>5. T \in Browser /\ T \in Fields /\ HasCall(T, q) /\ T.calls[q] \in Call
  <2>1. T \in Browser /\ HasCall(T, q)
    BY <1>1, <1>4 DEF GoodBut, Base, HasCall
  <2> QED BY <2>1, CallTypes DEF Browser
<1>6. m \in Document
  <2>1. k \in ConfId
    BY <1>5 DEF Fields, ConfId
  <2>2. S.calls[q].n \in Nat
    BY <1>3, CallTypes
  <2> HIDE DEF k
  <2> QED BY <2>1, <2>2, OfferIsDocument
<1> HIDE DEF m
<1>7. [T EXCEPT !.calls[q].needs = FALSE, !.calls[q].pc = "local"] = U
  <2>1. T.calls \in [Peer -> {NoCall} \cup Call]
    BY <1>5 DEF Fields, Table
  <2> QED BY <1>5, <2>1 DEF SetCall, Fields
<1>8. d \in Call /\ d.n = T.calls[q].n /\ d.out = T.calls[q].out /\ d.pc = "local"
      /\ d.far = T.calls[q].far
  BY <1>5 DEF Call, Pc
<1> HIDE DEF d
<1>9. /\ Base(U, {}, FALSE) /\ CallIds(U) = CallIds(T) /\ Rest(T, U) /\ CameraUsed(U)
      /\ \A r \in Peer \ {q} : U.calls[r] = T.calls[r]
  <2>1. q \in T.lost => T.calls[q].far # 0
    BY <1>4 DEF GoodBut, Base, LostAnswered
  <2>2. Base(T, {}, FALSE) /\ CameraUsed(T)
    BY <1>4 DEF GoodBut
  <2>3. d.pc = "none" => d.far = 0
    BY <1>8
  <2>4. q \in T.lost => d.far # 0
    BY <1>8, <2>1
  <2> DEFINE none == {}
             no == FALSE
  <2>5. Base(T, none, no)
    BY <2>2
  <2>6. SUFFICES /\ Base(U, none, no) /\ CallIds(U) = CallIds(T) /\ Rest(T, U)
                 /\ CameraUsed(U) /\ \A r \in Peer \ {q} : U.calls[r] = T.calls[r]
    OBVIOUS
  <2> HIDE DEF none, no
  <2> QED BY <1>5, <1>8, <2>2, <2>3, <2>4, <2>5, SetCallKeeps
<1> HIDE DEF U
<1>10. PickupWaits(U, {})
  <2> SUFFICES ASSUME NEW r \in CallIds(U) \ U.offerless, U.pickup = r
               PROVE  U.calls[r].pc = "none" /\ ~U.calls[r].out /\ U.queues[r] # <<>>
    BY DEF PickupWaits
  <2>1. r \in CallIds(T) \ T.offerless /\ T.pickup = r /\ r \in Peer
    BY <1>9 DEF Rest, CallIds
  <2>2. T.calls[r].pc = "none" /\ ~T.calls[r].out /\ T.queues[r] # <<>>
    BY <1>4, <2>1 DEF GoodBut, PickupWaits
  <2>3. r # q
    BY <1>1, <1>4, <2>2
  <2> QED BY <1>9, <2>1, <2>2, <2>3 DEF Rest
<1>11. Quiet(U, V) /\ V.pickup = U.pickup
  BY <1>6, <1>9, SendQuiet DEF Base
<1> HIDE DEF V
<1>12. GoodBut(U, {}, FALSE, {})
  BY <1>9, <1>10 DEF GoodBut
<1>13. Good(V, {}, FALSE)
  BY <1>11, <1>12, QuietGood DEF Good
<1>14. Become(p, V, Nobody)
  BY <1>2, <1>7 DEF V
<1> QED BY <1>1, <1>13, <1>14, BecomeKeeps, CallsAssumption

\* The browser has made the Offer of a call that was closed.
LEMMA SendGhostOfferKeeps ==
    ASSUME IInv, NEW p \in Peer, SendGhostOffer(p)
    PROVE  IInv'
<1> DEFINE S == peer[p]
<1>1. PICK c \in S.ghosts :
         LET T == IF c.auto THEN GetOrCreateId(S) ELSE S
         IN  /\ Here(p)
             /\ Become(p, Send([T EXCEPT !.ghosts = @ \ {c}], c.id,
                               Offer(c.n, IF c.auto THEN T.conf ELSE NoConf)), Nobody)
             /\ UNCHANGED trouble
  BY DEF SendGhostOffer
<1>2. GoodBut(S, {}, FALSE, {}) /\ trouble' \in 0 .. MaxTrouble /\ S \in Fields
  BY <1>1 DEF IInv, Good, Browser
<1> HIDE DEF S
<1> DEFINE T == IF c.auto THEN GetOrCreateId(S) ELSE S
           k == IF c.auto THEN T.conf ELSE NoConf
           m == Offer(c.n, k)
           g == T.ghosts \ {c}
           U == [T EXCEPT !.ghosts = g]
           V == Send(U, c.id, m)
<1>3. Become(p, Send([T EXCEPT !.ghosts = @ \ {c}], c.id, m), Nobody)
  BY <1>1
<1>4. c \in CallRef /\ c.id \in Peer /\ c.n \in Nat
  BY <1>2 DEF Fields, CallRef
<1>5. GoodBut(T, {}, FALSE, {})
  BY <1>2, GetOrCreateIdKeeps
<1> HIDE DEF T
<1>6. T \in Browser /\ T \in Fields
  BY <1>5 DEF GoodBut, Base, Browser
<1>7. m \in Document
  <2>1. k \in ConfId
    BY <1>6 DEF Fields, ConfId
  <2> HIDE DEF k
  <2> QED BY <1>4, <2>1, OfferIsDocument
<1> HIDE DEF m
<1>8. [T EXCEPT !.ghosts = @ \ {c}] = U /\ g \in SUBSET CallRef
  BY <1>6 DEF Fields
<1> HIDE DEF g
<1>9. Quiet(T, U) /\ U.pickup = T.pickup
  <2>1. U \in Fields /\ U.status = T.status /\ U.who = T.who
    BY <1>6, <1>8 DEF Fields
  <2>2. U \in Browser
    BY <1>6, <2>1 DEF Browser
  <2> QED BY <1>6, <2>2 DEF Quiet, Fields
<1> HIDE DEF U
<1>10. GoodBut(U, {}, FALSE, {}) /\ U \in Browser
  BY <1>5, <1>9, QuietGood DEF Quiet
<1>11. Quiet(U, V) /\ V.pickup = U.pickup
  BY <1>4, <1>7, <1>10, SendQuiet
<1> HIDE DEF V
<1>12. Good(V, {}, FALSE)
  BY <1>10, <1>11, QuietGood DEF Good
<1>13. Become(p, V, Nobody)
  BY <1>3, <1>8 DEF V
<1> QED BY <1>2, <1>12, <1>13, BecomeKeeps, CallsAssumption

\* The ICE state of a negotiated call changes: its function is deferred.
LEMMA SetIceKeeps ==
    ASSUME IInv, NEW p \in Peer, NEW q \in Peer, NEW ice \in Ice,
           HasCall(peer[p], q), peer[p].calls[q].far # 0, SetIce(p, q, ice),
           trouble' \in 0 .. MaxTrouble
    PROVE  IInv'
<1> DEFINE S == peer[p]
           d == [S.calls[q] EXCEPT !.ice = ice]
           t == [do |-> "state", ice |-> ice, who |-> q]
           C == SetCall(S, q, d)
           ts == Append(C.tasks, t)
           T == [C EXCEPT !.tasks = ts]
           l == T.lost \cup {q}
           U == [T EXCEPT !.lost = l]
<1>1. Good(S, {}, FALSE) /\ HasCall(S, q) /\ S.calls[q].far # 0
  BY DEF IInv
<1>2. S \in Browser /\ S \in Fields
  BY DEF IInv, Browser
<1>3. LET R == [S EXCEPT !.calls[q].ice = ice, !.tasks = Append(@, t)]
      IN  Become(p, IF ice = "connected" THEN R ELSE [R EXCEPT !.lost = @ \cup {q}], Nobody)
  BY DEF SetIce
<1> HIDE DEF S
<1>4. S.calls[q] \in Call
  BY <1>1, <1>2, CallTypes
<1>5. d \in Call /\ d.n = S.calls[q].n /\ d.out = S.calls[q].out /\ d.pc = S.calls[q].pc
      /\ d.far = S.calls[q].far
  BY <1>4 DEF Call
<1>6. [S EXCEPT !.calls[q].ice = ice, !.tasks = Append(@, t)] = T
  <2>1. S.calls \in [Peer -> {NoCall} \cup Call]
    BY <1>2 DEF Fields, Table
  <2> HIDE DEF t
  <2> QED BY <1>2, <2>1 DEF SetCall, Fields
<1>7. t \in Task
  BY DEF Task
<1> HIDE DEF t, d
<1>8. /\ Base(C, {}, FALSE) /\ CallIds(C) = CallIds(S) /\ Rest(S, C) /\ CameraUsed(C)
      /\ C.calls[q] = d /\ C.lost = S.lost
      /\ \A r \in Peer \ {q} : C.calls[r] = S.calls[r]
  <2>1. d.pc = "none" => d.far = 0
    BY <1>1, <1>5, <1>2, CallTypes DEF Good, GoodBut, Base, FreshFar
  <2> DEFINE none == {}
             no == FALSE
  <2>2. Base(S, none, no) /\ CameraUsed(S)
    BY <1>1 DEF Good, GoodBut
  <2>3. q \in S.lost => d.far # 0
    BY <1>1, <1>5
  <2>4. SUFFICES /\ Base(C, none, no) /\ CallIds(C) = CallIds(S) /\ Rest(S, C)
                 /\ CameraUsed(C) /\ C.calls[q] = d /\ C.lost = S.lost
                 /\ \A r \in Peer \ {q} : C.calls[r] = S.calls[r]
    OBVIOUS
  <2> HIDE DEF none, no
  <2> QED BY <1>1, <1>5, <2>1, <2>2, <2>3, SetCallKeeps
<1> HIDE DEF C
<1>9. C \in Browser /\ C \in Fields
  BY <1>8 DEF Base, Browser
<1>10. PickupWaits(C, {})
  <2> SUFFICES ASSUME NEW r \in CallIds(C) \ C.offerless, C.pickup = r
               PROVE  C.calls[r].pc = "none" /\ ~C.calls[r].out /\ C.queues[r] # <<>>
    BY DEF PickupWaits
  <2>1. r \in CallIds(S) \ S.offerless /\ S.pickup = r /\ r \in Peer
    BY <1>8 DEF Rest, CallIds
  <2>2. S.calls[r].pc = "none" /\ ~S.calls[r].out /\ S.queues[r] # <<>>
    BY <1>1, <2>1 DEF Good, GoodBut, PickupWaits
  <2> QED BY <1>5, <1>8, <2>1, <2>2 DEF Rest
<1>11. ts \in Seq(Task)
  <2>1. C.tasks \in Seq(Task)
    BY <1>9 DEF Fields, Tasks
  <2> QED BY <1>7, <2>1
<1> HIDE DEF ts
<1>12. Quiet(C, T) /\ T.pickup = C.pickup /\ T.lost = C.lost
  <2>1. T \in Fields /\ T.status = C.status /\ T.who = C.who
    BY <1>9, <1>11 DEF Fields, Tasks
  <2>2. T \in Browser
    BY <1>9, <2>1 DEF Browser
  <2> QED BY <1>9, <2>2 DEF Quiet, Fields
<1> HIDE DEF T
<1>13. GoodBut(C, {}, FALSE, {})
  BY <1>8, <1>10 DEF GoodBut
<1>14. GoodBut(T, {}, FALSE, {}) /\ T.calls = C.calls /\ T \in Browser /\ T \in Fields
  BY <1>12, <1>13, QuietGood DEF Quiet, Browser
<1>15. [T EXCEPT !.lost = @ \cup {q}] = U /\ l \in SUBSET Peer
  BY <1>14 DEF Fields
<1>16. l = T.lost \cup {q}
  OBVIOUS
<1> HIDE DEF l
<1>17. U \in Fields /\ U.status = T.status /\ U.who = T.who
  BY <1>14, <1>15 DEF Fields
<1>18. U \in Browser
  BY <1>14, <1>17 DEF Browser
<1>19. /\ U.calls = T.calls /\ U.count = T.count /\ U.lost = l /\ U.conf = T.conf
       /\ U.media = T.media /\ U.pending = T.pending /\ U.failed = T.failed
       /\ U.queues = T.queues /\ U.n = T.n /\ U.slipped = T.slipped /\ U.agreed = T.agreed
       /\ U.offerless = T.offerless /\ U.pickup = T.pickup
  BY <1>14 DEF Fields
<1> HIDE DEF U
<1>20. CallIds(U) = CallIds(T)
  BY <1>19 DEF CallIds, HasCall
<1>21. GoodBut(U, {}, FALSE, {})
  <2>1. Counted(U) /\ FreshFar(U) /\ Numbered(U)
    BY <1>14, <1>19, <1>20 DEF GoodBut, Base, Counted, FreshFar, Numbered
  <2>2. LostAnswered(U)
    <3>1. HasCall(U, q) /\ U.calls[q].far # 0
      BY <1>1, <1>5, <1>8, <1>14, <1>19 DEF HasCall, Call, NoCall
    <3> QED BY <1>14, <1>16, <1>19, <3>1 DEF GoodBut, Base, LostAnswered, HasCall
  <2>3. Consent(U) /\ RefsOK(U, {})
    BY <1>14, <1>19 DEF GoodBut, Base, Consent, RefsOK, RefOK
  <2>4. CameraUsed(U) /\ PickupWaits(U, {})
    BY <1>14, <1>19, <1>20 DEF GoodBut, CameraUsed, PickupWaits
  <2> QED BY <1>18, <2>1, <2>2, <2>3, <2>4 DEF GoodBut, Base
<1> DEFINE E == IF ice = "connected" THEN T ELSE U
<1>22. Become(p, E, Nobody)
  BY <1>3, <1>6, <1>15
<1>23. Good(E, {}, FALSE)
  BY <1>14, <1>21 DEF Good
<1> HIDE DEF E
<1> QED BY <1>22, <1>23, BecomeKeeps, CallsAssumption

\* A negotiated call knows the far call.
LEMMA NegotiatedFar ==
    ASSUME IInv, NEW p \in Peer, NEW q \in Peer, Negotiated(p, q)
    PROVE  HasCall(peer[p], q) /\ peer[p].calls[q].far # 0
<1>1. HasCall(peer[p], q) /\ HasCall(peer[q], p) /\ peer[p].calls[q].far = peer[q].calls[p].n
  BY DEF Negotiated, HasCall
<1>2. peer[q] \in Browser
  BY DEF IInv
<1>3. peer[q].calls[p] \in Call
  BY <1>1, <1>2, CallTypes
<1> QED BY <1>1, <1>3 DEF Call

\* ICE connects, drops or fails.
LEMMA IceKeeps ==
    ASSUME IInv, NEW p \in Peer, NEW q \in Peer,
           IceConnects(p, q) \/ IceDrops(p, q) \/ IceFails(p, q)
    PROVE  IInv'
<1>0. trouble \in 0 .. MaxTrouble
  BY DEF IInv
<1>1. CASE IceConnects(p, q)
  <2>1. "connected" \in Ice
    BY DEF Ice
  <2> QED BY <1>0, <1>1, <2>1, NegotiatedFar, SetIceKeeps DEF IceConnects
<1>2. CASE IceDrops(p, q)
  <2>1. "disconnected" \in Ice
    BY DEF Ice
  <2> QED BY <1>2, <2>1, NegotiatedFar, SpendTyped, SetIceKeeps DEF IceDrops
<1>3. CASE IceFails(p, q)
  <2>1. "failed" \in Ice
    BY DEF Ice
  <2> QED BY <1>0, <1>3, <2>1, SetIceKeeps DEF IceFails
<1> QED BY <1>1, <1>2, <1>3

\* A document arrives.
LEMMA ReceiveKeeps ==
    ASSUME IInv, NEW p \in Peer, NEW q \in Peer, Receive(q, p)
    PROVE  IInv'
<1> DEFINE m == Head(net[<<q, p>>])
           S == Process(peer[p], q, m)
<1>1. Good(peer[p], {}, FALSE) /\ trouble' \in 0 .. MaxTrouble
  BY DEF IInv, Receive
<1>2. Become(p, S, q) /\ net[<<q, p>>] # <<>>
  BY DEF Receive
<1>3. m \in Document
  <2>1. net[<<q, p>>] \in Seq(Document)
    BY DEF IInv
  <2> QED BY <1>2, <2>1
<1> HIDE DEF m
<1>4. Good(S, {}, FALSE)
  BY <1>1, <1>3, ProcessGood
<1> HIDE DEF S
<1> QED BY <1>1, <1>2, <1>4, BecomeKeeps

\* The oldest deferred function runs.
LEMMA DeferredKeeps ==
    ASSUME IInv, NEW p \in Peer, Deferred(p)
    PROVE  IInv'
<1> DEFINE S == peer[p]
           t == Head(S.tasks)
           ts == Tail(S.tasks)
           T == [S EXCEPT !.tasks = ts]
           U == Run(T, t)
<1>1. Good(S, {}, FALSE) /\ trouble' \in 0 .. MaxTrouble /\ S.tasks # <<>>
  BY DEF IInv, Deferred
<1>2. S \in Browser /\ S \in Fields
  BY DEF IInv, Browser
<1>3. Become(p, Run([S EXCEPT !.tasks = Tail(@)], t), Nobody)
  BY DEF Deferred
<1> HIDE DEF S
<1>4. [S EXCEPT !.tasks = Tail(@)] = T
  BY <1>2 DEF Fields
<1>5. t \in Task /\ ts \in Seq(Task)
  <2>1. S.tasks \in Seq(Task)
    BY <1>2 DEF Fields, Tasks
  <2> QED BY <1>1, <2>1
<1> HIDE DEF t, ts
<1>6. Quiet(S, T) /\ T.pickup = S.pickup
  <2>1. T \in Fields /\ T.status = S.status /\ T.who = S.who
    BY <1>2, <1>5 DEF Fields, Tasks
  <2>2. T \in Browser
    BY <1>2, <2>1 DEF Browser
  <2> QED BY <1>2, <2>2 DEF Quiet, Fields
<1>7. Become(p, U, Nobody)
  BY <1>3, <1>4
<1> HIDE DEF T
<1>8. Good(T, {}, FALSE)
  BY <1>1, <1>6, QuietGood DEF Good
<1>9. Good(U, {}, FALSE)
  BY <1>5, <1>8, RunGood
<1> HIDE DEF U
<1> QED BY <1>1, <1>7, <1>9, BecomeKeeps, CallsAssumption

\* A pickup timer fires, the last one or one that was forgotten.
LEMMA PickupTimeoutKeeps ==
    ASSUME IInv, NEW p \in Peer, PickupTimeout(p)
    PROVE  IInv'
<1> DEFINE S == peer[p]
           q == IF S.pickups = <<>> THEN S.pickup ELSE Head(S.pickups)
           ts == IF S.pickups = <<>> THEN <<>> ELSE Tail(S.pickups)
           k == IF S.pickups = <<>> THEN Nobody ELSE S.pickup
           T == [S EXCEPT !.pickup = k, !.pickups = ts]
           U == HangUp(T, "pickuptimeout", q)
<1>1. Good(S, {}, FALSE) /\ trouble' \in 0 .. MaxTrouble /\ q # Nobody
  BY DEF IInv, PickupTimeout
<1>2. S \in Browser /\ S \in Fields
  BY DEF IInv, Browser
<1>3. Become(p, HangUp(IF S.pickups = <<>> THEN [S EXCEPT !.pickup = Nobody]
                       ELSE [S EXCEPT !.pickups = Tail(@)], "pickuptimeout", q), Nobody)
  BY DEF PickupTimeout
<1> HIDE DEF S
<1>4. q \in Peer /\ ts \in Timers /\ k \in {S.pickup, Nobody} /\ k \in Ids
  <2>1. S.pickup \in Peer \cup {Nobody} /\ S.pickups \in Seq(Peer)
    BY <1>2 DEF Fields, Ids, Timers
  <2>2. CASE S.pickups = <<>>
    BY <1>1, <2>1, <2>2 DEF Timers, Ids
  <2>3. CASE S.pickups # <<>>
    BY <2>1, <2>3 DEF Timers, Ids
  <2> QED BY <2>2, <2>3
<1>5. Become(p, U, Nobody)
  <2>1. T = IF S.pickups = <<>> THEN [S EXCEPT !.pickup = Nobody]
            ELSE [S EXCEPT !.pickups = Tail(@)]
    BY <1>2 DEF Fields
  <2> HIDE DEF T
  <2> QED BY <1>3, <2>1
<1> HIDE DEF q, ts, k
<1>6. Quiet(S, T) /\ T.pickup \in {S.pickup, Nobody}
  <2>1. T \in Fields /\ T.status = S.status /\ T.who = S.who /\ T.pickup = k
    BY <1>2, <1>4 DEF Fields
  <2>2. T \in Browser
    BY <1>2, <2>1 DEF Browser
  <2> QED BY <1>2, <1>4, <2>1, <2>2 DEF Quiet, Fields
<1> HIDE DEF T
<1>7. Good(T, {}, FALSE)
  BY <1>1, <1>6, QuietGood DEF Good
<1>8. "pickuptimeout" \in Reason
  BY DEF Reason
<1>9. Good(U, {}, FALSE)
  BY <1>4, <1>7, <1>8, HangUpGood
<1> HIDE DEF U
<1> QED BY <1>1, <1>5, <1>9, BecomeKeeps, CallsAssumption

\* A ringer timer fires, the last one or one that was forgotten.
LEMMA RingerTimeoutKeeps ==
    ASSUME IInv, NEW p \in Peer, RingerTimeout(p)
    PROVE  IInv'
<1> DEFINE S == peer[p]
           r == IF S.ringers = 0 THEN FALSE ELSE S.ringer
           k == IF S.ringers = 0 THEN 0 ELSE S.ringers - 1
           T == [S EXCEPT !.ringer = r, !.ringers = k]
           U == HangUpAll(T, "ringertimeout")
<1>1. Good(S, {}, FALSE) /\ trouble' \in 0 .. MaxTrouble
  BY DEF IInv, RingerTimeout
<1>2. S \in Browser /\ S \in Fields
  BY DEF IInv, Browser
<1>3. Become(p, HangUpAll(IF S.ringers = 0 THEN [S EXCEPT !.ringer = FALSE]
                          ELSE [S EXCEPT !.ringers = @ - 1], "ringertimeout"), Nobody)
  BY DEF RingerTimeout
<1> HIDE DEF S
<1>4. r \in BOOLEAN /\ k \in Nat
  <2>1. S.ringers \in Nat /\ S.ringer \in BOOLEAN
    BY <1>2 DEF Fields
  <2>2. k \in Nat
    <3> HIDE DEF r
    <3> QED BY <2>1
  <2>3. r \in BOOLEAN
    <3> HIDE DEF k
    <3>1. CASE S.ringers = 0
      BY <3>1
    <3>2. CASE S.ringers # 0
      BY <2>1, <3>2
    <3> QED BY <3>1, <3>2
  <2> QED BY <2>2, <2>3
<1>5. Become(p, U, Nobody)
  <2>1. T = IF S.ringers = 0 THEN [S EXCEPT !.ringer = FALSE]
            ELSE [S EXCEPT !.ringers = @ - 1]
    BY <1>2 DEF Fields
  <2> HIDE DEF T
  <2> QED BY <1>3, <2>1
<1> HIDE DEF r, k
<1>6. Quiet(S, T) /\ T.pickup = S.pickup
  <2>1. T \in Fields /\ T.status = S.status /\ T.who = S.who
    BY <1>2, <1>4 DEF Fields
  <2>2. T \in Browser
    BY <1>2, <2>1 DEF Browser
  <2> QED BY <1>2, <2>2 DEF Quiet, Fields
<1> HIDE DEF T
<1>7. Good(T, {}, FALSE)
  BY <1>1, <1>6, QuietGood DEF Good
<1>8. "ringertimeout" \in Reason
  BY DEF Reason
<1>9. Good(U, {}, FALSE)
  BY <1>7, <1>8, HangUpAllGood
<1> HIDE DEF U
<1> QED BY <1>1, <1>5, <1>9, BecomeKeeps, CallsAssumption

\* The tab is closed or reloaded.
LEMMA CrashKeeps ==
    ASSUME IInv, NEW p \in Peer, Crash(p)
    PROVE  IInv'
<1>1. Good(Idle(p, 0), {}, FALSE) /\ Idle(p, 0).out = <<>> /\ Idle(p, 0) \in Browser
  BY IdleGood DEF Good, GoodBut, Base
<1> DEFINE I == Idle(p, 0)
<1>2. peer' = [peer EXCEPT ![p] = I]
  BY DEF Crash
<1> HIDE DEF I
<1>3. peer' \in [Peer -> Browser] /\ \A q \in Peer : peer'[q] = IF q = p THEN I ELSE peer[q]
  BY <1>1, <1>2 DEF IInv, I
<1>4. net' \in [Peer \X Peer -> Seq(Document)]
  <2>1. <<>> \in Seq(Document)
    OBVIOUS
  <2> QED BY <2>1 DEF IInv, Crash
<1>5. gone' \subseteq Crashers /\ trouble' \in 0 .. MaxTrouble
  BY DEF IInv, Crash
<1> QED BY <1>1, <1>3, <1>4, <1>5 DEF IInv, I

-----------------------------------------------------------------------------
(* The theorems. *)
\* The inductive invariant holds in every state.
THEOREM Invariant == Spec => []IInv
<1>1. Init => IInv
  BY InitInv
<1>2. IInv /\ [Next]_vars => IInv'
  <2> SUFFICES ASSUME IInv, [Next]_vars PROVE IInv'
    OBVIOUS
  <2>1. ASSUME NEW p \in Peer, NEW q \in Peer,
               \/ Dial(p, q) \/ SendOffer(p, q) \/ Receive(q, p)
               \/ IceConnects(p, q) \/ IceDrops(p, q) \/ IceFails(p, q)
        PROVE  IInv'
    BY <2>1, DialKeeps, SendOfferKeeps, ReceiveKeeps, IceKeeps
  <2>2. ASSUME NEW p \in Peer,
               \/ Accept(p) \/ Reject(p) \/ Abort(p) \/ Media(p) \/ Mute(p)
               \/ SendGhostOffer(p) \/ Deferred(p) \/ PickupTimeout(p)
               \/ RingerTimeout(p) \/ Crash(p)
        PROVE  IInv'
    BY <2>2, AcceptKeeps, RejectKeeps, AbortKeeps, MediaKeeps, MuteKeeps, SendGhostOfferKeeps,
       DeferredKeeps, PickupTimeoutKeeps, RingerTimeoutKeeps, CrashKeeps
  <2>3. CASE UNCHANGED vars
    BY <2>3 DEF IInv, vars
  <2> QED BY <2>1, <2>2, <2>3 DEF Next
<1> QED BY <1>1, <1>2, PTL DEF Spec

\* The state of every browser is well formed, and the count it keeps of its calls
\* (peerconference.js:47, callsCount) is the size of its table, for any number of
\* users, calls and troubles.
THEOREM TypeCorrect == Spec => []TypeOK
<1>1. IInv => TypeOK
  <2> SUFFICES ASSUME IInv PROVE TypeOK
    OBVIOUS
  <2>1. gone \subseteq Crashers /\ trouble <= MaxTrouble
    BY CallsAssumption DEF IInv
  <2>2. ASSUME NEW p \in Peer
        PROVE  /\ peer[p].media \in {"off", "asking", "ready"}
               /\ peer[p].count = Cardinality(CallIds(peer[p]))
               /\ peer[p].linked \cup peer[p].lost \subseteq Peer
               /\ peer[p].out = <<>>
               /\ \A q \in CallIds(peer[p]) :
                    /\ peer[p].calls[q].pc \in {"none", "stable", "local", "done"}
                    /\ peer[p].calls[q].ice \in {"new", "connected", "disconnected", "failed"}
    <3>1. peer[p] \in Browser /\ Good(peer[p], {}, FALSE) /\ peer[p].out = <<>>
      BY DEF IInv
    <3>2. peer[p].count = Cardinality(CallIds(peer[p]))
      BY <3>1 DEF Good, GoodBut, Base, Counted
    <3>3. peer[p].media \in {"off", "asking", "ready"}
          /\ peer[p].linked \cup peer[p].lost \subseteq Peer
      BY <3>1 DEF Browser, Fields, Camera
    <3>4. \A q \in CallIds(peer[p]) : peer[p].calls[q] \in Call
      BY <3>1, CallTypes
    <3>5. \A c \in Call : /\ c.pc \in {"none", "stable", "local", "done"}
                          /\ c.ice \in {"new", "connected", "disconnected", "failed"}
      BY DEF Call, Pc, Ice
    <3> QED BY <3>1, <3>2, <3>3, <3>4, <3>5
  <2> QED BY <2>1, <2>2 DEF TypeOK
<1> QED BY <1>1, Invariant, PTL

\* Once the last call of a browser ended its camera is off, however its calls
\* overtook each other, unless a negotiation failed (webrtc.js, doHangup and
\* stop).
THEOREM CameraGoesOff == Spec => []CameraOffWhenIdle
<1>1. IInv => CameraOffWhenIdle
  <2> SUFFICES ASSUME IInv, NEW p \in Peer, peer[p].media # "off", ~peer[p].failed
               PROVE  peer[p].count > 0
    BY DEF CameraOffWhenIdle
  <2>1. peer[p] \in Browser /\ Good(peer[p], {}, FALSE)
    BY DEF IInv
  <2>2. CallIds(peer[p]) # {} /\ peer[p].count = Cardinality(CallIds(peer[p]))
    BY <2>1 DEF Good, GoodBut, Base, CameraUsed, Counted
  <2>3. IsFiniteSet(CallIds(peer[p])) /\ Cardinality(CallIds(peer[p])) \in Nat
    BY <2>1, CallTypes
  <2>4. Cardinality(CallIds(peer[p])) # 0
    BY <2>2, <2>3, FS_EmptySet
  <2> QED BY <2>2, <2>3, <2>4
<1> QED BY <1>1, Invariant, PTL

\* A browser whose user never called nor accepted has its camera off, unless it
\* followed the conference of somebody who merely rings (webrtc.js:393).
THEOREM CameraWithConsent == Spec => []CameraByConsent
<1>1. IInv => CameraByConsent
  BY DEF IInv, Good, GoodBut, Base, Consent, CameraByConsent
<1> QED BY <1>1, Invariant, PTL

\* The timer that pickupTimeout knows runs for no call that was answered, unless a closed call took
\* the Offer of the call (uicontroller.js:520).
THEOREM AnsweredSpared == Spec => []PickupSparesAnswered
<1>1. IInv => PickupSparesAnswered
  <2> SUFFICES ASSUME IInv, NEW p \in Peer, NEW q \in Peer, peer[p].pickup = q,
                      HasCall(peer[p], q), q \notin peer[p].offerless
               PROVE  peer[p].calls[q].far = 0
    BY DEF PickupSparesAnswered
  <2>1. Good(peer[p], {}, FALSE) /\ q \in CallIds(peer[p])
    BY DEF IInv, CallIds
  <2>2. peer[p].calls[q].pc = "none"
    BY <2>1 DEF Good, GoodBut, PickupWaits
  <2> QED BY <2>1, <2>2 DEF Good, GoodBut, Base, FreshFar
<1> QED BY <1>1, Invariant, PTL

=============================================================================
