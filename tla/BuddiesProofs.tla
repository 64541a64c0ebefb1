---------------------------- MODULE BuddiesProofs ----------------------------
(***************************************************************************)
(* That the buddy list shows who is there, for any number of sessions,     *)
(* users, contacts and lines.                                              *)
(*                                                                         *)
(* The handlers call each other, and each of them keeps a list "good" with *)
(* regard to who is present, whose user is known, what is on the page and  *)
(* who is a contact.  Room.left and the merge of two lines are loops over  *)
(* sequences; as in CallsProofs, a fold is shown to run round by round.    *)
(***************************************************************************)
EXTENDS Buddies, FiniteSetTheorems, SequenceTheorems, WellFoundedInduction, TLAPS

-----------------------------------------------------------------------------
(* The natural numbers, by induction over a set of them. *)
LEMMA NatSetInduction ==
    ASSUME NEW T, T \subseteq Nat, 0 \in T, \A n \in T : n + 1 \in T
    PROVE  T = Nat
<1> DEFINE R == {ss \in Nat \X Nat : ss[1] < ss[2]}
           B == Nat \ T
<1>1. IsWellFoundedOn(R, Nat)
  BY NatLessThanWellFounded DEF OpToRel
<1>2. SUFFICES ASSUME B # {} PROVE FALSE
  OBVIOUS
<1>3. PICK x \in B : \A y \in B : ~(<<y, x>> \in R)
  <2> HIDE DEF R
  <2> B \subseteq Nat OBVIOUS
  <2> HIDE DEF B
  <2> QED BY <1>1, <1>2, WFMin
<1>4. x \in Nat /\ x # 0 /\ x - 1 \in Nat /\ x - 1 < x /\ (x - 1) + 1 = x
  OBVIOUS
<1>5. <<x - 1, x>> \in R
  BY <1>4
<1>6. x - 1 \notin B
  BY <1>3, <1>5
<1> QED BY <1>4, <1>6

(* A non-empty set of numbers of a sequence has a greatest. *)
LEMMA MaxInSet ==
    ASSUME NEW n \in Nat, NEW s \in SUBSET (1 .. n), s # {}
    PROVE  Max(s) \in s /\ \A x \in s : Max(s) >= x
<1> DEFINE T == {j \in Nat : \A t \in SUBSET (1 .. j) :
                    t # {} => \E x \in t : \A y \in t : x >= y}
<1>1. 0 \in T
  <2>1. \A t \in SUBSET (1 .. 0) : t = {}
    <3>1. 1 .. 0 = {}
      OBVIOUS
    <3> QED BY <3>1
  <2> QED BY <2>1
<1>2. ASSUME NEW j \in T PROVE j + 1 \in T
  <2> SUFFICES ASSUME NEW t \in SUBSET (1 .. j + 1), t # {}
               PROVE  \E x \in t : \A y \in t : x >= y
    BY <1>2
  <2>1. CASE j + 1 \in t
    BY <2>1, <1>2
  <2>2. CASE j + 1 \notin t
    <3> t \in SUBSET (1 .. j)
      BY <2>2, <1>2
    <3> QED BY <1>2
  <2> QED BY <2>1, <2>2
<1>3. n \in T
  <2> HIDE DEF T
  <2>1. T \subseteq Nat
    BY DEF T
  <2> QED BY <2>1, <1>1, <1>2, NatSetInduction
<1>4. \E x \in s : \A y \in s : x >= y
  BY <1>3
<1> QED BY <1>4 DEF Max

-----------------------------------------------------------------------------
(* The bodies of the loops: merge into line a, room.left. *)
Body(k, a, x, T) ==
    CASE k = "merge" -> AddMissing(T, a, x)
      [] k = "left"  -> OnLeft(T, x, FALSE, a)

(* What a fold computes, set by set: F are the elements, h chooses. *)
Folded(k, a, b, D, F, h, g) ==
    g = [s \in SUBSET D |-> IF s = {} THEN b
                            ELSE Body(k, a, F[h[s]], g[s \ {h[s]}])]

\* A fold over a finite set has a value for every subset.
LEMMA FoldExists ==
    ASSUME NEW k, NEW a, NEW b, NEW D, IsFiniteSet(D), NEW F, NEW h,
           \A s \in SUBSET D : s # {} => h[s] \in s
    PROVE  \E g : Folded(k, a, b, D, F, h, g)
<1> DEFINE Sub(j) == {s \in SUBSET D : Cardinality(s) <= j}
           Next1(g, s) == IF s = {} THEN b ELSE Body(k, a, F[h[s]], g[s \ {h[s]}])
           T == {j \in Nat : \E g : g = [s \in Sub(j) |-> Next1(g, s)]}
<1>0. \A s \in SUBSET D : /\ IsFiniteSet(s) /\ Cardinality(s) \in Nat
                          /\ (Cardinality(s) = 0 <=> s = {})
                          /\ s # {} => /\ s \ {h[s]} \in SUBSET D
                                       /\ Cardinality(s \ {h[s]}) = Cardinality(s) - 1
  <2> SUFFICES ASSUME NEW s \in SUBSET D
               PROVE  /\ IsFiniteSet(s) /\ Cardinality(s) \in Nat
                      /\ (Cardinality(s) = 0 <=> s = {})
                      /\ s # {} => /\ s \ {h[s]} \in SUBSET D
                                   /\ Cardinality(s \ {h[s]}) = Cardinality(s) - 1
    OBVIOUS
  <2>1. IsFiniteSet(s)
    BY FS_Subset
  <2>2. Cardinality(s) \in Nat
    BY <2>1, FS_CardinalityType
  <2>3. Cardinality(s) = 0 <=> s = {}
    BY <2>1, FS_EmptySet
  <2>4. ASSUME s # {} PROVE Cardinality(s \ {h[s]}) = Cardinality(s) - 1
    <3>1. h[s] \in s
      BY <2>4
    <3> QED BY <3>1, <2>1, FS_RemoveElement
  <2> QED BY <2>1, <2>2, <2>3, <2>4
<1>1. 0 \in T
  <2> DEFINE g == [s \in Sub(0) |-> b]
  <2>1. \A s \in Sub(0) : s = {}
    <3> SUFFICES ASSUME NEW s \in Sub(0) PROVE s = {}
      OBVIOUS
    <3>1. s \in SUBSET D /\ Cardinality(s) <= 0
      OBVIOUS
    <3>2. Cardinality(s) \in Nat /\ (Cardinality(s) = 0 <=> s = {})
      BY <1>0, <3>1
    <3> QED BY <3>1, <3>2
  <2>2. g = [s \in Sub(0) |-> Next1(g, s)]
    BY <2>1
  <2> QED BY <2>2
<1>2. ASSUME NEW j \in T PROVE j + 1 \in T
  <2>0. j \in Nat
    OBVIOUS
  <2>1. PICK g : g = [s \in Sub(j) |-> Next1(g, s)]
    <3> HIDE DEF Sub, Next1
    <3> QED OBVIOUS
  <2> DEFINE f == [s \in Sub(j + 1) |-> Next1(g, s)]
  <2>2. \A s \in Sub(j + 1) : s # {} => s \ {h[s]} \in Sub(j)
    <3> SUFFICES ASSUME NEW s \in Sub(j + 1), s # {} PROVE s \ {h[s]} \in Sub(j)
      OBVIOUS
    <3> HIDE DEF T, f, Next1
    <3>1. s \in SUBSET D /\ Cardinality(s) <= j + 1
      OBVIOUS
    <3>2. Cardinality(s) \in Nat /\ Cardinality(s \ {h[s]}) = Cardinality(s) - 1
      BY <1>0, <3>1
    <3>3. Cardinality(s \ {h[s]}) <= j
      BY <2>0, <3>1, <3>2
    <3> QED BY <3>1, <3>3
  <2>3. \A s \in Sub(j) : s \in Sub(j + 1)
    <3> SUFFICES ASSUME NEW s \in Sub(j) PROVE s \in Sub(j + 1)
      OBVIOUS
    <3> HIDE DEF T, f, Next1
    <3>1. s \in SUBSET D /\ Cardinality(s) <= j
      OBVIOUS
    <3>2. Cardinality(s) \in Nat
      BY <1>0, <3>1
    <3>3. Cardinality(s) <= j + 1
      BY <2>0, <3>1, <3>2
    <3> QED BY <3>1, <3>3
  <2>4. \A s \in Sub(j) : g[s] = Next1(g, s)
    <3> HIDE DEF Sub, Next1
    <3> QED BY <2>1
  <2>4a. \A s \in Sub(j) : f[s] = g[s]
    <3> HIDE DEF Sub, Next1
    <3> QED BY <2>3, <2>4
  <2>5. \A s \in Sub(j + 1) : Next1(g, s) = Next1(f, s)
    <3> SUFFICES ASSUME NEW s \in Sub(j + 1), s # {}
                 PROVE  g[s \ {h[s]}] = f[s \ {h[s]}]
      <4> HIDE DEF Sub, f
      <4> QED OBVIOUS
    <3> HIDE DEF Sub, f
    <3> QED BY <2>2, <2>4a
  <2>6. f = [s \in Sub(j + 1) |-> Next1(f, s)]
    <3>1. f = [s \in Sub(j + 1) |-> Next1(g, s)]
      OBVIOUS
    <3> HIDE DEF Sub, Next1, f
    <3> QED BY <3>1, <2>5
  <2> HIDE DEF f, Sub, Next1
  <2> QED BY <2>6, <2>0
<1>3. Cardinality(D) \in T
  <2>1. T \subseteq Nat
    OBVIOUS
  <2>2. Cardinality(D) \in Nat
    BY FS_CardinalityType
  <2> HIDE DEF T
  <2>3. \A j \in T : j + 1 \in T
    BY <1>2
  <2>4. T = Nat
    BY <2>1, <2>3, <1>1, NatSetInduction
  <2> QED BY <2>2, <2>4
<1>4. Sub(Cardinality(D)) = SUBSET D
  BY FS_Subset, FS_CardinalityType
<1>5. PICK g : g = [s \in Sub(Cardinality(D)) |-> Next1(g, s)]
  BY <1>3
<1>6. g = [s \in SUBSET D |-> Next1(g, s)]
  <2> HIDE DEF Sub, Next1
  <2> QED BY <1>4, <1>5
<1> QED BY <1>6 DEF Folded

(* A loop runs through its elements, in some order. *)
Run1(k, a, e, n, b, z) ==
    \E r : r[0] = b /\ r[n] = z /\ \A i \in 1 .. n : r[i] = Body(k, a, e[i], r[i - 1])

\* A fold over a sequence takes its elements in their order.
LEMMA SeqRuns ==
    ASSUME NEW k, NEW a, NEW b, NEW n \in Nat, NEW q, NEW g,
           Folded(k, a, b, 1 .. n, q, [s \in SUBSET (1 .. n) |-> Max(s)], g)
    PROVE  Run1(k, a, q, n, b, g[1 .. n])
<1> DEFINE r == [i \in 0 .. n |-> g[1 .. i]]
<1>1. r[0] = b
  <2>1. 1 .. 0 = {} /\ {} \in SUBSET (1 .. n)
    OBVIOUS
  <2>2. g[{}] = b
    BY <2>1 DEF Folded
  <2> QED BY <2>1, <2>2
<1>2. ASSUME NEW i \in 1 .. n PROVE r[i] = Body(k, a, q[i], r[i - 1])
  <2>1. 1 .. i \in SUBSET (1 .. n) /\ 1 .. i # {} /\ (1 .. i) \ {i} = 1 .. (i - 1)
    OBVIOUS
  <2>2. Max(1 .. i) = i
    <3>1. Max(1 .. i) \in 1 .. i /\ \A x \in 1 .. i : Max(1 .. i) >= x
      BY <2>1, MaxInSet
    <3>2. i \in 1 .. i
      OBVIOUS
    <3>3. Max(1 .. i) >= i
      BY <3>1, <3>2
    <3> HIDE DEF r
    <3> QED BY <3>1, <3>3
  <2>3. g[1 .. i] = Body(k, a, q[i], g[1 .. (i - 1)])
    BY <2>1, <2>2 DEF Folded
  <2>4. i \in 0 .. n /\ i - 1 \in 0 .. n
    OBVIOUS
  <2> QED BY <2>3, <2>4
<1>3. r[n] = g[1 .. n]
  OBVIOUS
<1> HIDE DEF r
<1> QED BY <1>1, <1>2, <1>3 DEF Run1

(* A loop keeps what each of its rounds keeps: J[i] are the states after i rounds. *)
LEMMA LoopKeeps ==
    ASSUME NEW k, NEW a, NEW e, NEW n \in Nat, NEW b, NEW z, Run1(k, a, e, n, b, z),
           NEW J, b \in J[0], \A i \in 1 .. n : \A T \in J[i - 1] : Body(k, a, e[i], T) \in J[i]
    PROVE  z \in J[n]
<1>1. PICK r : r[0] = b /\ r[n] = z /\ \A i \in 1 .. n : r[i] = Body(k, a, e[i], r[i - 1])
  BY DEF Run1
<1> DEFINE T == {i \in Nat : i <= n => r[i] \in J[i]}
<1>2. 0 \in T
  BY <1>1
<1>3. ASSUME NEW i \in T PROVE i + 1 \in T
  <2>1. SUFFICES ASSUME i + 1 <= n PROVE r[i + 1] \in J[i + 1]
    OBVIOUS
  <2>2. i \in Nat /\ i + 1 \in 1 .. n /\ (i + 1) - 1 = i /\ i <= n
    BY <2>1
  <2>3. r[i] \in J[i]
    BY <2>2
  <2>4. r[i + 1] = Body(k, a, e[i + 1], r[i])
    BY <1>1, <2>2
  <2>5. \A S \in J[(i + 1) - 1] : Body(k, a, e[i + 1], S) \in J[i + 1]
    BY <2>2
  <2> QED BY <2>2, <2>3, <2>4, <2>5
<1>4. T = Nat
  <2>1. T \subseteq Nat
    OBVIOUS
  <2> HIDE DEF T
  <2> QED BY <1>2, <1>3, <2>1, NatSetInduction
<1> QED BY <1>1, <1>4


-----------------------------------------------------------------------------
(* The sessions of a line. *)

\* add appends a session that is not there.
LEMMA AppendFacts ==
    ASSUME NEW q \in Seq(Session), NEW x \in Session, x \notin ToSet(q),
           \A i, j \in 1..Len(q) : q[i] = q[j] => i = j
    PROVE  \E r \in Seq(Session) :
              /\ r = Append(q, x) /\ ToSet(r) = ToSet(q) \cup {x}
              /\ \A i, j \in 1..Len(r) : r[i] = r[j] => i = j
<1> DEFINE r == Append(q, x)
<1>1. /\ r \in Seq(Session) /\ Len(q) \in Nat /\ Len(r) = Len(q) + 1 /\ r[Len(q) + 1] = x
      /\ \A i \in 1..Len(q) : r[i] = q[i]
      /\ DOMAIN q = 1..Len(q) /\ DOMAIN r = 1..Len(r)
  OBVIOUS
<1> HIDE DEF r
<1>2. \A i \in 1..Len(r) : i \in 1..Len(q) \/ i = Len(q) + 1 BY <1>1
<1>3. \A i \in 1..Len(q) : i \in 1..Len(r) /\ q[i] # x BY <1>1 DEF ToSet
<1>4. Len(q) + 1 \in 1..Len(r) BY <1>1
<1>5. ToSet(r) = ToSet(q) \cup {x}
  <2>1. \A y \in ToSet(r) : y \in ToSet(q) \cup {x} BY <1>1, <1>2 DEF ToSet
  <2>2. \A y \in ToSet(q) \cup {x} : y \in ToSet(r) BY <1>1, <1>3, <1>4 DEF ToSet
  <2> QED BY <2>1, <2>2
<1>6. \A i, j \in 1..Len(r) : r[i] = r[j] => i = j BY <1>1, <1>2, <1>3
<1> QED BY <1>1, <1>5, <1>6 DEF r

\* rm takes a session out.
LEMMA RemoveFacts ==
    ASSUME NEW q \in Seq(Session), NEW x \in Session,
           \A i, j \in 1..Len(q) : q[i] = q[j] => i = j
    PROVE  \E r \in Seq(Session) :
              /\ r = RemoveFirst(q, x) /\ ToSet(r) = ToSet(q) \ {x}
              /\ \A i, j \in 1..Len(r) : r[i] = r[j] => i = j
<1>1. CASE ~\E i \in 1..Len(q) : q[i] = x
  <2>1. RemoveFirst(q, x) = q BY <1>1 DEF RemoveFirst
  <2>2. x \notin ToSet(q)
    <3>1. DOMAIN q = 1..Len(q) OBVIOUS
    <3> QED BY <1>1, <3>1 DEF ToSet
  <2> QED BY <2>1, <2>2
<1>2. CASE \E i \in 1..Len(q) : q[i] = x
  <2>1. PICK k \in 1..Len(q) : q[k] = x BY <1>2
  <2>2. {i \in 1..Len(q) : q[i] = x} = {k} BY <2>1
  <2>3. Min({k}) = k BY DEF Min
  <2>4. SelectInSeq(q, LAMBDA v : v = x) = k BY <2>2, <2>3 DEF SelectInSeq
  <2> DEFINE a == SubSeq(q, 1, k - 1)
             b == SubSeq(q, k + 1, Len(q))
             r == a \o b
  <2>5. RemoveFirst(q, x) = r BY <1>2, <2>4 DEF RemoveFirst, RemoveAt
  <2>6. Len(q) \in Nat /\ k \in Nat /\ DOMAIN q = 1..Len(q) /\ \A i \in 1..Len(q) : q[i] \in Session
    BY <2>1
  <2>7. /\ a \in Seq(Session) /\ Len(a) = k - 1 /\ \A i \in 1..(k - 1) : a[i] = q[i]
    <3>1. k - 1 \in Int /\ \A i \in 1..(k - 1) : q[i] \in Session BY <2>1, <2>6
    <3>2. /\ a \in Seq(Session) /\ Len(a) = IF 1 <= k - 1 THEN k - 1 - 1 + 1 ELSE 0
          /\ \A i \in 1..(k - 1 - 1 + 1) : a[i] = q[1 + i - 1]
      BY <3>1, SubSeqProperties
    <3> HIDE DEF a
    <3> QED BY <2>1, <2>6, <3>2
  <2>8. /\ b \in Seq(Session) /\ Len(b) = Len(q) - k /\ \A i \in 1..(Len(q) - k) : b[i] = q[k + i]
    <3>1. k + 1 \in Int /\ \A i \in (k + 1)..Len(q) : q[i] \in Session BY <2>1, <2>6
    <3>2. /\ b \in Seq(Session) /\ Len(b) = IF k + 1 <= Len(q) THEN Len(q) - (k + 1) + 1 ELSE 0
          /\ \A i \in 1..(Len(q) - (k + 1) + 1) : b[i] = q[k + 1 + i - 1]
      BY <2>6, <3>1, SubSeqProperties
    <3> HIDE DEF b
    <3>3. Len(b) = Len(q) - k
      <4>1. k \in Nat /\ k <= Len(q) BY <2>1, <2>6
      <4>2. CASE k + 1 <= Len(q) BY <2>6, <3>2, <4>1, <4>2
      <4>3. CASE k = Len(q) BY <2>6, <3>2, <4>3
      <4>4. k + 1 <= Len(q) \/ k = Len(q)
        <5>1. Len(q) \in Nat BY <2>6
        <5> QED BY <4>1, <5>1
      <4> QED BY <4>2, <4>3, <4>4
    <3>4. ASSUME NEW i \in 1..(Len(q) - k) PROVE b[i] = q[k + i]
      <4>1. i \in 1..(Len(q) - (k + 1) + 1) /\ k + 1 + i - 1 = k + i BY <2>1, <2>6
      <4>2. b[i] = q[k + 1 + i - 1] BY <3>2, <4>1
      <4> QED BY <4>1, <4>2
    <3> QED BY <3>2, <3>3, <3>4
  <2> HIDE DEF a, b
  <2>9. /\ r \in Seq(Session) /\ Len(r) = Len(a) + Len(b)
        /\ \A i \in 1..(Len(a) + Len(b)) : r[i] = IF i <= Len(a) THEN a[i] ELSE b[i - Len(a)]
    <3>1. a \in Seq(Session) /\ b \in Seq(Session) BY <2>7, <2>8
    <3>2. /\ a \o b \in Seq(Session) /\ Len(a \o b) = Len(a) + Len(b)
          /\ \A i \in 1..(Len(a) + Len(b)) :
                (a \o b)[i] = IF i <= Len(a) THEN a[i] ELSE b[i - Len(a)]
      BY <3>1, ConcatProperties
    <3> QED BY <3>2
  <2> HIDE DEF r
  \* What is before x stays where it is, what comes after it moves up.
  <2>10. /\ Len(r) = Len(q) - 1 /\ DOMAIN r = 1..Len(r)
         /\ \A i \in 1..Len(r) : r[i] = q[IF i < k THEN i ELSE i + 1]
    <3>1. Len(r) = Len(q) - 1 /\ DOMAIN r = 1..Len(r) BY <2>6, <2>7, <2>8, <2>9
    <3>2. ASSUME NEW i \in 1..Len(r) PROVE r[i] = q[IF i < k THEN i ELSE i + 1]
      <4>0. i \in 1..(Len(a) + Len(b)) /\ i \in Nat BY <2>9
      <4>1. CASE i < k
        <5>1. i <= Len(a) /\ i \in 1..(k - 1) BY <2>1, <2>6, <2>7, <4>0, <4>1
        <5> QED BY <2>7, <2>9, <4>0, <4>1, <5>1
      <4>2. CASE ~(i < k)
        <5>1. i - (k - 1) \in 1..(Len(q) - k) /\ k + (i - (k - 1)) = i + 1 /\ ~(i <= k - 1)
          BY <2>1, <2>6, <3>1, <4>2
        <5>2. r[i] = b[i - (k - 1)] BY <2>7, <2>9, <4>0, <5>1
        <5>3. b[i - (k - 1)] = q[i + 1] BY <2>8, <5>1
        <5> QED BY <4>2, <5>2, <5>3
      <4> QED BY <4>1, <4>2
    <3> QED BY <3>1, <3>2
  <2>11. \A i \in 1..Len(r) : (IF i < k THEN i ELSE i + 1) \in 1..Len(q) BY <2>1, <2>6, <2>10
  <2>12. ToSet(r) = ToSet(q) \ {x}
    <3>1. ASSUME NEW i \in 1..Len(r) PROVE r[i] \in ToSet(q) /\ r[i] # x
      <4> DEFINE m == IF i < k THEN i ELSE i + 1
      <4>1. m \in 1..Len(q) /\ m # k /\ r[i] = q[m] BY <2>6, <2>10, <2>11
      <4> HIDE DEF m
      <4>2. q[m] # q[k] BY <2>1, <4>1
      <4> QED BY <2>1, <2>6, <4>1, <4>2 DEF ToSet
    <3>2. ASSUME NEW m \in 1..Len(q), q[m] # x PROVE q[m] \in ToSet(r)
      <4> DEFINE i == IF m < k THEN m ELSE m - 1
      <4>1. m # k BY <2>1, <3>2
      <4>2. i \in 1..Len(r) /\ (IF i < k THEN i ELSE i + 1) = m BY <2>1, <2>6, <2>10, <4>1
      <4> HIDE DEF i
      <4>3. r[i] = q[m] BY <2>10, <4>2
      <4> QED BY <2>10, <4>2, <4>3 DEF ToSet
    <3> QED BY <2>6, <2>10, <3>1, <3>2 DEF ToSet
  <2>13. ASSUME NEW i \in 1..Len(r), NEW j \in 1..Len(r), r[i] = r[j] PROVE i = j
    <3>1. (IF i < k THEN i ELSE i + 1) = (IF j < k THEN j ELSE j + 1) BY <2>10, <2>11, <2>13
    <3> QED BY <2>6, <3>1
  <2> QED BY <2>5, <2>9, <2>12, <2>13
<1> QED BY <1>1, <1>2

-----------------------------------------------------------------------------
(* What the handlers keep. *)

ScopeType == [ids : Seq(Session), Id : Key \cup {None}, Userid : User \cup {None},
              contact : BOOLEAN, element : BOOLEAN, killed : BOOLEAN]
ListType  == [heap : Seq(ScopeType), scopes : [Key -> Nat \cup {None}],
              brain : [Key -> Nat \cup {None}], sessions : [Session -> Nat \cup {None}],
              auth : SUBSET Session, queue : SUBSET Key, lefts : SUBSET (Key \X Nat),
              dropped : SUBSET Nat]

\* A line some id leads to; what the frame finds for an id of the queue.
Reached(l, n) == \E k \in Key : l.scopes[k] = n
Looks(l, k)   == IF l.scopes[k] # None THEN l.scopes[k] ELSE l.brain[k]

Refs(l, D) ==
    /\ \A k \in Key : l.scopes[k] # None => l.scopes[k] \in DOMAIN l.heap
    /\ \A k \in Key : l.brain[k] # None => l.brain[k] \in DOMAIN l.heap
    /\ \A e \in l.lefts : e[2] \in DOMAIN l.heap
    /\ D \subseteq DOMAIN l.heap

\* The ids that lead to a line are its sessions and its user.
Known(l, n) ==
    /\ ~l.heap[n].killed
    /\ \A s \in Session : s \in ToSet(l.heap[n].ids) <=> l.scopes[s] = n
    /\ \A u \in User : l.heap[n].Userid = u <=> l.scopes[u] = n

\* Sessions that share a line have told their user; only a contact has no session.
Own(c, K) ==
    /\ \A i, j \in 1..Len(c.ids) : c.ids[i] = c.ids[j] => i = j
    /\ IF c.ids = <<>> THEN c.contact /\ c.Id = c.Userid ELSE c.Id \in ToSet(c.ids)
    /\ c.Userid = None => ~c.contact /\ Len(c.ids) = 1
    /\ c.Userid # None => \A s \in ToSet(c.ids) : s \in K /\ Userid[s] = c.Userid

ShownAt(l, D, n) == n \in D \cup l.dropped \/ \E q \in l.queue : Looks(l, q) = n

Lines(l, K, D) ==
    \A n \in DOMAIN l.heap :
        Reached(l, n) => Known(l, n) /\ Own(l.heap[n], K) /\ ShownAt(l, D, n)

\* The tables of sessions and of scopes know who is present.
Tables(l, P) == \A s \in Session : /\ l.sessions[s] = l.scopes[s]
                                   /\ s \in P <=> l.scopes[s] # None

\* The scope of one who left is gone, or his user still has it.
Brain(l, K) ==
    /\ \A u \in User : l.brain[u] # None => l.heap[l.brain[u]].killed
    /\ \A s \in Session : l.scopes[s] = None /\ l.brain[s] # None =>
          \/ l.heap[l.brain[s]].killed
          \/ l.scopes[Userid[s]] = l.brain[s] /\ s \in K

Auth(l) == \A s \in l.auth : l.scopes[s] # None => l.heap[l.scopes[s]].Userid # None

\* What is on the page, and what is to be removed from it.
Page(l, D) ==
    /\ \A e \in l.lefts : l.heap[e[2]].killed
    /\ \A n \in DOMAIN l.heap : l.heap[n].element <=> n \in D /\ ~l.heap[n].killed
    /\ \A n \in D : l.heap[n].killed \/ Reached(l, n)

Good(l, P, K, D) ==
    /\ l \in ListType /\ Refs(l, D) /\ Lines(l, K, D) /\ Tables(l, P)
    /\ Brain(l, K) /\ Auth(l) /\ Page(l, D)

-----------------------------------------------------------------------------
(* A handler changes one line. *)

Change(l, T, n) ==
    /\ DOMAIN T.heap = DOMAIN l.heap \cup {n}
    /\ \A m \in DOMAIN l.heap : m # n => T.heap[m] = l.heap[m]
    /\ n \in DOMAIN l.heap /\ l.heap[n].killed => T.heap[n].killed
    /\ \A k \in Key : T.scopes[k] # l.scopes[k] => {l.scopes[k], T.scopes[k]} \subseteq {None, n}
    /\ \A u \in User : l.scopes[u] = n => T.scopes[u] = n \/ T.heap[n].killed
    /\ \A e \in T.lefts : e \in l.lefts \/ (e[2] = n /\ T.heap[n].killed)
    /\ l.queue \subseteq T.queue /\ T.dropped = l.dropped

\* Who comes back finds his user's line, or his old one is gone; who goes leaves it behind.
BrainChange(l, T, n, K) ==
    /\ \A k \in Key : T.brain[k] # None => T.brain[k] \in DOMAIN T.heap
    /\ \A k \in Key : l.scopes[k] = None /\ T.scopes[k] # None =>
          l.brain[k] \in {None, n} \/ l.heap[l.brain[k]].killed
    /\ \A k \in Key : l.scopes[k] = None /\ T.scopes[k] = None => T.brain[k] = l.brain[k]
    /\ \A u \in User :
          T.brain[u] = l.brain[u] \/ (T.brain[u] = n /\ T.heap[n].killed)
    /\ \A s \in Session : l.scopes[s] # None /\ T.scopes[s] = None /\ T.brain[s] # None =>
          /\ T.brain[s] = n
          /\ T.heap[n].killed \/ (T.scopes[Userid[s]] = n /\ s \in K)

\* What the line must be then.
Fine(T, n, K, D) ==
    /\ Reached(T, n) => Known(T, n) /\ Own(T.heap[n], K) /\ ShownAt(T, D, n)
    /\ T.heap[n].element <=> n \in D /\ ~T.heap[n].killed
    /\ n \in D => T.heap[n].killed \/ Reached(T, n)

LEMMA ChangeGood ==
    ASSUME NEW l, NEW T \in ListType, NEW n \in Nat, NEW P, NEW P2, NEW K, NEW D,
           Good(l, P, K, D), Change(l, T, n), BrainChange(l, T, n, K), Fine(T, n, K, D),
           Tables(T, P2), Auth(T)
    PROVE  Good(T, P2, K, D)
<1>1. /\ l \in ListType /\ Refs(l, D) /\ Lines(l, K, D) /\ Brain(l, K) /\ Page(l, D)
  BY DEF Good
<1>2. /\ None \notin Key /\ None # n /\ \A u \in User : u \in Key
      /\ \A s \in Session : s \in Key /\ Userid[s] \in User
  BY UserAssumption, UseridAssumption DEF Key
<1>3. \A m \in DOMAIN l.heap : l.heap[m].killed => T.heap[m].killed
  BY DEF Change
<1>4. ASSUME NEW k \in Key, NEW m, m # n, m # None
      PROVE  T.scopes[k] = m <=> l.scopes[k] = m
  <2>1. T.scopes[k] # l.scopes[k] => {l.scopes[k], T.scopes[k]} \subseteq {None, n}
    BY DEF Change
  <2> QED BY <2>1, <1>4
<1>5. Refs(T, D)
  <2>1. ASSUME NEW k \in Key, T.scopes[k] # None PROVE T.scopes[k] \in DOMAIN T.heap
    <3>1. CASE T.scopes[k] = n BY <3>1 DEF Change
    <3>2. CASE T.scopes[k] # n
      <4>1. l.scopes[k] = T.scopes[k] BY <1>4, <2>1, <3>2
      <4> QED BY <1>1, <2>1, <4>1 DEF Refs, Change
    <3> QED BY <3>1, <3>2
  <2>2. \A k \in Key : T.brain[k] # None => T.brain[k] \in DOMAIN T.heap BY DEF BrainChange
  <2>3. \A e \in T.lefts : e[2] \in DOMAIN T.heap BY <1>1 DEF Refs, Change
  <2>4. D \subseteq DOMAIN T.heap BY <1>1 DEF Refs, Change
  <2> QED BY <2>1, <2>2, <2>3, <2>4 DEF Refs
<1>6. Lines(T, K, D)
  <2> SUFFICES ASSUME NEW m \in DOMAIN T.heap, Reached(T, m)
               PROVE  Known(T, m) /\ Own(T.heap[m], K) /\ ShownAt(T, D, m)
    BY DEF Lines
  <2>1. CASE m = n BY <2>1 DEF Fine
  <2>2. CASE m # n
    <3>1. m \in DOMAIN l.heap /\ T.heap[m] = l.heap[m] BY <2>2 DEF Change
    <3>2. m # None
      <4>1. DOMAIN l.heap \subseteq Nat BY <1>1 DEF ListType
      <4> QED BY <3>1, <4>1, UserAssumption
    <3>3. Reached(l, m)
      <4>1. PICK k \in Key : T.scopes[k] = m BY DEF Reached
      <4>2. l.scopes[k] = m BY <1>4, <2>2, <3>2, <4>1
      <4> QED BY <4>2 DEF Reached
    <3>4. Known(l, m) /\ Own(l.heap[m], K) /\ ShownAt(l, D, m) BY <1>1, <3>1, <3>3 DEF Lines
    <3>5. Known(T, m) BY <1>2, <1>4, <2>2, <3>1, <3>2, <3>4 DEF Known
    <3>6. ShownAt(T, D, m)
      <4>1. CASE m \in D \cup l.dropped BY <4>1 DEF ShownAt, Change
      <4>2. CASE \E q \in l.queue : Looks(l, q) = m
        <5>1. PICK q \in l.queue : Looks(l, q) = m BY <4>2
        <5>2. q \in Key /\ q \in T.queue BY <1>1 DEF ListType, Change
        <5>3. CASE l.scopes[q] # None
          <6>1. l.scopes[q] = m BY <5>1, <5>3 DEF Looks
          <6>2. T.scopes[q] = m BY <1>4, <2>2, <3>2, <5>2, <6>1
          <6> QED BY <3>2, <5>2, <6>2 DEF ShownAt, Looks
        <5>4. CASE l.scopes[q] = None
          <6>1. l.brain[q] = m BY <5>1, <5>4 DEF Looks
          <6>2. ~l.heap[m].killed BY <3>4 DEF Known
          <6>3. T.scopes[q] = None BY <2>2, <3>2, <5>2, <5>4, <6>1, <6>2 DEF BrainChange
          <6>4. T.brain[q] = m BY <5>2, <5>4, <6>1, <6>3 DEF BrainChange
          <6> QED BY <5>2, <6>3, <6>4 DEF ShownAt, Looks
        <5> QED BY <5>3, <5>4
      <4> QED BY <3>4, <4>1, <4>2 DEF ShownAt
    <3> QED BY <3>1, <3>4, <3>5, <3>6
  <2> QED BY <2>1, <2>2
<1>7. Brain(T, K)
  <2>1. ASSUME NEW u \in User, T.brain[u] # None PROVE T.heap[T.brain[u]].killed
    <3>1. CASE T.brain[u] = l.brain[u]
      <4>1. l.heap[l.brain[u]].killed /\ l.brain[u] \in DOMAIN l.heap
        BY <1>1, <1>2, <2>1, <3>1 DEF Brain, Refs
      <4> QED BY <1>3, <3>1, <4>1
    <3>2. CASE T.brain[u] # l.brain[u] BY <2>1, <3>2 DEF BrainChange
    <3> QED BY <3>1, <3>2
  <2>2. ASSUME NEW s \in Session, T.scopes[s] = None, T.brain[s] # None
        PROVE  T.heap[T.brain[s]].killed \/ (T.scopes[Userid[s]] = T.brain[s] /\ s \in K)
    <3>1. CASE l.scopes[s] # None BY <2>2, <3>1 DEF BrainChange
    <3>2. CASE l.scopes[s] = None
      <4>1. T.brain[s] = l.brain[s] BY <1>2, <2>2, <3>2 DEF BrainChange
      <4>2. l.brain[s] \in DOMAIN l.heap BY <1>1, <1>2, <2>2, <4>1 DEF Refs
      <4>3. CASE l.heap[l.brain[s]].killed BY <1>3, <4>1, <4>2, <4>3
      <4>4. CASE l.scopes[Userid[s]] = l.brain[s] /\ s \in K
        <5>1. CASE l.brain[s] = n
          <6>1. T.scopes[Userid[s]] = n \/ T.heap[n].killed BY <1>2, <4>4, <5>1 DEF Change
          <6> QED BY <4>1, <4>4, <5>1, <6>1
        <5>2. CASE l.brain[s] # n
          <6>1. T.scopes[Userid[s]] = l.brain[s] BY <1>2, <1>4, <2>2, <4>1, <4>4, <5>2
          <6> QED BY <4>1, <4>4, <6>1
        <5> QED BY <5>1, <5>2
      <4> QED BY <1>1, <2>2, <3>2, <4>1, <4>3, <4>4 DEF Brain
    <3> QED BY <3>1, <3>2
  <2> QED BY <2>1, <2>2 DEF Brain
<1>8. Page(T, D)
  <2>1. \A e \in T.lefts : T.heap[e[2]].killed
    BY <1>1, <1>3 DEF Page, Change, Refs
  <2>2. \A m \in DOMAIN T.heap : T.heap[m].element <=> m \in D /\ ~T.heap[m].killed
    <3> SUFFICES ASSUME NEW m \in DOMAIN T.heap
                 PROVE  T.heap[m].element <=> m \in D /\ ~T.heap[m].killed
      OBVIOUS
    <3>1. CASE m = n BY <3>1 DEF Fine
    <3>2. CASE m # n
      <4>1. m \in DOMAIN l.heap /\ T.heap[m] = l.heap[m] BY <3>2 DEF Change
      <4>2. l.heap[m].element <=> m \in D /\ ~l.heap[m].killed BY <1>1, <4>1 DEF Page
      <4> QED BY <4>1, <4>2
    <3> QED BY <3>1, <3>2
  <2>3. ASSUME NEW m \in D PROVE T.heap[m].killed \/ Reached(T, m)
    <3>1. CASE m = n BY <3>1 DEF Fine
    <3>2. CASE m # n
      <4>1. m \in DOMAIN l.heap BY <1>1 DEF Refs
      <4>2. m # None
        <5>1. DOMAIN l.heap \subseteq Nat BY <1>1 DEF ListType
        <5> QED BY <4>1, <5>1, UserAssumption
      <4>3. l.heap[m].killed \/ Reached(l, m) BY <1>1 DEF Page
      <4>4. CASE l.heap[m].killed BY <1>3, <4>1, <4>4
      <4>5. CASE Reached(l, m) BY <1>4, <3>2, <4>2, <4>5 DEF Reached
      <4> QED BY <4>3, <4>4, <4>5
    <3> QED BY <3>1, <3>2
  <2> QED BY <2>1, <2>2, <2>3 DEF Page
<1> QED BY <1>5, <1>6, <1>7, <1>8 DEF Good

-----------------------------------------------------------------------------
(* The changes, one by one. *)

LEMMA Names ==
    /\ None \notin Key /\ None \notin Nat
    /\ \A u \in User : u \in Key /\ u # None /\ u \notin Session
    /\ \A s \in Session : s \in Key /\ s # None /\ s \notin User /\ Userid[s] \in User
BY UserAssumption, UseridAssumption DEF Key

\* More to render, more data that are marked.
LEMMA SameGood ==
    ASSUME NEW l, NEW T \in ListType, NEW P, NEW K, NEW D, Good(l, P, K, D),
           T.heap = l.heap, T.scopes = l.scopes, T.brain = l.brain, T.sessions = l.sessions,
           T.lefts = l.lefts, T.dropped = l.dropped, l.queue \subseteq T.queue, Auth(T)
    PROVE  Good(T, P, K, D)
<1>1. Refs(T, D) /\ Tables(T, P) /\ Brain(T, K)
  BY DEF Good, Refs, Tables, Brain
<1>2. \A n : Reached(T, n) <=> Reached(l, n)
  BY DEF Reached
<1>3. Page(T, D)
  BY <1>2 DEF Good, Page
<1>4. Lines(T, K, D)
  <2> SUFFICES ASSUME NEW n \in DOMAIN l.heap, Reached(l, n)
               PROVE  Known(T, n) /\ Own(T.heap[n], K) /\ ShownAt(T, D, n)
    BY <1>2 DEF Lines
  <2>1. Known(l, n) /\ Own(l.heap[n], K) /\ ShownAt(l, D, n)
    BY DEF Good, Lines
  <2>2. Known(T, n)
    BY <2>1 DEF Known
  <2>3. ShownAt(T, D, n)
    BY <2>1 DEF ShownAt, Looks
  <2> QED BY <2>1, <2>2, <2>3
<1> QED BY <1>1, <1>3, <1>4 DEF Good

\* More sessions have told their user.
LEMMA KnowMore ==
    ASSUME NEW l, NEW P, NEW K, NEW K2, NEW D, Good(l, P, K, D), K \subseteq K2
    PROVE  Good(l, P, K2, D)
<1>1. Lines(l, K2, D)
  BY DEF Good, Lines, Own
<1>2. Brain(l, K2)
  BY DEF Good, Brain
<1> QED BY <1>1, <1>2 DEF Good

\* A reached line has a number, and is known.
LEMMA ReachedLine ==
    ASSUME NEW l, NEW P, NEW K, NEW D, Good(l, P, K, D), NEW k \in Key, l.scopes[k] # None
    PROVE  LET n == l.scopes[k] IN
           /\ n \in Nat /\ n \in DOMAIN l.heap /\ n # None /\ Reached(l, n) /\ l.heap[n] \in ScopeType
           /\ Known(l, n) /\ Own(l.heap[n], K) /\ ShownAt(l, D, n)
<1>1. l \in ListType
  BY DEF Good
<1>2. l.scopes[k] \in DOMAIN l.heap
  BY DEF Good, Refs
<1>3. l.heap \in Seq(ScopeType)
  BY <1>1 DEF ListType
<1>4. l.scopes[k] \in Nat /\ l.heap[l.scopes[k]] \in ScopeType
  BY <1>2, <1>3
<1>5. Reached(l, l.scopes[k])
  BY DEF Reached
<1> QED BY <1>2, <1>4, <1>5 DEF Good, Lines

\* The scope of one who is away.
LEMMA AwayLine ==
    ASSUME NEW l, NEW P, NEW K, NEW D, Good(l, P, K, D), NEW s \in Session, l.scopes[s] = None
    PROVE  \/ l.brain[s] = None \/ l.heap[l.brain[s]].killed
           \/ l.scopes[Userid[s]] = l.brain[s] /\ s \in K
BY DEF Good, Brain

\* A new line, of a session or a contact.
Fresh(l, T, n, c, S, id, K) ==
    /\ n = Len(l.heap) + 1
    /\ DOMAIN T.heap = DOMAIN l.heap \cup {n} /\ T.heap[n] = c
    /\ \A m \in DOMAIN l.heap : T.heap[m] = l.heap[m]
    /\ T.brain = l.brain /\ T.lefts = l.lefts
    /\ T.dropped = l.dropped /\ T.queue = l.queue \cup {id}
    /\ ~c.element /\ ~c.killed /\ Own(c, K)
    /\ S = {k \in Key : k \in ToSet(c.ids) \/ k = c.Userid} /\ id \in S
    /\ T.scopes = [k \in Key |-> IF k \in S THEN n ELSE l.scopes[k]]
    /\ T.sessions = [s \in Session |-> IF s \in ToSet(c.ids) THEN n ELSE l.sessions[s]]
    /\ \A s \in T.auth : s \in l.auth \/ (c.Userid # None /\ s \in ToSet(c.ids))
    /\ c.Userid = None => \A s \in ToSet(c.ids) : s \notin T.auth
    /\ \A k \in S : /\ l.scopes[k] = None
                    /\ l.brain[k] = None \/ l.heap[l.brain[k]].killed

LEMMA FreshLine ==
    ASSUME NEW l, NEW T \in ListType, NEW P, NEW K, NEW D, Good(l, P, K, D),
           NEW id \in Key, NEW c \in ScopeType, NEW n, NEW S, Fresh(l, T, n, c, S, id, K)
    PROVE  Good(T, P \cup ToSet(c.ids), K, D)
<1>f. /\ n = Len(l.heap) + 1
      /\ DOMAIN T.heap = DOMAIN l.heap \cup {n} /\ T.heap[n] = c
      /\ \A m \in DOMAIN l.heap : T.heap[m] = l.heap[m]
      /\ T.brain = l.brain /\ T.lefts = l.lefts
      /\ T.dropped = l.dropped /\ T.queue = l.queue \cup {id}
      /\ ~c.element /\ ~c.killed /\ Own(c, K)
      /\ S = {k \in Key : k \in ToSet(c.ids) \/ k = c.Userid} /\ id \in S
      /\ T.scopes = [k \in Key |-> IF k \in S THEN n ELSE l.scopes[k]]
      /\ T.sessions = [s \in Session |-> IF s \in ToSet(c.ids) THEN n ELSE l.sessions[s]]
  BY DEF Fresh
<1>g. /\ \A s \in T.auth : s \in l.auth \/ (c.Userid # None /\ s \in ToSet(c.ids))
      /\ c.Userid = None => \A s \in ToSet(c.ids) : s \notin T.auth
      /\ \A k \in S : /\ l.scopes[k] = None
                      /\ l.brain[k] = None \/ l.heap[l.brain[k]].killed
  BY DEF Fresh
<1>0. l \in ListType /\ Refs(l, D) /\ Tables(l, P) /\ Auth(l) /\ Brain(l, K)
  BY DEF Good
<1>1. l.heap \in Seq(ScopeType) /\ c.ids \in Seq(Session) /\ c.Userid \in User \cup {None}
  BY <1>f, <1>g, <1>0 DEF ListType, ScopeType
<1>2. /\ n \in Nat /\ DOMAIN T.heap = DOMAIN l.heap \cup {n} /\ n \notin DOMAIN l.heap
      /\ T.heap[n] = c /\ \A m \in DOMAIN l.heap : T.heap[m] = l.heap[m]
  BY <1>f, <1>g, <1>1
<1>3. n # None /\ ToSet(c.ids) \subseteq Session
  BY <1>f, <1>g, <1>1, <1>2, Names DEF ToSet
<1>4. \A k \in Key : T.scopes[k] = IF k \in S THEN n ELSE l.scopes[k]
  BY <1>f
<1>5. \A k \in Key : l.scopes[k] # n
  BY <1>f, <1>g, <1>0, <1>2, <1>3 DEF Refs
<1>6. Change(l, T, n)
  <2>1. \A k \in Key : T.scopes[k] # l.scopes[k] => {l.scopes[k], T.scopes[k]} \subseteq {None, n}
    BY <1>f, <1>g, <1>4
  <2>2. \A u \in User : l.scopes[u] = n => T.scopes[u] = n \/ T.heap[n].killed
    BY <1>f, <1>g, <1>5, Names
  <2> QED BY <1>f, <1>g, <1>2, <2>1, <2>2 DEF Change
<1>7. BrainChange(l, T, n, K)
  <2>1. \A k \in Key : T.brain[k] # None => T.brain[k] \in DOMAIN T.heap
    BY <1>f, <1>g, <1>0, <1>2 DEF Refs
  <2>2. \A k \in Key : l.scopes[k] # None => T.scopes[k] # None
    BY <1>f, <1>g, <1>3, <1>4
  <2>3. \A k \in Key : l.scopes[k] = None /\ T.scopes[k] # None =>
          l.brain[k] \in {None, n} \/ l.heap[l.brain[k]].killed
    BY <1>f, <1>g, <1>4
  <2> QED BY <1>f, <1>g, <2>1, <2>2, <2>3, Names DEF BrainChange
<1>8. Fine(T, n, K, D)
  <2>1. Known(T, n)
    <3>1. \A s \in Session : s \in ToSet(c.ids) <=> T.scopes[s] = n
      BY <1>f, <1>g, <1>1, <1>4, <1>5, Names
    <3>2. \A u \in User : c.Userid = u <=> T.scopes[u] = n
      BY <1>f, <1>g, <1>3, <1>4, <1>5, Names
    <3> QED BY <1>f, <1>g, <1>2, <3>1, <3>2 DEF Known
  <2>2. ShownAt(T, D, n)
    BY <1>f, <1>g, <1>3, <1>4 DEF ShownAt, Looks
  <2>3. n \notin D
    BY <1>f, <1>g, <1>0, <1>2 DEF Refs
  <2> QED BY <1>f, <1>g, <1>2, <2>1, <2>2, <2>3 DEF Fine
<1>9. Tables(T, P \cup ToSet(c.ids))
  <2> SUFFICES ASSUME NEW s \in Session
               PROVE  /\ T.sessions[s] = T.scopes[s]
                      /\ s \in P \cup ToSet(c.ids) <=> T.scopes[s] # None
    BY <1>f, <1>g DEF Tables
  <2>1. l.sessions[s] = l.scopes[s] /\ (s \in P <=> l.scopes[s] # None)
    BY <1>f, <1>g, <1>0 DEF Tables
  <2>2. s \in S <=> s \in ToSet(c.ids)
    BY <1>f, <1>g, <1>1, Names
  <2> QED BY <1>f, <1>g, <1>3, <1>4, <2>1, <2>2, Names
<1>10. Auth(T)
  <2> SUFFICES ASSUME NEW s \in T.auth, T.scopes[s] # None
               PROVE  T.heap[T.scopes[s]].Userid # None
    BY <1>f, <1>g DEF Auth
  <2>0. s \in Session /\ s \in Key
    BY <1>f, <1>g, Names DEF ListType
  <2>1. CASE s \in S
    <3>1. s \in ToSet(c.ids)
      BY <1>f, <1>g, <1>1, <2>0, <2>1, Names
    <3> QED BY <1>f, <1>g, <1>2, <1>4, <2>0, <2>1, <3>1
  <2>2. CASE s \notin S
    <3>1. T.scopes[s] = l.scopes[s]
      BY <1>f, <1>g, <1>4, <2>0, <2>2
    <3>2. s \in l.auth
      BY <1>f, <1>g, <2>0, <2>2
    <3>3. l.heap[l.scopes[s]].Userid # None /\ l.scopes[s] \in DOMAIN l.heap
      BY <1>f, <1>g, <1>0, <2>0, <3>1, <3>2 DEF Auth, Refs
    <3> QED BY <1>f, <1>g, <1>2, <3>1, <3>3
  <2> QED BY <1>f, <1>g, <2>1, <2>2
<1> QED BY <1>f, <1>g, <1>2, <1>6, <1>7, <1>8, <1>9, <1>10, ChangeGood

\* A session comes to the line of its user.
Shares(l, T, s, n) ==
    /\ l.scopes[s] = None /\ l.scopes[Userid[s]] = n
    /\ DOMAIN T.heap = DOMAIN l.heap
    /\ \A m \in DOMAIN l.heap : m # n => T.heap[m] = l.heap[m]
    /\ T.heap[n].ids = Append(l.heap[n].ids, s)
    /\ T.heap[n].Id = IF l.heap[n].ids = <<>> THEN s ELSE l.heap[n].Id
    /\ T.heap[n].Userid = l.heap[n].Userid /\ T.heap[n].contact = l.heap[n].contact
    /\ T.heap[n].element = l.heap[n].element /\ T.heap[n].killed = l.heap[n].killed
    /\ \A k \in Key : T.scopes[k] = IF k = s THEN n ELSE l.scopes[k]
    /\ \A t \in Session : T.sessions[t] = IF t = s THEN n ELSE l.sessions[t]
    /\ \A k \in Key : k # s => T.brain[k] = l.brain[k]
    /\ T.brain[s] # None => T.brain[s] \in DOMAIN l.heap
    /\ T.lefts = l.lefts /\ T.dropped = l.dropped /\ T.queue = l.queue
    /\ \A t \in T.auth : t \in l.auth \/ t = s

LEMMA SharedLine ==
    ASSUME NEW l, NEW T \in ListType, NEW P, NEW K, NEW D, Good(l, P, K, D),
           NEW s \in Session, s \in K, NEW n, n # None, Shares(l, T, s, n)
    PROVE  Good(T, P \cup {s}, K, D)
<1>0. l \in ListType /\ Refs(l, D) /\ Tables(l, P) /\ Auth(l) /\ Brain(l, K) /\ Page(l, D)
  BY DEF Good
<1> DEFINE u == Userid[s]
           c == l.heap[n]
<1>u. u \in User /\ u \in Key /\ s \in Key /\ u # s
  BY Names
<1>s. /\ l.scopes[s] = None /\ l.scopes[u] = n
      /\ \A k \in Key : T.scopes[k] = IF k = s THEN n ELSE l.scopes[k]
      /\ DOMAIN T.heap = DOMAIN l.heap
  BY DEF Shares
<1>1. /\ n \in Nat /\ n \in DOMAIN l.heap /\ c \in ScopeType
      /\ Known(l, n) /\ Own(c, K) /\ ShownAt(l, D, n)
  BY <1>u, <1>s, ReachedLine
<1>k. /\ ~c.killed /\ \A t \in Session : t \in ToSet(c.ids) <=> l.scopes[t] = n
      /\ \A v \in User : c.Userid = v <=> l.scopes[v] = n
  BY <1>1 DEF Known
<1> HIDE DEF u
<1>2. c.Userid = u /\ c.Userid # None
  BY <1>k, <1>s, <1>u, Names
<1>3. c.ids \in Seq(Session) /\ s \notin ToSet(c.ids)
  BY <1>1, <1>k, <1>s DEF ScopeType
<1>i. \A i, j \in 1..Len(c.ids) : c.ids[i] = c.ids[j] => i = j
  BY <1>1 DEF Own
<1> DEFINE ids == c.ids
           r   == T.heap[n].ids
<1>4. /\ r \in Seq(Session) /\ ToSet(r) = ToSet(ids) \cup {s}
      /\ \A i, j \in 1..Len(r) : r[i] = r[j] => i = j
  <2>1. r = Append(ids, s)
    BY DEF Shares
  <2>2. ids \in Seq(Session) /\ s \notin ToSet(ids)
        /\ \A i, j \in 1..Len(ids) : ids[i] = ids[j] => i = j
    BY <1>3, <1>i
  <2> HIDE DEF r, ids
  <2>3. PICK q \in Seq(Session) :
           /\ q = Append(ids, s) /\ ToSet(q) = ToSet(ids) \cup {s}
           /\ \A i, j \in 1..Len(q) : q[i] = q[j] => i = j
    BY <2>2, AppendFacts
  <2>4. r = q
    BY <2>1, <2>3
  <2> QED BY <2>3, <2>4
<1>5. /\ T.heap[n].Id = IF ids = <<>> THEN s ELSE c.Id
      /\ T.heap[n].Userid = c.Userid /\ T.heap[n].contact = c.contact
      /\ T.heap[n].element = c.element /\ T.heap[n].killed = c.killed
  BY DEF Shares
<1>h. /\ \A t \in Session : t \in ToSet(ids) <=> l.scopes[t] = n
      /\ Own(c, K)
  BY <1>k, <1>1
<1> HIDE DEF c, r, ids
<1>6. Change(l, T, n)
  <2>1. \A k \in Key : T.scopes[k] # l.scopes[k] => {l.scopes[k], T.scopes[k]} \subseteq {None, n}
    BY <1>s
  <2>2. \A v \in User : l.scopes[v] = n => T.scopes[v] = n \/ T.heap[n].killed
    BY <1>s, Names
  <2>3. DOMAIN T.heap = DOMAIN l.heap \cup {n}
    BY <1>1, <1>s
  <2>4. /\ \A m \in DOMAIN l.heap : m # n => T.heap[m] = l.heap[m]
        /\ T.lefts = l.lefts /\ T.dropped = l.dropped /\ T.queue = l.queue
    BY DEF Shares
  <2>5. ~l.heap[n].killed
    BY <1>k DEF c
  <2> QED BY <2>1, <2>2, <2>3, <2>4, <2>5 DEF Change
<1>b. /\ \A k \in Key : k # s => T.brain[k] = l.brain[k]
      /\ T.brain[s] # None => T.brain[s] \in DOMAIN l.heap
  BY DEF Shares
<1>7. BrainChange(l, T, n, K)
  <2>1. \A k \in Key : T.brain[k] # None => T.brain[k] \in DOMAIN T.heap
    BY <1>0, <1>b, <1>s DEF Refs
  <2>2. \A k \in Key : l.scopes[k] # None => T.scopes[k] # None
    BY <1>s
  <2>3. \A k \in Key : l.scopes[k] = None /\ T.scopes[k] # None =>
          l.brain[k] \in {None, n} \/ l.heap[l.brain[k]].killed
    <3>1. l.brain[s] \in {None, n} \/ l.heap[l.brain[s]].killed
      BY <1>s, AwayLine DEF u
    <3> QED BY <1>s, <3>1
  <2>4. \A k \in Key : l.scopes[k] = None /\ T.scopes[k] = None => T.brain[k] = l.brain[k]
    BY <1>s, <1>b
  <2>5. \A v \in User : T.brain[v] = l.brain[v]
    BY <1>b, Names
  <2> QED BY <2>1, <2>2, <2>3, <2>4, <2>5, Names DEF BrainChange
<1>8. Fine(T, n, K, D)
  <2>1. Known(T, n)
    <3>1. \A t \in Session : t \in ToSet(r) <=> T.scopes[t] = n
      BY <1>s, <1>h, <1>4, Names
    <3>2. \A v \in User : T.heap[n].Userid = v <=> T.scopes[v] = n
      BY <1>k, <1>s, <1>5, Names
    <3>3. ~T.heap[n].killed
      BY <1>k, <1>5
    <3> QED BY <3>1, <3>2, <3>3 DEF Known, r
  <2>2. Own(T.heap[n], K)
    <3>1. s \in ToSet(r)
      BY <1>4
    <3>2. r # <<>>
      <4>1. ToSet(<<>>) = {} BY DEF ToSet
      <4> QED BY <3>1, <4>1
    <3>3. T.heap[n].Id \in ToSet(r)
      <4>1. ids # <<>> => c.Id \in ToSet(ids)
        BY <1>1 DEF Own, ids
      <4> QED BY <1>4, <1>5, <3>1, <4>1
    <3>4. \A t \in ToSet(r) : t \in K /\ Userid[t] = c.Userid
      <4>1. \A t \in ToSet(ids) : t \in K /\ Userid[t] = c.Userid
        BY <1>1, <1>2 DEF Own, ids
      <4>2. Userid[s] = c.Userid
        BY <1>2 DEF u
      <4> QED BY <1>4, <4>1, <4>2
    <3> QED BY <1>2, <1>4, <1>5, <3>2, <3>3, <3>4 DEF Own, r
  <2>3. ShownAt(T, D, n)
    <3>1. T.dropped = l.dropped /\ T.queue = l.queue
      BY DEF Shares
    <3>2. CASE n \in D \cup l.dropped BY <3>1, <3>2 DEF ShownAt
    <3>3. CASE \E q \in l.queue : Looks(l, q) = n
      <4>1. PICK q \in l.queue : Looks(l, q) = n BY <3>3
      <4>2. q \in Key BY <1>0 DEF ListType
      <4>3. CASE q = s
        <5>1. Looks(T, q) = n BY <1>s, <4>2, <4>3 DEF Looks
        <5> QED BY <3>1, <4>1, <5>1 DEF ShownAt
      <4>4. CASE q # s
        <5>1. Looks(T, q) = n BY <1>b, <1>s, <4>1, <4>2, <4>4 DEF Looks
        <5> QED BY <3>1, <4>1, <5>1 DEF ShownAt
      <4> QED BY <4>3, <4>4
    <3> QED BY <1>1, <3>2, <3>3 DEF ShownAt
  <2>4. c.element <=> n \in D /\ ~c.killed
    BY <1>0, <1>1 DEF Page, c
  <2>5. Reached(T, n)
    BY <1>s, <1>u DEF Reached
  <2> QED BY <1>5, <2>1, <2>2, <2>3, <2>4, <2>5 DEF Fine
<1>9. Tables(T, P \cup {s})
  <2>1. \A t \in Session : T.sessions[t] = IF t = s THEN n ELSE l.sessions[t]
    BY DEF Shares
  <2>2. \A t \in Session : t \in Key
    BY Names
  <2> QED BY <1>0, <1>s, <2>1, <2>2 DEF Tables
<1>10. Auth(T)
  <2> SUFFICES ASSUME NEW t \in T.auth, T.scopes[t] # None
               PROVE  T.heap[T.scopes[t]].Userid # None
    BY DEF Auth
  <2>0. t \in Session /\ t \in Key
    BY Names DEF ListType
  <2>1. CASE T.scopes[t] = n BY <1>2, <1>5, <2>1
  <2>2. CASE T.scopes[t] # n
    <3>1. t # s /\ T.scopes[t] = l.scopes[t] BY <1>s, <2>0, <2>2
    <3>2. t \in l.auth /\ T.heap[l.scopes[t]] = l.heap[l.scopes[t]]
      BY <1>0, <2>0, <2>2, <3>1 DEF Shares, Refs
    <3>3. l.heap[l.scopes[t]].Userid # None
      BY <1>0, <2>0, <3>1, <3>2 DEF Auth
    <3> QED BY <3>1, <3>2, <3>3
  <2> QED BY <2>1, <2>2
<1> QED BY <1>1, <1>6, <1>7, <1>8, <1>9, <1>10, ChangeGood

\* A session tells its user, who has no line yet.
SignsIn(l, T, s, n) ==
    /\ l.scopes[s] = n /\ l.scopes[Userid[s]] = None /\ l.heap[n].Userid = None
    /\ DOMAIN T.heap = DOMAIN l.heap
    /\ \A m \in DOMAIN l.heap : m # n => T.heap[m] = l.heap[m]
    /\ T.heap[n].ids = l.heap[n].ids /\ T.heap[n].Id = l.heap[n].Id
    /\ T.heap[n].Userid = Userid[s] /\ T.heap[n].contact = l.heap[n].contact
    /\ T.heap[n].element = l.heap[n].element /\ T.heap[n].killed = l.heap[n].killed
    /\ \A k \in Key : T.scopes[k] = IF k = Userid[s] THEN n ELSE l.scopes[k]
    /\ T.sessions = l.sessions /\ T.brain = l.brain
    /\ T.lefts = l.lefts /\ T.dropped = l.dropped /\ T.queue = l.queue
    /\ \A t \in T.auth : t \in l.auth \/ t = s

\* A line without user is that of one session.
LEMMA OneSession ==
    ASSUME NEW l, NEW P, NEW K, NEW D, Good(l, P, K, D),
           NEW s \in Session, l.scopes[s] # None, l.heap[l.scopes[s]].Userid = None
    PROVE  LET c == l.heap[l.scopes[s]] IN
           /\ c.ids = <<s>> /\ c.Id = s /\ ~c.contact /\ ToSet(c.ids) = {s}
           /\ \A k \in Key : l.scopes[k] = l.scopes[s] => k = s
<1> DEFINE n == l.scopes[s]
           c == l.heap[n]
<1>1. c \in ScopeType /\ Known(l, n) /\ Own(c, K)
  BY Names, ReachedLine
<1>2. c.Userid = None
  OBVIOUS
<1>3. /\ \A t \in Session : t \in ToSet(c.ids) <=> l.scopes[t] = n
      /\ \A u \in User : c.Userid = u <=> l.scopes[u] = n
  BY <1>1 DEF Known
<1>4. c.ids \in Seq(Session) /\ ~c.contact /\ Len(c.ids) = 1
  BY <1>1, <1>2 DEF Own, ScopeType
<1>5. s \in ToSet(c.ids)
  BY <1>3
<1>6. (c.ids # <<>> => c.Id \in ToSet(c.ids))
  BY <1>1 DEF Own
<1> DEFINE q == c.ids
<1>7. q = <<s>> /\ ToSet(q) = {s}
  <2>1. q \in Seq(Session) /\ Len(q) = 1 /\ s \in ToSet(q)
    BY <1>4, <1>5
  <2> HIDE DEF q
  <2>2. DOMAIN q = {1}
    BY <2>1
  <2>3. q[1] = s
    BY <2>1, <2>2 DEF ToSet
  <2>4. q = <<s>>
    BY <2>1, <2>3
  <2> QED BY <2>2, <2>3, <2>4 DEF ToSet
<1>8. c.Id = s
  BY <1>6, <1>7
<1>9. \A k \in Key : l.scopes[k] = n => k = s
  <2>1. \A u \in User : l.scopes[u] # n
    BY <1>2, <1>3, Names
  <2>2. \A t \in Session : l.scopes[t] = n => t = s
    BY <1>3, <1>7
  <2> HIDE DEF n, c
  <2> QED BY <2>1, <2>2 DEF Key
<1> QED BY <1>4, <1>7, <1>8, <1>9

LEMMA SignedLine ==
    ASSUME NEW l, NEW T \in ListType, NEW P, NEW K, NEW D, Good(l, P, K, D),
           NEW s \in Session, s \in K, NEW n, n # None, SignsIn(l, T, s, n)
    PROVE  Good(T, P, K, D)
<1>0. l \in ListType /\ Refs(l, D) /\ Tables(l, P) /\ Auth(l) /\ Brain(l, K) /\ Page(l, D)
  BY DEF Good
<1> DEFINE u == Userid[s]
           c == l.heap[n]
<1>u. u \in User /\ u \in Key /\ s \in Key /\ u # s
  BY Names
<1>s. /\ l.scopes[s] = n /\ l.scopes[u] = None
      /\ \A k \in Key : T.scopes[k] = IF k = u THEN n ELSE l.scopes[k]
      /\ DOMAIN T.heap = DOMAIN l.heap /\ T.sessions = l.sessions /\ T.brain = l.brain
      /\ T.lefts = l.lefts /\ T.dropped = l.dropped /\ T.queue = l.queue
  BY DEF SignsIn
<1>1. /\ n \in Nat /\ n \in DOMAIN l.heap /\ c \in ScopeType
      /\ Known(l, n) /\ Own(c, K) /\ ShownAt(l, D, n)
  BY <1>u, <1>s, ReachedLine
<1>2. /\ ToSet(c.ids) = {s} /\ c.ids = <<s>> /\ c.Id = s /\ ~c.contact
      /\ \A k \in Key : l.scopes[k] = n => k = s
  <2>1. c.Userid = None
    BY DEF SignsIn
  <2> QED BY <1>s, <2>1, OneSession
<1>k. ~c.killed
  BY <1>1 DEF Known
<1>5. /\ T.heap[n].ids = c.ids /\ T.heap[n].Id = c.Id
      /\ T.heap[n].Userid = u /\ T.heap[n].contact = c.contact
      /\ T.heap[n].element = c.element /\ T.heap[n].killed = c.killed
  BY DEF SignsIn
<1> HIDE DEF u, c
<1>6. Change(l, T, n)
  <2>1. \A k \in Key : T.scopes[k] # l.scopes[k] => {l.scopes[k], T.scopes[k]} \subseteq {None, n}
    BY <1>s
  <2>2. \A v \in User : l.scopes[v] = n => T.scopes[v] = n \/ T.heap[n].killed
    BY <1>s, Names
  <2>3. DOMAIN T.heap = DOMAIN l.heap \cup {n}
    BY <1>1, <1>s
  <2>4. \A m \in DOMAIN l.heap : m # n => T.heap[m] = l.heap[m]
    BY DEF SignsIn
  <2>5. ~l.heap[n].killed
    BY <1>k DEF c
  <2> QED BY <1>s, <2>1, <2>2, <2>3, <2>4, <2>5 DEF Change
<1>b. \A v \in User : l.brain[v] = None \/ l.heap[l.brain[v]].killed
  BY <1>0 DEF Brain
<1>7. BrainChange(l, T, n, K)
  <2>1. \A k \in Key : T.brain[k] # None => T.brain[k] \in DOMAIN T.heap
    BY <1>0, <1>s DEF Refs
  <2>2. \A k \in Key : l.scopes[k] # None => T.scopes[k] # None
    BY <1>s
  <2>3. \A k \in Key : l.scopes[k] = None /\ T.scopes[k] # None =>
          l.brain[k] \in {None, n} \/ l.heap[l.brain[k]].killed
    BY <1>s, <1>u, <1>b
  <2> QED BY <1>s, <2>1, <2>2, <2>3, Names DEF BrainChange
<1>8. Fine(T, n, K, D)
  <2>1. Known(T, n)
    <3>1. \A t \in Session : t \in ToSet(T.heap[n].ids) <=> T.scopes[t] = n
      BY <1>s, <1>u, <1>2, <1>5, Names
    <3>2. \A v \in User : T.heap[n].Userid = v <=> T.scopes[v] = n
      BY <1>s, <1>u, <1>2, <1>5, Names
    <3>3. ~T.heap[n].killed
      BY <1>k, <1>5
    <3> QED BY <3>1, <3>2, <3>3 DEF Known
  <2>2. Own(T.heap[n], K)
    <3>1. \A t \in ToSet(c.ids) : t \in K /\ Userid[t] = u
      BY <1>2 DEF u
    <3>2. /\ \A i, j \in 1..Len(c.ids) : c.ids[i] = c.ids[j] => i = j
          /\ c.ids # <<>> /\ c.Id \in ToSet(c.ids)
      BY <1>2
    <3> QED BY <1>5, <1>u, <3>1, <3>2, Names DEF Own
  <2>3. ShownAt(T, D, n)
    <3>2. CASE n \in D \cup l.dropped BY <1>s, <3>2 DEF ShownAt
    <3>3. CASE \E q \in l.queue : Looks(l, q) = n
      <4>1. PICK q \in l.queue : Looks(l, q) = n BY <3>3
      <4>2. q \in Key BY <1>0 DEF ListType
      <4>3. CASE q = u
        <5>1. Looks(T, q) = n BY <1>s, <4>2, <4>3 DEF Looks
        <5> QED BY <1>s, <4>1, <5>1 DEF ShownAt
      <4>4. CASE q # u
        <5>1. Looks(T, q) = n BY <1>s, <4>1, <4>2, <4>4 DEF Looks
        <5> QED BY <1>s, <4>1, <5>1 DEF ShownAt
      <4> QED BY <4>3, <4>4
    <3> QED BY <1>1, <3>2, <3>3 DEF ShownAt
  <2>4. c.element <=> n \in D /\ ~c.killed
    BY <1>0, <1>1 DEF Page, c
  <2>5. Reached(T, n)
    BY <1>s, <1>u DEF Reached
  <2> QED BY <1>5, <2>1, <2>2, <2>3, <2>4, <2>5 DEF Fine
<1>9. Tables(T, P)
  <2>1. \A t \in Session : t \in Key /\ t # u
    BY <1>u, Names
  <2> QED BY <1>0, <1>s, <2>1 DEF Tables
<1>10. Auth(T)
  <2> SUFFICES ASSUME NEW t \in T.auth, T.scopes[t] # None
               PROVE  T.heap[T.scopes[t]].Userid # None
    BY DEF Auth
  <2>0. t \in Session /\ t \in Key
    BY Names DEF ListType
  <2>1. CASE T.scopes[t] = n BY <1>5, <1>u, <2>1, Names
  <2>2. CASE T.scopes[t] # n
    <3>1. t # s /\ T.scopes[t] = l.scopes[t] BY <1>s, <1>u, <2>0, <2>2
    <3>2. t \in l.auth /\ T.heap[l.scopes[t]] = l.heap[l.scopes[t]]
      BY <1>0, <2>0, <2>2, <3>1 DEF SignsIn, Refs
    <3>3. l.heap[l.scopes[t]].Userid # None
      BY <1>0, <2>0, <3>1, <3>2 DEF Auth
    <3> QED BY <3>1, <3>2, <3>3
  <2> QED BY <2>1, <2>2
<1> QED BY <1>1, <1>6, <1>7, <1>8, <1>9, <1>10, ChangeGood

\* A line that nothing leads to any more: it is destroyed, or was never on the page.
Empties(l, T, x, n) ==
    /\ l.scopes[x] = n /\ \A t \in Session : l.scopes[t] = n => t = x
    /\ DOMAIN T.heap = DOMAIN l.heap
    /\ \A m \in DOMAIN l.heap : m # n => T.heap[m] = l.heap[m]
    /\ ~T.heap[n].element
    /\ \A k \in Key : T.scopes[k] = IF l.scopes[k] = n THEN None ELSE l.scopes[k]
    /\ \A t \in Session : T.sessions[t] = IF t = x THEN None ELSE l.sessions[t]
    /\ \A k \in Key : k # x => T.brain[k] = l.brain[k]
    /\ \/ T.heap[n].killed /\ T.brain[x] = n
       \/ /\ T.heap[n].killed \/ ~l.heap[n].element
          /\ T.brain[x] = None /\ x \in Session /\ l.heap[n].Userid = None
    /\ \A e \in T.lefts : e \in l.lefts \/ (e[2] = n /\ T.heap[n].killed)
    /\ l.queue \subseteq T.queue /\ T.dropped = l.dropped /\ T.auth \subseteq l.auth

LEMMA EmptyLine ==
    ASSUME NEW l, NEW T \in ListType, NEW P, NEW K, NEW D, Good(l, P, K, D),
           NEW x \in Key, NEW n, n # None, Empties(l, T, x, n)
    PROVE  Good(T, P \ {x}, K, D)
<1>0. l \in ListType /\ Refs(l, D) /\ Tables(l, P) /\ Auth(l) /\ Brain(l, K) /\ Page(l, D)
  BY DEF Good
<1>s. /\ l.scopes[x] = n /\ \A t \in Session : l.scopes[t] = n => t = x
      /\ \A k \in Key : T.scopes[k] = IF l.scopes[k] = n THEN None ELSE l.scopes[k]
      /\ DOMAIN T.heap = DOMAIN l.heap /\ ~T.heap[n].element
      /\ \A k \in Key : k # x => T.brain[k] = l.brain[k]
  BY DEF Empties
<1>1. /\ n \in Nat /\ n \in DOMAIN l.heap /\ Known(l, n)
  BY <1>s, ReachedLine
<1>k. ~l.heap[n].killed /\ \A v \in User : l.heap[n].Userid = v <=> l.scopes[v] = n
  BY <1>1 DEF Known
<1>b. \/ T.heap[n].killed /\ T.brain[x] = n
      \/ /\ T.heap[n].killed \/ ~l.heap[n].element
         /\ T.brain[x] = None /\ x \in Session /\ l.heap[n].Userid = None
  BY DEF Empties
<1>6. Change(l, T, n)
  <2>1. \A k \in Key : T.scopes[k] # l.scopes[k] => {l.scopes[k], T.scopes[k]} \subseteq {None, n}
    BY <1>s
  <2>2. \A v \in User : l.scopes[v] = n => T.scopes[v] = n \/ T.heap[n].killed
    BY <1>b, <1>k, Names
  <2>3. DOMAIN T.heap = DOMAIN l.heap \cup {n}
    BY <1>1, <1>s
  <2>4. /\ \A m \in DOMAIN l.heap : m # n => T.heap[m] = l.heap[m]
        /\ \A e \in T.lefts : e \in l.lefts \/ (e[2] = n /\ T.heap[n].killed)
        /\ l.queue \subseteq T.queue /\ T.dropped = l.dropped
    BY DEF Empties
  <2> QED BY <1>k, <2>1, <2>2, <2>3, <2>4 DEF Change
<1>7. BrainChange(l, T, n, K)
  <2>1. \A k \in Key : T.brain[k] # None => T.brain[k] \in DOMAIN T.heap
    BY <1>0, <1>1, <1>b, <1>s DEF Refs
  <2>2. \A k \in Key : l.scopes[k] = None => T.scopes[k] = None
    BY <1>s
  <2>3. \A k \in Key : l.scopes[k] = None => T.brain[k] = l.brain[k]
    BY <1>s
  <2>4. \A v \in User : T.brain[v] = l.brain[v] \/ (T.brain[v] = n /\ T.heap[n].killed)
    BY <1>s, <1>b, Names
  <2>5. ASSUME NEW t \in Session, l.scopes[t] # None, T.scopes[t] = None, T.brain[t] # None
        PROVE  T.brain[t] = n /\ T.heap[n].killed
    <3>1. t \in Key
      BY Names
    <3>2. l.scopes[t] = n
      BY <1>s, <2>5, <3>1
    <3>3. t = x
      BY <1>s, <3>2
    <3> QED BY <1>b, <2>5, <3>3
  <2> QED BY <2>1, <2>2, <2>3, <2>4, <2>5 DEF BrainChange
<1>8. Fine(T, n, K, D)
  <2>1. ~Reached(T, n)
    BY <1>s DEF Reached
  <2>2. l.heap[n].element <=> n \in D /\ ~l.heap[n].killed
    BY <1>0, <1>1 DEF Page
  <2>3. n \in D => T.heap[n].killed
    BY <1>b, <1>k, <2>2
  <2> QED BY <1>s, <2>1, <2>3 DEF Fine
<1>9. Tables(T, P \ {x})
  <2> SUFFICES ASSUME NEW t \in Session
               PROVE  T.sessions[t] = T.scopes[t] /\ (t \in P \ {x} <=> T.scopes[t] # None)
    BY DEF Tables
  <2>1. T.sessions[t] = IF t = x THEN None ELSE l.sessions[t]
    BY DEF Empties
  <2>2. l.sessions[t] = l.scopes[t] /\ (t \in P <=> l.scopes[t] # None)
    BY <1>0 DEF Tables
  <2>3. T.scopes[t] = IF t = x THEN None ELSE l.scopes[t]
    BY <1>s, Names
  <2> QED BY <2>1, <2>2, <2>3
<1>10. Auth(T)
  <2> SUFFICES ASSUME NEW t \in T.auth, T.scopes[t] # None
               PROVE  T.heap[T.scopes[t]].Userid # None
    BY DEF Auth
  <2>0. t \in Session /\ t \in Key /\ t \in l.auth
    BY Names DEF ListType, Empties
  <2>1. T.scopes[t] = l.scopes[t] /\ l.scopes[t] # n BY <1>s, <2>0
  <2>2. T.heap[l.scopes[t]] = l.heap[l.scopes[t]]
    BY <1>0, <2>0, <2>1 DEF Empties, Refs
  <2>3. l.heap[l.scopes[t]].Userid # None
    BY <1>0, <2>0, <2>1 DEF Auth
  <2> QED BY <2>1, <2>2, <2>3
<1> QED BY <1>1, <1>6, <1>7, <1>8, <1>9, <1>10, ChangeGood

\* A session leaves a line that stays.
Stays(l, T, s, n) ==
    /\ l.scopes[s] = n
    /\ DOMAIN T.heap = DOMAIN l.heap
    /\ \A m \in DOMAIN l.heap : m # n => T.heap[m] = l.heap[m]
    /\ T.heap[n].ids = RemoveFirst(l.heap[n].ids, s)
    /\ T.heap[n].Id = IF s # l.heap[n].Id THEN l.heap[n].Id
                      ELSE IF T.heap[n].ids # <<>> THEN T.heap[n].ids[1] ELSE l.heap[n].Userid
    /\ T.heap[n].Userid = l.heap[n].Userid /\ T.heap[n].contact = l.heap[n].contact
    /\ T.heap[n].element = l.heap[n].element /\ T.heap[n].killed = l.heap[n].killed
    /\ T.heap[n].ids # <<>> \/ T.heap[n].contact
    /\ \A k \in Key : T.scopes[k] = IF k = s THEN None ELSE l.scopes[k]
    /\ \A t \in Session : T.sessions[t] = IF t = s THEN None ELSE l.sessions[t]
    /\ \A k \in Key : T.brain[k] = IF k = s THEN n ELSE l.brain[k]
    /\ T.lefts = l.lefts /\ T.dropped = l.dropped /\ l.queue \subseteq T.queue
    /\ T.auth = l.auth

LEMMA StayLine ==
    ASSUME NEW l, NEW T \in ListType, NEW P, NEW K, NEW D, Good(l, P, K, D),
           NEW s \in Session, NEW n, n # None, Stays(l, T, s, n)
    PROVE  Good(T, P \ {s}, K, D)
<1>0. l \in ListType /\ Refs(l, D) /\ Tables(l, P) /\ Auth(l) /\ Brain(l, K) /\ Page(l, D)
  BY DEF Good
<1> DEFINE u == Userid[s]
           c == l.heap[n]
<1>u. u \in User /\ u \in Key /\ s \in Key /\ u # s
  BY Names
<1>s. /\ l.scopes[s] = n
      /\ \A k \in Key : T.scopes[k] = IF k = s THEN None ELSE l.scopes[k]
      /\ \A k \in Key : T.brain[k] = IF k = s THEN n ELSE l.brain[k]
      /\ DOMAIN T.heap = DOMAIN l.heap
      /\ T.lefts = l.lefts /\ T.dropped = l.dropped /\ l.queue \subseteq T.queue /\ T.auth = l.auth
  BY DEF Stays
<1>1. /\ n \in Nat /\ n \in DOMAIN l.heap /\ c \in ScopeType
      /\ Known(l, n) /\ Own(c, K) /\ ShownAt(l, D, n)
  BY <1>u, <1>s, ReachedLine
<1>k. /\ ~c.killed /\ \A t \in Session : t \in ToSet(c.ids) <=> l.scopes[t] = n
      /\ \A v \in User : c.Userid = v <=> l.scopes[v] = n
  BY <1>1 DEF Known
<1>2. c.ids \in Seq(Session) /\ s \in ToSet(c.ids)
  BY <1>1, <1>k, <1>s DEF ScopeType
<1>i. \A i, j \in 1..Len(c.ids) : c.ids[i] = c.ids[j] => i = j
  BY <1>1 DEF Own
<1> DEFINE ids == c.ids
           r   == T.heap[n].ids
<1>4. /\ r \in Seq(Session) /\ ToSet(r) = ToSet(ids) \ {s}
      /\ \A i, j \in 1..Len(r) : r[i] = r[j] => i = j
  <2>1. r = RemoveFirst(ids, s)
    BY DEF Stays
  <2>2. ids \in Seq(Session) /\ \A i, j \in 1..Len(ids) : ids[i] = ids[j] => i = j
    BY <1>2, <1>i
  <2> HIDE DEF r, ids
  <2>3. PICK q \in Seq(Session) :
           /\ q = RemoveFirst(ids, s) /\ ToSet(q) = ToSet(ids) \ {s}
           /\ \A i, j \in 1..Len(q) : q[i] = q[j] => i = j
    BY <2>2, RemoveFacts
  <2>4. r = q
    BY <2>1, <2>3
  <2> QED BY <2>3, <2>4
<1>5. /\ T.heap[n].Id = IF s # c.Id THEN c.Id ELSE IF r # <<>> THEN r[1] ELSE c.Userid
      /\ T.heap[n].Userid = c.Userid /\ T.heap[n].contact = c.contact
      /\ T.heap[n].element = c.element /\ T.heap[n].killed = c.killed
      /\ r # <<>> \/ c.contact
  BY DEF Stays
<1>h. /\ \A t \in Session : t \in ToSet(ids) <=> l.scopes[t] = n
      /\ s \in ToSet(ids) /\ c.Id \in ToSet(ids)
  <2>1. ToSet(<<>>) = {}
    BY DEF ToSet
  <2>2. c.ids # <<>>
    BY <1>2, <2>1
  <2> QED BY <1>k, <1>1, <1>2, <2>2 DEF Own
<1>o. c.Userid # None /\ s \in K /\ c.Userid = u
  <2>1. CASE c.Userid = None
    <3>1. ToSet(c.ids) = {s} /\ ~c.contact
      BY <1>1, <1>s, <2>1, OneSession
    <3>2. ToSet(r) = {}
      BY <1>4, <3>1
    <3>3. r # <<>>
      BY <1>5, <3>1
    <3> HIDE DEF r
    <3>4. 1 \in DOMAIN r /\ r[1] \in ToSet(r)
      BY <1>4, <3>3 DEF ToSet
    <3> QED BY <3>2, <3>4
  <2>2. CASE c.Userid # None
    BY <1>1, <1>2, <2>2 DEF Own
  <2> QED BY <2>1, <2>2
<1>v. l.scopes[u] = n
  BY <1>k, <1>o, <1>u
<1> HIDE DEF u, c, r, ids
<1>6. Change(l, T, n)
  <2>1. \A k \in Key : T.scopes[k] # l.scopes[k] => {l.scopes[k], T.scopes[k]} \subseteq {None, n}
    BY <1>s
  <2>2. \A v \in User : l.scopes[v] = n => T.scopes[v] = n \/ T.heap[n].killed
    BY <1>s, Names
  <2>3. DOMAIN T.heap = DOMAIN l.heap \cup {n}
    BY <1>1, <1>s
  <2>4. \A m \in DOMAIN l.heap : m # n => T.heap[m] = l.heap[m]
    BY DEF Stays
  <2>5. ~l.heap[n].killed
    BY <1>k DEF c
  <2> QED BY <1>s, <2>1, <2>2, <2>3, <2>4, <2>5 DEF Change
<1>7. BrainChange(l, T, n, K)
  <2>1. \A k \in Key : T.brain[k] # None => T.brain[k] \in DOMAIN T.heap
    BY <1>0, <1>1, <1>s DEF Refs
  <2>2. \A k \in Key : l.scopes[k] = None => T.scopes[k] = None
    BY <1>s
  <2>3. \A k \in Key : l.scopes[k] = None => T.brain[k] = l.brain[k]
    BY <1>s
  <2>4. \A v \in User : T.brain[v] = l.brain[v]
    BY <1>s, Names
  <2>5. ASSUME NEW t \in Session, l.scopes[t] # None, T.scopes[t] = None
        PROVE  T.brain[t] = n /\ T.scopes[Userid[t]] = n /\ t \in K
    <3>1. t = s
      BY <1>s, <2>5, Names
    <3> QED BY <1>s, <1>u, <1>v, <1>o, <3>1 DEF u
  <2> QED BY <2>1, <2>2, <2>3, <2>4, <2>5 DEF BrainChange
<1>8. Fine(T, n, K, D)
  <2>1. Known(T, n)
    <3>1. \A t \in Session : t \in ToSet(r) <=> T.scopes[t] = n
      BY <1>s, <1>h, <1>4, Names
    <3>2. \A v \in User : T.heap[n].Userid = v <=> T.scopes[v] = n
      BY <1>k, <1>s, <1>5, Names
    <3>3. ~T.heap[n].killed
      BY <1>k, <1>5
    <3> QED BY <3>1, <3>2, <3>3 DEF Known, r
  <2>2. Own(T.heap[n], K)
    <3>1. CASE r = <<>>
      <4>1. ToSet(r) = {}
        BY <3>1 DEF ToSet
      <4>2. c.Id = s
        BY <1>4, <1>h, <4>1
      <4>3. T.heap[n].contact /\ T.heap[n].Id = T.heap[n].Userid
        BY <1>5, <3>1, <4>2
      <4> QED BY <1>4, <1>o, <1>5, <3>1, <4>1, <4>3 DEF Own, r
    <3>2. CASE r # <<>>
      <4>1. r[1] \in ToSet(r)
        BY <1>4, <3>2 DEF ToSet
      <4>2. T.heap[n].Id \in ToSet(r)
        BY <1>4, <1>5, <1>h, <3>2, <4>1
      <4>3. \A t \in ToSet(r) : t \in K /\ Userid[t] = c.Userid
        <5>1. \A t \in ToSet(ids) : t \in K /\ Userid[t] = c.Userid
          BY <1>1, <1>o DEF Own, ids
        <5> QED BY <1>4, <5>1
      <4> QED BY <1>4, <1>o, <1>5, <3>2, <4>2, <4>3 DEF Own, r
    <3> QED BY <3>1, <3>2
  <2>3. ShownAt(T, D, n)
    <3>2. CASE n \in D \cup l.dropped BY <1>s, <3>2 DEF ShownAt
    <3>3. CASE \E q \in l.queue : Looks(l, q) = n
      <4>1. PICK q \in l.queue : Looks(l, q) = n BY <3>3
      <4>2. q \in Key /\ q \in T.queue BY <1>0, <1>s DEF ListType
      <4>3. CASE q = s
        <5>1. Looks(T, q) = n BY <1>s, <4>2, <4>3 DEF Looks
        <5> QED BY <4>2, <5>1 DEF ShownAt
      <4>4. CASE q # s
        <5>1. Looks(T, q) = n BY <1>s, <4>1, <4>2, <4>4 DEF Looks
        <5> QED BY <4>2, <5>1 DEF ShownAt
      <4> QED BY <4>3, <4>4
    <3> QED BY <1>1, <3>2, <3>3 DEF ShownAt
  <2>4. c.element <=> n \in D /\ ~c.killed
    BY <1>0, <1>1 DEF Page, c
  <2>5. Reached(T, n)
    BY <1>s, <1>u, <1>v DEF Reached
  <2> QED BY <1>5, <2>1, <2>2, <2>3, <2>4, <2>5 DEF Fine
<1>9. Tables(T, P \ {s})
  <2>1. \A t \in Session : T.sessions[t] = IF t = s THEN None ELSE l.sessions[t]
    BY DEF Stays
  <2>2. \A t \in Session : t \in Key
    BY Names
  <2> QED BY <1>0, <1>s, <2>1, <2>2 DEF Tables
<1>10. Auth(T)
  <2> SUFFICES ASSUME NEW t \in T.auth, T.scopes[t] # None
               PROVE  T.heap[T.scopes[t]].Userid # None
    BY DEF Auth
  <2>0. t \in Session /\ t \in Key /\ t \in l.auth
    BY <1>s, Names DEF ListType
  <2>1. T.scopes[t] = l.scopes[t] /\ l.scopes[t] # None BY <1>s, <2>0
  <2>2. l.heap[l.scopes[t]].Userid # None /\ l.scopes[t] \in DOMAIN l.heap
    BY <1>0, <2>0, <2>1 DEF Auth, Refs
  <2>3. T.heap[l.scopes[t]].Userid = l.heap[l.scopes[t]].Userid
    <3>1. CASE l.scopes[t] = n BY <1>5, <3>1 DEF c
    <3>2. CASE l.scopes[t] # n BY <2>2, <3>2 DEF Stays
    <3> QED BY <3>1, <3>2
  <2> QED BY <2>1, <2>2, <2>3
<1> QED BY <1>1, <1>6, <1>7, <1>8, <1>9, <1>10, ChangeGood

\* A user with a line becomes a contact, or is none any more.
Flags(l, T, u, n) ==
    /\ l.scopes[u] = n
    /\ DOMAIN T.heap = DOMAIN l.heap
    /\ \A m \in DOMAIN l.heap : m # n => T.heap[m] = l.heap[m]
    /\ T.heap[n].ids = l.heap[n].ids /\ T.heap[n].Id = l.heap[n].Id
    /\ T.heap[n].Userid = l.heap[n].Userid
    /\ T.heap[n].element = l.heap[n].element /\ T.heap[n].killed = l.heap[n].killed
    /\ T.heap[n].ids # <<>> \/ T.heap[n].contact
    /\ T.scopes = l.scopes /\ T.sessions = l.sessions /\ T.brain = l.brain
    /\ T.lefts = l.lefts /\ T.dropped = l.dropped /\ l.queue \subseteq T.queue /\ T.auth = l.auth

LEMMA FlagLine ==
    ASSUME NEW l, NEW T \in ListType, NEW P, NEW K, NEW D, Good(l, P, K, D),
           NEW u \in User, NEW n, n # None, Flags(l, T, u, n)
    PROVE  Good(T, P, K, D)
<1>0. l \in ListType /\ Refs(l, D) /\ Tables(l, P) /\ Auth(l) /\ Brain(l, K) /\ Page(l, D)
  BY DEF Good
<1> DEFINE c == l.heap[n]
<1>s. /\ l.scopes[u] = n /\ DOMAIN T.heap = DOMAIN l.heap
      /\ T.scopes = l.scopes /\ T.sessions = l.sessions /\ T.brain = l.brain
      /\ T.lefts = l.lefts /\ T.dropped = l.dropped /\ l.queue \subseteq T.queue /\ T.auth = l.auth
  BY DEF Flags
<1>u. u \in Key
  BY Names
<1>1. /\ n \in Nat /\ n \in DOMAIN l.heap /\ c \in ScopeType
      /\ Known(l, n) /\ Own(c, K) /\ ShownAt(l, D, n)
  BY <1>u, <1>s, ReachedLine
<1>k. ~c.killed /\ c.Userid = u /\ u # None
  BY <1>1, <1>s, Names DEF Known
<1>5. /\ T.heap[n].ids = c.ids /\ T.heap[n].Id = c.Id /\ T.heap[n].Userid = c.Userid
      /\ T.heap[n].element = c.element /\ T.heap[n].killed = c.killed
      /\ c.ids # <<>> \/ T.heap[n].contact
  BY DEF Flags
<1>6. Change(l, T, n)
  <2>3. DOMAIN T.heap = DOMAIN l.heap \cup {n}
    BY <1>1, <1>s
  <2>4. \A m \in DOMAIN l.heap : m # n => T.heap[m] = l.heap[m]
    BY DEF Flags
  <2> QED BY <1>s, <1>5, <2>3, <2>4 DEF Change
<1>7. BrainChange(l, T, n, K)
  BY <1>0, <1>s DEF BrainChange, Refs
<1>8. Fine(T, n, K, D)
  <2>1. Known(T, n)
    BY <1>1, <1>s, <1>5 DEF Known
  <2>2. Own(T.heap[n], K)
    BY <1>1, <1>k, <1>5 DEF Own
  <2>3. ShownAt(T, D, n)
    BY <1>1, <1>s DEF ShownAt, Looks
  <2>4. c.element <=> n \in D /\ ~c.killed
    BY <1>0, <1>1 DEF Page
  <2>5. Reached(T, n)
    BY <1>s, <1>u DEF Reached
  <2> QED BY <1>5, <2>1, <2>2, <2>3, <2>4, <2>5 DEF Fine
<1>9. Tables(T, P)
  BY <1>0, <1>s DEF Tables
<1>10. Auth(T)
  <2> SUFFICES ASSUME NEW t \in T.auth, T.scopes[t] # None
               PROVE  T.heap[T.scopes[t]].Userid # None
    BY DEF Auth
  <2>0. t \in Session /\ t \in Key /\ t \in l.auth
    BY <1>s, Names DEF ListType
  <2>2. l.heap[l.scopes[t]].Userid # None /\ l.scopes[t] \in DOMAIN l.heap
    BY <1>0, <1>s, <2>0 DEF Auth, Refs
  <2>3. T.heap[l.scopes[t]].Userid = l.heap[l.scopes[t]].Userid
    <3>1. CASE l.scopes[t] = n BY <1>5, <3>1
    <3>2. CASE l.scopes[t] # n BY <2>2, <3>2 DEF Flags
    <3> QED BY <3>1, <3>2
  <2> QED BY <1>s, <2>2, <2>3
<1> QED BY <1>1, <1>6, <1>7, <1>8, <1>9, <1>10, ChangeGood

\* Room.left drops what waits to be rendered.
LEMMA DroppedQueue ==
    ASSUME NEW l, NEW P, NEW K, NEW D, Good(l, P, K, D),
           NEW T, T = [l EXCEPT !.queue = {}, !.dropped = @ \cup Rendered(l)]
    PROVE  T \in ListType /\ Good(T, P, K, D)
<1>0. l \in ListType
  BY DEF Good
<1>1. Rendered(l) \subseteq Nat
  BY <1>0, Names DEF ListType, Rendered
<1>2. /\ T \in ListType /\ T.heap = l.heap /\ T.scopes = l.scopes /\ T.brain = l.brain
      /\ T.sessions = l.sessions /\ T.auth = l.auth /\ T.queue = {} /\ T.lefts = l.lefts
      /\ T.dropped = l.dropped \cup Rendered(l)
  BY <1>0, <1>1 DEF ListType
<1>3. Refs(T, D) /\ Tables(T, P) /\ Brain(T, K) /\ Auth(T)
  BY <1>2 DEF Good, Refs, Tables, Brain, Auth
<1>4. \A n : Reached(T, n) <=> Reached(l, n)
  BY <1>2 DEF Reached
<1>5. Page(T, D)
  BY <1>2, <1>4 DEF Good, Page
<1>6. Lines(T, K, D)
  <2> SUFFICES ASSUME NEW n \in DOMAIN l.heap, Reached(l, n)
               PROVE  Known(T, n) /\ Own(T.heap[n], K) /\ ShownAt(T, D, n)
    BY <1>2, <1>4 DEF Lines
  <2>1. Known(l, n) /\ Own(l.heap[n], K) /\ ShownAt(l, D, n)
    BY DEF Good, Lines
  <2>2. Known(T, n)
    BY <1>2, <2>1 DEF Known
  <2>3. ShownAt(T, D, n)
    <3>1. CASE n \in D \cup l.dropped
      BY <1>2, <3>1 DEF ShownAt
    <3>2. CASE \E q \in l.queue : Looks(l, q) = n
      <4>1. n # None
        BY <1>0, Names DEF ListType
      <4>2. ~l.heap[n].killed
        BY <2>1 DEF Known
      <4>3. n \in Rendered(l)
        BY <3>2, <4>1, <4>2 DEF Rendered, Looks
      <4> QED BY <1>2, <4>3 DEF ShownAt
    <3> QED BY <2>1, <3>1, <3>2 DEF ShownAt
  <2> QED BY <1>2, <2>1, <2>2, <2>3
<1> QED BY <1>2, <1>3, <1>5, <1>6 DEF Good

-----------------------------------------------------------------------------
(* Parts of the handlers. *)

\* A field of the list or of a line is set.
LEMMA SetUserid ==
    ASSUME NEW l \in ListType, NEW n \in DOMAIN l.heap, NEW v \in User \cup {None},
           NEW T, T = [l EXCEPT !.heap[n].Userid = v]
    PROVE  /\ T \in ListType /\ DOMAIN T.heap = DOMAIN l.heap
           /\ \A m \in DOMAIN l.heap : m # n => T.heap[m] = l.heap[m]
           /\ T.heap[n].ids = l.heap[n].ids /\ T.heap[n].Id = l.heap[n].Id
           /\ T.heap[n].Userid = v /\ T.heap[n].contact = l.heap[n].contact
           /\ T.heap[n].element = l.heap[n].element /\ T.heap[n].killed = l.heap[n].killed
           /\ T.scopes = l.scopes /\ T.brain = l.brain /\ T.sessions = l.sessions
           /\ T.auth = l.auth /\ T.queue = l.queue /\ T.lefts = l.lefts /\ T.dropped = l.dropped
<1>1. l.heap \in Seq(ScopeType)
  BY DEF ListType
<1>2. l.heap[n] \in ScopeType
  BY <1>1
<1> DEFINE d == [l.heap[n] EXCEPT !.Userid = v]
<1>3. /\ d \in ScopeType /\ d.ids = l.heap[n].ids /\ d.Id = l.heap[n].Id /\ d.Userid = v
      /\ d.contact = l.heap[n].contact /\ d.element = l.heap[n].element
      /\ d.killed = l.heap[n].killed
  BY <1>2 DEF ScopeType
<1> DEFINE h == [l.heap EXCEPT ![n] = d]
<1>4. T = [l EXCEPT !.heap = h]
  OBVIOUS
<1> HIDE DEF d
<1>5. /\ h \in Seq(ScopeType) /\ DOMAIN h = DOMAIN l.heap /\ h[n] = d
      /\ \A m \in DOMAIN l.heap : m # n => h[m] = l.heap[m]
  BY <1>1, <1>3
<1> HIDE DEF h
<1>6. /\ T \in ListType /\ T.heap = h
      /\ T.scopes = l.scopes /\ T.brain = l.brain /\ T.sessions = l.sessions
      /\ T.auth = l.auth /\ T.queue = l.queue /\ T.lefts = l.lefts /\ T.dropped = l.dropped
  BY <1>4, <1>5 DEF ListType
<1> QED BY <1>3, <1>5, <1>6

LEMMA SetLine ==
    ASSUME NEW l \in ListType, NEW n \in DOMAIN l.heap, NEW d \in ScopeType,
           NEW T, T = [l EXCEPT !.heap[n] = d]
    PROVE  /\ T \in ListType /\ DOMAIN T.heap = DOMAIN l.heap
           /\ \A m \in DOMAIN l.heap : m # n => T.heap[m] = l.heap[m]
           /\ T.heap[n] = d
           /\ T.scopes = l.scopes /\ T.brain = l.brain /\ T.sessions = l.sessions
           /\ T.auth = l.auth /\ T.queue = l.queue /\ T.lefts = l.lefts /\ T.dropped = l.dropped
<1>1. l.heap \in Seq(ScopeType)
  BY DEF ListType
<1> DEFINE h == [l.heap EXCEPT ![n] = d]
<1>4. T = [l EXCEPT !.heap = h]
  OBVIOUS
<1>5. /\ h \in Seq(ScopeType) /\ DOMAIN h = DOMAIN l.heap /\ h[n] = d
      /\ \A m \in DOMAIN l.heap : m # n => h[m] = l.heap[m]
  BY <1>1
<1> HIDE DEF h
<1>6. /\ T \in ListType /\ T.heap = h
      /\ T.scopes = l.scopes /\ T.brain = l.brain /\ T.sessions = l.sessions
      /\ T.auth = l.auth /\ T.queue = l.queue /\ T.lefts = l.lefts /\ T.dropped = l.dropped
  BY <1>4, <1>5 DEF ListType
<1> QED BY <1>5, <1>6

LEMMA FlagScope ==
    ASSUME NEW c \in ScopeType
    PROVE  /\ \E d \in ScopeType :
                /\ d = [c EXCEPT !.contact = TRUE] /\ d.contact
                /\ d.ids = c.ids /\ d.Id = c.Id /\ d.Userid = c.Userid
                /\ d.element = c.element /\ d.killed = c.killed
           /\ \E d \in ScopeType :
                /\ d = [c EXCEPT !.contact = FALSE] /\ ~d.contact
                /\ d.ids = c.ids /\ d.Id = c.Id /\ d.Userid = c.Userid
                /\ d.element = c.element /\ d.killed = c.killed
<1> DEFINE d == [c EXCEPT !.contact = TRUE]
           e == [c EXCEPT !.contact = FALSE]
<1>1. /\ d \in ScopeType /\ d.contact
      /\ d.ids = c.ids /\ d.Id = c.Id /\ d.Userid = c.Userid
      /\ d.element = c.element /\ d.killed = c.killed
  BY DEF ScopeType
<1>2. /\ e \in ScopeType /\ ~e.contact
      /\ e.ids = c.ids /\ e.Id = c.Id /\ e.Userid = c.Userid
      /\ e.element = c.element /\ e.killed = c.killed
  BY DEF ScopeType
<1> QED BY <1>1, <1>2

LEMMA SetAuth ==
    ASSUME NEW l \in ListType, NEW a \in SUBSET Session, NEW T, T = [l EXCEPT !.auth = a]
    PROVE  /\ T \in ListType /\ T.heap = l.heap /\ T.auth = a
           /\ T.scopes = l.scopes /\ T.brain = l.brain /\ T.sessions = l.sessions
           /\ T.queue = l.queue /\ T.lefts = l.lefts /\ T.dropped = l.dropped
BY DEF ListType

LEMMA SetQueue ==
    ASSUME NEW l \in ListType, NEW x \in Key, NEW T, T = [l EXCEPT !.queue = @ \cup {x}]
    PROVE  /\ T \in ListType /\ T.heap = l.heap /\ T.auth = l.auth
           /\ T.scopes = l.scopes /\ T.brain = l.brain /\ T.sessions = l.sessions
           /\ T.queue = l.queue \cup {x} /\ T.lefts = l.lefts /\ T.dropped = l.dropped
BY DEF ListType

\* add appends the session to the line.
LEMMA AddedSession ==
    ASSUME NEW l \in ListType, NEW n \in DOMAIN l.heap, n \in Nat, NEW s \in Session,
           NEW T, T = AddSession(l, n, s)
    PROVE  /\ T \in ListType /\ DOMAIN T.heap = DOMAIN l.heap
           /\ \A m \in DOMAIN l.heap : m # n => T.heap[m] = l.heap[m]
           /\ T.heap[n].ids = Append(l.heap[n].ids, s)
           /\ T.heap[n].Id = IF l.heap[n].ids = <<>> THEN s ELSE l.heap[n].Id
           /\ T.heap[n].Userid = l.heap[n].Userid /\ T.heap[n].contact = l.heap[n].contact
           /\ T.heap[n].element = l.heap[n].element /\ T.heap[n].killed = l.heap[n].killed
           /\ \A t \in Session : T.sessions[t] = IF t = s THEN n ELSE l.sessions[t]
           /\ T.scopes = l.scopes /\ T.brain = l.brain
           /\ T.auth = l.auth /\ T.queue = l.queue /\ T.lefts = l.lefts /\ T.dropped = l.dropped
<1>1. l.heap \in Seq(ScopeType)
  BY DEF ListType
<1>2. l.heap[n] \in ScopeType
  BY <1>1
<1> DEFINE c == l.heap[n]
           r == Append(c.ids, s)
           d == [c EXCEPT !.ids = r, !.Id = IF c.ids = <<>> THEN r[1] ELSE @]
<1>3. c.ids \in Seq(Session) /\ c.Id \in Key \cup {None}
  BY <1>2 DEF ScopeType
<1>4. r \in Seq(Session) /\ (c.ids = <<>> => r[1] = s)
  BY <1>3
<1>5. (IF c.ids = <<>> THEN r[1] ELSE c.Id) \in Key \cup {None}
  BY <1>3, <1>4, Names
<1>6. T = [l EXCEPT !.heap[n] = d, !.sessions[s] = n]
  BY DEF AddSession, Using
<1>7. c \in ScopeType
  BY <1>2
<1>8. /\ d \in ScopeType /\ d.ids = r /\ d.Id = (IF c.ids = <<>> THEN r[1] ELSE c.Id)
      /\ d.Userid = c.Userid /\ d.contact = c.contact /\ d.element = c.element
      /\ d.killed = c.killed
  <2> HIDE DEF c, r
  <2> DEFINE i == IF c.ids = <<>> THEN r[1] ELSE c.Id
  <2>1. d = [c EXCEPT !.ids = r, !.Id = i]
    OBVIOUS
  <2>2. i \in Key \cup {None} /\ r \in Seq(Session)
    BY <1>4, <1>5
  <2> HIDE DEF d, i
  <2>3. /\ d \in ScopeType /\ d.ids = r /\ d.Id = i
        /\ d.Userid = c.Userid /\ d.contact = c.contact /\ d.element = c.element
        /\ d.killed = c.killed
    BY <1>7, <2>1, <2>2 DEF ScopeType
  <2> QED BY <2>3 DEF i
<1> HIDE DEF d
<1> DEFINE h == [l.heap EXCEPT ![n] = d]
           z == [l.sessions EXCEPT ![s] = n]
<1>9. T = [l EXCEPT !.heap = h, !.sessions = z]
  BY <1>6
<1>10. /\ h \in Seq(ScopeType) /\ DOMAIN h = DOMAIN l.heap /\ h[n] = d
       /\ \A m \in DOMAIN l.heap : m # n => h[m] = l.heap[m]
  BY <1>1, <1>8
<1>11. /\ z \in [Session -> Nat \cup {None}]
       /\ \A t \in Session : z[t] = IF t = s THEN n ELSE l.sessions[t]
  BY DEF ListType
<1> HIDE DEF h, z
<1>12. /\ T \in ListType /\ T.heap = h /\ T.sessions = z
       /\ T.scopes = l.scopes /\ T.brain = l.brain
       /\ T.auth = l.auth /\ T.queue = l.queue /\ T.lefts = l.lefts /\ T.dropped = l.dropped
  BY <1>9, <1>10, <1>11 DEF ListType
<1>13. d.ids = Append(c.ids, s) /\ d.Id = IF c.ids = <<>> THEN s ELSE c.Id
  BY <1>4, <1>8
<1> QED BY <1>8, <1>10, <1>11, <1>12, <1>13

\* What is displayed, whatever has changed.
LEMMA QueueGood ==
    ASSUME NEW l, NEW P, NEW K, NEW D, Good(l, P, K, D), NEW x \in Key
    PROVE  /\ Good(SetDisplay(l, x), P, K, D)
           /\ \A r : Good(UpdateDisplay(l, x, r), P, K, D)
<1> DEFINE T == [l EXCEPT !.queue = @ \cup {x}]
<1>1. Good(T, P, K, D)
  <2>1. l \in ListType /\ Auth(l)
    BY DEF Good
  <2>2. /\ T \in ListType /\ T.heap = l.heap /\ T.auth = l.auth
        /\ T.scopes = l.scopes /\ T.brain = l.brain /\ T.sessions = l.sessions
        /\ T.queue = l.queue \cup {x} /\ T.lefts = l.lefts /\ T.dropped = l.dropped
    BY <2>1, SetQueue
  <2>3. Auth(T)
    BY <2>1, <2>2 DEF Auth
  <2> HIDE DEF T
  <2> QED BY <2>2, <2>3, SameGood
<1> QED BY <1>1 DEF SetDisplay, UpdateDisplay

\* The sessions of one line are added to another.
MergeEach(b, t, F) == FoldLeft(LAMBDA T, s : AddMissing(T, t, s), b, F)

LEMMA MergeRuns ==
    ASSUME NEW b, NEW t, NEW F, NEW n \in Nat, DOMAIN F = 1 .. n
    PROVE  Run1("merge", t, F, n, b, MergeEach(b, t, F))
<1> DEFINE h == [s \in SUBSET (1 .. n) |-> Max(s)]
<1>1. PICK f : Folded("merge", t, b, 1 .. n, F, h, f)
  <2>1. IsFiniteSet(1 .. n)
    BY FS_Interval
  <2>2. \A s \in SUBSET (1 .. n) : s # {} => h[s] \in s
    BY MaxInSet
  <2> HIDE DEF h
  <2> QED BY <2>1, <2>2, FoldExists
<1>2. f = [s \in SUBSET (DOMAIN F) |-> IF s = {} THEN b ELSE AddMissing(f[s \ {Max(s)}], t, F[Max(s)])]
  <2>1. \A s \in SUBSET (1 .. n) : Body("merge", t, F[h[s]], f[s \ {h[s]}]) = AddMissing(f[s \ {Max(s)}], t, F[Max(s)])
    BY DEF Body
  <2> HIDE DEF h
  <2> QED BY <1>1, <2>1 DEF Folded
<1>3. PICK g : /\ g = [s \in SUBSET (DOMAIN F) |-> IF s = {} THEN b ELSE AddMissing(g[s \ {Max(s)}], t, F[Max(s)])]
               /\ FoldLeft(LAMBDA T, s : AddMissing(T, t, s), b, F) = g[DOMAIN F]
  BY <1>2 DEF FoldLeft, MapThenFoldSet
<1>4. Folded("merge", t, b, 1 .. n, F, h, g)
  <2>1. \A s \in SUBSET (1 .. n) : Body("merge", t, F[h[s]], g[s \ {h[s]}]) = AddMissing(g[s \ {Max(s)}], t, F[Max(s)])
    BY DEF Body
  <2> HIDE DEF h
  <2> QED BY <1>3, <2>1 DEF Folded
<1>5. Run1("merge", t, F, n, b, g[1 .. n])
  BY <1>4, SeqRuns
<1> QED BY <1>3, <1>5 DEF MergeEach

\* All sessions leave, one by one.
LeaveEach(b, renamed, F) == FoldLeft(LAMBDA T, s : OnLeft(T, s, FALSE, renamed), b, F)

LEMMA LeaveRuns ==
    ASSUME NEW b, NEW renamed, NEW F, NEW n \in Nat, DOMAIN F = 1 .. n
    PROVE  Run1("left", renamed, F, n, b, LeaveEach(b, renamed, F))
<1> DEFINE h == [s \in SUBSET (1 .. n) |-> Max(s)]
<1>1. PICK f : Folded("left", renamed, b, 1 .. n, F, h, f)
  <2>1. IsFiniteSet(1 .. n)
    BY FS_Interval
  <2>2. \A s \in SUBSET (1 .. n) : s # {} => h[s] \in s
    BY MaxInSet
  <2> HIDE DEF h
  <2> QED BY <2>1, <2>2, FoldExists
<1>2. f = [s \in SUBSET (DOMAIN F) |-> IF s = {} THEN b ELSE OnLeft(f[s \ {Max(s)}], F[Max(s)], FALSE, renamed)]
  <2>1. \A s \in SUBSET (1 .. n) : Body("left", renamed, F[h[s]], f[s \ {h[s]}]) = OnLeft(f[s \ {Max(s)}], F[Max(s)], FALSE, renamed)
    BY DEF Body
  <2> HIDE DEF h
  <2> QED BY <1>1, <2>1 DEF Folded
<1>3. PICK g : /\ g = [s \in SUBSET (DOMAIN F) |-> IF s = {} THEN b ELSE OnLeft(g[s \ {Max(s)}], F[Max(s)], FALSE, renamed)]
               /\ FoldLeft(LAMBDA T, s : OnLeft(T, s, FALSE, renamed), b, F) = g[DOMAIN F]
  BY <1>2 DEF FoldLeft, MapThenFoldSet
<1>4. Folded("left", renamed, b, 1 .. n, F, h, g)
  <2>1. \A s \in SUBSET (1 .. n) : Body("left", renamed, F[h[s]], g[s \ {h[s]}]) = OnLeft(g[s \ {Max(s)}], F[Max(s)], FALSE, renamed)
    BY DEF Body
  <2> HIDE DEF h
  <2> QED BY <1>3, <2>1 DEF Folded
<1>5. Run1("left", renamed, F, n, b, g[1 .. n])
  BY <1>4, SeqRuns
<1> QED BY <1>3, <1>5 DEF LeaveEach

\* A merge adds one session: the merged line had no user before.
LEMMA MergeOne ==
    ASSUME NEW l, NEW t, NEW n, NEW s \in Session, l.heap[n].ids = <<s>>,
           l.heap[t].Userid = l.heap[n].Userid
    PROVE  Merge(l, t, n) = AddMissing(l, t, s)
<1> DEFINE F == <<s>>
<1>1. DOMAIN F = 1 .. 1 /\ F[1] = s
  OBVIOUS
<1>2. Merge(l, t, n) = MergeEach(l, t, F)
  BY DEF Merge, MergeEach
<1> HIDE DEF F
<1>3. Run1("merge", t, F, 1, l, MergeEach(l, t, F))
  BY <1>1, MergeRuns
<1>4. PICK r : /\ r[0] = l /\ r[1] = MergeEach(l, t, F)
               /\ \A i \in 1 .. 1 : r[i] = Body("merge", t, F[i], r[i - 1])
  BY <1>3 DEF Run1
<1>5. r[1] = Body("merge", t, F[1], r[1 - 1])
  BY <1>4
<1>6. 1 - 1 = 0
  OBVIOUS
<1>7. r[1] = Body("merge", t, s, l)
  BY <1>1, <1>4, <1>5, <1>6
<1> QED BY <1>2, <1>4, <1>7 DEF Body

-----------------------------------------------------------------------------
(* The handlers. *)

\* A user has the line already: the session's own line is merged into it.
LEMMA MergeGood ==
    ASSUME NEW l, NEW P, NEW K, NEW D, Good(l, P, K, D),
           NEW s \in Session, s \in K, l.scopes[s] # None,
           l.heap[l.scopes[s]].Userid = None, l.scopes[Userid[s]] # None
    PROVE  LET n == l.scopes[s]
               A == [l EXCEPT !.heap[n].Userid = Userid[s]]
           IN  Good([OnUserid(A, n) EXCEPT !.auth = @ \cup {s}], P, K, D)
<1> DEFINE u == Userid[s]
           n == l.scopes[s]
           t == l.scopes[u]
           A == [l EXCEPT !.heap[n].Userid = u]
           T == [OnUserid(A, n) EXCEPT !.auth = @ \cup {s}]
<1>u. u \in User /\ u \in Key /\ s \in Key /\ u # s /\ u # None
  BY Names
<1>n. l.scopes[s] = n /\ n # None /\ l.scopes[u] = t /\ t # None
  OBVIOUS
<1>0. l \in ListType /\ Tables(l, P)
  BY DEF Good
<1>1. /\ n \in Nat /\ n \in DOMAIN l.heap /\ l.heap[n] \in ScopeType
      /\ ~l.heap[n].killed
  BY <1>u, ReachedLine DEF Known
<1>2. /\ t \in Nat /\ t \in DOMAIN l.heap /\ l.heap[t] \in ScopeType
      /\ l.heap[t].Userid = u
      /\ s \in ToSet(l.heap[t].ids) <=> l.scopes[s] = t
  <2>1. l.scopes[u] # None
    BY <1>u
  <2>2. t \in Nat /\ t \in DOMAIN l.heap /\ l.heap[t] \in ScopeType /\ Known(l, t)
    BY <1>u, <2>1, ReachedLine
  <2> QED BY <1>u, <2>2 DEF Known
<1>3. /\ l.heap[n].ids = <<s>> /\ l.heap[n].Id = s
      /\ \A k \in Key : l.scopes[k] = n => k = s
  BY OneSession
<1>a. A = [l EXCEPT !.heap[n].Userid = u] /\ T = [OnUserid(A, n) EXCEPT !.auth = @ \cup {s}]
      /\ Userid[s] = u
  OBVIOUS
<1> HIDE DEF u, n, t, A, T
<1>4. t # n /\ s \notin ToSet(l.heap[t].ids)
  <2>1. t # n
    BY <1>u, <1>n, <1>3
  <2> QED BY <1>2, <1>n, <2>1
<1>5. /\ A \in ListType /\ DOMAIN A.heap = DOMAIN l.heap
      /\ \A m \in DOMAIN l.heap : m # n => A.heap[m] = l.heap[m]
      /\ A.heap[n].ids = l.heap[n].ids /\ A.heap[n].Id = l.heap[n].Id
      /\ A.heap[n].Userid = u
      /\ A.heap[n].element = l.heap[n].element /\ A.heap[n].killed = l.heap[n].killed
      /\ A.scopes = l.scopes /\ A.brain = l.brain /\ A.sessions = l.sessions
      /\ A.auth = l.auth /\ A.queue = l.queue /\ A.lefts = l.lefts /\ A.dropped = l.dropped
  <2>1. u \in User \cup {None}
    BY <1>u
  <2>2. A = [l EXCEPT !.heap[n].Userid = u]
    BY <1>a
  <2>3. l \in ListType /\ n \in DOMAIN l.heap
    BY <1>0, <1>1
  <2> QED BY <2>1, <2>2, <2>3, SetUserid
<1> DEFINE M == AddSession(A, t, s)
<1>6. Merge(A, t, n) = M
  <2>1. A.heap[t] = l.heap[t]
    BY <1>2, <1>4, <1>5
  <2>2. A.heap[n].ids = <<s>> /\ A.heap[t].Userid = A.heap[n].Userid
    BY <1>2, <1>3, <1>5, <2>1
  <2>3. s \notin ToSet(A.heap[t].ids)
    BY <1>4, <2>1
  <2>4. Merge(A, t, n) = AddMissing(A, t, s)
    BY <2>2, MergeOne
  <2> QED BY <2>3, <2>4 DEF AddMissing
<1>7. /\ M \in ListType /\ DOMAIN M.heap = DOMAIN A.heap
      /\ \A m \in DOMAIN A.heap : m # t => M.heap[m] = A.heap[m]
      /\ M.heap[t].ids = Append(A.heap[t].ids, s)
      /\ M.heap[t].Id = IF A.heap[t].ids = <<>> THEN s ELSE A.heap[t].Id
      /\ M.heap[t].Userid = A.heap[t].Userid /\ M.heap[t].contact = A.heap[t].contact
      /\ M.heap[t].element = A.heap[t].element /\ M.heap[t].killed = A.heap[t].killed
      /\ \A y \in Session : M.sessions[y] = IF y = s THEN t ELSE A.sessions[y]
      /\ M.scopes = A.scopes /\ M.brain = A.brain
      /\ M.auth = A.auth /\ M.queue = A.queue /\ M.lefts = A.lefts /\ M.dropped = A.dropped
  <2>1. t \in DOMAIN A.heap
    BY <1>2, <1>5
  <2> QED BY <1>2, <1>5, <2>1, AddedSession
<1> HIDE DEF M
\* The state that OnUserid makes, field by field.
<1> DEFINE c  == M.heap[n]
           d  == IF c.element THEN Destroy(c) ELSE c
           hp == [M.heap EXCEPT ![n] = d]
           sp == [M.scopes EXCEPT ![s] = t]
           lf == IF l.heap[n].element THEN Left(A, s, n) ELSE M.lefts
           au == M.auth \cup {s}
<1>8. T = [M EXCEPT !.scopes = sp, !.lefts = lf, !.heap = hp, !.auth = au]
  <2>1. A.heap[n].Userid = u /\ A.heap[n].Id = s /\ A.scopes[u] = t
    BY <1>3, <1>5, <1>n
  <2>2. OnUserid(A, n) = [M EXCEPT !.scopes[s] = t,
                                !.lefts = IF A.heap[n].element THEN Left(A, s, n) ELSE @,
                                !.heap[n] = IF @.element THEN Destroy(@) ELSE @]
    BY <1>4, <1>6, <1>n, <2>1 DEF OnUserid
  <2>3. A.heap[n].element = l.heap[n].element
    BY <1>5
  <2> QED BY <1>a, <2>2, <2>3
<1>9. /\ c = A.heap[n] /\ c \in ScopeType
  <2>1. c = A.heap[n] /\ n \in DOMAIN M.heap
    BY <1>1, <1>4, <1>5, <1>7
  <2>2. M.heap \in Seq(ScopeType)
    BY <1>7 DEF ListType
  <2> QED BY <2>1, <2>2
<1>10. /\ d \in ScopeType /\ ~d.element
       /\ (l.heap[n].element => d.killed) /\ (~l.heap[n].element => d = c)
  <2>1. c.element = l.heap[n].element
    BY <1>5, <1>9
  <2> DEFINE e == Destroy(c)
  <2>2. e \in ScopeType /\ ~e.element /\ e.killed
    <3> HIDE DEF c
    <3>1. e = [c EXCEPT !.element = FALSE, !.killed = TRUE]
      BY DEF Destroy
    <3> HIDE DEF e
    <3> QED BY <1>9, <3>1 DEF ScopeType
  <2> HIDE DEF e
  <2>3. d = IF c.element THEN e ELSE c
    BY DEF e
  <2> QED BY <1>9, <2>1, <2>2, <2>3
<1>11. /\ hp \in Seq(ScopeType) /\ DOMAIN hp = DOMAIN l.heap /\ hp[n] = d
       /\ \A m \in DOMAIN l.heap : m # n => hp[m] = M.heap[m]
  <2>1. M.heap \in Seq(ScopeType) /\ DOMAIN M.heap = DOMAIN l.heap
    BY <1>5, <1>7 DEF ListType
  <2> HIDE DEF d
  <2> QED BY <1>1, <1>10, <2>1
<1>12. /\ sp \in [Key -> Nat \cup {None}]
       /\ \A k \in Key : sp[k] = IF k = s THEN t ELSE l.scopes[k]
  <2>1. M.scopes \in [Key -> Nat \cup {None}] /\ M.scopes = l.scopes
    BY <1>5, <1>7 DEF ListType
  <2> QED BY <1>2, <1>u, <2>1
<1>13. /\ lf \in SUBSET (Key \X Nat)
       /\ \A e \in lf : e \in l.lefts \/ (e[2] = n /\ d.killed)
  <2>1. l.lefts \in SUBSET (Key \X Nat) /\ A.lefts = l.lefts /\ M.lefts = l.lefts
    BY <1>0, <1>5, <1>7 DEF ListType
  <2>2. \A e \in Left(A, s, n) : e \in l.lefts \/ e = <<s, n>>
    BY <2>1 DEF Left
  <2>3. <<s, n>> \in Key \X Nat /\ <<s, n>>[2] = n
    BY <1>1, <1>u
  <2>4. \A e \in lf : e \in l.lefts \/ (e = <<s, n>> /\ l.heap[n].element)
    BY <2>1, <2>2
  <2> HIDE DEF lf
  <2>5. lf \in SUBSET (Key \X Nat)
    BY <2>1, <2>3, <2>4
  <2> HIDE DEF d
  <2> QED BY <1>10, <2>3, <2>4, <2>5
<1>14. au \in SUBSET Session
  BY <1>7 DEF ListType
<1>15. au = l.auth \cup {s}
  BY <1>5, <1>7
<1> HIDE DEF hp, sp, lf, au
<1>16. /\ T \in ListType /\ T.heap = hp /\ T.scopes = sp /\ T.lefts = lf /\ T.auth = au
       /\ T.brain = M.brain /\ T.sessions = M.sessions /\ T.queue = M.queue
       /\ T.dropped = M.dropped
  BY <1>7, <1>8, <1>11, <1>12, <1>13, <1>14 DEF ListType
<1>17. T.brain = l.brain /\ T.queue = l.queue /\ T.dropped = l.dropped
  BY <1>5, <1>7, <1>16
\* First the session's line is emptied, then the session comes to the user's.
<1> DEFINE h1 == [l.heap EXCEPT ![n] = d]
           s1 == [l.scopes EXCEPT ![s] = None]
           z1 == [l.sessions EXCEPT ![s] = None]
           b1 == [l.brain EXCEPT ![s] = None]
           T1 == [l EXCEPT !.heap = h1, !.scopes = s1, !.sessions = z1, !.brain = b1, !.lefts = lf]
<1> HIDE DEF d
<1>18. /\ h1 \in Seq(ScopeType) /\ DOMAIN h1 = DOMAIN l.heap /\ h1[n] = d
       /\ \A m \in DOMAIN l.heap : m # n => h1[m] = l.heap[m]
  <2>1. l.heap \in Seq(ScopeType)
    BY <1>0 DEF ListType
  <2> QED BY <1>1, <1>10, <2>1
<1>19. /\ s1 \in [Key -> Nat \cup {None}] /\ z1 \in [Session -> Nat \cup {None}]
       /\ b1 \in [Key -> Nat \cup {None}]
       /\ \A k \in Key : s1[k] = IF k = s THEN None ELSE l.scopes[k]
       /\ \A y \in Session : z1[y] = IF y = s THEN None ELSE l.sessions[y]
       /\ \A k \in Key : b1[k] = IF k = s THEN None ELSE l.brain[k]
  BY <1>0, <1>u DEF ListType
<1>20. /\ T1 \in ListType /\ T1.heap = h1 /\ T1.scopes = s1 /\ T1.sessions = z1
       /\ T1.brain = b1 /\ T1.lefts = lf /\ T1.queue = l.queue /\ T1.dropped = l.dropped
       /\ T1.auth = l.auth
  <2> HIDE DEF h1, s1, z1, b1
  <2> DEFINE TT == [l EXCEPT !.heap = h1, !.scopes = s1, !.sessions = z1, !.brain = b1, !.lefts = lf]
  <2>1. TT = T1
    OBVIOUS
  <2>2. /\ TT \in ListType /\ TT.heap = h1 /\ TT.scopes = s1 /\ TT.sessions = z1
        /\ TT.brain = b1 /\ TT.lefts = lf /\ TT.queue = l.queue /\ TT.dropped = l.dropped
        /\ TT.auth = l.auth
    BY <1>0, <1>13, <1>18, <1>19 DEF ListType
  <2> HIDE DEF TT
  <2> QED BY <2>1, <2>2
<1> HIDE DEF T1, h1, s1, z1, b1
<1>21. Empties(l, T1, s, n)
  <2>1. \A k \in Key : T1.scopes[k] = IF l.scopes[k] = n THEN None ELSE l.scopes[k]
    BY <1>3, <1>19, <1>20, <1>n
  <2>2. \A y \in Session : l.scopes[y] = n => y = s
    BY <1>3, Names
  <2>3. \A k \in Key : k # s => T1.brain[k] = l.brain[k]
    BY <1>19, <1>20
  <2>4. T1.brain[s] = None
    BY <1>19, <1>20, <1>u
  <2>5. T1.heap[n].killed \/ ~l.heap[n].element
    BY <1>10, <1>18, <1>20
  <2>6. \A y \in Session : T1.sessions[y] = IF y = s THEN None ELSE l.sessions[y]
    BY <1>19, <1>20
  <2>7. ~T1.heap[n].element /\ DOMAIN T1.heap = DOMAIN l.heap
    BY <1>10, <1>18, <1>20
  <2>8. \A m \in DOMAIN l.heap : m # n => T1.heap[m] = l.heap[m]
    BY <1>18, <1>20
  <2>9. \A e \in T1.lefts : e \in l.lefts \/ (e[2] = n /\ T1.heap[n].killed)
    BY <1>13, <1>18, <1>20
  <2>10. l.scopes[s] = n /\ l.heap[n].Userid = None
    BY <1>n DEF n
  <2> QED BY <1>20, <2>1, <2>2, <2>3, <2>4, <2>5, <2>6, <2>7, <2>8, <2>9, <2>10 DEF Empties
<1>22. Good(T1, P \ {s}, K, D)
  BY <1>20, <1>21, <1>u, <1>n, EmptyLine
<1>23. Shares(T1, T, s, t)
  <2>1. T1.scopes[s] = None /\ T1.scopes[Userid[s]] = t
    BY <1>19, <1>20, <1>u, <1>n, <1>a
  <2>2. DOMAIN T.heap = DOMAIN T1.heap
    BY <1>11, <1>16, <1>18, <1>20
  <2>3. ASSUME NEW m \in DOMAIN T1.heap, m # t PROVE T.heap[m] = T1.heap[m]
    <3>0. m \in DOMAIN l.heap
      BY <1>18, <1>20
    <3>1. CASE m = n BY <1>11, <1>16, <1>18, <1>20, <3>1
    <3>2. CASE m # n
      <4>1. T.heap[m] = M.heap[m] /\ T1.heap[m] = l.heap[m]
        BY <1>11, <1>16, <1>18, <1>20, <3>0, <3>2
      <4>2. M.heap[m] = A.heap[m] /\ A.heap[m] = l.heap[m]
        BY <1>5, <1>7, <2>3, <3>0, <3>2
      <4> QED BY <4>1, <4>2
    <3> QED BY <3>1, <3>2
  <2>4. T.heap[t] = M.heap[t] /\ T1.heap[t] = l.heap[t] /\ A.heap[t] = l.heap[t]
    BY <1>2, <1>4, <1>5, <1>11, <1>16, <1>18, <1>20
  <2>5. /\ T.heap[t].ids = Append(T1.heap[t].ids, s)
        /\ T.heap[t].Id = IF T1.heap[t].ids = <<>> THEN s ELSE T1.heap[t].Id
        /\ T.heap[t].Userid = T1.heap[t].Userid /\ T.heap[t].contact = T1.heap[t].contact
        /\ T.heap[t].element = T1.heap[t].element /\ T.heap[t].killed = T1.heap[t].killed
    BY <1>7, <2>4
  <2>6. \A k \in Key : T.scopes[k] = IF k = s THEN t ELSE T1.scopes[k]
    BY <1>12, <1>16, <1>19, <1>20
  <2>7. \A y \in Session : T.sessions[y] = IF y = s THEN t ELSE T1.sessions[y]
    BY <1>5, <1>7, <1>16, <1>19, <1>20
  <2>8. \A k \in Key : k # s => T.brain[k] = T1.brain[k]
    BY <1>17, <1>19, <1>20
  <2>9. T.brain[s] # None => T.brain[s] \in DOMAIN T1.heap
    BY <1>17, <1>18, <1>20, <1>u DEF Good, Refs
  <2>10. T.lefts = T1.lefts /\ T.dropped = T1.dropped /\ T.queue = T1.queue
    BY <1>16, <1>17, <1>20
  <2>11. \A y \in T.auth : y \in T1.auth \/ y = s
    BY <1>15, <1>16, <1>20
  <2> QED BY <2>1, <2>2, <2>3, <2>5, <2>6, <2>7, <2>8, <2>9, <2>10, <2>11 DEF Shares
<1>24. Good(T, (P \ {s}) \cup {s}, K, D)
  BY <1>16, <1>22, <1>23, <1>n, SharedLine
<1>25. s \in P
  BY <1>0, <1>n DEF Tables
<1>26. (P \ {s}) \cup {s} = P
  BY <1>25
<1> QED BY <1>24, <1>26 DEF T, A, n, u

\* What is set to what it is.
LEMMA SameUserid ==
    ASSUME NEW l \in ListType, NEW n \in DOMAIN l.heap
    PROVE  [l EXCEPT !.heap[n].Userid = l.heap[n].Userid] = l
<1> DEFINE c == l.heap[n]
           d == [c EXCEPT !.Userid = c.Userid]
           h == [l.heap EXCEPT ![n] = d]
<1>1. l.heap \in Seq(ScopeType)
  BY DEF ListType
<1>2. c \in ScopeType
  BY <1>1
<1>3. d = c
  <2> HIDE DEF c
  <2> QED BY <1>2 DEF ScopeType
<1>4. h = l.heap
  <2> HIDE DEF d
  <2> QED BY <1>1, <1>3
<1>5. [l EXCEPT !.heap = h] = l
  <2> HIDE DEF h
  <2> QED BY <1>4 DEF ListType
<1> QED BY <1>5

\* The session is there, and may tell its user now.
LEMMA UpdateKnown ==
    ASSUME NEW l, NEW P, NEW K, NEW D, Good(l, P, K, D), NEW s \in Session,
           l.scopes[s] # None, NEW uid, uid = None \/ (uid = Userid[s] /\ s \in K)
    PROVE  Good(Update(l, l.scopes[s], s, uid), P, K, D)
<1> DEFINE n == l.scopes[s]
           u == Userid[s]
           A == [l EXCEPT !.heap[n].Userid = IF @ = None THEN u ELSE @]
<1>u. u \in User /\ u \in Key /\ s \in Key /\ u # s /\ u # None
  BY Names
<1>0. l \in ListType /\ Auth(l)
  BY DEF Good
<1>1. /\ n \in Nat /\ n \in DOMAIN l.heap /\ l.heap[n] \in ScopeType /\ n # None
      /\ Known(l, n) /\ Own(l.heap[n], K)
  BY <1>u, ReachedLine
<1>2. s \in ToSet(l.heap[n].ids) /\ (l.heap[n].Userid = u <=> l.scopes[u] = n)
  BY <1>1, <1>u DEF Known
<1>3. Added(l, n, s, uid) = l
  BY <1>2 DEF Added
<1>4. CASE uid = None
  BY <1>3, <1>4 DEF Update
<1>5. CASE uid # None
  <2>1. uid = u /\ s \in K
    BY <1>5
  <2>2. Update(l, n, s, uid) = IF s \in l.auth THEN A
                               ELSE [OnUserid(A, n) EXCEPT !.auth = IF s = u THEN @ ELSE @ \cup {s}]
    BY <1>3, <1>5, <2>1 DEF Update
  <2>3. CASE l.heap[n].Userid # None
    <3>1. l.heap[n].Userid = u /\ l.scopes[u] = n
      BY <1>1, <1>2, <2>3 DEF Own
    <3>2. A = l
      <4>1. A = [l EXCEPT !.heap[n].Userid = l.heap[n].Userid]
        BY <2>3
      <4> HIDE DEF A, n
      <4> QED BY <1>0, <1>1, <4>1, SameUserid
    <3>3. OnUserid(l, n) = l
      BY <3>1, <1>1 DEF OnUserid
    <3> DEFINE T == [l EXCEPT !.auth = @ \cup {s}]
    <3>4. Update(l, n, s, uid) = IF s \in l.auth THEN l ELSE T
      <4> HIDE DEF n, u, A
      <4> QED BY <2>2, <3>2, <3>3, <1>u
    <3>5. Good(T, P, K, D)
      <4>0. l.auth \cup {s} \in SUBSET Session
        BY <1>0 DEF ListType
      <4>1. /\ T \in ListType /\ T.heap = l.heap /\ T.auth = l.auth \cup {s}
            /\ T.scopes = l.scopes /\ T.brain = l.brain /\ T.sessions = l.sessions
            /\ T.queue = l.queue /\ T.lefts = l.lefts /\ T.dropped = l.dropped
        <5>1. T = [l EXCEPT !.auth = l.auth \cup {s}]
          OBVIOUS
        <5> HIDE DEF T
        <5> QED BY <1>0, <4>0, <5>1, SetAuth
      <4>2. Auth(T)
        BY <1>0, <2>3, <4>1 DEF Auth
      <4> HIDE DEF T
      <4> QED BY <4>1, <4>2, SameGood
    <3> QED BY <3>4, <3>5
  <2>4. CASE l.heap[n].Userid = None
    <3>1. s \notin l.auth
      BY <1>0, <1>1, <2>4 DEF Auth
    <3> DEFINE B == [l EXCEPT !.heap[n].Userid = u]
    <3>2. A = B
      BY <2>4
    <3> DEFINE T == [OnUserid(B, n) EXCEPT !.auth = @ \cup {s}]
    <3>3. Update(l, n, s, uid) = T
      <4> HIDE DEF n, u, A, B
      <4> QED BY <2>2, <3>1, <3>2, <1>u
    <3>4. CASE l.scopes[u] # None
      <4>1. Good(T, P, K, D)
        BY <2>1, <2>4, <3>4, MergeGood
      <4> QED BY <3>3, <4>1
    <3>5. CASE l.scopes[u] = None
      <4>1. /\ B \in ListType /\ DOMAIN B.heap = DOMAIN l.heap
            /\ \A m \in DOMAIN l.heap : m # n => B.heap[m] = l.heap[m]
            /\ B.heap[n].ids = l.heap[n].ids /\ B.heap[n].Id = l.heap[n].Id
            /\ B.heap[n].Userid = u /\ B.heap[n].contact = l.heap[n].contact
            /\ B.heap[n].element = l.heap[n].element /\ B.heap[n].killed = l.heap[n].killed
            /\ B.scopes = l.scopes /\ B.brain = l.brain /\ B.sessions = l.sessions
            /\ B.auth = l.auth /\ B.queue = l.queue /\ B.lefts = l.lefts /\ B.dropped = l.dropped
        <5>1. u \in User \cup {None}
          BY <1>u
        <5>2. B = [l EXCEPT !.heap[n].Userid = u]
          OBVIOUS
        <5> HIDE DEF B, n, u
        <5> QED BY <1>0, <1>1, <5>1, <5>2, SetUserid
      <4> DEFINE sp == [B.scopes EXCEPT ![u] = n]
                 au == B.auth \cup {s}
      <4>2. T = [B EXCEPT !.scopes = sp, !.auth = au]
        <5>1. OnUserid(B, n) = [B EXCEPT !.scopes[u] = n]
          <6> HIDE DEF B, n, u
          <6> QED BY <4>1, <3>5 DEF OnUserid
        <5> HIDE DEF B, n, u
        <5> QED BY <5>1
      <4>n. l.scopes[s] = n /\ u = Userid[s]
        OBVIOUS
      <4> HIDE DEF B, n, u, T
      <4>3. /\ sp \in [Key -> Nat \cup {None}] /\ au \in SUBSET Session
            /\ \A k \in Key : sp[k] = IF k = u THEN n ELSE l.scopes[k]
        <5>1. l.scopes \in [Key -> Nat \cup {None}] /\ l.auth \in SUBSET Session
          BY <1>0 DEF ListType
        <5> QED BY <1>u, <1>1, <4>1, <5>1
      <4>4. au = l.auth \cup {s}
        BY <4>1
      <4> HIDE DEF sp, au
      <4>5. /\ T \in ListType /\ T.heap = B.heap /\ T.scopes = sp /\ T.auth = au
            /\ T.brain = B.brain /\ T.sessions = B.sessions /\ T.queue = B.queue
            /\ T.lefts = B.lefts /\ T.dropped = B.dropped
        BY <4>1, <4>2, <4>3 DEF ListType
      <4>6. SignsIn(l, T, s, n)
        BY <2>4, <3>5, <4>1, <4>3, <4>4, <4>5, <4>n DEF SignsIn
      <4>7. Good(T, P, K, D)
        BY <1>1, <2>1, <4>5, <4>6, SignedLine
      <4> QED BY <3>3, <4>7 DEF n
    <3> QED BY <3>4, <3>5
  <2> QED BY <2>3, <2>4
<1> QED BY <1>4, <1>5

\* The scope that get makes.
LEMMA NewGet ==
    ASSUME NEW l \in ListType, NEW id \in Key, l.scopes[id] = None,
           NEW uid \in User \cup {None}, uid = None \/ l.scopes[uid] = None,
           id \in Session \/ id = uid,
           NEW T, T = Get(l, id, uid), NEW n, n = Len(l.heap) + 1, NEW c, c = NewScope(id, uid)
    PROVE  /\ T \in ListType /\ n \in Nat /\ DOMAIN T.heap = DOMAIN l.heap \cup {n}
           /\ n \notin DOMAIN l.heap
           /\ T.heap[n] = c /\ c \in ScopeType
           /\ \A m \in DOMAIN l.heap : T.heap[m] = l.heap[m]
           /\ T.scopes = [k \in Key |-> IF k \in {id, uid} THEN n ELSE l.scopes[k]]
           /\ T.sessions = [s \in Session |-> IF s = id THEN n ELSE l.sessions[s]]
           /\ T.auth = l.auth \ {id} /\ T.brain = l.brain /\ T.queue = l.queue
           /\ T.lefts = l.lefts /\ T.dropped = l.dropped
<1> DEFINE h == Append(l.heap, c)
           sp == [k \in Key |-> IF k \in {id, uid} THEN n ELSE l.scopes[k]]
           z == [s \in Session |-> IF s = id THEN n ELSE l.sessions[s]]
           au == l.auth \ {id}
<1>1. l.heap \in Seq(ScopeType) /\ n \in Nat
  BY DEF ListType
<1>2. c \in ScopeType
  <2>1. CASE id = uid
    <3>1. c = [ids |-> <<>>, Id |-> id, Userid |-> None,
               contact |-> FALSE, element |-> FALSE, killed |-> FALSE]
      BY <2>1 DEF NewScope
    <3> QED BY <3>1 DEF ScopeType
  <2>2. CASE id # uid
    <3>1. c = [ids |-> <<id>>, Id |-> id, Userid |-> uid,
               contact |-> FALSE, element |-> FALSE, killed |-> FALSE]
      BY <2>2 DEF NewScope
    <3>2. <<id>> \in Seq(Session)
      BY <2>2
    <3> QED BY <3>1, <3>2 DEF ScopeType
  <2> QED BY <2>1, <2>2
<1>3. T = [l EXCEPT !.heap = h, !.scopes = sp, !.sessions = z, !.auth = au]
  <2>1. ~(uid # None /\ l.scopes[uid] # None)
    OBVIOUS
  <2> QED BY <2>1 DEF Get
<1>4. /\ h \in Seq(ScopeType) /\ DOMAIN h = DOMAIN l.heap \cup {n} /\ h[n] = c
      /\ \A m \in DOMAIN l.heap : h[m] = l.heap[m]
  BY <1>1, <1>2
<1>4a. n \notin DOMAIN l.heap
  BY <1>1
<1> HIDE DEF h
<1>5. sp \in [Key -> Nat \cup {None}] /\ z \in [Session -> Nat \cup {None}] /\ au \in SUBSET Session
  BY <1>1 DEF ListType
<1> HIDE DEF sp, z, au
<1>6. /\ T \in ListType /\ T.heap = h /\ T.scopes = sp /\ T.sessions = z /\ T.auth = au
      /\ T.brain = l.brain /\ T.queue = l.queue /\ T.lefts = l.lefts /\ T.dropped = l.dropped
  BY <1>3, <1>4, <1>5 DEF ListType
<1> QED BY <1>1, <1>2, <1>4, <1>4a, <1>6 DEF sp, z, au

\* A session that is new, and its user has no line.
LEMMA JoinedNew ==
    ASSUME NEW l, NEW P, NEW K, NEW D, Good(l, P, K, D), NEW s \in Session,
           l.scopes[s] = None, NEW uid,
           \/ uid = None /\ s \notin K
           \/ uid = Userid[s] /\ s \in K /\ l.scopes[uid] = None
    PROVE  Good(OnJoined(l, s, uid), P \cup {s}, K, D)
<1> DEFINE u == Userid[s]
           n == Len(l.heap) + 1
           G == Get(l, s, uid)
           c == NewScope(s, uid)
<1>u. u \in User /\ u \in Key /\ s \in Key /\ u # s /\ u # None /\ s # None
  BY Names
<1>0. l \in ListType
  BY DEF Good
<1>1. /\ G \in ListType /\ n \in Nat /\ DOMAIN G.heap = DOMAIN l.heap \cup {n}
      /\ n \notin DOMAIN l.heap
      /\ G.heap[n] = c /\ c \in ScopeType
      /\ \A m \in DOMAIN l.heap : G.heap[m] = l.heap[m]
      /\ G.scopes = [k \in Key |-> IF k \in {s, uid} THEN n ELSE l.scopes[k]]
      /\ G.sessions = [t \in Session |-> IF t = s THEN n ELSE l.sessions[t]]
      /\ G.auth = l.auth \ {s} /\ G.brain = l.brain /\ G.queue = l.queue
      /\ G.lefts = l.lefts /\ G.dropped = l.dropped
  <2>1. uid \in User \cup {None} /\ (uid = None \/ l.scopes[uid] = None)
    BY <1>u
  <2>2. G = Get(l, s, uid) /\ n = Len(l.heap) + 1 /\ c = NewScope(s, uid)
    OBVIOUS
  <2> HIDE DEF G, n, c
  <2> QED BY <1>0, <1>u, <2>1, <2>2, NewGet
<1>2. /\ c.ids = <<s>> /\ c.Id = s /\ c.Userid = uid
      /\ ~c.contact /\ ~c.element /\ ~c.killed /\ uid # s
  BY <1>u DEF NewScope
<1>3. s \in ToSet(c.ids) /\ ToSet(c.ids) = {s} /\ Len(c.ids) = 1 /\ c.ids # <<>>
  <2>1. \E q : q = <<s>> /\ c.ids = q
    BY <1>2
  <2>2. DOMAIN <<s>> = {1} /\ <<s>>[1] = s
    OBVIOUS
  <2>3. ToSet(<<s>>) = {s}
    BY <2>2 DEF ToSet
  <2> QED BY <2>1, <2>3
<1>4. G.scopes[s] = n /\ (uid # None => G.scopes[uid] = n)
  BY <1>1, <1>u
<1> DEFINE N == Update(G, n, s, uid)
           a == IF uid = None THEN G.auth ELSE G.auth \cup {s}
<1>j. OnJoined(l, s, uid) = IF s = N.heap[n].Id THEN SetDisplay(N, s) ELSE N
  BY <1>4 DEF OnJoined
<1> HIDE DEF G, n, c
<1>5. Added(G, n, s, uid) = G
  BY <1>1, <1>3 DEF Added
<1>6. /\ N \in ListType /\ N.heap = G.heap /\ N.auth = a
      /\ N.scopes = G.scopes /\ N.brain = G.brain /\ N.sessions = G.sessions
      /\ N.queue = G.queue /\ N.lefts = G.lefts /\ N.dropped = G.dropped
  <2>1. CASE uid = None
    <3>1. N = G
      BY <1>5, <2>1 DEF Update
    <3> HIDE DEF N
    <3> QED BY <1>1, <2>1, <3>1
  <2>2. CASE uid # None
    <3>1. [G EXCEPT !.heap[n].Userid = IF @ = None THEN uid ELSE @] = G
      <4>1. G.heap[n].Userid = uid
        BY <1>1, <1>2
      <4>2. [G EXCEPT !.heap[n].Userid = G.heap[n].Userid] = G
        BY <1>1, SameUserid
      <4> QED BY <2>2, <4>1, <4>2
    <3>2. OnUserid(G, n) = G
      <4>1. G.heap[n].Userid = uid
        BY <1>1, <1>2
      <4>2. G.scopes[uid] = n
        BY <1>4, <2>2
      <4>3. n # None
        BY <1>1, Names
      <4> QED BY <4>1, <4>2, <4>3 DEF OnUserid
    <3>3. s \notin G.auth
      BY <1>1
    <3>4. N = [OnUserid([G EXCEPT !.heap[n].Userid = IF @ = None THEN uid ELSE @], n)
                  EXCEPT !.auth = IF s = uid THEN @ ELSE @ \cup {s}]
      BY <1>5, <2>2, <3>3 DEF Update
    <3>5. N = [G EXCEPT !.auth = G.auth \cup {s}]
      BY <1>2, <3>1, <3>2, <3>4
    <3>6. G.auth \cup {s} \in SUBSET Session
      BY <1>1 DEF ListType
    <3> HIDE DEF N
    <3>7. /\ N \in ListType /\ N.heap = G.heap /\ N.auth = G.auth \cup {s}
          /\ N.scopes = G.scopes /\ N.brain = G.brain /\ N.sessions = G.sessions
          /\ N.queue = G.queue /\ N.lefts = G.lefts /\ N.dropped = G.dropped
      <4>1. G \in ListType
        BY <1>1
      <4> QED BY <3>5, <3>6, <4>1, SetAuth
    <3> QED BY <2>2, <3>7
  <2> QED BY <2>1, <2>2
<1> HIDE DEF N
<1> DEFINE T == [N EXCEPT !.queue = @ \cup {s}]
<1>7. OnJoined(l, s, uid) = T
  <2>1. N.heap[n].Id = s /\ N.scopes[s] = n /\ ~N.heap[n].element
    BY <1>1, <1>2, <1>4, <1>6
  <2> QED BY <1>j, <2>1 DEF SetDisplay
<1>8. /\ T \in ListType /\ T.heap = N.heap /\ T.auth = N.auth
      /\ T.scopes = N.scopes /\ T.brain = N.brain /\ T.sessions = N.sessions
      /\ T.queue = N.queue \cup {s} /\ T.lefts = N.lefts /\ T.dropped = N.dropped
  BY <1>6, <1>u, SetQueue
<1> HIDE DEF T
<1>9. /\ T.heap = G.heap /\ T.scopes = G.scopes /\ T.brain = l.brain /\ T.sessions = G.sessions
      /\ T.queue = l.queue \cup {s} /\ T.lefts = l.lefts /\ T.dropped = l.dropped /\ T.auth = a
  BY <1>1, <1>6, <1>8
<1>10. Own(c, K)
  <2>1. \A i, j \in 1..Len(c.ids) : c.ids[i] = c.ids[j] => i = j
    BY <1>3
  <2>2. c.Userid # None => \A t \in ToSet(c.ids) : t \in K /\ Userid[t] = c.Userid
    BY <1>2, <1>3
  <2> QED BY <1>2, <1>3, <2>1, <2>2 DEF Own
<1> DEFINE S == {k \in Key : k \in ToSet(c.ids) \/ k = c.Userid}
<1>11. S = {k \in Key : k \in {s, uid}}
  BY <1>2, <1>3
<1>12. \A k \in S : l.scopes[k] = None /\ (l.brain[k] = None \/ l.heap[l.brain[k]].killed)
  <2> SUFFICES ASSUME NEW k \in S
               PROVE  l.scopes[k] = None /\ (l.brain[k] = None \/ l.heap[l.brain[k]].killed)
    OBVIOUS
  <2>1. k = s \/ (k = u /\ uid = u)
    BY <1>11, Names
  <2>2. CASE k = s
    <3>1. \/ l.brain[s] = None \/ l.heap[l.brain[s]].killed
          \/ l.scopes[u] = l.brain[s] /\ s \in K
      BY AwayLine
    <3> QED BY <2>2, <3>1
  <2>3. CASE k = u /\ uid = u
    <3>1. l.scopes[u] = None
      BY <1>u, <2>3
    <3>2. l.brain[u] = None \/ l.heap[l.brain[u]].killed
      BY <1>u DEF Good, Brain
    <3> QED BY <2>3, <3>1, <3>2
  <2> QED BY <2>1, <2>2, <2>3
<1>13. T.scopes = [k \in Key |-> IF k \in S THEN n ELSE l.scopes[k]]
  BY <1>1, <1>9, <1>11
<1>14. T.sessions = [t \in Session |-> IF t \in ToSet(c.ids) THEN n ELSE l.sessions[t]]
  BY <1>1, <1>3, <1>9
<1>15. s \in S
  BY <1>11, <1>u
<1>16. /\ \A t \in T.auth : t \in l.auth \/ (c.Userid # None /\ t \in ToSet(c.ids))
       /\ c.Userid = None => \A t \in ToSet(c.ids) : t \notin T.auth
  BY <1>1, <1>2, <1>3, <1>9
<1>17. n = Len(l.heap) + 1
  BY DEF n
<1>18. DOMAIN T.heap = DOMAIN l.heap \cup {n} /\ T.heap[n] = c
       /\ \A m \in DOMAIN l.heap : T.heap[m] = l.heap[m]
  BY <1>1, <1>9
<1> HIDE DEF S, a
<1>19. S = {k \in Key : k \in ToSet(c.ids) \/ k = c.Userid}
  BY DEF S
<1>20. Fresh(l, T, n, c, S, s, K)
  BY <1>2, <1>9, <1>10, <1>12, <1>13, <1>14, <1>15, <1>16, <1>17, <1>18, <1>19 DEF Fresh
<1>21. Good(T, P \cup ToSet(c.ids), K, D)
  BY <1>1, <1>8, <1>20, <1>u, FreshLine
<1> QED BY <1>3, <1>7, <1>21

\* A session that is new comes to the line of its user.
LEMMA JoinedShared ==
    ASSUME NEW l, NEW P, NEW K, NEW D, Good(l, P, K, D), NEW s \in Session, s \in K,
           l.scopes[s] = None, l.scopes[Userid[s]] # None
    PROVE  Good(OnJoined(l, s, Userid[s]), P \cup {s}, K, D)
<1> DEFINE u == Userid[s]
           n == l.scopes[u]
           G == Get(l, s, u)
           sp == [l.scopes EXCEPT ![s] = n]
<1>u. u \in User /\ u \in Key /\ s \in Key /\ u # s /\ u # None
  BY Names
<1>0. l \in ListType /\ Refs(l, D)
  BY DEF Good
<1>1. /\ n \in Nat /\ n \in DOMAIN l.heap /\ l.heap[n] \in ScopeType /\ n # None
      /\ Known(l, n)
  BY <1>u, ReachedLine
<1>2. s \notin ToSet(l.heap[n].ids) /\ l.heap[n].Userid = u
  BY <1>1, <1>u DEF Known
<1>3. G = [l EXCEPT !.scopes = sp]
  BY <1>u, <1>1 DEF Get
<1>4. /\ sp \in [Key -> Nat \cup {None}]
      /\ \A k \in Key : sp[k] = IF k = s THEN n ELSE l.scopes[k]
  <2>1. l.scopes \in [Key -> Nat \cup {None}]
    BY <1>0 DEF ListType
  <2> HIDE DEF n
  <2> QED BY <1>1, <1>u, <2>1
<1>n. l.scopes[u] = n /\ Userid[s] = u
  OBVIOUS
<1> HIDE DEF sp
<1> HIDE DEF G, n
<1>5. /\ G \in ListType /\ G.heap = l.heap /\ G.scopes = sp /\ G.sessions = l.sessions
      /\ G.auth = l.auth /\ G.brain = l.brain /\ G.queue = l.queue
      /\ G.lefts = l.lefts /\ G.dropped = l.dropped
  BY <1>0, <1>3, <1>4 DEF ListType
<1> DEFINE M == AddSession(G, n, s)
           B == [M EXCEPT !.auth = @ \ {s}]
           N == Update(G, n, s, u)
<1>6. /\ M \in ListType /\ DOMAIN M.heap = DOMAIN G.heap
      /\ \A m \in DOMAIN G.heap : m # n => M.heap[m] = G.heap[m]
      /\ M.heap[n].ids = Append(G.heap[n].ids, s)
      /\ M.heap[n].Id = IF G.heap[n].ids = <<>> THEN s ELSE G.heap[n].Id
      /\ M.heap[n].Userid = G.heap[n].Userid /\ M.heap[n].contact = G.heap[n].contact
      /\ M.heap[n].element = G.heap[n].element /\ M.heap[n].killed = G.heap[n].killed
      /\ \A t \in Session : M.sessions[t] = IF t = s THEN n ELSE G.sessions[t]
      /\ M.scopes = G.scopes /\ M.brain = G.brain
      /\ M.auth = G.auth /\ M.queue = G.queue /\ M.lefts = G.lefts /\ M.dropped = G.dropped
  <2>1. n \in DOMAIN G.heap /\ G \in ListType
    BY <1>1, <1>5
  <2> QED BY <1>1, <2>1, AddedSession
<1>7. Added(G, n, s, u) = B
  <2>1. s \notin ToSet(G.heap[n].ids)
    BY <1>2, <1>5
  <2> QED BY <1>u, <2>1 DEF Added
<1> HIDE DEF M
<1>8. /\ B \in ListType /\ B.heap = M.heap /\ B.auth = M.auth \ {s}
      /\ B.scopes = M.scopes /\ B.brain = M.brain /\ B.sessions = M.sessions
      /\ B.queue = M.queue /\ B.lefts = M.lefts /\ B.dropped = M.dropped
  <2> DEFINE a == M.auth \ {s}
  <2>1. B = [M EXCEPT !.auth = a] /\ M \in ListType
    BY <1>6
  <2>2. a \in SUBSET Session
    BY <1>6 DEF ListType
  <2> HIDE DEF B, a
  <2>3. /\ B \in ListType /\ B.heap = M.heap /\ B.auth = a
        /\ B.scopes = M.scopes /\ B.brain = M.brain /\ B.sessions = M.sessions
        /\ B.queue = M.queue /\ B.lefts = M.lefts /\ B.dropped = M.dropped
    BY <2>1, <2>2, SetAuth
  <2> QED BY <2>3 DEF a
<1> HIDE DEF B
<1>9. B.heap[n].Userid = u /\ n \in DOMAIN B.heap /\ B.scopes[u] = n
  BY <1>1, <1>2, <1>4, <1>5, <1>6, <1>8, <1>u, <1>n
<1>10. N = [B EXCEPT !.auth = B.auth \cup {s}]
  <2>1. [B EXCEPT !.heap[n].Userid = IF @ = None THEN u ELSE @] = B
    <3>1. [B EXCEPT !.heap[n].Userid = B.heap[n].Userid] = B
      BY <1>8, <1>9, SameUserid
    <3> QED BY <1>9, <1>u, <3>1
  <2>2. OnUserid(B, n) = B
    BY <1>9, <1>1 DEF OnUserid
  <2>3. s \notin B.auth
    BY <1>8
  <2>4. N = [OnUserid([B EXCEPT !.heap[n].Userid = IF @ = None THEN u ELSE @], n)
                EXCEPT !.auth = IF s = u THEN @ ELSE @ \cup {s}]
    BY <1>7, <1>u, <2>3 DEF Update
  <2> QED BY <1>u, <2>1, <2>2, <2>4
<1>j. OnJoined(l, s, u) = IF s = N.heap[n].Id THEN SetDisplay(N, s) ELSE N
  <2>1. G.scopes[s] = n
    BY <1>4, <1>5, <1>u
  <2> QED BY <2>1 DEF OnJoined, G
<1> HIDE DEF N
<1>11. /\ N \in ListType /\ N.heap = B.heap /\ N.auth = B.auth \cup {s}
       /\ N.scopes = B.scopes /\ N.brain = B.brain /\ N.sessions = B.sessions
       /\ N.queue = B.queue /\ N.lefts = B.lefts /\ N.dropped = B.dropped
  <2>1. B.auth \cup {s} \in SUBSET Session /\ B \in ListType
    BY <1>8 DEF ListType
  <2> QED BY <1>10, <2>1, SetAuth
<1>12. Shares(l, N, s, n)
  <2>1. \A m \in DOMAIN l.heap : m # n => N.heap[m] = l.heap[m]
    BY <1>5, <1>6, <1>8, <1>11
  <2>2. /\ DOMAIN N.heap = DOMAIN l.heap /\ N.heap[n].ids = Append(l.heap[n].ids, s)
        /\ N.heap[n].Id = IF l.heap[n].ids = <<>> THEN s ELSE l.heap[n].Id
        /\ N.heap[n].Userid = l.heap[n].Userid /\ N.heap[n].contact = l.heap[n].contact
        /\ N.heap[n].element = l.heap[n].element /\ N.heap[n].killed = l.heap[n].killed
    BY <1>5, <1>6, <1>8, <1>11
  <2>3. /\ \A k \in Key : N.scopes[k] = IF k = s THEN n ELSE l.scopes[k]
        /\ \A t \in Session : N.sessions[t] = IF t = s THEN n ELSE l.sessions[t]
    BY <1>4, <1>5, <1>6, <1>8, <1>11
  <2>4. N.brain = l.brain /\ N.lefts = l.lefts /\ N.dropped = l.dropped /\ N.queue = l.queue
    BY <1>5, <1>6, <1>8, <1>11
  <2>5. N.brain[s] # None => N.brain[s] \in DOMAIN l.heap
    BY <1>0, <1>u, <2>4 DEF Refs
  <2>6. \A t \in N.auth : t \in l.auth \/ t = s
    BY <1>5, <1>6, <1>8, <1>11
  <2> QED BY <1>n, <2>1, <2>2, <2>3, <2>4, <2>5, <2>6 DEF Shares
<1>13. Good(N, P \cup {s}, K, D)
  BY <1>1, <1>11, <1>12, SharedLine
<1>14. Good(SetDisplay(N, s), P \cup {s}, K, D)
  BY <1>13, <1>u, QueueGood
<1> QED BY <1>j, <1>13, <1>14

\* onJoined, of a session.
LEMMA JoinedGood ==
    ASSUME NEW l, NEW P, NEW K, NEW D, Good(l, P, K, D), NEW s \in Session, NEW uid,
           uid = IF s \in K THEN Userid[s] ELSE None
    PROVE  Good(OnJoined(l, s, uid), P \cup {s}, K, D)
<1>u. Userid[s] \in User /\ Userid[s] # None /\ s \in Key
  BY Names
<1>1. CASE l.scopes[s] # None
  <2>1. Get(l, s, uid) = l
    BY <1>1 DEF Get
  <2> DEFINE N == Update(l, l.scopes[s], s, uid)
  <2>2. Good(N, P, K, D)
    BY <1>1, UpdateKnown
  <2>3. OnJoined(l, s, uid) \in {N, SetDisplay(N, s)}
    BY <2>1 DEF OnJoined
  <2> HIDE DEF N
  <2>4. Good(OnJoined(l, s, uid), P, K, D)
    BY <1>u, <2>2, <2>3, QueueGood
  <2>5. P \cup {s} = P
    BY <1>1 DEF Good, Tables
  <2> QED BY <2>4, <2>5
<1>2. CASE l.scopes[s] = None /\ (s \notin K \/ l.scopes[Userid[s]] = None)
  BY <1>2, JoinedNew
<1>3. CASE l.scopes[s] = None /\ s \in K /\ l.scopes[Userid[s]] # None
  BY <1>3, JoinedShared
<1> QED BY <1>1, <1>2, <1>3

\* onStatus, of a session that is there.
LEMMA StatusGood ==
    ASSUME NEW l, NEW P, NEW K, NEW D, Good(l, P, K, D), NEW s \in Session, s \in P, NEW uid,
           uid = IF s \in K THEN Userid[s] ELSE None, NEW renamed
    PROVE  Good(OnStatus(l, s, uid, renamed), P, K, D)
<1>1. l.scopes[s] # None /\ s \in Key
  BY Names DEF Good, Tables
<1>2. Get(l, s, uid) = l
  BY <1>1 DEF Get
<1> DEFINE N == Update(l, l.scopes[s], s, uid)
<1>3. Good(N, P, K, D)
  BY <1>1, UpdateKnown
<1>4. OnStatus(l, s, uid, renamed) \in {N, UpdateDisplay(N, s, renamed)}
  BY <1>2 DEF OnStatus
<1> HIDE DEF N
<1> QED BY <1>1, <1>3, <1>4, QueueGood

\* onContactAdded, of a user without line.
LEMMA ContactNew ==
    ASSUME NEW l, NEW P, NEW K, NEW D, Good(l, P, K, D), NEW u \in User, l.scopes[u] = None,
           NEW renamed
    PROVE  Good(OnContactAdded(l, u, renamed), P, K, D)
<1> DEFINE n == Len(l.heap) + 1
           G == Get(l, u, u)
           d == NewScope(u, u)
<1>u. u \in Key /\ u # None /\ u \notin Session
  BY Names
<1>0. l \in ListType
  BY DEF Good
<1>1. /\ G \in ListType /\ n \in Nat /\ DOMAIN G.heap = DOMAIN l.heap \cup {n}
      /\ n \notin DOMAIN l.heap
      /\ G.heap[n] = d /\ d \in ScopeType
      /\ \A m \in DOMAIN l.heap : G.heap[m] = l.heap[m]
      /\ G.scopes = [k \in Key |-> IF k \in {u, u} THEN n ELSE l.scopes[k]]
      /\ G.sessions = [t \in Session |-> IF t = u THEN n ELSE l.sessions[t]]
      /\ G.auth = l.auth \ {u} /\ G.brain = l.brain /\ G.queue = l.queue
      /\ G.lefts = l.lefts /\ G.dropped = l.dropped
  <2>2. G = Get(l, u, u) /\ n = Len(l.heap) + 1 /\ d = NewScope(u, u)
    OBVIOUS
  <2> HIDE DEF G, n, d
  <2> QED BY <1>0, <1>u, <2>2, NewGet
<1>2. /\ d.ids = <<>> /\ d.Id = u /\ d.Userid = None
      /\ ~d.contact /\ ~d.element /\ ~d.killed
  BY DEF NewScope
<1>4. G.scopes[u] = n
  BY <1>1, <1>u
<1> DEFINE A == [G EXCEPT !.heap[n].Userid = u]
           N == Update(G, n, u, u)
           Q == SetDisplay(N, u)
           T == [Q EXCEPT !.heap[n].contact = TRUE]
<1>j. OnJoined(l, u, u) = IF u = N.heap[n].Id THEN Q ELSE N
  BY <1>4 DEF OnJoined
<1>n. n = Len(l.heap) + 1
  OBVIOUS
<1> HIDE DEF G, n, d
<1>5. /\ A \in ListType /\ DOMAIN A.heap = DOMAIN G.heap
      /\ \A m \in DOMAIN G.heap : m # n => A.heap[m] = G.heap[m]
      /\ A.heap[n].ids = G.heap[n].ids /\ A.heap[n].Id = G.heap[n].Id
      /\ A.heap[n].Userid = u /\ A.heap[n].contact = G.heap[n].contact
      /\ A.heap[n].element = G.heap[n].element /\ A.heap[n].killed = G.heap[n].killed
      /\ A.scopes = G.scopes /\ A.brain = G.brain /\ A.sessions = G.sessions
      /\ A.auth = G.auth /\ A.queue = G.queue /\ A.lefts = G.lefts /\ A.dropped = G.dropped
  <2>1. u \in User \cup {None} /\ n \in DOMAIN G.heap /\ G \in ListType
    BY <1>1
  <2>2. A = [G EXCEPT !.heap[n].Userid = u]
    OBVIOUS
  <2> HIDE DEF A
  <2> QED BY <2>1, <2>2, SetUserid
<1>6. N = [A EXCEPT !.auth = A.auth]
  <2>1. Added(G, n, u, u) = G
    BY DEF Added
  <2>2. u \notin G.auth
    BY <1>1, <1>u
  <2>3. [G EXCEPT !.heap[n].Userid = IF @ = None THEN u ELSE @] = A
    BY <1>1, <1>2
  <2>4. OnUserid(A, n) = A
    <3>1. A.heap[n].Userid = u /\ A.scopes[u] = n /\ n # None
      BY <1>1, <1>4, <1>5, Names
    <3> HIDE DEF A
    <3> QED BY <3>1 DEF OnUserid
  <2>5. N = [OnUserid([G EXCEPT !.heap[n].Userid = IF @ = None THEN u ELSE @], n)
                EXCEPT !.auth = IF u = u THEN @ ELSE @ \cup {u}]
    BY <1>u, <2>1, <2>2 DEF Update
  <2> HIDE DEF A, N
  <2> QED BY <2>3, <2>4, <2>5
<1> HIDE DEF A, N
<1>7. /\ N \in ListType /\ N.heap = A.heap /\ N.auth = A.auth
      /\ N.scopes = A.scopes /\ N.brain = A.brain /\ N.sessions = A.sessions
      /\ N.queue = A.queue /\ N.lefts = A.lefts /\ N.dropped = A.dropped
  <2>1. A.auth \in SUBSET Session /\ A \in ListType
    BY <1>5 DEF ListType
  <2> QED BY <1>6, <2>1, SetAuth
<1>8. N.heap[n].Id = u /\ ~N.heap[n].element /\ N.scopes[u] = n
  BY <1>1, <1>2, <1>4, <1>5, <1>7
<1>9. Q = [N EXCEPT !.queue = @ \cup {u}]
  BY <1>8 DEF SetDisplay
<1> HIDE DEF Q
<1>10. /\ Q \in ListType /\ Q.heap = N.heap /\ Q.auth = N.auth
       /\ Q.scopes = N.scopes /\ Q.brain = N.brain /\ Q.sessions = N.sessions
       /\ Q.queue = N.queue \cup {u} /\ Q.lefts = N.lefts /\ Q.dropped = N.dropped
  BY <1>7, <1>9, <1>u, SetQueue
<1>11. OnContactAdded(l, u, renamed) = T
  <2>1. OnJoined(l, u, u) = Q
    BY <1>j, <1>8
  <2>2. Q.scopes[u] = n
    BY <1>8, <1>10
  <2> QED BY <2>1, <2>2 DEF OnContactAdded
<1>12. /\ T \in ListType /\ DOMAIN T.heap = DOMAIN Q.heap
       /\ \A m \in DOMAIN Q.heap : m # n => T.heap[m] = Q.heap[m]
       /\ T.heap[n].ids = Q.heap[n].ids /\ T.heap[n].Id = Q.heap[n].Id
       /\ T.heap[n].Userid = Q.heap[n].Userid /\ T.heap[n].contact
       /\ T.heap[n].element = Q.heap[n].element /\ T.heap[n].killed = Q.heap[n].killed
       /\ T.heap[n] \in ScopeType
       /\ T.scopes = Q.scopes /\ T.brain = Q.brain /\ T.sessions = Q.sessions
       /\ T.auth = Q.auth /\ T.queue = Q.queue /\ T.lefts = Q.lefts /\ T.dropped = Q.dropped
  <2>1. n \in DOMAIN Q.heap /\ Q.heap[n] \in ScopeType
    <3>1. n \in DOMAIN Q.heap
      BY <1>1, <1>5, <1>7, <1>10
    <3>2. Q.heap \in Seq(ScopeType)
      BY <1>10 DEF ListType
    <3> QED BY <3>1, <3>2
  <2> DEFINE e == Q.heap[n]
  <2>2. PICK f \in ScopeType :
           /\ f = [e EXCEPT !.contact = TRUE] /\ f.contact
           /\ f.ids = e.ids /\ f.Id = e.Id /\ f.Userid = e.Userid
           /\ f.element = e.element /\ f.killed = e.killed
    <3>1. e \in ScopeType
      BY <2>1
    <3> HIDE DEF e
    <3> QED BY <3>1, FlagScope
  <2>3. T = [Q EXCEPT !.heap[n] = f]
    BY <2>2
  <2> HIDE DEF T
  <2>4. Q \in ListType
    BY <1>10
  <2>5. /\ T \in ListType /\ DOMAIN T.heap = DOMAIN Q.heap
        /\ \A m \in DOMAIN Q.heap : m # n => T.heap[m] = Q.heap[m]
        /\ T.heap[n] = f
        /\ T.scopes = Q.scopes /\ T.brain = Q.brain /\ T.sessions = Q.sessions
        /\ T.auth = Q.auth /\ T.queue = Q.queue /\ T.lefts = Q.lefts /\ T.dropped = Q.dropped
    BY <2>1, <2>3, <2>4, SetLine
  <2> QED BY <2>2, <2>5
<1> HIDE DEF T
<1> DEFINE c == T.heap[n]
           S == {k \in Key : k \in ToSet(c.ids) \/ k = c.Userid}
<1>13. /\ c.ids = <<>> /\ c.Id = u /\ c.Userid = u /\ c.contact /\ ~c.element /\ ~c.killed
       /\ ToSet(c.ids) = {}
  <2>1. ToSet(<<>>) = {}
    BY DEF ToSet
  <2> QED BY <1>1, <1>2, <1>5, <1>7, <1>10, <1>12, <2>1
<1>14. Own(c, K)
  BY <1>13, <1>u DEF Own
<1>15. S = {u}
  BY <1>13, <1>u
<1>16. l.brain[u] = None \/ l.heap[l.brain[u]].killed
  BY DEF Good, Brain
<1>17. /\ DOMAIN T.heap = DOMAIN l.heap \cup {n}
       /\ \A m \in DOMAIN l.heap : T.heap[m] = l.heap[m]
  BY <1>1, <1>5, <1>7, <1>10, <1>12
<1>18. /\ T.scopes = G.scopes /\ T.sessions = G.sessions /\ T.auth = G.auth
       /\ T.brain = l.brain /\ T.lefts = l.lefts
       /\ T.dropped = l.dropped /\ T.queue = l.queue \cup {u}
  BY <1>1, <1>5, <1>7, <1>10, <1>12
<1> HIDE DEF c
<1>19. Fresh(l, T, n, c, S, u, K)
  <2>1. T.scopes = [k \in Key |-> IF k \in S THEN n ELSE l.scopes[k]]
    BY <1>1, <1>15, <1>18
  <2>2. T.sessions = [t \in Session |-> IF t \in ToSet(c.ids) THEN n ELSE l.sessions[t]]
    BY <1>1, <1>13, <1>18, <1>u
  <2>3. \A k \in S : l.scopes[k] = None /\ (l.brain[k] = None \/ l.heap[l.brain[k]].killed)
    BY <1>15, <1>16
  <2>4. \A t \in T.auth : t \in l.auth
    BY <1>1, <1>18
  <2>5. T.heap[n] = c
    BY DEF c
  <2>6. u \in S
    BY <1>15
  <2>7. S = {k \in Key : k \in ToSet(c.ids) \/ k = c.Userid}
    OBVIOUS
  <2> HIDE DEF S
  <2> QED BY <1>13, <1>14, <1>17, <1>18, <1>n, <2>1, <2>2, <2>3, <2>4, <2>5, <2>6, <2>7 DEF Fresh
<1>20. c \in ScopeType
  BY <1>12 DEF c
<1> HIDE DEF S
<1>21. Good(T, P \cup ToSet(c.ids), K, D)
  BY <1>12, <1>19, <1>20, <1>u, FreshLine
<1>22. P \cup ToSet(c.ids) = P
  BY <1>13
<1> QED BY <1>11, <1>21, <1>22

\* onContactAdded.
LEMMA ContactAddedGood ==
    ASSUME NEW l, NEW P, NEW K, NEW D, Good(l, P, K, D), NEW u \in User, NEW renamed
    PROVE  Good(OnContactAdded(l, u, renamed), P, K, D)
<1> DEFINE n == l.scopes[u]
           T == [l EXCEPT !.heap[n].contact = TRUE]
<1>u. u \in Key /\ u # None
  BY Names
<1>1. CASE n = None
  BY <1>1, ContactNew
<1>2. CASE n # None
  <2>1. OnContactAdded(l, u, renamed)
          = IF Has(T.heap[n]) THEN UpdateDisplay(T, T.heap[n].Id, renamed) ELSE T
    BY <1>2 DEF OnContactAdded
  <2>2. n \in DOMAIN l.heap /\ l \in ListType
    BY <1>2, <1>u, ReachedLine DEF Good
  <2>3. /\ T \in ListType /\ DOMAIN T.heap = DOMAIN l.heap
        /\ \A m \in DOMAIN l.heap : m # n => T.heap[m] = l.heap[m]
        /\ T.heap[n].ids = l.heap[n].ids /\ T.heap[n].Id = l.heap[n].Id
        /\ T.heap[n].Userid = l.heap[n].Userid /\ T.heap[n].contact
        /\ T.heap[n].element = l.heap[n].element /\ T.heap[n].killed = l.heap[n].killed
        /\ T.heap[n] \in ScopeType
        /\ T.scopes = l.scopes /\ T.brain = l.brain /\ T.sessions = l.sessions
        /\ T.auth = l.auth /\ T.queue = l.queue /\ T.lefts = l.lefts /\ T.dropped = l.dropped
    <3> DEFINE e == l.heap[n]
    <3>1. PICK f \in ScopeType :
             /\ f = [e EXCEPT !.contact = TRUE] /\ f.contact
             /\ f.ids = e.ids /\ f.Id = e.Id /\ f.Userid = e.Userid
             /\ f.element = e.element /\ f.killed = e.killed
      <4>1. e \in ScopeType
        BY <1>2, <1>u, ReachedLine
      <4> HIDE DEF e
      <4> QED BY <4>1, FlagScope
    <3>2. T = [l EXCEPT !.heap[n] = f]
      BY <3>1
    <3> HIDE DEF T, n
    <3>3. /\ T \in ListType /\ DOMAIN T.heap = DOMAIN l.heap
          /\ \A m \in DOMAIN l.heap : m # n => T.heap[m] = l.heap[m]
          /\ T.heap[n] = f
          /\ T.scopes = l.scopes /\ T.brain = l.brain /\ T.sessions = l.sessions
          /\ T.auth = l.auth /\ T.queue = l.queue /\ T.lefts = l.lefts /\ T.dropped = l.dropped
      BY <2>2, <3>2, SetLine
    <3> QED BY <3>1, <3>3
  <2>n. l.scopes[u] = n
    OBVIOUS
  <2> HIDE DEF T, n
  <2>4. Flags(l, T, u, n)
    BY <2>3, <2>n DEF Flags
  <2>5. Good(T, P, K, D)
    BY <1>2, <2>3, <2>4, FlagLine
  <2>6. Has(T.heap[n]) => T.heap[n].Id \in Key
    <3>1. T.heap[n].ids \in Seq(Session)
      BY <2>3 DEF ScopeType
    <3> DEFINE q == T.heap[n].ids
    <3>2. ToSet(q) \subseteq Session
      <4>1. q \in Seq(Session)
        BY <3>1
      <4> HIDE DEF q
      <4> QED BY <4>1 DEF ToSet
    <3> QED BY <3>2, Names DEF Has
  <2>7. Has(T.heap[n]) => Good(UpdateDisplay(T, T.heap[n].Id, renamed), P, K, D)
    BY <2>5, <2>6, QueueGood
  <2> QED BY <2>1, <2>5, <2>7
<1> QED BY <1>1, <1>2

\* The session is taken out of its line.
LEMMA RemovedScope ==
    ASSUME NEW c \in ScopeType, NEW x, NEW r \in Seq(Session), r = RemoveFirst(c.ids, x)
    PROVE  LET d == Removed(c, x) IN
           /\ d \in ScopeType /\ d.ids = r /\ d.Userid = c.Userid
           /\ d.Id = IF x # c.Id THEN c.Id ELSE IF r # <<>> THEN r[1] ELSE c.Userid
           /\ d.contact = c.contact /\ d.element = c.element /\ d.killed = c.killed
<1> DEFINE d == Removed(c, x)
           i == IF x # c.Id THEN c.Id ELSE IF r # <<>> THEN r[1] ELSE c.Userid
<1>1. d = [c EXCEPT !.ids = r, !.Id = i]
  BY DEF Removed
<1>2. i \in Key \cup {None}
  <2>1. r # <<>> => r[1] \in Session
    OBVIOUS
  <2>2. c.Id \in Key \cup {None} /\ c.Userid \in User \cup {None}
    BY DEF ScopeType
  <2> QED BY <2>1, <2>2, Names
<1> HIDE DEF d, i
<1>3. /\ d \in ScopeType /\ d.ids = r /\ d.Userid = c.Userid /\ d.Id = i
      /\ d.contact = c.contact /\ d.element = c.element /\ d.killed = c.killed
  BY <1>1, <1>2 DEF ScopeType
<1> QED BY <1>3 DEF d, i

LEMMA DestroyedScope ==
    ASSUME NEW c \in ScopeType
    PROVE  Destroy(c) \in ScopeType /\ Destroy(c).killed /\ ~Destroy(c).element
<1> DEFINE d == Destroy(c)
<1>1. d = [c EXCEPT !.element = FALSE, !.killed = TRUE]
  BY DEF Destroy
<1> HIDE DEF d
<1>2. d \in ScopeType /\ d.killed /\ ~d.element
  BY <1>1 DEF ScopeType
<1> QED BY <1>2 DEF d

\* del of the id: its scope is only in the brain then.
Gone(l, x, n, sc) ==
    [l EXCEPT !.brain[x] = n, !.scopes[x] = None,
              !.sessions = [s \in Session |-> IF s = x THEN None ELSE @[s]],
              !.heap[n] = sc]

LEMMA GoneFields ==
    ASSUME NEW l \in ListType, NEW x \in Key, NEW n \in DOMAIN l.heap, n \in Nat,
           NEW sc \in ScopeType, NEW T, T = Gone(l, x, n, sc)
    PROVE  /\ T \in ListType /\ DOMAIN T.heap = DOMAIN l.heap /\ T.heap[n] = sc
           /\ \A m \in DOMAIN l.heap : m # n => T.heap[m] = l.heap[m]
           /\ \A k \in Key : T.brain[k] = IF k = x THEN n ELSE l.brain[k]
           /\ \A k \in Key : T.scopes[k] = IF k = x THEN None ELSE l.scopes[k]
           /\ \A t \in Session : T.sessions[t] = IF t = x THEN None ELSE l.sessions[t]
           /\ T.auth = l.auth /\ T.queue = l.queue /\ T.lefts = l.lefts /\ T.dropped = l.dropped
<1> DEFINE b == [l.brain EXCEPT ![x] = n]
           p == [l.scopes EXCEPT ![x] = None]
           z == [s \in Session |-> IF s = x THEN None ELSE l.sessions[s]]
           h == [l.heap EXCEPT ![n] = sc]
<1>1. T = [l EXCEPT !.brain = b, !.scopes = p, !.sessions = z, !.heap = h]
  BY DEF Gone
<1>2. /\ b \in [Key -> Nat \cup {None}] /\ p \in [Key -> Nat \cup {None}]
      /\ \A k \in Key : b[k] = IF k = x THEN n ELSE l.brain[k]
      /\ \A k \in Key : p[k] = IF k = x THEN None ELSE l.scopes[k]
  BY DEF ListType
<1>3. /\ z \in [Session -> Nat \cup {None}]
      /\ \A t \in Session : z[t] = IF t = x THEN None ELSE l.sessions[t]
  BY DEF ListType
<1>4. /\ h \in Seq(ScopeType) /\ DOMAIN h = DOMAIN l.heap /\ h[n] = sc
      /\ \A m \in DOMAIN l.heap : m # n => h[m] = l.heap[m]
  <2>1. l.heap \in Seq(ScopeType)
    BY DEF ListType
  <2> QED BY <2>1
<1> HIDE DEF b, p, z, h
<1>5. /\ T \in ListType /\ T.brain = b /\ T.scopes = p /\ T.sessions = z /\ T.heap = h
      /\ T.auth = l.auth /\ T.queue = l.queue /\ T.lefts = l.lefts /\ T.dropped = l.dropped
  BY <1>1, <1>2, <1>3, <1>4 DEF ListType
<1> QED BY <1>2, <1>3, <1>4, <1>5

\* onLeft, when the line goes.
Going(l, x, n, sc) ==
    [Gone(l, x, n, sc) EXCEPT !.heap[n] = Destroy(@),
                              !.lefts   = IF sc.element THEN Left(l, x, n) ELSE @,
                              !.scopes  = DelUser(@, sc.Userid)]

LEMMA LeftGoes ==
    ASSUME NEW l \in ListType, NEW x \in Key, NEW n, n \in DOMAIN l.heap, n \in Nat,
           NEW sc \in ScopeType, NEW T, T = Going(l, x, n, sc)
    PROVE  /\ T \in ListType /\ DOMAIN T.heap = DOMAIN l.heap
           /\ T.heap[n].killed /\ ~T.heap[n].element
           /\ \A m \in DOMAIN l.heap : m # n => T.heap[m] = l.heap[m]
           /\ \A k \in Key : T.brain[k] = IF k = x THEN n ELSE l.brain[k]
           /\ \A k \in Key : T.scopes[k] = IF k = x \/ k = sc.Userid THEN None ELSE l.scopes[k]
           /\ \A t \in Session : T.sessions[t] = IF t = x THEN None ELSE l.sessions[t]
           /\ \A e \in T.lefts : e \in l.lefts \/ e[2] = n
           /\ T.auth = l.auth /\ T.queue = l.queue /\ T.dropped = l.dropped
<1> DEFINE G == Gone(l, x, n, sc)
<1>1. T = [G EXCEPT !.heap[n] = Destroy(@),
                    !.lefts   = IF sc.element THEN Left(l, x, n) ELSE @,
                    !.scopes  = DelUser(@, sc.Userid)]
  BY DEF Going
<1>2. /\ G \in ListType /\ DOMAIN G.heap = DOMAIN l.heap /\ G.heap[n] = sc
      /\ \A m \in DOMAIN l.heap : m # n => G.heap[m] = l.heap[m]
      /\ \A k \in Key : G.brain[k] = IF k = x THEN n ELSE l.brain[k]
      /\ \A k \in Key : G.scopes[k] = IF k = x THEN None ELSE l.scopes[k]
      /\ \A t \in Session : G.sessions[t] = IF t = x THEN None ELSE l.sessions[t]
      /\ G.auth = l.auth /\ G.queue = l.queue /\ G.lefts = l.lefts /\ G.dropped = l.dropped
  BY GoneFields
<1> HIDE DEF G
<1> DEFINE d == Destroy(sc)
           h == [G.heap EXCEPT ![n] = d]
           f == IF sc.element THEN Left(l, x, n) ELSE G.lefts
           p == [k \in Key |-> IF k = sc.Userid THEN None ELSE G.scopes[k]]
<1>3. T = [G EXCEPT !.heap = h, !.lefts = f, !.scopes = p]
  BY <1>1, <1>2 DEF DelUser
<1>4. d \in ScopeType /\ d.killed /\ ~d.element
  BY DestroyedScope
<1> HIDE DEF d
<1>5. /\ h \in Seq(ScopeType) /\ DOMAIN h = DOMAIN l.heap /\ h[n] = d
      /\ \A m \in DOMAIN l.heap : m # n => h[m] = G.heap[m]
  <2>1. G.heap \in Seq(ScopeType)
    BY <1>2 DEF ListType
  <2> QED BY <1>2, <1>4, <2>1
<1>6. p \in [Key -> Nat \cup {None}] /\ \A k \in Key : p[k] = IF k = sc.Userid THEN None ELSE G.scopes[k]
  <2>1. G.scopes \in [Key -> Nat \cup {None}]
    BY <1>2 DEF ListType
  <2> QED BY <2>1
<1>7. f \in SUBSET (Key \X Nat) /\ \A e \in f : e \in l.lefts \/ e[2] = n
  <2>1. l.lefts \in SUBSET (Key \X Nat) /\ G.lefts = l.lefts
    BY <1>2 DEF ListType
  <2>2. \A e \in Left(l, x, n) : e \in l.lefts \/ e = <<x, n>>
    BY DEF Left
  <2>3. <<x, n>> \in Key \X Nat /\ <<x, n>>[2] = n
    OBVIOUS
  <2>4. \A e \in f : e \in l.lefts \/ e = <<x, n>>
    BY <2>1, <2>2
  <2> HIDE DEF f
  <2> QED BY <2>1, <2>3, <2>4
<1> HIDE DEF h, f, p
<1>8. /\ T \in ListType /\ T.heap = h /\ T.lefts = f /\ T.scopes = p
      /\ T.brain = G.brain /\ T.sessions = G.sessions
      /\ T.auth = G.auth /\ T.queue = G.queue /\ T.dropped = G.dropped
  <2>1. G \in ListType /\ h \in Seq(ScopeType)
    BY <1>2, <1>5
  <2>2. f \in SUBSET (Key \X Nat) /\ p \in [Key -> Nat \cup {None}]
    BY <1>6, <1>7
  <2> QED BY <1>3, <2>1, <2>2 DEF ListType
<1>9. \A k \in Key : T.scopes[k] = IF k = x \/ k = sc.Userid THEN None ELSE l.scopes[k]
  BY <1>2, <1>6, <1>8
<1>10. /\ \A m \in DOMAIN l.heap : m # n => T.heap[m] = l.heap[m]
       /\ DOMAIN T.heap = DOMAIN l.heap /\ T.heap[n].killed /\ ~T.heap[n].element
  BY <1>2, <1>4, <1>5, <1>8
<1>11. /\ \A k \in Key : T.brain[k] = IF k = x THEN n ELSE l.brain[k]
       /\ \A t \in Session : T.sessions[t] = IF t = x THEN None ELSE l.sessions[t]
       /\ T.auth = l.auth /\ T.queue = l.queue /\ T.dropped = l.dropped
  BY <1>2, <1>8
<1> QED BY <1>7, <1>8, <1>9, <1>10, <1>11

\* onLeft, of a session.
LEMMA LeftGood ==
    ASSUME NEW l, NEW P, NEW K, NEW D, Good(l, P, K, D), NEW s \in Session, s \in P, NEW renamed
    PROVE  Good(OnLeft(l, s, FALSE, renamed), P \ {s}, K, D)
<1> DEFINE n   == l.scopes[s]
           old == l.heap[n]
           sc  == Removed(old, s)
<1>0. l \in ListType /\ n # None /\ s \in Key
  BY Names DEF Good, Tables
<1>1. /\ n \in Nat /\ n \in DOMAIN l.heap /\ old \in ScopeType
      /\ Known(l, n) /\ Own(old, K)
  BY <1>0, ReachedLine
<1>2. PICK r \in Seq(Session) :
         r = RemoveFirst(old.ids, s) /\ ToSet(r) = ToSet(old.ids) \ {s}
  <2> DEFINE q == old.ids
  <2>1. q \in Seq(Session) /\ \A i, j \in 1..Len(q) : q[i] = q[j] => i = j
    BY <1>1 DEF Own, ScopeType
  <2> HIDE DEF q
  <2>2. \E r \in Seq(Session) :
           /\ r = RemoveFirst(q, s) /\ ToSet(r) = ToSet(q) \ {s}
           /\ \A i, j \in 1..Len(r) : r[i] = r[j] => i = j
    BY <2>1, RemoveFacts
  <2> QED BY <2>2 DEF q
<1>n. l.scopes[s] = n
  OBVIOUS
<1>k. /\ \A t \in Session : t \in ToSet(old.ids) <=> l.scopes[t] = n
      /\ \A u \in User : old.Userid = u <=> l.scopes[u] = n
  BY <1>1 DEF Known
<1>c. sc = Removed(old, s) /\ old = l.heap[n]
  OBVIOUS
<1>3. /\ sc \in ScopeType /\ sc.ids = r /\ sc.Userid = old.Userid
      /\ sc.Id = IF s # old.Id THEN old.Id ELSE IF r # <<>> THEN r[1] ELSE old.Userid
      /\ sc.contact = old.contact /\ sc.element = old.element /\ sc.killed = old.killed
  <2> HIDE DEF old
  <2> QED BY <1>1, <1>2, RemovedScope
<1> DEFINE T == OnLeft(l, s, FALSE, renamed)
\* The last session of a line that is no contact's.
<1>4. CASE Goes(old, sc, s, FALSE)
  <2>0. T = Going(l, s, n, sc)
    BY <1>0, <1>4 DEF OnLeft, Going, Gone
  <2> HIDE DEF n, old, sc, T
  <2>1. /\ T \in ListType /\ DOMAIN T.heap = DOMAIN l.heap
        /\ T.heap[n].killed /\ ~T.heap[n].element
        /\ \A m \in DOMAIN l.heap : m # n => T.heap[m] = l.heap[m]
        /\ \A k \in Key : T.brain[k] = IF k = s THEN n ELSE l.brain[k]
        /\ \A k \in Key : T.scopes[k] = IF k = s \/ k = sc.Userid THEN None ELSE l.scopes[k]
        /\ \A t \in Session : T.sessions[t] = IF t = s THEN None ELSE l.sessions[t]
        /\ \A e \in T.lefts : e \in l.lefts \/ e[2] = n
        /\ T.auth = l.auth /\ T.queue = l.queue /\ T.dropped = l.dropped
    BY <1>0, <1>1, <1>3, <2>0, LeftGoes
  <2>2. ToSet(old.ids) \ {s} = {}
    <3>1. r = <<>>
      BY <1>3, <1>4 DEF Goes
    <3>2. ToSet(<<>>) = {}
      BY DEF ToSet
    <3> QED BY <1>2, <3>1, <3>2
  <2>3. \A t \in Session : l.scopes[t] = n => t = s
    BY <1>k, <2>2
  <2>4. \A k \in Key : T.scopes[k] = IF l.scopes[k] = n THEN None ELSE l.scopes[k]
    <3> SUFFICES ASSUME NEW k \in Key
                 PROVE  T.scopes[k] = IF l.scopes[k] = n THEN None ELSE l.scopes[k]
      OBVIOUS
    <3>1. l.scopes[k] = n <=> k = s \/ k = old.Userid
      <4>1. CASE k \in Session
        <5>1. k # old.Userid
          BY <1>1, <4>1, Names DEF ScopeType
        <5> QED BY <1>n, <2>3, <4>1, <5>1
      <4>2. CASE k \in User
        BY <1>k, <4>2, Names
      <4> QED BY <4>1, <4>2 DEF Key
    <3> QED BY <1>3, <2>1, <3>1
  <2>5. Empties(l, T, s, n)
    BY <1>n, <1>0, <2>1, <2>3, <2>4 DEF Empties
  <2>6. Good(T, P \ {s}, K, D)
    BY <1>0, <2>1, <2>5, EmptyLine
  <2> QED BY <2>6 DEF T
\* Another session of the user, or the contact, keeps it.
<1>5. CASE ~Goes(old, sc, s, FALSE)
  <2> DEFINE G == Gone(l, s, n, sc)
  <2>0. T = IF Has(sc) THEN UpdateDisplay(G, sc.Id, renamed)
            ELSE IF sc.contact THEN UpdateDisplay(G, sc.Userid, renamed) ELSE G
    BY <1>0, <1>5 DEF OnLeft, Gone
  <2>g. G = Gone(l, s, n, sc)
    OBVIOUS
  <2> HIDE DEF G, n, sc, old
  <2>1. /\ G \in ListType /\ DOMAIN G.heap = DOMAIN l.heap /\ G.heap[n] = sc
        /\ \A m \in DOMAIN l.heap : m # n => G.heap[m] = l.heap[m]
        /\ \A k \in Key : G.brain[k] = IF k = s THEN n ELSE l.brain[k]
        /\ \A k \in Key : G.scopes[k] = IF k = s THEN None ELSE l.scopes[k]
        /\ \A t \in Session : G.sessions[t] = IF t = s THEN None ELSE l.sessions[t]
        /\ G.auth = l.auth /\ G.queue = l.queue /\ G.lefts = l.lefts /\ G.dropped = l.dropped
    BY <1>0, <1>1, <1>3, <2>g, GoneFields
  <2>2. s \in ToSet(old.ids) /\ old.ids # <<>> /\ old.Id \in ToSet(old.ids)
    <3>1. s \in ToSet(old.ids)
      BY <1>k, <1>n
    <3>2. ToSet(<<>>) = {}
      BY DEF ToSet
    <3>3. old.ids # <<>>
      BY <3>1, <3>2
    <3> QED BY <1>1, <3>1, <3>3 DEF Own
  <2>3. sc.ids # <<>> \/ sc.contact
    <3>1. CASE s = old.Id
      BY <1>5, <3>1 DEF Goes
    <3>2. CASE s # old.Id
      <4>1. old.Id \in ToSet(r)
        BY <1>2, <2>2, <3>2
      <4>2. ToSet(<<>>) = {}
        BY DEF ToSet
      <4> QED BY <1>3, <4>1, <4>2
    <3> QED BY <3>1, <3>2
  <2>4. Stays(l, G, s, n)
    <3>1. /\ sc.ids = RemoveFirst(l.heap[n].ids, s)
          /\ sc.Id = IF s # l.heap[n].Id THEN l.heap[n].Id
                     ELSE IF sc.ids # <<>> THEN sc.ids[1] ELSE l.heap[n].Userid
          /\ sc.Userid = l.heap[n].Userid /\ sc.contact = l.heap[n].contact
          /\ sc.element = l.heap[n].element /\ sc.killed = l.heap[n].killed
      BY <1>2, <1>3, <1>c
    <3> QED BY <1>n, <2>1, <2>3, <3>1 DEF Stays
  <2>5. Good(G, P \ {s}, K, D)
    BY <1>0, <2>1, <2>4, StayLine
  <2>6. CASE Has(sc)
    <3>1. sc.Id \in Key
      <4>1. sc.Id \in ToSet(sc.ids) /\ sc.ids \in Seq(Session)
        BY <1>3, <2>6 DEF Has
      <4>2. sc.Id \in Session
        BY <4>1 DEF ToSet
      <4> QED BY <4>2, Names
    <3>2. Good(UpdateDisplay(G, sc.Id, renamed), P \ {s}, K, D)
      BY <2>5, <3>1, QueueGood
    <3> QED BY <2>0, <2>6, <3>2
  <2>7. CASE ~Has(sc) /\ sc.contact
    <3>1. sc.Userid \in Key
      <4>1. old.contact /\ old.Userid \in User \cup {None}
        BY <1>1, <1>3, <2>7 DEF ScopeType
      <4>2. old.Userid # None
        BY <1>1, <4>1 DEF Own
      <4> QED BY <1>3, <4>1, <4>2, Names
    <3>2. Good(UpdateDisplay(G, sc.Userid, renamed), P \ {s}, K, D)
      BY <2>5, <3>1, QueueGood
    <3> QED BY <2>0, <2>7, <3>2
  <2>8. CASE ~Has(sc) /\ ~sc.contact
    BY <2>0, <2>5, <2>8
  <2> QED BY <2>6, <2>7, <2>8
<1> QED BY <1>4, <1>5

\* contactremoved: the line of a user without sessions goes.
LEMMA ContactRemovedGood ==
    ASSUME NEW l, NEW P \in SUBSET Session, NEW K, NEW D, Good(l, P, K, D),
           NEW u \in User, NEW renamed
    PROVE  Good(OnContactRemoved(l, u, renamed), P, K, D)
<1> DEFINE n == l.scopes[u]
           o == l.heap[n]
<1>1. CASE n = None
  BY <1>1 DEF OnContactRemoved
<1>2. CASE n # None
  <2>0. l \in ListType /\ u \in Key /\ u # None
    BY Names DEF Good
  <2>1. /\ n \in Nat /\ n \in DOMAIN l.heap /\ o \in ScopeType
        /\ Known(l, n) /\ Own(o, K)
    BY <1>2, <2>0, ReachedLine
  <2>k. /\ \A t \in Session : t \in ToSet(o.ids) <=> l.scopes[t] = n
        /\ \A v \in User : o.Userid = v <=> l.scopes[v] = n
    BY <2>1 DEF Known
  <2>2. PICK d \in ScopeType :
           /\ d = [o EXCEPT !.contact = FALSE] /\ ~d.contact
           /\ d.ids = o.ids /\ d.Id = o.Id /\ d.Userid = o.Userid
           /\ d.element = o.element /\ d.killed = o.killed
    <3> HIDE DEF o
    <3> QED BY <2>1, FlagScope
  <2>n. l.scopes[u] = n /\ o = l.heap[n]
    OBVIOUS
  <2> DEFINE C == [l EXCEPT !.heap[n] = d]
  <2>3. OnContactRemoved(l, u, renamed) = IF Has(C.heap[n]) THEN C ELSE OnLeft(C, u, TRUE, renamed)
    <3>1. C = [l EXCEPT !.heap[n].contact = FALSE]
      BY <2>2
    <3> QED BY <1>2, <3>1 DEF OnContactRemoved
  <2>c. C = [l EXCEPT !.heap[n] = d]
    OBVIOUS
  <2> HIDE DEF C, o, n
  <2>4. /\ C \in ListType /\ DOMAIN C.heap = DOMAIN l.heap
        /\ \A m \in DOMAIN l.heap : m # n => C.heap[m] = l.heap[m]
        /\ C.heap[n] = d
        /\ C.scopes = l.scopes /\ C.brain = l.brain /\ C.sessions = l.sessions
        /\ C.auth = l.auth /\ C.queue = l.queue /\ C.lefts = l.lefts /\ C.dropped = l.dropped
    BY <2>0, <2>1, <2>c, SetLine
  <2>5. CASE Has(d)
    <3>1. d.ids # <<>>
      <4>1. ToSet(<<>>) = {}
        BY DEF ToSet
      <4> QED BY <2>5, <4>1 DEF Has
    <3>2. /\ d.ids = l.heap[n].ids /\ d.Id = l.heap[n].Id /\ d.Userid = l.heap[n].Userid
          /\ d.element = l.heap[n].element /\ d.killed = l.heap[n].killed
      BY <2>2, <2>n
    <3>3. Flags(l, C, u, n)
      BY <2>4, <2>n, <3>1, <3>2 DEF Flags
    <3>4. Good(C, P, K, D)
      BY <1>2, <2>4, <3>3, FlagLine
    <3> QED BY <2>3, <2>4, <2>5, <3>4
  <2>6. CASE ~Has(d)
    <3>1. d.ids = <<>> /\ o.ids = <<>>
      BY <2>1, <2>2, <2>6 DEF Has, Own
    <3>2. d.Userid = u
      BY <2>2, <2>k, <2>n
    <3> DEFINE sc == Removed(d, u)
    <3>3. sc \in ScopeType /\ sc.Userid = u
      <4>1. d.ids = RemoveFirst(d.ids, u) /\ d.ids \in Seq(Session)
        BY <3>1 DEF RemoveFirst, ScopeType
      <4> QED BY <3>2, <4>1, RemovedScope
    <3> DEFINE T == OnLeft(C, u, TRUE, renamed)
    <3>4. T = Going(C, u, n, sc)
      <4>1. C.scopes[u] = n /\ C.heap[n] = d
        BY <2>4, <2>n
      <4>2. C.scopes[u] # None
        BY <1>2, <4>1
      <4>3. T = Going(C, u, C.scopes[u], Removed(C.heap[C.scopes[u]], u))
        BY <4>2 DEF OnLeft, Goes, Going, Gone
      <4> QED BY <4>1, <4>3
    <3> HIDE DEF T, sc
    <3>5. /\ T \in ListType /\ DOMAIN T.heap = DOMAIN C.heap
          /\ T.heap[n].killed /\ ~T.heap[n].element
          /\ \A m \in DOMAIN C.heap : m # n => T.heap[m] = C.heap[m]
          /\ \A k \in Key : T.brain[k] = IF k = u THEN n ELSE C.brain[k]
          /\ \A k \in Key : T.scopes[k] = IF k = u \/ k = sc.Userid THEN None ELSE C.scopes[k]
          /\ \A t \in Session : T.sessions[t] = IF t = u THEN None ELSE C.sessions[t]
          /\ \A e \in T.lefts : e \in C.lefts \/ e[2] = n
          /\ T.auth = C.auth /\ T.queue = C.queue /\ T.dropped = C.dropped
      BY <2>0, <2>1, <2>4, <3>3, <3>4, LeftGoes
    <3>6. \A t \in Session : l.scopes[t] # n
      <4>1. ToSet(<<>>) = {}
        BY DEF ToSet
      <4> QED BY <2>k, <3>1, <4>1
    <3>7. \A k \in Key : l.scopes[k] = n <=> k = u
      <4>1. \A v \in User : l.scopes[v] = n <=> v = u
        BY <2>2, <2>k, <3>2
      <4> QED BY <3>6, <4>1, Names DEF Key
    <3>8. Empties(l, T, u, n)
      BY <2>0, <2>4, <2>n, <3>3, <3>5, <3>6, <3>7 DEF Empties
    <3>9. Good(T, P \ {u}, K, D)
      BY <1>2, <2>0, <3>5, <3>8, EmptyLine
    <3>10. P \ {u} = P
      BY Names
    <3> QED BY <2>3, <2>4, <2>6, <3>9, <3>10 DEF T
  <2> QED BY <2>5, <2>6
<1> QED BY <1>1, <1>2

\* room.left: all sessions leave, each as if it had left alone.
LEMMA ClosedGood ==
    ASSUME NEW l, NEW P \in SUBSET Session, IsFiniteSet(P), NEW K, NEW D, Good(l, P, K, D),
           NEW order \in SetToSeqs({s \in Session : l.sessions[s] # None}), NEW renamed
    PROVE  Good(OnClosed(l, order, renamed), {}, K, D)
<1> DEFINE n == Cardinality(P)
<1>1. {s \in Session : l.sessions[s] # None} = P
  BY DEF Good, Tables
<1>2. /\ n \in Nat /\ order \in [1 .. n -> P]
      /\ \A i, j \in 1 .. n : i # j => order[i] # order[j]
  <2>1. n \in Nat
    BY FS_CardinalityType
  <2>2. order \in SetToSeqs(P)
    BY <1>1
  <2> QED BY <2>1, <2>2 DEF SetToSeqs
<1>3. \A s \in P : \E i \in 1 .. n : order[i] = s
  <2>1. IsFiniteSet(1 .. n) /\ Cardinality(1 .. n) = n
    BY <1>2, FS_Interval
  <2>2. order \in Injection(1 .. n, P)
    BY <1>2 DEF Injection, IsInjective
  <2>3. order \in Surjection(1 .. n, P)
    BY <2>1, <2>2, FS_Injection
  <2> QED BY <2>3 DEF Surjection
<1> DEFINE B == [l EXCEPT !.queue = {}, !.dropped = @ \cup Rendered(l)]
<1>4. B \in ListType /\ Good(B, P, K, D)
  BY DroppedQueue
<1>5. OnClosed(l, order, renamed) = LeaveEach(B, renamed, order)
  BY DEF OnClosed, LeaveEach
<1> HIDE DEF B
<1> DEFINE Gone1(i) == {order[j] : j \in 1 .. i}
           Z == LeaveEach(B, renamed, order)
           V(i) == {T \in ListType : Good(T, P \ Gone1(i), K, D)}
           J == [i \in 0 .. n |-> V(i)]
<1>6. Run1("left", renamed, order, n, B, Z)
  BY <1>2, LeaveRuns
<1> HIDE DEF n
<1>7. B \in J[0]
  <2>1. P \ Gone1(0) = P
    OBVIOUS
  <2>2. J[0] = V(0)
    BY <1>2
  <2> HIDE DEF J, Gone1
  <2> QED BY <1>4, <2>1, <2>2
<1>8. ASSUME NEW i \in 1 .. n, NEW T \in J[i - 1]
      PROVE  Body("left", renamed, order[i], T) \in J[i]
  <2>1. i \in 0 .. n /\ i - 1 \in 0 .. n
    BY <1>2
  <2> DEFINE Q == P \ Gone1(i - 1)
             s == order[i]
             S == OnLeft(T, s, FALSE, renamed)
  <2>2. T \in ListType /\ Good(T, Q, K, D)
    BY <2>1
  <2>3. s \in Q /\ s \in Session
    BY <1>2
  <2>4. P \ Gone1(i) = Q \ {s}
    BY <1>2
  <2> HIDE DEF Q, s
  <2>5. Good(S, Q \ {s}, K, D)
    BY <2>2, <2>3, LeftGood
  <2>6. S \in ListType
    BY <2>5 DEF Good
  <2>7. Body("left", renamed, s, T) = S
    BY DEF Body
  <2> HIDE DEF S
  <2>8. S \in J[i]
    BY <2>1, <2>4, <2>5, <2>6
  <2> QED BY <2>7, <2>8 DEF s
<1> HIDE DEF Z, J
<1>9. Z \in J[n]
  BY <1>2, <1>6, <1>7, <1>8, LoopKeeps
<1>10. J[n] = V(n)
  BY <1>2 DEF J
<1>11. P \ Gone1(n) = {}
  BY <1>3
<1> QED BY <1>5, <1>9, <1>10, <1>11 DEF Z

-----------------------------------------------------------------------------
(* The frame. *)

\* What the frame makes of the list, and of the page.
Framed(l) ==
    [l EXCEPT !.queue = {}, !.lefts = {},
              !.heap = [n \in DOMAIN @ |->
                  IF n \in Rendered(l) THEN [@[n] EXCEPT !.element = TRUE] ELSE @[n]]]
Paint(l, D) == (D \ {e[2] : e \in l.lefts}) \cup Rendered(l)

\* Only lines that some id leads to are rendered.
LEMMA RenderedLines ==
    ASSUME NEW l, NEW P, NEW K, NEW D, Good(l, P, K, D)
    PROVE  /\ Rendered(l) \subseteq DOMAIN l.heap
           /\ \A n \in Rendered(l) : ~l.heap[n].killed /\ Reached(l, n)
<1> SUFFICES ASSUME NEW n \in Rendered(l)
             PROVE  n \in DOMAIN l.heap /\ ~l.heap[n].killed /\ Reached(l, n)
  OBVIOUS
<1>1. l \in ListType /\ Refs(l, D) /\ Brain(l, K)
  BY DEF Good
<1>2. PICK q \in l.queue : Looks(l, q) = n
  BY DEF Rendered, Looks
<1>3. n # None /\ q \in Key
  BY <1>1 DEF Rendered, ListType
<1>4. CASE l.scopes[q] # None
  <2>1. l.scopes[q] = n
    BY <1>2, <1>4 DEF Looks
  <2>2. n \in DOMAIN l.heap /\ Reached(l, n)
    BY <1>1, <1>3, <2>1 DEF Refs, Reached
  <2> QED BY <2>2 DEF Rendered
<1>5. CASE l.scopes[q] = None
  <2>1. l.brain[q] = n
    BY <1>2, <1>5 DEF Looks
  <2>2. n \in DOMAIN l.heap
    BY <1>1, <1>3, <2>1 DEF Refs
  <2>3. ~l.heap[n].killed
    BY <2>2 DEF Rendered
  <2>4. q \in Session
    <3>1. q \notin User
      BY <1>1, <1>3, <2>1, <2>3 DEF Brain
    <3> QED BY <1>3, <3>1 DEF Key
  <2>5. l.scopes[Userid[q]] = n
    BY <1>1, <1>3, <1>5, <2>1, <2>3, <2>4 DEF Brain
  <2>6. Reached(l, n)
    BY <2>4, <2>5, Names DEF Reached
  <2> QED BY <2>2, <2>3, <2>6
<1> QED BY <1>4, <1>5

LEMMA FramedFields ==
    ASSUME NEW l \in ListType, NEW T, T = Framed(l)
    PROVE  /\ T \in ListType /\ DOMAIN T.heap = DOMAIN l.heap
           /\ \A n \in DOMAIN l.heap :
                 /\ T.heap[n].ids = l.heap[n].ids /\ T.heap[n].Id = l.heap[n].Id
                 /\ T.heap[n].Userid = l.heap[n].Userid /\ T.heap[n].contact = l.heap[n].contact
                 /\ T.heap[n].killed = l.heap[n].killed
                 /\ n \in Rendered(l) => T.heap[n].element
                 /\ n \notin Rendered(l) => T.heap[n] = l.heap[n]
           /\ T.scopes = l.scopes /\ T.brain = l.brain /\ T.sessions = l.sessions
           /\ T.auth = l.auth /\ T.queue = {} /\ T.lefts = {} /\ T.dropped = l.dropped
<1> DEFINE R == Rendered(l)
           h == [n \in DOMAIN l.heap |-> IF n \in R THEN [l.heap[n] EXCEPT !.element = TRUE]
                                         ELSE l.heap[n]]
<1>1. T = [l EXCEPT !.queue = {}, !.lefts = {}, !.heap = h]
  BY DEF Framed
<1>2. l.heap \in Seq(ScopeType)
  BY DEF ListType
<1> HIDE DEF R
<1>3. ASSUME NEW n \in DOMAIN l.heap
      PROVE  /\ h[n] \in ScopeType
             /\ h[n].ids = l.heap[n].ids /\ h[n].Id = l.heap[n].Id
             /\ h[n].Userid = l.heap[n].Userid /\ h[n].contact = l.heap[n].contact
             /\ h[n].killed = l.heap[n].killed
             /\ n \in R => h[n].element
             /\ n \notin R => h[n] = l.heap[n]
  <2>1. l.heap[n] \in ScopeType
    BY <1>2
  <2> DEFINE c == l.heap[n]
             d == [c EXCEPT !.element = TRUE]
  <2>2. h[n] = IF n \in R THEN d ELSE c
    OBVIOUS
  <2>3. /\ d \in ScopeType /\ d.ids = c.ids /\ d.Id = c.Id /\ d.Userid = c.Userid
        /\ d.contact = c.contact /\ d.killed = c.killed /\ d.element
    <3> HIDE DEF c
    <3>1. c \in ScopeType
      BY <2>1 DEF c
    <3> QED BY <3>1 DEF ScopeType
  <2> HIDE DEF d, h
  <2> QED BY <2>1, <2>2, <2>3
<1>4. DOMAIN h = DOMAIN l.heap
  OBVIOUS
<1> HIDE DEF h
<1>5. h \in Seq(ScopeType)
  <2>1. Len(l.heap) \in Nat /\ DOMAIN l.heap = 1 .. Len(l.heap)
    BY <1>2
  <2>2. h \in [1 .. Len(l.heap) -> ScopeType]
    <3>1. h = [n \in DOMAIN l.heap |-> h[n]]
      BY DEF h
    <3> QED BY <1>3, <2>1, <3>1
  <2> QED BY <2>1, <2>2
<1>6. /\ T \in ListType /\ T.heap = h
      /\ T.scopes = l.scopes /\ T.brain = l.brain /\ T.sessions = l.sessions
      /\ T.auth = l.auth /\ T.queue = {} /\ T.lefts = {} /\ T.dropped = l.dropped
  BY <1>1, <1>5 DEF ListType
<1> QED BY <1>3, <1>4, <1>6 DEF R

\* After the frame, what was to be rendered is on the page.
LEMMA FrameGood ==
    ASSUME NEW l, NEW P, NEW K, NEW D, Good(l, P, K, D)
    PROVE  Good(Framed(l), P, K, Paint(l, D))
<1> DEFINE T == Framed(l)
           E == Paint(l, D)
           R == Rendered(l)
<1>0. l \in ListType /\ Refs(l, D) /\ Tables(l, P) /\ Brain(l, K) /\ Auth(l) /\ Page(l, D)
  BY DEF Good
<1>1. /\ T \in ListType /\ DOMAIN T.heap = DOMAIN l.heap
      /\ \A n \in DOMAIN l.heap :
            /\ T.heap[n].ids = l.heap[n].ids /\ T.heap[n].Id = l.heap[n].Id
            /\ T.heap[n].Userid = l.heap[n].Userid /\ T.heap[n].contact = l.heap[n].contact
            /\ T.heap[n].killed = l.heap[n].killed
            /\ n \in R => T.heap[n].element
            /\ n \notin R => T.heap[n] = l.heap[n]
      /\ T.scopes = l.scopes /\ T.brain = l.brain /\ T.sessions = l.sessions
      /\ T.auth = l.auth /\ T.queue = {} /\ T.lefts = {} /\ T.dropped = l.dropped
  BY <1>0, FramedFields
<1>2. R \subseteq DOMAIN l.heap /\ \A n \in R : ~l.heap[n].killed /\ Reached(l, n)
  BY RenderedLines
<1>3. /\ \A n \in E : n \in D \/ n \in R
      /\ \A n \in DOMAIN l.heap : ~l.heap[n].killed => (n \in E <=> n \in D \/ n \in R)
  BY <1>0 DEF Paint, Page
<1>4. \A n : Reached(T, n) <=> Reached(l, n)
  BY <1>1 DEF Reached
<1>q. ASSUME NEW q \in l.queue, NEW n \in DOMAIN l.heap, Looks(l, q) = n, ~l.heap[n].killed
      PROVE  n \in R
  <2>1. n # None
    <3>1. n \in Nat
      BY <1>0 DEF ListType
    <3> QED BY <3>1, Names
  <2> QED BY <1>q, <2>1 DEF Rendered, Looks
<1> HIDE DEF T, E, R
<1>5. Refs(T, E)
  BY <1>0, <1>1, <1>2, <1>3 DEF Refs
<1>6. Tables(T, P)
  BY <1>0, <1>1 DEF Tables
<1>7. Brain(T, K)
  BY <1>0, <1>1, Names DEF Brain, Refs
<1>8. Auth(T)
  <2> SUFFICES ASSUME NEW s \in T.auth, T.scopes[s] # None
               PROVE  T.heap[T.scopes[s]].Userid # None
    BY DEF Auth
  <2>1. s \in l.auth /\ s \in Key
    BY <1>0, <1>1, Names DEF ListType
  <2>2. l.heap[l.scopes[s]].Userid # None /\ l.scopes[s] \in DOMAIN l.heap
    BY <1>0, <1>1, <2>1 DEF Auth, Refs
  <2> QED BY <1>1, <2>2
<1>9. Page(T, E)
  <2>1. \A n \in DOMAIN T.heap : T.heap[n].element <=> n \in E /\ ~T.heap[n].killed
    <3> SUFFICES ASSUME NEW n \in DOMAIN l.heap
                 PROVE  T.heap[n].element <=> n \in E /\ ~T.heap[n].killed
      BY <1>1
    <3>1. CASE n \in R
      BY <1>1, <1>2, <1>3, <3>1
    <3>2. CASE n \notin R
      <4>1. T.heap[n] = l.heap[n]
        BY <1>1, <3>2
      <4>2. l.heap[n].element <=> n \in D /\ ~l.heap[n].killed
        BY <1>0 DEF Page
      <4> QED BY <1>3, <3>2, <4>1, <4>2
    <3> QED BY <3>1, <3>2
  <2>2. \A n \in E : T.heap[n].killed \/ Reached(T, n)
    <3> SUFFICES ASSUME NEW n \in E PROVE T.heap[n].killed \/ Reached(T, n)
      OBVIOUS
    <3>1. CASE n \in R
      BY <1>2, <1>4, <3>1
    <3>2. CASE n \notin R
      <4>1. n \in D /\ n \in DOMAIN l.heap
        BY <1>0, <1>3, <3>2 DEF Refs
      <4>2. l.heap[n].killed \/ Reached(l, n)
        BY <1>0, <4>1 DEF Page
      <4>3. T.heap[n].killed = l.heap[n].killed
        BY <1>1, <4>1
      <4> QED BY <1>4, <4>2, <4>3
    <3> QED BY <3>1, <3>2
  <2>3. T.lefts = {}
    BY <1>1
  <2> QED BY <2>1, <2>2, <2>3 DEF Page
<1>10. Lines(T, K, E)
  <2> SUFFICES ASSUME NEW n \in DOMAIN l.heap, Reached(T, n)
               PROVE  Known(T, n) /\ Own(T.heap[n], K) /\ ShownAt(T, E, n)
    BY <1>1 DEF Lines
  <2>1. Known(l, n) /\ Own(l.heap[n], K) /\ ShownAt(l, D, n)
    BY <1>4 DEF Good, Lines
  <2>2. /\ T.heap[n].ids = l.heap[n].ids /\ T.heap[n].Id = l.heap[n].Id
        /\ T.heap[n].Userid = l.heap[n].Userid /\ T.heap[n].contact = l.heap[n].contact
        /\ T.heap[n].killed = l.heap[n].killed /\ T.scopes = l.scopes
    BY <1>1
  <2>3. Known(T, n)
    BY <2>1, <2>2 DEF Known
  <2>4. Own(T.heap[n], K)
    BY <2>1, <2>2 DEF Own
  <2>5. ShownAt(T, E, n)
    <3>1. ~l.heap[n].killed
      BY <2>1 DEF Known
    <3>2. n \in D \/ n \in l.dropped \/ \E q \in l.queue : Looks(l, q) = n
      BY <2>1 DEF ShownAt
    <3>3. n \in E \/ n \in l.dropped
      BY <1>3, <1>q, <3>1, <3>2
    <3> QED BY <1>1, <3>3 DEF ShownAt
  <2> QED BY <2>3, <2>4, <2>5
<1> QED BY <1>1, <1>5, <1>6, <1>7, <1>8, <1>9, <1>10 DEF Good, T, E

-----------------------------------------------------------------------------
(* The invariant, event by event. *)

BInv == /\ Good(list, present, signedIn, dom)
        /\ present \in SUBSET Session /\ IsFiniteSet(present)
        /\ signedIn \in SUBSET Session

LEMMA InitGood == Init => BInv
<1> SUFFICES ASSUME Init PROVE BInv
  OBVIOUS
<1>1. /\ list = EmptyList /\ dom = {} /\ present = {} /\ signedIn = {}
  BY DEF Init
<1> DEFINE l == EmptyList
<1>2. /\ l.heap = <<>> /\ l.scopes = [k \in Key |-> None] /\ l.brain = [k \in Key |-> None]
      /\ l.sessions = [s \in Session |-> None] /\ l.auth = {} /\ l.queue = {} /\ l.lefts = {}
      /\ l.dropped = {}
  BY DEF EmptyList
<1>3. l \in ListType
  <2>1. <<>> \in Seq(ScopeType)
    OBVIOUS
  <2> QED BY <2>1 DEF EmptyList, ListType
<1>4. /\ \A k \in Key : l.scopes[k] = None /\ l.brain[k] = None
      /\ \A s \in Session : l.sessions[s] = None /\ s \in Key
      /\ \A u \in User : u \in Key
      /\ DOMAIN l.heap = {}
  BY <1>2, Names
<1> HIDE DEF l
<1>5. Refs(l, {}) /\ Lines(l, {}, {}) /\ Tables(l, {}) /\ Brain(l, {}) /\ Auth(l) /\ Page(l, {})
  BY <1>2, <1>4 DEF Refs, Lines, Tables, Brain, Auth, Page
<1>6. Good(l, {}, {}, {})
  BY <1>3, <1>5 DEF Good
<1> QED BY <1>1, <1>6, FS_EmptySet DEF BInv, l

\* A document may tell the user of the session it is about.
LEMMA TellsGood ==
    ASSUME BInv, NEW s \in Session, Tells(s)
    PROVE  Good(list, present, signedIn', dom) /\ signedIn' \in SUBSET Session
<1>1. signedIn \subseteq signedIn' /\ signedIn' \in SUBSET Session
  BY DEF Tells, BInv
<1> QED BY <1>1, KnowMore DEF BInv

LEMMA JoinedKeeps ==
    ASSUME BInv, NEW s \in Session, Joined(s)
    PROVE  BInv'
<1>1. /\ list' = OnJoined(list, s, Uid(s)) /\ present' = present \cup {s} /\ dom' = dom
      /\ Tells(s)
  BY DEF Joined
<1>2. Good(list, present, signedIn', dom) /\ signedIn' \in SUBSET Session
  BY <1>1, TellsGood
<1>3. Uid(s) = IF s \in signedIn' THEN Userid[s] ELSE None
  BY DEF Uid
<1>4. Good(OnJoined(list, s, Uid(s)), present \cup {s}, signedIn', dom)
  BY <1>2, <1>3, JoinedGood
<1>5. present \cup {s} \in SUBSET Session /\ IsFiniteSet(present \cup {s})
  BY FS_AddElement DEF BInv
<1> QED BY <1>1, <1>2, <1>4, <1>5 DEF BInv

LEMMA StatusKeeps ==
    ASSUME BInv, NEW s \in Session, NEW renamed, Status(s, renamed)
    PROVE  BInv'
<1>1. /\ list' = OnStatus(list, s, Uid(s), renamed) /\ present' = present /\ dom' = dom
      /\ s \in present /\ Tells(s)
  BY DEF Status
<1>2. Good(list, present, signedIn', dom) /\ signedIn' \in SUBSET Session
  BY <1>1, TellsGood
<1>3. Uid(s) = IF s \in signedIn' THEN Userid[s] ELSE None
  BY DEF Uid
<1>4. Good(OnStatus(list, s, Uid(s), renamed), present, signedIn', dom)
  BY <1>1, <1>2, <1>3, StatusGood
<1> QED BY <1>1, <1>2, <1>4 DEF BInv

LEMMA LeftKeeps ==
    ASSUME BInv, NEW s \in Session, NEW renamed, LeftRoom(s, renamed)
    PROVE  BInv'
<1>1. /\ list' = OnLeft(list, s, FALSE, renamed) /\ present' = present \ {s} /\ dom' = dom
      /\ s \in present /\ signedIn' = signedIn
  BY DEF LeftRoom
<1>2. Good(OnLeft(list, s, FALSE, renamed), present \ {s}, signedIn, dom)
  BY <1>1, LeftGood DEF BInv
<1>3. present \ {s} \in SUBSET Session /\ IsFiniteSet(present \ {s})
  BY FS_RemoveElement DEF BInv
<1> QED BY <1>1, <1>2, <1>3 DEF BInv

LEMMA RoomLeftKeeps ==
    ASSUME BInv, NEW renamed, RoomLeft(renamed)
    PROVE  BInv'
<1>1. present' = {} /\ dom' = dom /\ signedIn' = signedIn
  BY DEF RoomLeft
<1>2. PICK order \in SetToSeqs({s \in Session : list.sessions[s] # None}) :
         list' = OnClosed(list, order, renamed)
  BY DEF RoomLeft
<1>3. Good(OnClosed(list, order, renamed), {}, signedIn, dom)
  BY ClosedGood DEF BInv
<1> QED BY <1>1, <1>2, <1>3, FS_EmptySet DEF BInv

LEMMA ContactAddedKeeps ==
    ASSUME BInv, NEW u \in User, NEW renamed, ContactAdded(u, renamed)
    PROVE  BInv'
<1>1. /\ list' = OnContactAdded(list, u, renamed)
      /\ present' = present /\ dom' = dom /\ signedIn' = signedIn
  BY DEF ContactAdded
<1>2. Good(OnContactAdded(list, u, renamed), present, signedIn, dom)
  BY ContactAddedGood DEF BInv
<1> QED BY <1>1, <1>2 DEF BInv

LEMMA ContactRemovedKeeps ==
    ASSUME BInv, NEW u \in User, NEW renamed, ContactRemoved(u, renamed)
    PROVE  BInv'
<1>1. /\ list' = OnContactRemoved(list, u, renamed)
      /\ present' = present /\ dom' = dom /\ signedIn' = signedIn
  BY DEF ContactRemoved
<1>2. Good(OnContactRemoved(list, u, renamed), present, signedIn, dom)
  BY ContactRemovedGood DEF BInv
<1> QED BY <1>1, <1>2 DEF BInv

LEMMA FrameKeeps ==
    ASSUME BInv, Frame
    PROVE  BInv'
<1>1. /\ list' = Framed(list) /\ dom' = Paint(list, dom)
      /\ present' = present /\ signedIn' = signedIn
  BY DEF Frame, Framed, Paint
<1>2. Good(Framed(list), present, signedIn, Paint(list, dom))
  BY FrameGood DEF BInv
<1> QED BY <1>1, <1>2 DEF BInv

LEMMA NextKeeps == BInv /\ [Next]_vars => BInv'
<1> SUFFICES ASSUME BInv, [Next]_vars PROVE BInv'
  OBVIOUS
<1>1. ASSUME NEW s \in Session, Joined(s) PROVE BInv'
  BY <1>1, JoinedKeeps
<1>2. ASSUME NEW s \in Session, NEW renamed \in BOOLEAN, Status(s, renamed) PROVE BInv'
  BY <1>2, StatusKeeps
<1>3. ASSUME NEW s \in Session, NEW renamed \in BOOLEAN, LeftRoom(s, renamed) PROVE BInv'
  BY <1>3, LeftKeeps
<1>4. ASSUME NEW u \in User, NEW renamed \in BOOLEAN, ContactAdded(u, renamed) PROVE BInv'
  BY <1>4, ContactAddedKeeps
<1>5. ASSUME NEW u \in User, NEW renamed \in BOOLEAN, ContactRemoved(u, renamed) PROVE BInv'
  BY <1>5, ContactRemovedKeeps
<1>6. ASSUME NEW renamed \in BOOLEAN, RoomLeft(renamed) PROVE BInv'
  BY <1>6, RoomLeftKeeps
<1>7. CASE Frame
  BY <1>7, FrameKeeps
<1>8. CASE UNCHANGED vars
  BY <1>8 DEF vars, BInv
<1> QED BY <1>1, <1>2, <1>3, <1>4, <1>5, <1>6, <1>7, <1>8 DEF Next

LEMMA BInvHolds == Spec => []BInv
<1>1. Init => BInv
  BY InitGood
<1>2. BInv /\ [Next]_vars => BInv'
  BY NextKeeps
<1> QED BY <1>1, <1>2, PTL DEF Spec

-----------------------------------------------------------------------------
(* What it is good for. *)

\* Once the frame has done its work, each session of the room is in a line that is on the page,
\* for any number of sessions, users and lines: refreshBuddies and onJoined, however lines were
\* merged and left.  The lines that onClosed dropped unrendered are excepted, as in the property.
THEOREM EverybodyShown == Spec => []EverybodyIsShown
<1>1. BInv => EverybodyIsShown
  <2> SUFFICES ASSUME BInv, Settled, NEW s \in present
               PROVE  LET n == list.scopes[s] IN
                      /\ n # None /\ ~list.heap[n].killed /\ s \in ToSet(list.heap[n].ids)
                      /\ n \in dom \cup list.dropped
    BY DEF EverybodyIsShown
  <2>1. Good(list, present, signedIn, dom) /\ s \in Session
    BY DEF BInv
  <2>2. list.scopes[s] # None /\ s \in Key
    BY <2>1, Names DEF Good, Tables
  <2>3. Known(list, list.scopes[s]) /\ ShownAt(list, dom, list.scopes[s])
    BY <2>1, <2>2, ReachedLine
  <2>4. list.queue = {}
    BY DEF Settled
  <2> QED BY <2>1, <2>2, <2>3, <2>4 DEF Known, ShownAt
<1>2. Spec => []BInv
  BY BInvHolds
<1> QED BY <1>1, <1>2, PTL

\* A line of the page whose scope lives is a contact's, or that of a session in the room: no
\* ghosts, whoever leaves and in whatever order (onLeft, onClosed, onContactRemoved).
THEOREM NobodyElse == Spec => []NobodyElseIsShown
<1>1. BInv => NobodyElseIsShown
  <2> SUFFICES ASSUME BInv, NEW n \in dom, ~list.heap[n].killed, ~list.heap[n].contact
               PROVE  \E s \in present : list.scopes[s] = n
    BY DEF NobodyElseIsShown
  <2>1. Good(list, present, signedIn, dom)
    BY DEF BInv
  <2>2. Reached(list, n) /\ n \in DOMAIN list.heap
    BY <2>1 DEF Good, Page, Refs
  <2>3. Known(list, n) /\ Own(list.heap[n], signedIn)
    BY <2>1, <2>2 DEF Good, Lines
  <2>4. n # None /\ list.heap[n].ids \in Seq(Session)
    <3>1. list.heap \in Seq(ScopeType)
      BY <2>1 DEF Good, ListType
    <3>2. n \in Nat /\ list.heap[n] \in ScopeType
      BY <2>2, <3>1
    <3> QED BY <3>2, Names DEF ScopeType
  <2> DEFINE s == list.heap[n].Id
  <2>5. s \in ToSet(list.heap[n].ids)
    BY <2>3 DEF Own
  <2>6. s \in Session
    BY <2>4, <2>5 DEF ToSet
  <2>7. list.scopes[s] = n
    BY <2>3, <2>5, <2>6 DEF Known
  <2>8. s \in present
    BY <2>1, <2>4, <2>6, <2>7 DEF Good, Tables
  <2> QED BY <2>7, <2>8
<1>2. Spec => []BInv
  BY BInvHolds
<1> QED BY <1>1, <1>2, PTL

\* A user has one line, also when his sessions were shown before they signed in: whatever lines
\* onBuddySessionUserid merged, the one that buddyData knows is the one on the page.
THEOREM OneLine == Spec => []OneLinePerUser
<1>1. BInv => OneLinePerUser
  <2> SUFFICES ASSUME BInv, NEW m \in dom, NEW n \in dom, m # n,
                      ~list.heap[m].killed, ~list.heap[n].killed,
                      list.heap[m].Userid # None, list.heap[m].Userid = list.heap[n].Userid
               PROVE  FALSE
    BY DEF OneLinePerUser
  <2>1. Good(list, present, signedIn, dom)
    BY DEF BInv
  <2>2. Known(list, m) /\ Known(list, n) /\ m \in DOMAIN list.heap
    BY <2>1 DEF Good, Page, Refs, Lines
  <2>3. list.heap[m].Userid \in User
    <3>1. list.heap \in Seq(ScopeType)
      BY <2>1 DEF Good, ListType
    <3>2. list.heap[m] \in ScopeType
      BY <2>2, <3>1
    <3> QED BY <3>2 DEF ScopeType
  <2> QED BY <2>2, <2>3 DEF Known
<1>2. Spec => []BInv
  BY BInvHolds
<1> QED BY <1>1, <1>2, PTL

\* buddySession's table and buddyData agree, and know just the sessions that are here, for any
\* number of them: what onClosed goes through is what onLeft finds.
THEOREM TablesAgree == Spec => []SessionsKnown
<1>1. BInv => SessionsKnown
  BY DEF BInv, Good, Tables, SessionsKnown
<1>2. Spec => []BInv
  BY BInvHolds
<1> QED BY <1>1, <1>2, PTL
=============================================================================
