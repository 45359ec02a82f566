------------------------- MODULE EvidenceRulesProofs -------------------------
(***************************************************************************)
(* What the loops of EvidenceRules compute, for lists of every length.     *)
(*                                                                         *)
(* The provers cannot instantiate an induction theorem with a predicate.   *)
(* Induction is used here on a set instead: the set of the numbers for     *)
(* which a loop has kept its invariant contains 0 and the successor of     *)
(* each of its elements.                                                   *)
(***************************************************************************)
EXTENDS EvidenceRules, FiniteSetTheorems, WellFoundedInduction, TLAPS

-----------------------------------------------------------------------------
(* Induction and loops.                                                    *)

(* A set of numbers that has 0 and is closed under successor has them all. *)
LEMMA Induction ==
    ASSUME NEW S, 0 \in S, \A n \in Nat : n \in S => n + 1 \in S
    PROVE  Nat \subseteq S
<1> DEFINE R == OpToRel(<, Nat)
           T == Nat \ S
<1>1. IsWellFoundedOn(R, Nat)
  BY NatLessThanWellFounded
<1>2. SUFFICES ASSUME T # {} PROVE FALSE
  OBVIOUS
<1>3. PICK x \in T : \A y \in T : ~ (<<y, x>> \in R)
  <2> HIDE DEF R
  <2> QED BY <1>1, <1>2, WFMin
<1>4. x \in Nat /\ x # 0 /\ x - 1 \in Nat /\ x - 1 \notin S
  <2>1. x \in Nat /\ x # 0
    OBVIOUS
  <2>2. x - 1 \in Nat /\ x = (x - 1) + 1
    BY <2>1
  <2> QED BY <2>1, <2>2
<1>5. <<x - 1, x>> \in R
  BY <1>4 DEF OpToRel
<1> QED BY <1>3, <1>4, <1>5

(* The same for the first n numbers.                                       *)
LEMMA BoundedInduction ==
    ASSUME NEW n \in Nat, NEW S,
           0 \in S, \A i \in 0..(n - 1) : i \in S => i + 1 \in S
    PROVE  \A i \in 0..n : i \in S
<1> DEFINE T == {i \in Nat : i =< n => i \in S}
<1>1. 0 \in T
  OBVIOUS
<1>2. ASSUME NEW i \in Nat, i \in T PROVE i + 1 \in T
  BY <1>2
<1>3. Nat \subseteq T
  <2> HIDE DEF T
  <2> QED BY <1>1, <1>2, Induction
<1> QED BY <1>3

(* A set of numbers that is not empty has a least element.                 *)
LEMMA Least ==
    ASSUME NEW S, S \subseteq Nat, S # {}
    PROVE  \E m \in S : \A k \in S : m =< k
<1> DEFINE R == OpToRel(<, Nat)
<1>1. IsWellFoundedOn(R, Nat)
  BY NatLessThanWellFounded
<1>2. PICK m \in S : \A k \in S : ~ (<<k, m>> \in R)
  <2> HIDE DEF R
  <2> QED BY <1>1, WFMin
<1>3. ASSUME NEW k \in S, k < m PROVE FALSE
  <2>1. k \in Nat /\ m \in Nat
    OBVIOUS
  <2>2. <<k, m>> \in R
    BY <1>3, <2>1 DEF OpToRel
  <2> QED BY <1>2, <2>2
<1>4. ASSUME NEW k \in S PROVE m =< k
  <2>1. k \in Nat /\ m \in Nat
    OBVIOUS
  <2> QED BY <1>3, <2>1
<1> QED BY <1>4

(* A loop with a step from values to values has a value after each entry.  *)
(* Each loop of the model gets a lemma of its own that says so (MergeLoop  *)
(* and the like), because a step is an operator, and no lemma can be about *)
(* every operator.                                                         *)
Steps(n, V) == [(1..n) \X V -> V]

HasValues(n, V, first, step) ==
    \E f \in [0..n -> V] :
        /\ f[0] = first
        /\ \A i \in 1..n : f[i] = step[<<i, f[i - 1]>>]

LEMMA LoopExists ==
    ASSUME NEW n \in Nat, NEW V, NEW first \in V, NEW step \in Steps(n, V)
    PROVE  HasValues(n, V, first, step)
<1> USE DEF Steps, HasValues
<1> DEFINE Good(m, f) == /\ f[0] = first
                         /\ \A i \in 1..m : f[i] = step[<<i, f[i - 1]>>]
           S == {m \in 0..n : \E f \in [0..m -> V] : Good(m, f)}
<1>1. 0 \in S
  <2> DEFINE g == [i \in 0..0 |-> first]
  <2>1. g \in [0..0 -> V] /\ Good(0, g)
    OBVIOUS
  <2> HIDE DEF g, Good
  <2> QED BY <2>1
<1>2. ASSUME NEW m \in 0..(n - 1), m \in S PROVE m + 1 \in S
  <2>1. PICK f \in [0..m -> V] : Good(m, f)
    BY <1>2
  <2> DEFINE g == [i \in 0..(m + 1) |-> IF i =< m THEN f[i] ELSE step[<<m + 1, f[m]>>]]
  <2>2. <<m + 1, f[m]>> \in (1..n) \X V
    BY <2>1
  <2>3. step[<<m + 1, f[m]>>] \in V
    BY <2>2
  <2>4. g \in [0..(m + 1) -> V]
    BY <2>1, <2>3
  <2>5. g[0] = first
    BY <2>1
  <2>6. ASSUME NEW i \in 1..(m + 1) PROVE g[i] = step[<<i, g[i - 1]>>]
    <3>1. CASE i =< m
      <4>1. g[i] = f[i] /\ g[i - 1] = f[i - 1] /\ i \in 1..m
        BY <3>1
      <4> QED BY <4>1, <2>1
    <3>2. CASE i = m + 1
      <4>1. g[i] = step[<<m + 1, f[m]>>] /\ g[i - 1] = f[m]
        BY <3>2
      <4> QED BY <4>1, <3>2
    <3> QED BY <3>1, <3>2
  <2>7. Good(m + 1, g)
    BY <2>5, <2>6
  <2> HIDE DEF g, Good
  <2> QED BY <2>4, <2>7
<1>3. n \in S
  <2> HIDE DEF S
  <2>1. \A i \in 0..n : i \in S
    BY <1>1, <1>2, BoundedInduction
  <2> QED BY <2>1
<1> QED BY <1>3

-----------------------------------------------------------------------------
(* Merged intervals.                                                       *)

Spans == {s \in [start : Nat, end : Nat] : s.start < s.end}

LEMMA SpanFields ==
    ASSUME NEW s \in Spans
    PROVE  s.start \in Nat /\ s.end \in Nat /\ s.start < s.end
BY DEF Spans

(* What merging one interval does to the last one, or adds after it.       *)
LEMMA MergeType ==
    ASSUME NEW m \in Seq(Spans), NEW s \in Spans
    PROVE  /\ Merge(m, s) \in Seq(Spans)
           /\ m = <<>> \/ s.start > m[Len(m)].end =>
                 Merge(m, s) = Append(m, s)
           /\ m # <<>> /\ s.start =< m[Len(m)].end =>
                 /\ Len(Merge(m, s)) = Len(m)
                 /\ \A i \in 1..(Len(m) - 1) : Merge(m, s)[i] = m[i]
                 /\ Merge(m, s)[Len(m)].start = m[Len(m)].start
                 /\ Merge(m, s)[Len(m)].end =
                       IF s.end > m[Len(m)].end THEN s.end ELSE m[Len(m)].end
<1>1. CASE m = <<>>
  <2>1. Merge(m, s) = Append(m, s)
    BY <1>1 DEF Merge
  <2>2. Append(m, s) \in Seq(Spans)
    OBVIOUS
  <2> QED BY <1>1, <2>1, <2>2
<1>2. CASE m # <<>>
  <2> DEFINE n == Len(m)
             e == IF s.end > m[n].end THEN s.end ELSE m[n].end
             x == [m[n] EXCEPT !.end = e]
  <2>1. n \in Nat \ {0} /\ n \in DOMAIN m /\ m[n] \in Spans /\ Last(m) = m[n]
    BY <1>2 DEF Last
  <2>2. /\ s.start \in Nat /\ s.end \in Nat
        /\ m[n].start \in Nat /\ m[n].end \in Nat /\ m[n].start < m[n].end
    BY <2>1, SpanFields
  <2>3. x.start = m[n].start /\ x.end = e /\ x \in Spans
    BY <2>1, <2>2 DEF Spans
  <2>4. CASE s.start =< m[n].end
    <3>1. Merge(m, s) = [m EXCEPT ![n] = x]
      BY <1>2, <2>1, <2>4 DEF Merge
    <3> HIDE DEF x
    <3> QED BY <2>1, <2>2, <2>3, <2>4, <3>1
  <2>5. CASE ~(s.start =< m[n].end)
    <3>1. Merge(m, s) = Append(m, s)
      BY <1>2, <2>1, <2>5 DEF Merge
    <3> QED BY <1>2, <2>1, <2>2, <2>5, <3>1
  <2> QED BY <2>4, <2>5
<1> QED BY <1>1, <1>2

Merging(s) == Loop(Merge, <<>>, s)

LEMMA MergeLoop ==
    ASSUME NEW s \in Seq(Spans)
    PROVE  /\ Merging(s)[0] = <<>>
           /\ \A i \in 1..Len(s) : Merging(s)[i] = Merge(Merging(s)[i - 1], s[i])
<1> DEFINE n == Len(s)
           V == Seq(Spans)
           first == <<>>
           step == [x \in (1..n) \X V |-> Merge(x[2], s[x[1]])]
           body(g) == [i \in 0..n |-> IF i = 0 THEN first ELSE Merge(g[i - 1], s[i])]
<1>1. step \in Steps(n, V)
  <2>1. ASSUME NEW x \in (1..n) \X V PROVE Merge(x[2], s[x[1]]) \in V
    <3>1. x[2] \in Seq(Spans) /\ s[x[1]] \in Spans
      OBVIOUS
    <3> QED BY <3>1, MergeType
  <2> QED BY <2>1 DEF Steps
<1>2. n \in Nat /\ first \in V
  OBVIOUS
<1>3. PICK g \in [0..n -> V] : /\ g[0] = first
                               /\ \A i \in 1..n : g[i] = step[<<i, g[i - 1]>>]
  <2> HIDE DEF step, V, n, first
  <2>1. HasValues(n, V, first, step)
    BY <1>1, <1>2, LoopExists
  <2> QED BY <2>1 DEF HasValues
<1>4. ASSUME NEW i \in 1..n PROVE g[i] = Merge(g[i - 1], s[i])
  <2>1. i - 1 \in 0..n /\ g[i - 1] \in V
    BY <1>3
  <2>2. <<i, g[i - 1]>> \in (1..n) \X V
    BY <2>1
  <2> QED BY <1>3, <2>2
<1>5. g = body(g)
  BY <1>3, <1>4
<1>6. Merging(s) = CHOOSE h : h = body(h)
  BY DEF Merging, Loop
<1>7. Merging(s) = body(Merging(s))
  <2> HIDE DEF body
  <2> QED BY <1>5, <1>6
<1>8. Merging(s)[0] = first
  BY <1>2, <1>7
<1>9. ASSUME NEW i \in 1..n PROVE Merging(s)[i] = Merge(Merging(s)[i - 1], s[i])
  <2>1. i \in 0..n /\ i # 0
    BY <1>2
  <2> QED BY <1>7, <2>1
<1> QED BY <1>8, <1>9

Apart(m) == \A j, k \in DOMAIN m : j < k => m[j].end < m[k].start

HeardTo(s, i) == UNION {Instants(s[k]) : k \in 1..i}

(* After i intervals, in the order of their starts, the merged ones are    *)
(* apart, cover the same instants and the last of them starts no later.    *)
MergedWell(s, i, m) ==
    /\ m \in Seq(Spans)
    /\ Apart(m)
    /\ Heard(m) = HeardTo(s, i)
    /\ i > 0 => m # <<>> /\ m[Len(m)].start =< s[i].start

LEMMA HeardIs ==
    ASSUME NEW s \in Seq(Spans)
    PROVE  /\ \A x : x \in Heard(s) <=>
                 \E j \in DOMAIN s : x \in Nat /\ s[j].start =< x /\ x < s[j].end
           /\ \A i \in 0..Len(s) : \A x : x \in HeardTo(s, i) <=>
                 \E j \in 1..i : x \in Nat /\ s[j].start =< x /\ x < s[j].end
           /\ HeardTo(s, Len(s)) = Heard(s)
<1>1. ASSUME NEW j \in DOMAIN s, NEW x
      PROVE  x \in Instants(s[j]) <=> x \in Nat /\ s[j].start =< x /\ x < s[j].end
  <2>1. s[j].start \in Nat /\ s[j].end \in Nat
    BY SpanFields
  <2> QED BY <2>1 DEF Instants
<1>2. DOMAIN s = 1..Len(s) /\ \A i \in 0..Len(s) : 1..i \subseteq DOMAIN s
  OBVIOUS
<1>3. \A x : x \in Heard(s) <=> \E j \in DOMAIN s : x \in Instants(s[j])
  BY DEF Heard
<1>4. \A i \in 0..Len(s) : \A x : x \in HeardTo(s, i) <=> \E j \in 1..i : x \in Instants(s[j])
  BY DEF HeardTo
<1>5. HeardTo(s, Len(s)) = Heard(s)
  BY <1>2 DEF HeardTo, Heard
<1> QED BY <1>1, <1>2, <1>3, <1>4, <1>5

(* The next interval in the order of starts is merged well.                *)
LEMMA MergeStep ==
    ASSUME NEW s \in Seq(Spans), NEW i \in 0..(Len(s) - 1),
           \A j, k \in DOMAIN s : j < k => s[j].start =< s[k].start,
           NEW m, MergedWell(s, i, m)
    PROVE  MergedWell(s, i + 1, Merge(m, s[i + 1]))
<1> DEFINE e == s[i + 1]
           w == Merge(m, e)
           n == Len(m)
<1>1. /\ i \in Nat /\ i + 1 \in DOMAIN s /\ e \in Spans
      /\ 1..(i + 1) = (1..i) \cup {i + 1} /\ 1..i \subseteq DOMAIN s
  OBVIOUS
<1>2. e.start \in Nat /\ e.end \in Nat /\ e.start < e.end
  BY <1>1, SpanFields
<1>3. m \in Seq(Spans) /\ Apart(m) /\ n \in Nat /\ DOMAIN m = 1..n
  BY DEF MergedWell
<1>4. \A j \in DOMAIN m : /\ m[j].start \in Nat /\ m[j].end \in Nat
                          /\ m[j].start < m[j].end
  BY <1>3, SpanFields
<1>5. m # <<>> => n \in DOMAIN m /\ m[n].start =< e.start
  <2>1. CASE i = 0
    <3>1. Heard(m) = {}
      <4>1. HeardTo(s, 0) = {}
        BY DEF HeardTo
      <4> QED BY <2>1, <4>1 DEF MergedWell
    <3>2. ASSUME m # <<>> PROVE FALSE
      <4>1. 1 \in DOMAIN m
        BY <1>3, <3>2
      <4>2. m[1].start \in Instants(m[1])
        BY <1>4, <4>1 DEF Instants
      <4> QED BY <3>1, <4>1, <4>2 DEF Heard
    <3> QED BY <3>2
  <2>2. CASE i > 0
    <3>1. m # <<>> /\ m[n].start =< s[i].start
      BY <2>2 DEF MergedWell
    <3>2. n \in DOMAIN m
      BY <1>3, <3>1
    <3>3. s[i].start =< e.start /\ s[i].start \in Nat
      BY <1>1, <2>2, SpanFields
    <3> QED BY <1>2, <1>4, <3>1, <3>2, <3>3
  <2> QED BY <1>1, <2>1, <2>2
<1>6. w \in Seq(Spans)
  BY <1>1, <1>3, MergeType
<1>7. \A x : x \in HeardTo(s, i + 1) <=>
               x \in Heard(m) \/ (x \in Nat /\ e.start =< x /\ x < e.end)
  <2>1. \A x : x \in HeardTo(s, i + 1) <=>
           x \in HeardTo(s, i) \/ (x \in Nat /\ e.start =< x /\ x < e.end)
    <3> HIDE DEF e
    <3>1. e = s[i + 1] /\ i + 1 \in 0..Len(s) /\ i \in 0..Len(s)
      BY DEF e
    <3> QED BY <1>1, <3>1, HeardIs
  <2> QED BY <2>1 DEF MergedWell
<1>8. \A x : x \in Heard(w) <=>
               x \in Heard(m) \/ (x \in Nat /\ e.start =< x /\ x < e.end)
  <2> HIDE DEF e
  <2>1. CASE m = <<>> \/ e.start > m[n].end
    <3>1. w = Append(m, e)
      BY <1>1, <1>3, <2>1, MergeType
    <3>2. /\ DOMAIN w = 1..(n + 1) /\ w[n + 1] = e
          /\ \A j \in 1..n : w[j] = m[j]
      BY <1>3, <3>1
    <3> HIDE DEF w
    <3>3. \A x : x \in Heard(w) <=>
             \E j \in 1..(n + 1) : x \in Nat /\ w[j].start =< x /\ x < w[j].end
      BY <1>6, <3>2, HeardIs
    <3>4. \A x : x \in Heard(m) <=>
             \E j \in 1..n : x \in Nat /\ m[j].start =< x /\ x < m[j].end
      BY <1>3, HeardIs
    <3>5. 1..(n + 1) = (1..n) \cup {n + 1}
      BY <1>3
    <3> HIDE DEF n
    <3> QED BY <3>2, <3>3, <3>4, <3>5
  <2>2. CASE m # <<>> /\ e.start =< m[n].end
    <3>1. /\ Len(w) = n /\ \A j \in 1..(n - 1) : w[j] = m[j]
          /\ w[n].start = m[n].start
          /\ w[n].end = IF e.end > m[n].end THEN e.end ELSE m[n].end
      BY <1>1, <1>3, <2>2, MergeType
    <3>2. n \in 1..n /\ DOMAIN w = 1..n /\ 1..n = (1..(n - 1)) \cup {n} /\ m[n].start =< e.start
      BY <1>3, <1>5, <1>6, <2>2, <3>1
    <3>3. m[n].start \in Nat /\ m[n].end \in Nat /\ m[n].start < m[n].end
      BY <1>3, <1>4, <3>2
    <3> HIDE DEF w
    <3>4. \A x : x \in Heard(w) <=>
             \E j \in 1..n : x \in Nat /\ w[j].start =< x /\ x < w[j].end
      BY <1>6, <3>2, HeardIs
    <3>5. \A x : x \in Heard(m) <=>
             \E j \in 1..n : x \in Nat /\ m[j].start =< x /\ x < m[j].end
      BY <1>3, HeardIs
    <3>6. ASSUME NEW x \in Nat
          PROVE  w[n].start =< x /\ x < w[n].end <=>
                    \/ m[n].start =< x /\ x < m[n].end
                    \/ e.start =< x /\ x < e.end
      <4> DEFINE a == m[n].start
                 b == m[n].end
                 c == e.start
                 d == e.end
                 f == w[n].end
      <4>1. /\ {a, b, c, d, x} \subseteq Nat /\ a < b /\ c < d
            /\ a =< c /\ c =< b /\ w[n].start = a
            /\ f = IF d > b THEN d ELSE b
        BY <1>2, <2>2, <3>1, <3>2, <3>3
      <4> HIDE DEF a, b, c, d, f
      <4>2. a =< x /\ x < f <=> \/ a =< x /\ x < b
                                \/ c =< x /\ x < d
        BY <4>1
      <4> QED BY <4>1, <4>2 DEF a, b, c, d, f
    <3> HIDE DEF n
    <3>7. \A x : x \in Heard(w) <=>
             \/ \E j \in 1..(n - 1) : x \in Nat /\ m[j].start =< x /\ x < m[j].end
             \/ x \in Nat /\ w[n].start =< x /\ x < w[n].end
      BY <3>1, <3>2, <3>4
    <3>8. \A x : x \in Heard(m) <=>
             \/ \E j \in 1..(n - 1) : x \in Nat /\ m[j].start =< x /\ x < m[j].end
             \/ x \in Nat /\ m[n].start =< x /\ x < m[n].end
      BY <3>2, <3>5
    <3> QED BY <3>6, <3>7, <3>8
  <2>3. m # <<>> => m[n].end \in Nat
    BY <1>4, <1>5
  <2> QED BY <1>2, <2>1, <2>2, <2>3
<1>9. Apart(w)
  <2> HIDE DEF e
  <2>1. SUFFICES ASSUME NEW j \in DOMAIN w, NEW k \in DOMAIN w, j < k
                 PROVE  w[j].end < w[k].start
    BY DEF Apart
  <2>2. \A a, b \in 1..n : a < b => m[a].end < m[b].start
    BY <1>3 DEF Apart
  <2>3. CASE m = <<>> \/ e.start > m[n].end
    <3>1. w = Append(m, e)
      BY <1>1, <1>3, <2>3, MergeType
    <3>2. /\ DOMAIN w = 1..(n + 1) /\ w[n + 1] = e
          /\ \A a \in 1..n : w[a] = m[a]
      BY <1>3, <3>1
    <3>3. j \in 1..n /\ w[j] = m[j] /\ n \in DOMAIN m
      BY <1>3, <2>1, <3>2
    <3>4. CASE k = n + 1
      <4>1. w[k] = e /\ e.start > m[n].end
        BY <1>3, <2>3, <3>2, <3>3, <3>4
      <4>2. j = n \/ m[j].end < m[n].start
        BY <1>3, <2>2, <3>3
      <4>3. m[j].end =< m[n].end
        <5>1. m[n].start \in Nat /\ m[n].end \in Nat /\ m[n].start < m[n].end
          BY <1>4, <3>3
        <5>2. m[j].end \in Nat
          BY <1>3, <1>4, <3>3
        <5> QED BY <4>2, <5>1, <5>2
      <4>4. m[j].end \in Nat /\ m[n].end \in Nat
        BY <1>3, <1>4, <3>3
      <4> QED BY <1>2, <3>3, <4>1, <4>3, <4>4
    <3>5. CASE k # n + 1
      <4>1. k \in 1..n /\ w[k] = m[k]
        BY <1>3, <3>2, <3>5
      <4> QED BY <2>1, <2>2, <3>3, <4>1
    <3> QED BY <3>4, <3>5
  <2>4. CASE m # <<>> /\ e.start =< m[n].end
    <3>1. /\ Len(w) = n /\ \A a \in 1..(n - 1) : w[a] = m[a]
          /\ w[n].start = m[n].start
      BY <1>1, <1>3, <2>4, MergeType
    <3>2. DOMAIN w = 1..n
      BY <1>6, <3>1
    <3>3. j \in 1..(n - 1) /\ w[j] = m[j] /\ k \in 1..n /\ w[k].start = m[k].start
      BY <1>3, <2>1, <3>1, <3>2
    <3> QED BY <2>1, <2>2, <3>3
  <2>5. m # <<>> => m[n].end \in Nat
    BY <1>4, <1>5
  <2> QED BY <1>2, <2>3, <2>4, <2>5
<1>10. w # <<>> /\ w[Len(w)].start =< e.start
  <2> HIDE DEF e
  <2>1. CASE m = <<>> \/ e.start > m[n].end
    <3>1. w = Append(m, e)
      BY <1>1, <1>3, <2>1, MergeType
    <3>2. w # <<>> /\ Len(w) = n + 1 /\ w[n + 1] = e
      <4>1. w \in Seq(Spans) /\ Len(w) = n + 1
        BY <1>1, <1>3, <3>1
      <4>2. w[n + 1] = e
        BY <1>1, <1>3, <3>1
      <4>3. w # <<>>
        BY <1>3, <4>1
      <4> QED BY <4>1, <4>2, <4>3
    <3> QED BY <1>2, <3>2
  <2>2. CASE m # <<>> /\ e.start =< m[n].end
    <3>1. Len(w) = n /\ w[n].start = m[n].start
      BY <1>1, <1>3, <2>2, MergeType
    <3>2. n # 0
      BY <1>3, <2>2
    <3> QED BY <1>5, <2>2, <3>1, <3>2
  <2>3. m # <<>> => m[n].end \in Nat
    BY <1>4, <1>5
  <2> QED BY <1>2, <2>1, <2>2, <2>3
<1>11. Heard(w) = HeardTo(s, i + 1)
  BY <1>7, <1>8
<1> QED BY <1>6, <1>9, <1>10, <1>11 DEF MergedWell

(* All of them are.                                                        *)
LEMMA MergeInvariant ==
    ASSUME NEW s \in Seq(Spans),
           \A j, k \in DOMAIN s : j < k => s[j].start =< s[k].start
    PROVE  \A i \in 0..Len(s) : MergedWell(s, i, Merging(s)[i])
<1> DEFINE S == {i \in 0..Len(s) : MergedWell(s, i, Merging(s)[i])}
<1>1. 0 \in S
  <2>1. Merging(s)[0] = <<>>
    BY MergeLoop
  <2>2. Heard(<<>>) = {} /\ HeardTo(s, 0) = {}
    BY DEF Heard, HeardTo
  <2>3. Apart(<<>>) /\ <<>> \in Seq(Spans)
    BY DEF Apart
  <2>4. Heard(<<>>) = HeardTo(s, 0)
    BY <2>2, Zenon
  <2>5. ~ (0 > 0)
    OBVIOUS
  <2>6. MergedWell(s, 0, <<>>)
    BY <2>3, <2>4, <2>5, Zenon DEF MergedWell
  <2> QED BY <2>1, <2>6
<1>2. ASSUME NEW i \in 0..(Len(s) - 1), i \in S PROVE i + 1 \in S
  <2>1. i + 1 \in 1..Len(s) /\ (i + 1) - 1 = i
    OBVIOUS
  <2>2. Merging(s)[i + 1] = Merge(Merging(s)[i], s[i + 1])
    BY <2>1, MergeLoop
  <2>3. MergedWell(s, i + 1, Merge(Merging(s)[i], s[i + 1]))
    BY <1>2, MergeStep
  <2> QED BY <2>1, <2>2, <2>3
<1> HIDE DEF S
<1>3. Len(s) \in Nat
  OBVIOUS
<1>4. \A i \in 0..Len(s) : i \in S
  BY <1>1, <1>2, <1>3, BoundedInduction
<1> QED BY <1>4 DEF S

-----------------------------------------------------------------------------
(* Sorted lists.                                                           *)

(* Keys are ordered by their first field, then by the second.              *)
LEMMA LessOrder ==
    ASSUME NEW a \in Int \X Int, NEW b \in Int \X Int
    PROVE  /\ ~ Less(a, a)
           /\ Less(a, b) \/ a = b \/ Less(b, a)
           /\ Less(a, b) => ~ Less(b, a)
           /\ \A c \in Int \X Int : Less(a, b) /\ Less(b, c) => Less(a, c)
<1>1. /\ a = <<a[1], a[2]>> /\ a[1] \in Int /\ a[2] \in Int
      /\ b = <<b[1], b[2]>> /\ b[1] \in Int /\ b[2] \in Int
  OBVIOUS
<1>2. ~ Less(a, a) /\ (Less(a, b) => ~ Less(b, a))
  BY <1>1 DEF Less
<1>3. Less(a, b) \/ a = b \/ Less(b, a)
  <2>1. a[1] = b[1] /\ a[2] = b[2] => a = b
    BY <1>1
  <2> QED BY <1>1, <2>1 DEF Less
<1>4. ASSUME NEW c \in Int \X Int, Less(a, b), Less(b, c) PROVE Less(a, c)
  <2>1. c[1] \in Int /\ c[2] \in Int
    OBVIOUS
  <2> QED BY <1>1, <1>4, <2>1 DEF Less
<1> QED BY <1>2, <1>3, <1>4

(* No two entries are preceded by equally many.                            *)
LEMMA PrecedingCounts ==
    ASSUME NEW n \in Nat, NEW keys \in [1..n -> Int \X Int],
           NEW i \in 1..n, NEW j \in 1..n
    PROVE  /\ IsFiniteSet(Preceding(keys, i))
           /\ Cardinality(Preceding(keys, i)) \in 0..(n - 1)
           /\ i \in Preceding(keys, j) =>
                 Cardinality(Preceding(keys, i)) < Cardinality(Preceding(keys, j))
           /\ i # j => i \in Preceding(keys, j) \/ j \in Preceding(keys, i)
<1> DEFINE B(k) == Preceding(keys, k)
<1>1. \A k \in 1..n : keys[k] \in Int \X Int
  OBVIOUS
<1>2. ASSUME NEW k \in 1..n PROVE B(k) \subseteq 1..n /\ k \notin B(k)
  <2>1. ~ Less(keys[k], keys[k])
    BY <1>1, LessOrder
  <2> QED BY <2>1 DEF Preceding
<1>3. ASSUME NEW k \in 1..n PROVE IsFiniteSet(B(k)) /\ Cardinality(B(k)) \in 0..(n - 1)
  <2>1. IsFiniteSet(1..n) /\ Cardinality(1..n) = n
    <3>1. ~ (1 > n) /\ n - 1 + 1 = n /\ 1 \in Int /\ n \in Int
      OBVIOUS
    <3> QED BY <3>1, FS_Interval
  <2>2. IsFiniteSet(B(k)) /\ Cardinality(B(k)) =< Cardinality(1..n)
        /\ (Cardinality(1..n) = Cardinality(B(k)) => 1..n = B(k))
    BY <1>2, <2>1, FS_Subset
  <2>3. Cardinality(B(k)) \in Nat
    BY <2>2, FS_CardinalityType
  <2>4. 1..n # B(k)
    BY <1>2
  <2> HIDE DEF B
  <2> QED BY <2>1, <2>2, <2>3, <2>4
<1>4. ASSUME i \in B(j) PROVE Cardinality(B(i)) < Cardinality(B(j))
  <2>1. B(i) \subseteq B(j)
    <3>1. SUFFICES ASSUME NEW k \in B(i) PROVE k \in B(j)
      OBVIOUS
    <3>2. k \in 1..n /\ keys[k] \in Int \X Int /\ keys[i] \in Int \X Int /\ keys[j] \in Int \X Int
      BY <1>1, <1>2, <3>1
    <3>3. Less(keys[k], keys[i]) \/ (keys[k] = keys[i] /\ k < i)
      BY <3>1 DEF Preceding
    <3>4. Less(keys[i], keys[j]) \/ (keys[i] = keys[j] /\ i < j)
      BY <1>4 DEF Preceding
    <3>5. Less(keys[k], keys[i]) /\ Less(keys[i], keys[j]) => Less(keys[k], keys[j])
      BY <3>2, LessOrder
    <3>6. Less(keys[k], keys[j]) \/ (keys[k] = keys[j] /\ k < j)
      <4>1. k < i /\ i < j => k < j
        BY <3>2
      <4> QED BY <3>3, <3>4, <3>5, <4>1, Zenon
    <3>7. k \in DOMAIN keys
      BY <3>2
    <3> QED BY <3>6, <3>7 DEF Preceding
  <2>2. B(i) # B(j)
    BY <1>2, <1>4
  <2>3. /\ Cardinality(B(i)) =< Cardinality(B(j))
        /\ Cardinality(B(j)) = Cardinality(B(i)) => B(j) = B(i)
    <3>1. IsFiniteSet(B(j))
      BY <1>3
    <3> HIDE DEF B
    <3> QED BY <2>1, <3>1, FS_Subset
  <2>4. Cardinality(B(i)) \in Nat /\ Cardinality(B(j)) \in Nat
    <3>1. Cardinality(B(i)) \in 0..(n - 1) /\ Cardinality(B(j)) \in 0..(n - 1)
      BY <1>3
    <3> HIDE DEF B
    <3> QED BY <3>1
  <2> HIDE DEF B
  <2> QED BY <2>2, <2>3, <2>4
<1>5. ASSUME i # j PROVE i \in B(j) \/ j \in B(i)
  <2>1. Less(keys[i], keys[j]) \/ keys[i] = keys[j] \/ Less(keys[j], keys[i])
    BY <1>1, LessOrder
  <2>2. i < j \/ j < i
    BY <1>5
  <2>3. i \in DOMAIN keys /\ j \in DOMAIN keys
    OBVIOUS
  <2> QED BY <2>1, <2>2, <2>3 DEF Preceding
<1> QED BY <1>3, <1>4, <1>5

IsPermutation(p, n) ==
    /\ p \in [1..n -> 1..n]
    /\ \A i, j \in 1..n : p[i] = p[j] => i = j
    /\ \A i \in 1..n : \E j \in 1..n : p[j] = i

(* Sorting permutes the entries so that no later one has a smaller key.    *)
LEMMA SortedPermutes ==
    ASSUME NEW X, NEW s \in Seq(X), NEW keys \in [1..Len(s) -> Int \X Int]
    PROVE  \E p : /\ IsPermutation(p, Len(s))
                  /\ Sorted(s, keys) = [i \in 1..Len(s) |-> s[p[i]]]
                  /\ \A i, j \in 1..Len(s) : i < j => ~ Less(keys[p[j]], keys[p[i]])
<1> DEFINE n == Len(s)
           C(i) == Cardinality(Preceding(keys, i))
           r == [i \in 1..n |-> C(i) + 1]
           p == [k \in DOMAIN s |-> CHOOSE i \in DOMAIN s : C(i) = k - 1]
<1>1. n \in Nat /\ DOMAIN s = 1..n
  OBVIOUS
<1>2. \A i \in 1..n : C(i) \in 0..(n - 1)
  BY <1>1, PrecedingCounts
<1>3. \A i, j \in 1..n : /\ i \in Preceding(keys, j) => C(i) < C(j)
                         /\ i # j => i \in Preceding(keys, j) \/ j \in Preceding(keys, i)
  BY <1>1, PrecedingCounts
<1>4. \A i, j \in 1..n : C(i) = C(j) => i = j
  <2>1. SUFFICES ASSUME NEW i \in 1..n, NEW j \in 1..n, C(i) = C(j), i # j PROVE FALSE
    OBVIOUS
  <2>2. C(i) < C(j) \/ C(j) < C(i)
    BY <1>3, <2>1
  <2>3. C(i) \in Int /\ C(j) \in Int
    BY <1>2
  <2> HIDE DEF C
  <2> QED BY <2>1, <2>2, <2>3
<1>5. \A k \in 1..n : \E i \in 1..n : C(i) = k - 1
  <2>1. r \in Injection(1..n, 1..n)
    <3> HIDE DEF C
    <3>1. r \in [1..n -> 1..n]
      BY <1>1, <1>2
    <3>2. ASSUME NEW i \in 1..n, NEW j \in 1..n, r[i] = r[j] PROVE i = j
      <4>1. C(i) = C(j)
        BY <1>2, <3>2
      <4> QED BY <1>4, <4>1
    <3>3. IsInjective(r)
      BY <3>1, <3>2 DEF IsInjective
    <3> QED BY <3>1, <3>3 DEF Injection
  <2>2. IsFiniteSet(1..n)
    BY <1>1, FS_Interval
  <2>3. r \in Surjection(1..n, 1..n)
    <3> HIDE DEF r, n
    <3> QED BY <2>1, <2>2, FS_Injection
  <2>4. ASSUME NEW k \in 1..n PROVE \E i \in 1..n : C(i) = k - 1
    <3>1. PICK i \in 1..n : r[i] = k
      <4> HIDE DEF r, n
      <4> QED BY <2>3 DEF Surjection
    <3> HIDE DEF C
    <3>2. C(i) + 1 = k
      BY <3>1
    <3>3. C(i) \in Int /\ k \in Int
      BY <1>2
    <3> QED BY <3>2, <3>3
  <2> QED BY <2>4
<1>6. \A k \in 1..n : p[k] \in 1..n /\ C(p[k]) = k - 1
  <2> HIDE DEF C
  <2>1. ASSUME NEW k \in DOMAIN s PROVE p[k] \in DOMAIN s /\ C(p[k]) = k - 1
    <3>1. \E i \in DOMAIN s : C(i) = k - 1
      BY <1>1, <1>5, <2>1
    <3> QED BY <3>1
  <2> QED BY <1>1, <2>1
<1>7. Sorted(s, keys) = [k \in DOMAIN s |-> s[p[k]]]
  BY DEF Sorted
<1> HIDE DEF r, p
<1>8. p \in [1..n -> 1..n]
  BY <1>1, <1>6 DEF p
<1>9. \A i, j \in 1..n : p[i] = p[j] => i = j
  <2>1. SUFFICES ASSUME NEW i \in 1..n, NEW j \in 1..n, p[i] = p[j] PROVE i = j
    OBVIOUS
  <2>2. C(p[i]) = i - 1 /\ C(p[j]) = j - 1
    BY <1>6
  <2>3. i - 1 = j - 1
    BY <2>1, <2>2
  <2> QED BY <2>3
<1>10. \A i \in 1..n : \E j \in 1..n : p[j] = i
  <2>1. SUFFICES ASSUME NEW i \in 1..n PROVE \E j \in 1..n : p[j] = i
    OBVIOUS
  <2>2. C(i) + 1 \in 1..n /\ (C(i) + 1) - 1 = C(i)
    <3>1. C(i) \in 0..(n - 1)
      BY <1>2
    <3> HIDE DEF C
    <3> QED BY <1>1, <3>1
  <2> DEFINE k == C(i) + 1
  <2>3. p[k] \in 1..n /\ C(p[k]) = C(i)
    <3>1. p[k] \in 1..n /\ C(p[k]) = k - 1
      BY <1>6, <2>2
    <3> QED BY <2>2, <3>1
  <2>4. p[k] = i
    BY <1>4, <2>3
  <2> HIDE DEF k, C
  <2>5. k \in 1..n
    BY <2>2 DEF k
  <2> QED BY <2>4, <2>5
<1>11. Sorted(s, keys) = [i \in 1..n |-> s[p[i]]]
  BY <1>1, <1>7
<1>12. ASSUME NEW i \in 1..n, NEW j \in 1..n, i < j, Less(keys[p[j]], keys[p[i]])
       PROVE  FALSE
  <2>1. p[j] \in 1..n /\ p[i] \in 1..n
    BY <1>6
  <2>2. p[j] \in Preceding(keys, p[i])
    BY <1>12, <2>1 DEF Preceding
  <2>3. C(p[j]) < C(p[i])
    BY <1>3, <2>1, <2>2
  <2>4. C(p[j]) = j - 1 /\ C(p[i]) = i - 1
    BY <1>6
  <2> HIDE DEF C
  <2> QED BY <1>12, <2>3, <2>4
<1>13. IsPermutation(p, n)
  BY <1>8, <1>9, <1>10 DEF IsPermutation
<1> QED BY <1>11, <1>12, <1>13

-----------------------------------------------------------------------------
(* What intervals cover.                                                   *)

SpanKeys(s) == [i \in DOMAIN s |-> <<s[i].start, s[i].end>>]

(* Sorting by start loses nothing.                                         *)
LEMMA ByStartFacts ==
    ASSUME NEW s \in Seq(Spans)
    PROVE  /\ ByStart(s) \in Seq(Spans) /\ Len(ByStart(s)) = Len(s)
           /\ Heard(ByStart(s)) = Heard(s)
           /\ \A j, k \in DOMAIN ByStart(s) :
                 j < k => ByStart(s)[j].start =< ByStart(s)[k].start
<1> DEFINE n == Len(s)
           keys == SpanKeys(s)
           t == ByStart(s)
<1>1. n \in Nat /\ DOMAIN s = 1..n
  OBVIOUS
<1>2. \A i \in 1..n : s[i] \in Spans /\ s[i].start \in Nat /\ s[i].end \in Nat
  BY SpanFields
<1>3. /\ keys \in [1..n -> Int \X Int]
      /\ \A i \in 1..n : keys[i][1] = s[i].start
  BY <1>1, <1>2 DEF SpanKeys
<1>4. t = Sorted(s, keys)
  BY DEF ByStart, SpanKeys
<1>5. PICK p : /\ IsPermutation(p, n)
               /\ t = [i \in 1..n |-> s[p[i]]]
               /\ \A i, j \in 1..n : i < j => ~ Less(keys[p[j]], keys[p[i]])
  <2> HIDE DEF keys, t
  <2> QED BY <1>3, <1>4, SortedPermutes
<1> HIDE DEF t, keys
<1>6. \A i \in 1..n : p[i] \in 1..n /\ t[i] = s[p[i]]
  BY <1>5 DEF IsPermutation
<1>7. t \in Seq(Spans) /\ Len(t) = n /\ DOMAIN t = 1..n
  BY <1>1, <1>2, <1>5, <1>6
<1>8. Heard(t) = Heard(s)
  <2>1. \A i \in 1..n : \E j \in 1..n : t[j] = s[i]
    BY <1>5, <1>6 DEF IsPermutation
  <2>2. \A i \in 1..n : \E j \in 1..n : t[i] = s[j]
    BY <1>6
  <2> QED BY <1>1, <1>7, <2>1, <2>2 DEF Heard
<1>9. ASSUME NEW j \in 1..n, NEW k \in 1..n, j < k
      PROVE  t[j].start =< t[k].start
  <2>1. p[j] \in 1..n /\ p[k] \in 1..n /\ t[j] = s[p[j]] /\ t[k] = s[p[k]]
    BY <1>6
  <2>2. ~ Less(keys[p[k]], keys[p[j]])
    BY <1>5, <1>9
  <2>3. ~ (s[p[k]].start < s[p[j]].start)
    BY <1>3, <2>1, <2>2 DEF Less
  <2> QED BY <1>2, <2>1, <2>3
<1> QED BY <1>7, <1>8, <1>9 DEF t

LEMMA InstantsOf ==
    ASSUME NEW a \in Nat, NEW b \in Nat, a < b
    PROVE  IsFiniteSet(a..(b - 1)) /\ Cardinality(a..(b - 1)) = b - a
<1>1. a \in Int /\ b - 1 \in Int /\ ~ (a > b - 1) /\ (b - 1) - a + 1 = b - a
  OBVIOUS
<1> QED BY <1>1, FS_Interval

(* The union of two finite sets that have nothing in common.               *)
LEMMA DisjointUnion ==
    ASSUME NEW S, NEW T, IsFiniteSet(S), IsFiniteSet(T), S \cap T = {}
    PROVE  /\ IsFiniteSet(S \cup T)
           /\ Cardinality(S \cup T) = Cardinality(S) + Cardinality(T)
<1>1. Cardinality(S) \in Nat /\ Cardinality(T) \in Nat
  BY FS_CardinalityType
<1>2. Cardinality(S \cap T) = 0
  BY FS_EmptySet
<1>3. IsFiniteSet(S \cup T) /\ Cardinality(S \cup T) =
         Cardinality(S) + Cardinality(T) - Cardinality(S \cap T)
  BY FS_Union
<1> QED BY <1>1, <1>2, <1>3

LEMMA HeardStep ==
    ASSUME NEW s \in Seq(Spans), NEW i \in 0..(Len(s) - 1)
    PROVE  /\ HeardTo(s, 0) = {}
           /\ HeardTo(s, i + 1) = HeardTo(s, i) \cup s[i + 1].start..(s[i + 1].end - 1)
<1>1. 1..(i + 1) = (1..i) \cup {i + 1} /\ 1..0 = {}
  OBVIOUS
<1> QED BY <1>1 DEF HeardTo, Instants

Adding(s) == Loop(Add, 0, s)

LEMMA AddLoop ==
    ASSUME NEW s \in Seq(Spans)
    PROVE  /\ Adding(s)[0] = 0
           /\ \A i \in 1..Len(s) :
                 Adding(s)[i] = Adding(s)[i - 1] + (s[i].end - s[i].start)
<1> DEFINE n == Len(s)
           V == Int
           first == 0
           step == [x \in (1..n) \X V |-> Add(x[2], s[x[1]])]
           body(g) == [i \in 0..n |-> IF i = 0 THEN first ELSE Add(g[i - 1], s[i])]
<1>1. step \in Steps(n, V)
  <2>1. ASSUME NEW x \in (1..n) \X V PROVE Add(x[2], s[x[1]]) \in V
    <3>1. x[2] \in Int /\ s[x[1]] \in Spans
      OBVIOUS
    <3> QED BY <3>1, SpanFields DEF Add, LengthOf
  <2> QED BY <2>1 DEF Steps
<1>2. n \in Nat /\ first \in V
  OBVIOUS
<1>3. PICK g \in [0..n -> V] : /\ g[0] = first
                               /\ \A i \in 1..n : g[i] = step[<<i, g[i - 1]>>]
  <2> HIDE DEF step, V, n, first
  <2>1. HasValues(n, V, first, step)
    BY <1>1, <1>2, LoopExists
  <2> QED BY <2>1 DEF HasValues
<1>4. ASSUME NEW i \in 1..n PROVE g[i] = Add(g[i - 1], s[i])
  <2>1. i - 1 \in 0..n /\ g[i - 1] \in V
    BY <1>3
  <2>2. <<i, g[i - 1]>> \in (1..n) \X V
    BY <2>1
  <2> QED BY <1>3, <2>2
<1>5. g = body(g)
  BY <1>3, <1>4
<1>6. Adding(s) = CHOOSE h : h = body(h)
  BY DEF Adding, Loop
<1>7. Adding(s) = body(Adding(s))
  <2> HIDE DEF body
  <2> QED BY <1>5, <1>6
<1>8. Adding(s)[0] = first
  BY <1>2, <1>7
<1>9. ASSUME NEW i \in 1..n PROVE Adding(s)[i] = Add(Adding(s)[i - 1], s[i])
  <2>1. i \in 0..n /\ i # 0
    BY <1>2
  <2> QED BY <1>7, <2>1
<1> QED BY <1>8, <1>9 DEF Add, LengthOf

(* Intervals that are apart cover as much as they are long.                *)
LEMMA CoveredCounts ==
    ASSUME NEW m \in Seq(Spans), Apart(m)
    PROVE  IsFiniteSet(Heard(m)) /\ Covered(m) = Cardinality(Heard(m))
<1> DEFINE n == Len(m)
           S == {i \in 0..n : /\ IsFiniteSet(HeardTo(m, i))
                              /\ Adding(m)[i] = Cardinality(HeardTo(m, i))}
<1>1. n \in Nat /\ DOMAIN m = 1..n
  OBVIOUS
<1>2. 0 \in S
  <2>1. HeardTo(m, 0) = {}
    BY DEF HeardTo
  <2>2. IsFiniteSet(HeardTo(m, 0)) /\ Cardinality(HeardTo(m, 0)) = 0
    BY <2>1, FS_EmptySet
  <2>3. Adding(m)[0] = 0
    BY AddLoop
  <2> QED BY <1>1, <2>2, <2>3
<1>3. ASSUME NEW i \in 0..(n - 1), i \in S PROVE i + 1 \in S
  <2> DEFINE e == m[i + 1]
             H == HeardTo(m, i)
             I == e.start..(e.end - 1)
  <2>1. /\ i + 1 \in 1..n /\ (i + 1) - 1 = i /\ i \in 0..n
        /\ 1..i \subseteq DOMAIN m /\ \A j \in 1..i : j < i + 1
    BY <1>1
  <2>2. e.start \in Nat /\ e.end \in Nat /\ e.start < e.end
    BY <2>1, SpanFields
  <2>3. IsFiniteSet(I) /\ Cardinality(I) = e.end - e.start
    <3> HIDE DEF e
    <3> QED BY <2>2, InstantsOf
  <2>4. H \cap I = {}
    <3>1. SUFFICES ASSUME NEW x \in H, x \in I PROVE FALSE
      OBVIOUS
    <3>2. PICK j \in 1..i : x \in Nat /\ m[j].start =< x /\ x < m[j].end
      BY <2>1, <3>1, HeardIs
    <3>3. m[j].end < e.start /\ m[j].end \in Nat
      BY <2>1, <3>2, SpanFields DEF Apart
    <3> HIDE DEF e, H
    <3> QED BY <2>2, <3>1, <3>2, <3>3
  <2>5. HeardTo(m, i + 1) = H \cup I
    BY HeardStep
  <2>6. Adding(m)[i + 1] = Adding(m)[i] + (e.end - e.start)
    <3> HIDE DEF e
    <3> QED BY <2>1, AddLoop DEF e
  <2>7. IsFiniteSet(H) /\ Adding(m)[i] = Cardinality(H)
    BY <1>3
  <2> HIDE DEF e, H, I
  <2>8. IsFiniteSet(H \cup I) /\ Cardinality(H \cup I) = Cardinality(H) + Cardinality(I)
    BY <2>3, <2>4, <2>7, DisjointUnion
  <2>9. i + 1 \in 0..n
    BY <1>1
  <2> QED BY <2>3, <2>5, <2>6, <2>7, <2>8, <2>9
<1>4. n \in S
  <2> HIDE DEF S
  <2>1. \A i \in 0..n : i \in S
    BY <1>1, <1>2, <1>3, BoundedInduction
  <2> QED BY <1>1, <2>1
<1>5. Covered(m) = Adding(m)[n] /\ HeardTo(m, n) = Heard(m)
  BY HeardIs DEF Covered, Adding
<1> QED BY <1>4, <1>5

Impacts == [affected : Int, maxEnd : Int]

Marking(s) == Loop(AddMarker, [affected |-> 0, maxEnd |-> -1], s)

(* What a marker adds depends on where it lies to the last end so far.     *)
LEMMA AddMarkerIs ==
    ASSUME NEW v \in Impacts, NEW s \in Spans
    PROVE  /\ AddMarker(v, s) \in Impacts
           /\ s.start >= v.maxEnd =>
                 AddMarker(v, s).affected = v.affected + (s.end - s.start)
           /\ s.start < v.maxEnd /\ s.end > v.maxEnd =>
                 AddMarker(v, s).affected = v.affected + (s.end - v.maxEnd)
           /\ s.start < v.maxEnd /\ s.end =< v.maxEnd =>
                 AddMarker(v, s).affected = v.affected
           /\ AddMarker(v, s).maxEnd = IF s.end > v.maxEnd THEN s.end ELSE v.maxEnd
<1>1. s.start \in Int /\ s.end \in Int /\ v.affected \in Int /\ v.maxEnd \in Int
  BY SpanFields DEF Impacts
<1> QED BY <1>1 DEF AddMarker, Impacts, LengthOf

LEMMA MarkLoop ==
    ASSUME NEW s \in Seq(Spans)
    PROVE  /\ Marking(s)[0] = [affected |-> 0, maxEnd |-> -1]
           /\ \A i \in 1..Len(s) : Marking(s)[i] = AddMarker(Marking(s)[i - 1], s[i])
<1> DEFINE n == Len(s)
           V == Impacts
           first == [affected |-> 0, maxEnd |-> -1]
           step == [x \in (1..n) \X V |-> AddMarker(x[2], s[x[1]])]
           body(g) == [i \in 0..n |-> IF i = 0 THEN first ELSE AddMarker(g[i - 1], s[i])]
<1>1. step \in Steps(n, V)
  <2>1. ASSUME NEW x \in (1..n) \X V PROVE AddMarker(x[2], s[x[1]]) \in V
    <3>1. x[2] \in Impacts /\ s[x[1]] \in Spans
      OBVIOUS
    <3> QED BY <3>1, AddMarkerIs
  <2> QED BY <2>1 DEF Steps
<1>2. n \in Nat /\ first \in V
  BY DEF Impacts
<1>3. PICK g \in [0..n -> V] : /\ g[0] = first
                               /\ \A i \in 1..n : g[i] = step[<<i, g[i - 1]>>]
  <2> HIDE DEF step, V, n, first
  <2>1. HasValues(n, V, first, step)
    BY <1>1, <1>2, LoopExists
  <2> QED BY <2>1 DEF HasValues
<1>4. ASSUME NEW i \in 1..n PROVE g[i] = AddMarker(g[i - 1], s[i])
  <2>1. i - 1 \in 0..n /\ g[i - 1] \in V
    BY <1>3
  <2>2. <<i, g[i - 1]>> \in (1..n) \X V
    BY <2>1
  <2> QED BY <1>3, <2>2
<1>5. g = body(g)
  <2> HIDE DEF first
  <2> QED BY <1>3, <1>4
<1>6. Marking(s) = CHOOSE h : h = body(h)
  BY DEF Marking, Loop
<1>7. Marking(s) = body(Marking(s))
  <2> HIDE DEF body
  <2> QED BY <1>5, <1>6
<1>8. Marking(s)[0] = first
  <2> HIDE DEF first
  <2> QED BY <1>2, <1>7
<1>9. ASSUME NEW i \in 1..n PROVE Marking(s)[i] = AddMarker(Marking(s)[i - 1], s[i])
  <2>1. i \in 0..n /\ i # 0
    BY <1>2
  <2> HIDE DEF first
  <2> QED BY <1>7, <2>1
<1> QED BY <1>8, <1>9

(* After i markers, in the order of their starts: the largest end, and as  *)
(* much as they cover.                                                     *)
MarkedWell(s, i, v) ==
    /\ v \in Impacts
    /\ i = 0 => v.maxEnd = -1
    /\ i > 0 => \E j \in 1..i : s[j].end = v.maxEnd
    /\ \A j \in 1..i : s[j].end =< v.maxEnd
    /\ IsFiniteSet(HeardTo(s, i)) /\ v.affected = Cardinality(HeardTo(s, i))

(* The next marker in the order of starts adds what only it covers.        *)
LEMMA MarkStep ==
    ASSUME NEW s \in Seq(Spans), NEW i \in 0..(Len(s) - 1),
           \A j, k \in DOMAIN s : j < k => s[j].start =< s[k].start,
           NEW v, MarkedWell(s, i, v)
    PROVE  MarkedWell(s, i + 1, AddMarker(v, s[i + 1]))
<1> DEFINE e == s[i + 1]
           w == AddMarker(v, e)
           H == HeardTo(s, i)
<1>1. /\ i \in Nat /\ i + 1 \in DOMAIN s /\ e \in Spans
      /\ 1..(i + 1) = (1..i) \cup {i + 1} /\ 1..i \subseteq DOMAIN s
      /\ \A j \in 1..i : j < i + 1
  OBVIOUS
<1>2. e.start \in Nat /\ e.end \in Nat /\ e.start < e.end
  BY <1>1, SpanFields
<1>3. v \in Impacts /\ v.affected \in Int /\ v.maxEnd \in Int
  BY DEF MarkedWell, Impacts
<1>4. IsFiniteSet(H) /\ v.affected = Cardinality(H)
  BY DEF MarkedWell
<1>5. HeardTo(s, i + 1) = H \cup e.start..(e.end - 1)
  BY HeardStep
<1>6. \A x : x \in H <=> \E j \in 1..i : x \in Nat /\ s[j].start =< x /\ x < s[j].end
  BY <1>1, HeardIs
<1>7. \A j \in 1..i : /\ s[j].start \in Nat /\ s[j].end \in Nat
                      /\ s[j].start =< e.start /\ s[j].end =< v.maxEnd
  <2>1. ASSUME NEW j \in 1..i PROVE s[j].start \in Nat /\ s[j].end \in Nat
    <3>1. s[j] \in Spans
      BY <1>1
    <3> QED BY <3>1, SpanFields
  <2>2. \A j \in 1..i : s[j].start =< e.start
    BY <1>1
  <2>3. \A j \in 1..i : s[j].end =< v.maxEnd
    BY DEF MarkedWell
  <2> QED BY <2>1, <2>2, <2>3
<1> HIDE DEF e, H
<1>8. \A x \in H : x \in Nat /\ x < v.maxEnd
  <2>1. SUFFICES ASSUME NEW x \in H PROVE x \in Nat /\ x < v.maxEnd
    OBVIOUS
  <2>2. PICK j \in 1..i : x \in Nat /\ s[j].start =< x /\ x < s[j].end
    BY <1>6
  <2>3. s[j].end \in Nat /\ s[j].end =< v.maxEnd
    BY <1>7
  <2> QED BY <1>3, <2>2, <2>3
<1>9. ASSUME NEW x \in Nat, e.start =< x, x < v.maxEnd PROVE x \in H
  <2>1. i > 0
    <3>1. CASE i = 0
      <4>1. v.maxEnd = -1
        BY <3>1 DEF MarkedWell
      <4> QED BY <1>2, <1>9, <4>1
    <3> QED BY <1>1, <3>1
  <2>2. PICK j \in 1..i : s[j].end = v.maxEnd
    BY <2>1 DEF MarkedWell
  <2>3. s[j].start =< x
    BY <1>2, <1>7, <1>9
  <2> QED BY <1>6, <1>9, <2>2, <2>3
<1>10. IsFiniteSet(HeardTo(s, i + 1)) /\ w.affected = Cardinality(HeardTo(s, i + 1))
  <2>1. CASE e.start >= v.maxEnd
    <3> DEFINE I == e.start..(e.end - 1)
    <3>1. H \cap I = {}
      BY <1>2, <1>3, <1>8, <2>1
    <3>2. IsFiniteSet(I) /\ Cardinality(I) = e.end - e.start
      BY <1>2, InstantsOf
    <3>3. w.affected = v.affected + (e.end - e.start)
      BY <1>1, <1>3, <2>1, AddMarkerIs
    <3> HIDE DEF I, w
    <3>4. IsFiniteSet(H \cup I) /\ Cardinality(H \cup I) = Cardinality(H) + Cardinality(I)
      BY <1>4, <3>1, <3>2, DisjointUnion
    <3> QED BY <1>4, <1>5, <3>2, <3>3, <3>4 DEF I
  <2>2. CASE e.start < v.maxEnd /\ e.end > v.maxEnd
    <3> DEFINE I == v.maxEnd..(e.end - 1)
    <3>1. H \cap I = {}
      BY <1>2, <1>3, <1>8
    <3>2. H \cup I = H \cup e.start..(e.end - 1)
      BY <1>2, <1>3, <1>9, <2>2
    <3>3. v.maxEnd \in Nat
      BY <1>2, <1>3, <2>2
    <3>4. IsFiniteSet(I) /\ Cardinality(I) = e.end - v.maxEnd
      BY <1>2, <2>2, <3>3, InstantsOf
    <3>5. w.affected = v.affected + (e.end - v.maxEnd)
      BY <1>1, <1>3, <2>2, AddMarkerIs
    <3> HIDE DEF I, w
    <3>6. IsFiniteSet(H \cup I) /\ Cardinality(H \cup I) = Cardinality(H) + Cardinality(I)
      BY <1>4, <3>1, <3>4, DisjointUnion
    <3> QED BY <1>4, <1>5, <3>2, <3>4, <3>5, <3>6
  <2>3. CASE e.start < v.maxEnd /\ e.end =< v.maxEnd
    <3>1. H = H \cup e.start..(e.end - 1)
      BY <1>2, <1>3, <1>9, <2>3
    <3>2. w.affected = v.affected
      BY <1>1, <1>3, <2>3, AddMarkerIs
    <3> QED BY <1>4, <1>5, <3>1, <3>2
  <2> QED BY <1>2, <1>3, <2>1, <2>2, <2>3
<1>11. w \in Impacts /\ w.maxEnd = IF e.end > v.maxEnd THEN e.end ELSE v.maxEnd
  BY <1>1, <1>3, AddMarkerIs
<1> HIDE DEF w
<1>12. \A j \in 1..(i + 1) : s[j].end =< w.maxEnd
  BY <1>1, <1>2, <1>3, <1>7, <1>11 DEF e
<1>13. \E j \in 1..(i + 1) : s[j].end = w.maxEnd
  <2>1. CASE e.end > v.maxEnd
    BY <1>1, <1>11, <2>1 DEF e
  <2>2. CASE ~ (e.end > v.maxEnd)
    <3>1. i > 0
      <4>1. CASE i = 0
        <5>1. v.maxEnd = -1
          BY <4>1 DEF MarkedWell
        <5> QED BY <1>2, <2>2, <5>1
      <4> QED BY <1>1, <4>1
    <3>2. \E j \in 1..i : s[j].end = v.maxEnd
      BY <3>1 DEF MarkedWell
    <3> QED BY <1>1, <1>11, <2>2, <3>2
  <2> QED BY <2>1, <2>2
<1>14. i + 1 # 0
  BY <1>1
<1> QED BY <1>10, <1>11, <1>12, <1>13, <1>14 DEF MarkedWell, e, w

(* Markers affect as much as they cover.                                   *)
LEMMA AffectedCounts ==
    ASSUME NEW s \in Seq(Spans)
    PROVE  Affected(s) = Cardinality(Heard(s))
<1> DEFINE t == ByStart(s)
           n == Len(s)
           S == {i \in 0..n : MarkedWell(t, i, Marking(t)[i])}
<1>1. /\ t \in Seq(Spans) /\ Len(t) = n /\ Heard(t) = Heard(s) /\ n \in Nat
      /\ \A j, k \in DOMAIN t : j < k => t[j].start =< t[k].start
  BY ByStartFacts
<1>2. Affected(s) = Marking(t)[n].affected
  BY DEF Affected, Marking
<1> HIDE DEF t, n
<1>3. 0 \in S
  <2>1. Marking(t)[0] = [affected |-> 0, maxEnd |-> -1]
    BY <1>1, MarkLoop
  <2>2. HeardTo(t, 0) = {}
    BY DEF HeardTo
  <2>3. IsFiniteSet(HeardTo(t, 0)) /\ 0 = Cardinality(HeardTo(t, 0))
    BY <2>2, FS_EmptySet
  <2> DEFINE v == Marking(t)[0]
  <2>4. v \in Impacts /\ v.maxEnd = -1 /\ v.affected = 0
    BY <2>1 DEF Impacts
  <2> HIDE DEF v
  <2>5. MarkedWell(t, 0, v)
    BY <2>3, <2>4 DEF MarkedWell
  <2> QED BY <1>1, <2>5 DEF v
<1>4. ASSUME NEW i \in 0..(n - 1), i \in S PROVE i + 1 \in S
  <2>1. i + 1 \in 1..n /\ (i + 1) - 1 = i /\ i + 1 \in 0..n
    BY <1>1
  <2>2. Marking(t)[i + 1] = AddMarker(Marking(t)[i], t[i + 1])
    BY <1>1, <2>1, MarkLoop
  <2>3. MarkedWell(t, i + 1, AddMarker(Marking(t)[i], t[i + 1]))
    BY <1>1, <1>4, MarkStep
  <2> QED BY <2>1, <2>2, <2>3
<1>5. n \in S
  <2> HIDE DEF S
  <2>1. \A i \in 0..n : i \in S
    BY <1>1, <1>3, <1>4, BoundedInduction
  <2> QED BY <1>1, <2>1
<1>6. HeardTo(t, n) = Heard(s)
  BY <1>1, HeardIs
<1> QED BY <1>2, <1>5, <1>6 DEF MarkedWell

(* What has been merged is apart, covers the same, and is as long as that. *)
LEMMA MergedFacts ==
    ASSUME NEW s \in Seq(Spans)
    PROVE  /\ Merged(s) \in Seq(Spans) /\ Apart(Merged(s))
           /\ Heard(Merged(s)) = Heard(s)
<1> DEFINE t == ByStart(s)
           n == Len(s)
<1>1. /\ t \in Seq(Spans) /\ Len(t) = n /\ Heard(t) = Heard(s) /\ n \in Nat
      /\ \A j, k \in DOMAIN t : j < k => t[j].start =< t[k].start
  BY ByStartFacts
<1>2. Merged(s) = Merging(t)[n]
  BY DEF Merged, Merging
<1> HIDE DEF t, n
<1>3. MergedWell(t, n, Merging(t)[n])
  <2>1. n \in 0..Len(t)
    BY <1>1
  <2> QED BY <1>1, <2>1, MergeInvariant
<1>4. HeardTo(t, n) = Heard(s)
  BY <1>1, HeardIs
<1> QED BY <1>2, <1>3, <1>4 DEF MergedWell

(* A span lies in one of the intervals that are apart exactly when each of *)
(* its instants lies in some.                                              *)
LEMMA InsideIsHeard ==
    ASSUME NEW m \in Seq(Spans), Apart(m), NEW a \in Spans
    PROVE  InsideInterval(m, a) <=> Instants(a) \subseteq Heard(m)
<1>1. a.start \in Nat /\ a.end \in Nat /\ a.start < a.end
  BY SpanFields
<1>2. \A j \in DOMAIN m : m[j].start \in Nat /\ m[j].end \in Nat /\ m[j].start < m[j].end
  BY SpanFields
<1>3. \A x : x \in Heard(m) <=>
               \E j \in DOMAIN m : x \in Nat /\ m[j].start =< x /\ x < m[j].end
  BY HeardIs
<1>4. \A x : x \in Instants(a) <=> x \in Nat /\ a.start =< x /\ x < a.end
  BY <1>1 DEF Instants
<1>5. ASSUME InsideInterval(m, a) PROVE Instants(a) \subseteq Heard(m)
  <2>1. PICK j \in DOMAIN m : a.start >= m[j].start /\ a.end =< m[j].end
    BY <1>5 DEF InsideInterval
  <2>2. SUFFICES ASSUME NEW x \in Instants(a) PROVE x \in Heard(m)
    OBVIOUS
  <2>3. x \in Nat /\ m[j].start =< x /\ x < m[j].end
    BY <1>1, <1>2, <1>4, <2>1
  <2> QED BY <1>3, <2>3
<1>6. ASSUME Instants(a) \subseteq Heard(m) PROVE InsideInterval(m, a)
  <2>1. PICK j \in DOMAIN m : m[j].start =< a.start /\ a.start < m[j].end
    <3>1. a.start \in Heard(m)
      BY <1>1, <1>4, <1>6
    <3> QED BY <1>3, <3>1
  <2>2. ASSUME ~ (a.end =< m[j].end) PROVE FALSE
    <3>1. m[j].end \in Instants(a)
      BY <1>1, <1>2, <1>4, <2>1, <2>2
    <3>2. PICK k \in DOMAIN m : m[k].start =< m[j].end /\ m[j].end < m[k].end
      BY <1>3, <1>6, <3>1
    <3>3. k # j
      BY <1>2, <3>2
    <3>4. CASE j < k
      <4>1. m[j].end < m[k].start
        BY <3>4 DEF Apart
      <4> QED BY <1>2, <3>2, <4>1
    <3>5. CASE k < j
      <4>1. m[k].end < m[j].start
        BY <3>5 DEF Apart
      <4> QED BY <1>2, <3>2, <4>1
    <3> QED BY <3>3, <3>4, <3>5
  <2>3. a.start >= m[j].start /\ a.end =< m[j].end
    BY <1>1, <1>2, <2>1, <2>2
  <2> QED BY <2>3 DEF InsideInterval
<1> QED BY <1>5, <1>6

(* An interval is covered in full exactly when every instant was heard.    *)
LEMMA FullCoverage ==
    ASSUME NEW s \in Seq(Spans), NEW duration \in Nat \ {0},
           \A i \in DOMAIN s : s[i].end =< duration
    PROVE  Sufficient(Merged(s), duration, TRUE) <=> Heard(s) = 0..(duration - 1)
<1> DEFINE H == Heard(s)
           I == 0..(duration - 1)
<1>1. IsFiniteSet(H) /\ Covered(Merged(s)) = Cardinality(H)
  <2>1. Merged(s) \in Seq(Spans) /\ Apart(Merged(s)) /\ Heard(Merged(s)) = H
    BY MergedFacts
  <2> QED BY <2>1, CoveredCounts
<1>2. IsFiniteSet(I) /\ Cardinality(I) = duration
  <2>1. 0 \in Nat /\ 0 < duration /\ duration - 0 = duration
    OBVIOUS
  <2> QED BY <2>1, InstantsOf
<1>3. H \subseteq I
  <2>1. SUFFICES ASSUME NEW x \in H PROVE x \in I
    OBVIOUS
  <2>2. PICK j \in DOMAIN s : x \in Nat /\ s[j].start =< x /\ x < s[j].end
    BY <2>1, HeardIs
  <2>3. s[j].end \in Nat /\ s[j].end =< duration
    BY SpanFields
  <2> QED BY <2>2, <2>3
<1>4. Sufficient(Merged(s), duration, TRUE) <=> Cardinality(H) >= duration
  BY <1>1 DEF Sufficient
<1> HIDE DEF H, I
<1>5. Cardinality(H) =< Cardinality(I) /\ (Cardinality(I) = Cardinality(H) => I = H)
  BY <1>2, <1>3, FS_Subset
<1>6. Cardinality(H) \in Nat
  BY <1>1, FS_CardinalityType
<1>7. Cardinality(H) >= duration <=> H = I
  <2>1. Cardinality(H) >= duration => Cardinality(I) = Cardinality(H)
    BY <1>2, <1>5, <1>6
  <2>2. H = I => Cardinality(H) >= duration
    BY <1>2
  <2> QED BY <1>5, <2>1, <2>2
<1> QED BY <1>4, <1>7 DEF H, I

-----------------------------------------------------------------------------
(* Pages of an audit.                                                      *)

Events == [revision : Nat \ {0}, wanted : BOOLEAN]

Pages == [after : Nat, limit : Nat \ {0}, shown : Seq(Nat \ {0}), more : BOOLEAN]

EmptyPage(after, limit) ==
    [after |-> after, limit |-> limit, shown |-> <<>>, more |-> FALSE]

LEMMA ShowIs ==
    ASSUME NEW p \in Pages, NEW e \in Events
    PROVE  /\ Show(p, e) \in Pages
           /\ Show(p, e).after = p.after /\ Show(p, e).limit = p.limit
           /\ p.more \/ ~e.wanted \/ e.revision =< p.after => Show(p, e) = p
           /\ ~p.more /\ e.wanted /\ e.revision > p.after
                /\ Len(p.shown) < p.limit =>
                 /\ Show(p, e).shown = Append(p.shown, e.revision)
                 /\ Show(p, e).more = FALSE
           /\ ~p.more /\ e.wanted /\ e.revision > p.after
                /\ ~ (Len(p.shown) < p.limit) =>
                 Show(p, e).shown = p.shown /\ Show(p, e).more = TRUE
<1>1. /\ p.after \in Nat /\ p.limit \in Nat \ {0}
      /\ p.shown \in Seq(Nat \ {0}) /\ p.more \in BOOLEAN
      /\ e.revision \in Nat \ {0} /\ e.wanted \in BOOLEAN
  BY DEF Pages, Events
<1>2. CASE ~e.wanted \/ e.revision =< p.after \/ p.more
  <2>1. Show(p, e) = p
    BY <1>2 DEF Show
  <2> QED BY <1>1, <1>2, <2>1
<1>3. CASE ~ (~e.wanted \/ e.revision =< p.after \/ p.more)
  <2>1. e.revision > p.after /\ e.wanted /\ ~p.more
    BY <1>1, <1>3
  <2>2. CASE Len(p.shown) < p.limit
    <3> DEFINE q == [p EXCEPT !.shown = Append(p.shown, e.revision)]
    <3>1. Show(p, e) = q
      BY <1>3, <2>2 DEF Show
    <3>2. Append(p.shown, e.revision) \in Seq(Nat \ {0})
      BY <1>1
    <3>3. /\ q \in Pages /\ q.after = p.after /\ q.limit = p.limit
          /\ q.shown = Append(p.shown, e.revision) /\ q.more = p.more
      BY <1>1, <3>2 DEF Pages
    <3> HIDE DEF q
    <3> QED BY <1>1, <2>1, <2>2, <3>1, <3>3
  <2>3. CASE ~ (Len(p.shown) < p.limit)
    <3> DEFINE q == [p EXCEPT !.more = TRUE]
    <3>1. Show(p, e) = q
      BY <1>3, <2>3 DEF Show
    <3>2. /\ q \in Pages /\ q.after = p.after /\ q.limit = p.limit
          /\ q.shown = p.shown /\ q.more = TRUE
      BY <1>1 DEF Pages
    <3> HIDE DEF q
    <3> QED BY <1>1, <2>1, <2>3, <3>1, <3>2
  <2> QED BY <2>2, <2>3
<1> QED BY <1>2, <1>3

Showing(s, after, limit) == Loop(Show, EmptyPage(after, limit), s)

LEMMA ShowLoop ==
    ASSUME NEW s \in Seq(Events), NEW after \in Nat, NEW limit \in Nat \ {0}
    PROVE  /\ Showing(s, after, limit)[0] = EmptyPage(after, limit)
           /\ \A i \in 1..Len(s) : Showing(s, after, limit)[i]
                 = Show(Showing(s, after, limit)[i - 1], s[i])
<1> DEFINE n == Len(s)
           V == Pages
           first == EmptyPage(after, limit)
           loop == Showing(s, after, limit)
           step == [x \in (1..n) \X V |-> Show(x[2], s[x[1]])]
           body(g) == [i \in 0..n |-> IF i = 0 THEN first ELSE Show(g[i - 1], s[i])]
<1>1. step \in Steps(n, V)
  <2>1. ASSUME NEW x \in (1..n) \X V PROVE Show(x[2], s[x[1]]) \in V
    <3>1. x[2] \in Pages /\ s[x[1]] \in Events
      OBVIOUS
    <3> QED BY <3>1, ShowIs
  <2> QED BY <2>1 DEF Steps
<1>2. n \in Nat /\ first \in V
  <2>1. <<>> \in Seq(Nat \ {0})
    OBVIOUS
  <2> QED BY <2>1 DEF Pages, EmptyPage
<1>3. PICK g \in [0..n -> V] : /\ g[0] = first
                               /\ \A i \in 1..n : g[i] = step[<<i, g[i - 1]>>]
  <2> HIDE DEF step, V, n, first
  <2>1. HasValues(n, V, first, step)
    BY <1>1, <1>2, LoopExists
  <2> QED BY <2>1 DEF HasValues
<1>4. ASSUME NEW i \in 1..n PROVE g[i] = Show(g[i - 1], s[i])
  <2>1. i - 1 \in 0..n /\ g[i - 1] \in V
    BY <1>3
  <2>2. <<i, g[i - 1]>> \in (1..n) \X V
    BY <2>1
  <2> QED BY <1>3, <2>2
<1>5. g = body(g)
  BY <1>3, <1>4
<1>6. loop = CHOOSE h : h = body(h)
  BY DEF Showing, Loop
<1>7. loop = body(loop)
  <2> HIDE DEF body
  <2> QED BY <1>5, <1>6
<1> HIDE DEF loop
<1>8. loop[0] = first
  BY <1>2, <1>7
<1>9. ASSUME NEW i \in 1..n PROVE loop[i] = Show(loop[i - 1], s[i])
  <2>1. i \in 0..n /\ i # 0
    BY <1>2
  <2> QED BY <1>7, <2>1
<1> QED BY <1>8, <1>9 DEF loop

ShownIn(p) == {p.shown[a] : a \in DOMAIN p.shown}

(* Of the first i events of an audit in order, a page shows the wanted     *)
(* ones after the last page up to its own last one, or all if no more      *)
(* follow.                                                                 *)
PageOf(s, i, p) ==
    /\ \A a, b \in DOMAIN p.shown : a < b => p.shown[a] < p.shown[b]
    /\ ~p.more => ShownIn(p) = {k \in 1..i : k > p.after /\ s[k].wanted}
    /\ p.more => ShownIn(p) = {k \in 1..i : /\ k > p.after /\ s[k].wanted
                                            /\ k =< p.shown[Len(p.shown)]}

PageWell(s, i, p, after, limit) ==
    /\ p \in Pages /\ p.after = after /\ p.limit = limit
    /\ p.more => p.shown # <<>>
    /\ (\A k \in DOMAIN s : s[k].revision = k) => PageOf(s, i, p)

(* One more event of an audit without gaps is on the page, or past its end. *)
LEMMA ShowStep ==
    ASSUME NEW s \in Seq(Events), NEW after \in Nat, NEW limit \in Nat \ {0},
           NEW i \in 0..(Len(s) - 1), NEW p, PageWell(s, i, p, after, limit)
    PROVE  PageWell(s, i + 1, Show(p, s[i + 1]), after, limit)
<1> DEFINE e == s[i + 1]
           q == Show(p, e)
<1>1. /\ i \in Nat /\ i + 1 \in DOMAIN s /\ e \in Events
      /\ 1..(i + 1) = (1..i) \cup {i + 1}
  OBVIOUS
<1>2. p \in Pages /\ p.after = after /\ p.limit = limit /\ (p.more => p.shown # <<>>)
  BY DEF PageWell
<1>3. /\ p.after \in Nat /\ p.limit \in Nat \ {0} /\ p.more \in BOOLEAN
      /\ p.shown \in Seq(Nat \ {0}) /\ Len(p.shown) \in Nat
      /\ DOMAIN p.shown = 1..Len(p.shown)
  BY <1>2 DEF Pages
<1>4. e.revision \in Nat \ {0} /\ e.wanted \in BOOLEAN
  BY <1>1 DEF Events
<1>5. /\ q \in Pages /\ q.after = after /\ q.limit = limit
      /\ p.more \/ ~e.wanted \/ e.revision =< p.after => q = p
      /\ ~p.more /\ e.wanted /\ e.revision > p.after /\ Len(p.shown) < p.limit =>
            q.shown = Append(p.shown, e.revision) /\ q.more = FALSE
      /\ ~p.more /\ e.wanted /\ e.revision > p.after /\ ~ (Len(p.shown) < p.limit) =>
            q.shown = p.shown /\ q.more = TRUE
  BY <1>1, <1>2, ShowIs
<1> HIDE DEF q, e
<1>6. q.more => q.shown # <<>>
  <2>1. CASE p.more \/ ~e.wanted \/ e.revision =< p.after
    BY <1>2, <1>5, <2>1
  <2>2. CASE ~p.more /\ e.wanted /\ e.revision > p.after
    <3>1. ~ (Len(p.shown) < p.limit) => p.shown # <<>>
      BY <1>3
    <3> QED BY <1>5, <2>2, <3>1
  <2> QED BY <1>3, <1>4, <2>1, <2>2
<1>7. ASSUME \A k \in DOMAIN s : s[k].revision = k
      PROVE  PageOf(s, i + 1, q)
  <2>1. PageOf(s, i, p)
    BY <1>7 DEF PageWell
  <2>2. e.revision = i + 1 /\ s[i + 1].wanted = e.wanted
    BY <1>1, <1>7 DEF e
  <2>3. CASE p.more
    <3>1. q = p
      BY <1>5, <2>3
    <3>2. p.shown[Len(p.shown)] \in ShownIn(p)
      <4>1. Len(p.shown) \in DOMAIN p.shown
        BY <1>2, <1>3, <2>3
      <4> QED BY <4>1 DEF ShownIn
    <3>3. ShownIn(p) = {k \in 1..i : k > p.after /\ s[k].wanted /\ k =< p.shown[Len(p.shown)]}
      BY <2>1, <2>3 DEF PageOf
    <3>4. p.shown[Len(p.shown)] \in 1..i
      BY <3>2, <3>3
    <3>5. ~ (i + 1 =< p.shown[Len(p.shown)])
      BY <1>1, <3>4
    <3>6. ShownIn(p) = {k \in 1..(i + 1) : k > p.after /\ s[k].wanted /\ k =< p.shown[Len(p.shown)]}
      BY <1>1, <3>3, <3>5
    <3> QED BY <2>1, <2>3, <3>1, <3>6 DEF PageOf
  <2>4. CASE ~p.more /\ ~ (e.wanted /\ e.revision > p.after)
    <3>1. q = p
      BY <1>3, <1>4, <1>5, <2>4
    <3>2. ShownIn(p) = {k \in 1..i : k > p.after /\ s[k].wanted}
      BY <2>1, <2>4 DEF PageOf
    <3>3. ShownIn(p) = {k \in 1..(i + 1) : k > p.after /\ s[k].wanted}
      BY <1>1, <2>2, <2>4, <3>2
    <3> QED BY <2>1, <2>4, <3>1, <3>3 DEF PageOf
  <2>5. CASE ~p.more /\ e.wanted /\ e.revision > p.after
    <3>1. ShownIn(p) = {k \in 1..i : k > p.after /\ s[k].wanted}
      BY <2>1, <2>5 DEF PageOf
    <3>2. \A a \in DOMAIN p.shown : p.shown[a] \in 1..i
      BY <3>1 DEF ShownIn
    <3>3. \A a, b \in DOMAIN p.shown : a < b => p.shown[a] < p.shown[b]
      BY <2>1 DEF PageOf
    <3>4. CASE Len(p.shown) < p.limit
      <4> DEFINE l == Len(p.shown)
      <4>1. q.shown = Append(p.shown, i + 1) /\ q.more = FALSE
        BY <1>5, <2>2, <2>5, <3>4
      <4>2. /\ DOMAIN q.shown = (DOMAIN p.shown) \cup {l + 1} /\ q.shown[l + 1] = i + 1
            /\ \A a \in DOMAIN p.shown : q.shown[a] = p.shown[a] /\ a < l + 1
        <5>1. i + 1 \in Nat \ {0}
          BY <1>1
        <5>2. p.shown \in Seq(Nat \ {0}) /\ l \in Nat /\ DOMAIN p.shown = 1..l
          BY <1>3
        <5>3. 1..(l + 1) = (1..l) \cup {l + 1} /\ \A a \in 1..l : a < l + 1
          BY <5>2
        <5>4. /\ DOMAIN q.shown = 1..(l + 1) /\ q.shown[l + 1] = i + 1
              /\ \A a \in 1..l : q.shown[a] = p.shown[a]
          BY <4>1, <5>1, <5>2
        <5> QED BY <5>2, <5>3, <5>4
      <4>3. ShownIn(q) = ShownIn(p) \cup {i + 1}
        BY <4>2 DEF ShownIn
      <4>4. ShownIn(q) = {k \in 1..(i + 1) : k > p.after /\ s[k].wanted}
        BY <1>1, <2>2, <2>5, <3>1, <4>3
      <4>5. ASSUME NEW a \in DOMAIN q.shown, NEW b \in DOMAIN q.shown, a < b
            PROVE  q.shown[a] < q.shown[b]
        <5>1. a \in DOMAIN p.shown
          <6>1. CASE a = l + 1
            <7>1. b \in DOMAIN p.shown \/ b = l + 1
              BY <4>2
            <7>2. b =< l + 1
              BY <1>3, <4>2, <7>1
            <7> QED BY <1>3, <4>5, <6>1, <7>1, <7>2
          <6> QED BY <4>2, <6>1
        <5>2. CASE b = l + 1
          <6>1. p.shown[a] \in 1..i
            BY <3>2, <5>1
          <6> HIDE DEF l
          <6> QED BY <1>1, <4>2, <5>1, <5>2, <6>1
        <5>3. CASE b # l + 1
          <6>1. b \in DOMAIN p.shown
            BY <4>2, <5>3
          <6> QED BY <3>3, <4>2, <4>5, <5>1, <6>1
        <5> QED BY <5>2, <5>3
      <4>6. q.after = p.after
        BY <1>2, <1>5
      <4> QED BY <4>1, <4>4, <4>5, <4>6 DEF PageOf
    <3>5. CASE ~ (Len(p.shown) < p.limit)
      <4>1. q.shown = p.shown /\ q.more = TRUE /\ q.after = p.after
        BY <1>2, <1>5, <2>5, <3>5
      <4> DEFINE last == p.shown[Len(p.shown)]
      <4>2. Len(p.shown) \in DOMAIN p.shown
        BY <1>3, <3>5
      <4>3. last \in 1..i
        BY <3>2, <4>2
      <4>4. \A a \in DOMAIN p.shown : p.shown[a] =< last
        <5>1. SUFFICES ASSUME NEW a \in DOMAIN p.shown PROVE p.shown[a] =< last
          OBVIOUS
        <5>2. a = Len(p.shown) \/ a < Len(p.shown)
          BY <1>3
        <5>3. a < Len(p.shown) => p.shown[a] < last
          BY <3>3, <4>2
        <5>4. p.shown[a] \in Nat /\ last \in Nat
          BY <3>2, <4>3
        <5> HIDE DEF last
        <5> QED BY <5>2, <5>3, <5>4 DEF last
      <4>5. \A k \in ShownIn(p) : k =< last
        BY <4>4 DEF ShownIn
      <4> HIDE DEF last
      <4>6. ShownIn(p) = {k \in 1..(i + 1) : k > p.after /\ s[k].wanted /\ k =< last}
        <5>1. ~ (i + 1 =< last)
          BY <1>1, <4>3
        <5> QED BY <1>1, <3>1, <4>5, <5>1
      <4>7. ShownIn(q) = ShownIn(p)
        BY <4>1 DEF ShownIn
      <4> QED BY <3>3, <4>1, <4>6, <4>7 DEF PageOf, last
    <3> QED BY <3>4, <3>5
  <2> QED BY <1>3, <1>4, <2>3, <2>4, <2>5
<1> QED BY <1>5, <1>6, <1>7 DEF PageWell, q, e

(* The page after the last event of the audit.                             *)
LEMMA PageFacts ==
    ASSUME NEW after \in Nat, NEW limit \in Nat \ {0}, entries \in Seq(Events)
    PROVE  PageWell(entries, Len(entries), Page(after, limit), after, limit)
<1> DEFINE n == Len(entries)
           P(i) == Showing(entries, after, limit)[i]
           S == {i \in 0..n : PageWell(entries, i, P(i), after, limit)}
<1>1. n \in Nat
  OBVIOUS
<1>2. 0 \in S
  <2> DEFINE p == EmptyPage(after, limit)
  <2>1. P(0) = p
    BY ShowLoop
  <2>2. <<>> \in Seq(Nat \ {0}) /\ DOMAIN <<>> = {}
    OBVIOUS
  <2>3. /\ p \in Pages /\ p.after = after /\ p.limit = limit
        /\ p.more = FALSE /\ p.shown = <<>>
    BY <2>2 DEF Pages, EmptyPage
  <2> HIDE DEF p
  <2>4. ShownIn(p) = {} /\ DOMAIN p.shown = {}
    BY <2>2, <2>3, Zenon DEF ShownIn
  <2>5. PageOf(entries, 0, p)
    <3>1. {k \in 1..0 : k > p.after /\ entries[k].wanted} = {}
      OBVIOUS
    <3> QED BY <2>3, <2>4, <3>1 DEF PageOf
  <2>6. PageWell(entries, 0, p, after, limit)
    BY <2>3, <2>5 DEF PageWell
  <2> QED BY <1>1, <2>1, <2>6
<1>3. ASSUME NEW i \in 0..(n - 1), i \in S PROVE i + 1 \in S
  <2>1. i + 1 \in 1..n /\ (i + 1) - 1 = i /\ i + 1 \in 0..n
    BY <1>1
  <2>2. P(i + 1) = Show(P(i), entries[i + 1])
    BY <2>1, ShowLoop
  <2>3. PageWell(entries, i, P(i), after, limit)
    BY <1>3
  <2> HIDE DEF P
  <2>4. PageWell(entries, i + 1, Show(P(i), entries[i + 1]), after, limit)
    BY <2>3, ShowStep
  <2> QED BY <2>1, <2>2, <2>4
<1>4. n \in S
  <2> HIDE DEF S
  <2>1. \A i \in 0..n : i \in S
    BY <1>1, <1>2, <1>3, BoundedInduction
  <2> QED BY <1>1, <2>1
<1>5. Page(after, limit) = P(n)
  BY DEF Page, Showing, EmptyPage
<1> QED BY <1>4, <1>5

-----------------------------------------------------------------------------
(* The state.                                                              *)

(* Once a page was verified, the events up to the cursor are numbered from *)
(* 1 and no later event will be appended among them; the pages have shown  *)
(* the wanted ones of them.                                                *)
WalkInv ==
    list = "audit" /\ trusted =>
        /\ cursor \in 0..Len(entries) /\ cursor =< revision
        /\ \A k \in 1..cursor : entries[k].revision = k
        /\ \A k \in DOMAIN entries : k > cursor => entries[k].revision > cursor
        /\ {seen[i] : i \in DOMAIN seen} = {k \in 1..cursor : entries[k].wanted}
        /\ \A i, j \in DOMAIN seen : i < j => seen[i] < seen[j]

TypeOK ==
    /\ list \in Lists
    /\ list # "audit" => entries \in Seq(Entries[list])
    /\ list = "audit" => entries \in Seq(Events)
    /\ revision \in Nat /\ cursor \in Nat /\ trusted \in BOOLEAN
    /\ seen \in Seq(Nat \ {0})

LEMMA TypeInit == Init => TypeOK
<1> SUFFICES ASSUME Init PROVE TypeOK
  OBVIOUS
<1>1. /\ list \in Lists /\ entries = <<>> /\ revision = 0
      /\ cursor = 0 /\ seen = <<>> /\ trusted = TRUE
  BY DEF Init
<1>2. entries \in Seq(Entries[list]) /\ entries \in Seq(Events) /\ seen \in Seq(Nat \ {0})
  BY <1>1
<1> QED BY <1>1, <1>2 DEF TypeOK

LEMMA TypeStep == TypeOK /\ [Next]_vars => TypeOK'
<1> SUFFICES ASSUME TypeOK, [Next]_vars PROVE TypeOK'
  OBVIOUS
<1>1. ASSUME list # "audit", NEW entry \in Entries[list], WriteDown(entry)
      PROVE  TypeOK'
  <2>1. entries' = Append(entries, entry) /\ UNCHANGED <<list, revision, cursor, seen, trusted>>
    BY <1>1 DEF WriteDown, walk
  <2>2. entries' \in Seq(Entries[list])
    <3>1. entries \in Seq(Entries[list])
      BY <1>1 DEF TypeOK
    <3> QED BY <2>1, <3>1
  <2> QED BY <1>1, <2>1, <2>2 DEF TypeOK
<1>2. CASE Register
  BY <1>2 DEF Register, TypeOK
<1>3. ASSUME NEW wanted \in BOOLEAN, AppendRegistration(wanted) PROVE TypeOK'
  <2>1. /\ list = "audit" /\ entries' = Append(entries, Event(1, wanted))
        /\ UNCHANGED <<list, revision, cursor, seen, trusted>>
    BY <1>3 DEF AppendRegistration, walk
  <2>2. Event(1, wanted) \in Events
    BY DEF Event, Events
  <2>3. entries' \in Seq(Events)
    <3>1. entries \in Seq(Events)
      BY <2>1 DEF TypeOK
    <3> QED BY <2>1, <2>2, <3>1
  <2> QED BY <2>1, <2>3 DEF TypeOK
<1>4. ASSUME NEW wanted \in BOOLEAN, NEW appended \in BOOLEAN, Update(wanted, appended)
      PROVE  TypeOK'
  <2>1. /\ list = "audit" /\ revision' = revision + 1 /\ revision \in Nat
        /\ entries' = IF appended THEN Append(entries, Event(revision + 1, wanted)) ELSE entries
        /\ UNCHANGED <<list, cursor, seen, trusted>>
    BY <1>4 DEF Update, TypeOK
  <2>2. Event(revision + 1, wanted) \in Events
    BY <2>1 DEF Event, Events
  <2>3. entries' \in Seq(Events)
    <3>1. entries \in Seq(Events)
      BY <2>1 DEF TypeOK
    <3> QED BY <2>1, <2>2, <3>1
  <2> QED BY <2>1, <2>3 DEF TypeOK
<1>5. ASSUME NEW limit \in Limits, Search(limit) PROVE TypeOK'
  <2> DEFINE page == Page(cursor, limit)
  <2>1. /\ list = "audit" /\ seen' = seen \o page.shown
        /\ cursor' = IF page.more THEN Last(page.shown) ELSE revision
        /\ trusted' = (trusted /\ Verified) /\ UNCHANGED <<list, entries, revision>>
    BY <1>5 DEF Search
  <2>2. limit \in Nat \ {0} /\ entries \in Seq(Events) /\ cursor \in Nat
    BY <2>1, RulesAssumption DEF TypeOK
  <2>3. PageWell(entries, Len(entries), page, cursor, limit)
    BY <2>2, PageFacts
  <2> HIDE DEF page
  <2>4. page.shown \in Seq(Nat \ {0}) /\ (page.more => page.shown # <<>>)
    BY <2>3 DEF PageWell, Pages
  <2>5. page.more => Last(page.shown) \in Nat
    BY <2>4 DEF Last
  <2>6. trusted' \in BOOLEAN
    BY <2>1
  <2>7. seen' \in Seq(Nat \ {0})
    <3>1. seen \in Seq(Nat \ {0})
      BY DEF TypeOK
    <3> QED BY <2>1, <2>4, <3>1
  <2>8. cursor' \in Nat
    BY <2>1, <2>5 DEF TypeOK
  <2> QED BY <2>1, <2>6, <2>7, <2>8 DEF TypeOK
<1>6. CASE UNCHANGED vars
  BY <1>6 DEF vars, walk, TypeOK
<1> QED BY <1>1, <1>2, <1>3, <1>4, <1>5, <1>6 DEF Next

LEMMA WalkInit == Init => WalkInv
<1> SUFFICES ASSUME Init PROVE WalkInv
  OBVIOUS
<1>1. entries = <<>> /\ revision = 0 /\ cursor = 0 /\ seen = <<>>
  BY DEF Init
<1>2. DOMAIN seen = {} /\ DOMAIN entries = {} /\ Len(entries) = 0
  BY <1>1
<1> QED BY <1>1, <1>2 DEF WalkInv

(* An event that is appended comes after the cursor.                       *)
LEMMA WalkAppend ==
    ASSUME list = "audit", TypeOK, WalkInv, NEW n \in Nat \ {0}, NEW wanted \in BOOLEAN,
           trusted => n > cursor,
           entries' = Append(entries, Event(n, wanted)),
           UNCHANGED <<list, cursor, seen, trusted>>, revision' \in Nat, revision' >= revision
    PROVE  WalkInv'
<1> SUFFICES ASSUME trusted PROVE WalkInv'
  BY DEF WalkInv
<1> DEFINE l == Len(entries)
<1>1. entries \in Seq(Events) /\ l \in Nat /\ cursor \in Nat /\ revision \in Nat
  BY DEF TypeOK
<1>2. /\ cursor \in 0..l /\ cursor =< revision
      /\ \A k \in 1..cursor : entries[k].revision = k
      /\ \A k \in DOMAIN entries : k > cursor => entries[k].revision > cursor
      /\ {seen[i] : i \in DOMAIN seen} = {k \in 1..cursor : entries[k].wanted}
      /\ \A i, j \in DOMAIN seen : i < j => seen[i] < seen[j]
  BY DEF WalkInv
<1>3. Event(n, wanted) \in Events /\ Event(n, wanted).revision = n
  BY DEF Event, Events
<1>4. /\ Len(entries') = l + 1 /\ DOMAIN (entries') = (DOMAIN entries) \cup {l + 1}
      /\ entries'[l + 1] = Event(n, wanted)
      /\ \A k \in 1..l : entries'[k] = entries[k]
  BY <1>1, <1>3
<1>5. cursor' \in 0..Len(entries') /\ cursor' =< revision'
  BY <1>1, <1>2, <1>4
<1>6. \A k \in 1..cursor : k \in 1..l
  BY <1>1, <1>2
<1>7. \A k \in 1..cursor : entries'[k].revision = k
  BY <1>2, <1>4, <1>6
<1>8. \A k \in DOMAIN (entries') : k > cursor => entries'[k].revision > cursor
  <2>1. ASSUME NEW k \in DOMAIN (entries'), k > cursor PROVE entries'[k].revision > cursor
    <3>1. CASE k = l + 1
      <4>1. entries'[k].revision = n
        BY <1>3, <1>4, <3>1
      <4> QED BY <4>1
    <3>2. CASE k \in DOMAIN entries
      <4>1. entries'[k] = entries[k]
        BY <1>1, <1>4, <3>2
      <4> QED BY <1>2, <2>1, <3>2, <4>1
    <3> QED BY <1>4, <2>1, <3>1, <3>2
  <2> QED BY <2>1
<1>9. {seen[i] : i \in DOMAIN seen} = {k \in 1..cursor : entries'[k].wanted}
  BY <1>2, <1>4, <1>6
<1> QED BY <1>2, <1>5, <1>7, <1>8, <1>9 DEF WalkInv

(* A page continues where the one before it has ended.                     *)
LEMMA WalkSearch ==
    ASSUME TypeOK, WalkInv, NEW limit \in Limits, Search(limit)
    PROVE  WalkInv'
<1> DEFINE page == Page(cursor, limit)
           n == Len(entries)
           last == page.shown[Len(page.shown)]
<1>1. /\ list = "audit" /\ seen' = seen \o page.shown
      /\ cursor' = IF page.more THEN Last(page.shown) ELSE revision
      /\ trusted' = (trusted /\ Verified) /\ UNCHANGED <<list, entries, revision>>
  BY DEF Search
<1> SUFFICES ASSUME trusted, Verified PROVE WalkInv'
  BY <1>1 DEF WalkInv
<1>2. /\ limit \in Nat \ {0} /\ entries \in Seq(Events)
      /\ cursor \in Nat /\ revision \in Nat /\ n \in Nat
  BY <1>1, RulesAssumption DEF TypeOK
<1>3. PageWell(entries, n, page, cursor, limit)
  BY <1>2, PageFacts
<1> HIDE DEF page
<1>4. n = revision /\ \A k \in DOMAIN entries : entries[k].revision = k
  BY DEF Verified
<1>5. /\ page.shown \in Seq(Nat \ {0}) /\ page.more \in BOOLEAN /\ page.after = cursor
      /\ page.more => page.shown # <<>>
      /\ PageOf(entries, n, page)
  BY <1>3, <1>4 DEF PageWell, Pages
<1>6. /\ cursor \in 0..n
      /\ {seen[i] : i \in DOMAIN seen} = {k \in 1..cursor : entries[k].wanted}
      /\ \A i, j \in DOMAIN seen : i < j => seen[i] < seen[j]
  BY <1>1 DEF WalkInv
<1>7. DOMAIN entries = 1..n
  BY <1>2
<1>8. /\ cursor' \in cursor..n
      /\ ShownIn(page) = {k \in 1..cursor' : k > cursor /\ entries[k].wanted}
  <2>1. CASE page.more
    <3>1. Len(page.shown) \in DOMAIN page.shown /\ last = Last(page.shown)
      BY <1>5, <2>1 DEF Last
    <3>2. ShownIn(page) = {k \in 1..n : k > cursor /\ entries[k].wanted /\ k =< last}
      BY <1>5, <2>1 DEF PageOf
    <3>3. last \in ShownIn(page)
      BY <3>1 DEF ShownIn
    <3>4. last \in 1..n /\ last > cursor /\ cursor' = last
      BY <1>1, <2>1, <3>1, <3>2, <3>3
    <3> HIDE DEF last
    <3> QED BY <1>2, <3>2, <3>4
  <2>2. CASE ~page.more
    <3>1. ShownIn(page) = {k \in 1..n : k > cursor /\ entries[k].wanted}
      BY <1>5, <2>2 DEF PageOf
    <3>2. cursor' = n
      BY <1>1, <1>4, <2>2
    <3> QED BY <1>2, <1>6, <3>1, <3>2
  <2> QED BY <2>1, <2>2
<1> HIDE DEF last
<1>9. cursor' \in 0..Len(entries') /\ cursor' =< revision'
  BY <1>1, <1>2, <1>4, <1>8
<1>10. \A k \in 1..cursor' : entries'[k].revision = k
  <2>1. ASSUME NEW k \in 1..cursor' PROVE k \in DOMAIN entries
    BY <1>2, <1>7, <1>8
  <2> QED BY <1>1, <1>4, <2>1
<1>11. \A k \in DOMAIN (entries') : k > cursor' => entries'[k].revision > cursor'
  BY <1>1, <1>4
<1> DEFINE a == Len(seen)
           b == Len(page.shown)
<1>12. /\ seen \in Seq(Nat \ {0}) /\ a \in Nat /\ b \in Nat
       /\ DOMAIN seen = 1..a /\ DOMAIN page.shown = 1..b
       /\ DOMAIN (seen') = 1..(a + b)
       /\ \A i \in 1..(a + b) : seen'[i] = IF i =< a THEN seen[i] ELSE page.shown[i - a]
  BY <1>1, <1>5 DEF TypeOK
<1> HIDE DEF a, b
<1>13. {seen'[i] : i \in DOMAIN (seen')} = {seen[i] : i \in DOMAIN seen} \cup ShownIn(page)
  <2>1. ASSUME NEW i \in 1..(a + b)
        PROVE  seen'[i] \in {seen[j] : j \in 1..a} \cup {page.shown[j] : j \in 1..b}
    <3>1. CASE i =< a
      BY <1>12, <3>1
    <3>2. CASE i > a
      <4>1. i - a \in 1..b /\ seen'[i] = page.shown[i - a]
        BY <1>12, <3>2
      <4> QED BY <4>1
    <3> QED BY <1>12, <3>1, <3>2
  <2>2. ASSUME NEW i \in 1..a PROVE seen[i] \in {seen'[j] : j \in 1..(a + b)}
    <3>1. i \in 1..(a + b) /\ seen'[i] = seen[i]
      BY <1>12
    <3> QED BY <3>1
  <2>3. ASSUME NEW i \in 1..b PROVE page.shown[i] \in {seen'[j] : j \in 1..(a + b)}
    <3>1. i + a \in 1..(a + b) /\ seen'[i + a] = page.shown[(i + a) - a] /\ (i + a) - a = i
      BY <1>12
    <3> QED BY <3>1
  <2>4. {seen'[j] : j \in 1..(a + b)}
           = {seen[j] : j \in 1..a} \cup {page.shown[j] : j \in 1..b}
    BY <2>1, <2>2, <2>3
  <2>5. ShownIn(page) = {page.shown[j] : j \in 1..b}
    BY <1>12 DEF ShownIn
  <2> QED BY <1>12, <2>4, <2>5
<1>14. {seen'[i] : i \in DOMAIN (seen')} = {k \in 1..cursor' : entries'[k].wanted}
  <2>1. {k \in 1..cursor : entries[k].wanted} \cup {k \in 1..cursor' : k > cursor /\ entries[k].wanted}
           = {k \in 1..cursor' : entries[k].wanted}
    BY <1>2, <1>8
  <2> QED BY <1>1, <1>6, <1>8, <1>13, <2>1
<1>15. ASSUME NEW i \in DOMAIN (seen'), NEW j \in DOMAIN (seen'), i < j
       PROVE  seen'[i] < seen'[j]
  <2>1. i \in 1..(a + b) /\ j \in 1..(a + b)
    BY <1>12
  <2>2. CASE j =< a
    <3>1. i \in DOMAIN seen /\ j \in DOMAIN seen /\ seen'[i] = seen[i] /\ seen'[j] = seen[j]
      BY <1>12, <1>15, <2>1, <2>2
    <3> QED BY <1>6, <1>15, <3>1
  <2>3. CASE i > a
    <3>1. /\ i - a \in DOMAIN page.shown /\ j - a \in DOMAIN page.shown /\ i - a < j - a
          /\ seen'[i] = page.shown[i - a] /\ seen'[j] = page.shown[j - a]
      BY <1>12, <1>15, <2>1, <2>3
    <3> QED BY <1>5, <3>1 DEF PageOf
  <2>4. CASE i =< a /\ j > a
    <3>1. /\ i \in DOMAIN seen /\ j - a \in DOMAIN page.shown
          /\ seen'[i] = seen[i] /\ seen'[j] = page.shown[j - a]
      BY <1>12, <2>1, <2>4
    <3>2. seen[i] \in {k \in 1..cursor : entries[k].wanted}
      BY <1>6, <3>1
    <3>3. page.shown[j - a] \in ShownIn(page)
      BY <3>1 DEF ShownIn
    <3>4. seen[i] \in 1..cursor /\ page.shown[j - a] \in 1..cursor' /\ page.shown[j - a] > cursor
      BY <1>8, <3>2, <3>3
    <3> QED BY <1>2, <1>8, <3>1, <3>4
  <2> QED BY <1>12, <2>1, <2>2, <2>3, <2>4
<1> QED BY <1>9, <1>10, <1>11, <1>14, <1>15 DEF WalkInv

LEMMA WalkStep == TypeOK /\ WalkInv /\ [Next]_vars => WalkInv'
<1> SUFFICES ASSUME TypeOK, WalkInv, [Next]_vars PROVE WalkInv'
  OBVIOUS
<1>1. ASSUME list # "audit", NEW entry \in Entries[list], WriteDown(entry)
      PROVE  WalkInv'
  BY <1>1 DEF WriteDown, WalkInv
<1>2. CASE Register
  BY <1>2 DEF Register, WalkInv
<1>3. ASSUME NEW wanted \in BOOLEAN, AppendRegistration(wanted) PROVE WalkInv'
  <2>1. /\ list = "audit" /\ entries' = Append(entries, Event(1, wanted))
        /\ \A i \in DOMAIN entries : entries[i].revision # 1
        /\ UNCHANGED <<list, revision, cursor, seen, trusted>>
    BY <1>3 DEF AppendRegistration, walk
  <2>2. ASSUME trusted PROVE 1 > cursor
    <3>1. /\ cursor \in 0..Len(entries) /\ entries \in Seq(Events)
          /\ \A k \in 1..cursor : entries[k].revision = k
      BY <2>1, <2>2 DEF WalkInv, TypeOK
    <3>2. ASSUME ~ (1 > cursor) PROVE FALSE
      <4>1. 1 \in 1..cursor /\ 1 \in DOMAIN entries
        BY <3>1, <3>2
      <4> QED BY <2>1, <3>1, <4>1
    <3> QED BY <3>2
  <2>3. revision' \in Nat /\ revision' >= revision
    BY <2>1 DEF TypeOK
  <2> QED BY <2>1, <2>2, <2>3, WalkAppend
<1>4. ASSUME NEW wanted \in BOOLEAN, NEW appended \in BOOLEAN, Update(wanted, appended)
      PROVE  WalkInv'
  <2>1. /\ list = "audit" /\ revision' = revision + 1 /\ revision \in Nat
        /\ entries' = IF appended THEN Append(entries, Event(revision + 1, wanted)) ELSE entries
        /\ UNCHANGED <<list, cursor, seen, trusted>>
    BY <1>4 DEF Update, TypeOK
  <2>2. trusted => cursor =< revision /\ cursor \in Nat
    BY <2>1 DEF WalkInv, TypeOK
  <2>3. CASE appended
    <3>1. entries' = Append(entries, Event(revision + 1, wanted))
      BY <2>1, <2>3
    <3>2. trusted => revision + 1 > cursor
      BY <2>1, <2>2
    <3>3. revision + 1 \in Nat \ {0} /\ revision' \in Nat /\ revision' >= revision
      BY <2>1
    <3> QED BY <2>1, <3>1, <3>2, <3>3, WalkAppend
  <2>4. CASE ~appended
    <3>1. entries' = entries
      BY <2>1, <2>4
    <3>2. trusted => cursor =< revision'
      BY <2>1, <2>2
    <3> QED BY <2>1, <3>1, <3>2 DEF WalkInv
  <2> QED BY <2>3, <2>4
<1>5. ASSUME NEW limit \in Limits, Search(limit) PROVE WalkInv'
  BY <1>5, WalkSearch
<1>6. CASE UNCHANGED vars
  BY <1>6 DEF vars, walk, WalkInv
<1> QED BY <1>1, <1>2, <1>3, <1>4, <1>5, <1>6 DEF Next

(* A walk over audits that are whole has missed nothing.                   *)
LEMMA WalkIsComplete == TypeOK /\ WalkInv => PagesComplete
<1> SUFFICES ASSUME TypeOK, WalkInv, list = "audit", trusted
             PROVE  /\ {seen[i] : i \in DOMAIN seen} =
                          {entries[i].revision : i \in {j \in DOMAIN entries :
                              entries[j].wanted /\ entries[j].revision =< cursor}}
                    /\ \A i \in 2..Len(seen) : seen[i - 1] < seen[i]
  BY DEF PagesComplete
<1>1. /\ cursor \in 0..Len(entries) /\ entries \in Seq(Events)
      /\ \A k \in 1..cursor : entries[k].revision = k
      /\ \A k \in DOMAIN entries : k > cursor => entries[k].revision > cursor
      /\ {seen[i] : i \in DOMAIN seen} = {k \in 1..cursor : entries[k].wanted}
      /\ \A i, j \in DOMAIN seen : i < j => seen[i] < seen[j]
  BY DEF TypeOK, WalkInv
<1>2. DOMAIN entries = 1..Len(entries) /\ cursor \in Nat /\ Len(entries) \in Nat
  BY <1>1
<1>3. \A k \in DOMAIN entries : entries[k].revision \in Nat
  <2>1. \A k \in DOMAIN entries : entries[k] \in Events
    BY <1>1
  <2> QED BY <2>1 DEF Events
<1>4. \A k \in DOMAIN entries : entries[k].revision =< cursor <=> k \in 1..cursor
  <2>1. SUFFICES ASSUME NEW k \in DOMAIN entries
                 PROVE  entries[k].revision =< cursor <=> k \in 1..cursor
    OBVIOUS
  <2>2. k \in Nat \ {0}
    BY <1>2
  <2>3. CASE k > cursor
    BY <1>1, <1>2, <1>3, <2>2, <2>3
  <2>4. CASE k =< cursor
    <3>1. k \in 1..cursor
      BY <1>2, <2>2, <2>4
    <3>2. entries[k].revision = k
      BY <1>1, <3>1
    <3> QED BY <2>4, <3>1, <3>2
  <2> QED BY <1>2, <2>2, <2>3, <2>4
<1>5. 1..cursor \subseteq DOMAIN entries
  BY <1>1, <1>2
<1>6. {k \in 1..cursor : entries[k].wanted} =
         {entries[i].revision : i \in {j \in DOMAIN entries :
             entries[j].wanted /\ entries[j].revision =< cursor}}
  BY <1>1, <1>4, <1>5
<1>7. \A i \in 2..Len(seen) : seen[i - 1] < seen[i]
  <2>1. \A i \in 2..Len(seen) : i - 1 \in DOMAIN seen /\ i \in DOMAIN seen /\ i - 1 < i
    BY DEF TypeOK
  <2> QED BY <1>1, <2>1
<1> QED BY <1>1, <1>6, <1>7

(* A client that walks the audit while it grows sees every event it asked  *)
(* for, once and in order, if every page said the audit was verified.      *)
THEOREM PagesAreComplete == Spec => []PagesComplete
<1>1. Init => TypeOK /\ WalkInv
  BY TypeInit, WalkInit
<1>2. TypeOK /\ WalkInv /\ [Next]_vars => (TypeOK /\ WalkInv)'
  BY TypeStep, WalkStep
<1>3. TypeOK /\ WalkInv => PagesComplete
  BY WalkIsComplete
<1> QED BY <1>1, <1>2, <1>3, PTL DEF Spec

(* Lists, and the pages of an audit, consist of what they may consist of.  *)
THEOREM TypesAreKept == Spec => []TypeOK
BY TypeInit, TypeStep, PTL DEF Spec

LEMMA IntervalsCountOnce == TypeOK => OverlapsCountOnce
<1> SUFFICES ASSUME TypeOK, list = "intervals" PROVE OverlapsCountOnce
  BY DEF OverlapsCountOnce
<1> DEFINE m == Merged(entries)
           H == Heard(entries)
<1>1. \A a \in Entries[list] : a \in Spans
  BY EntriesAssumption DEF Spans
<1>2. entries \in Seq(Spans)
  <2>1. entries \in Seq(Entries[list])
    BY DEF TypeOK
  <2> QED BY <1>1, <2>1
<1>3. m \in Seq(Spans) /\ Apart(m) /\ Heard(m) = H
  BY <1>2, MergedFacts
<1>4. Covered(m) = Cardinality(H)
  <2> HIDE DEF m, H
  <2> QED BY <1>3, CoveredCounts
<1>5. Affected(entries) = Cardinality(H)
  BY <1>2, AffectedCounts
<1>6. \A i \in 2..Len(m) : m[i - 1].end < m[i].start
  <2> HIDE DEF m
  <2>1. \A i \in 2..Len(m) : i - 1 \in DOMAIN m /\ i \in DOMAIN m /\ i - 1 < i
    BY <1>3
  <2> QED BY <1>3, <2>1 DEF Apart
<1>7. \A a \in Entries[list] : InsideInterval(m, a) <=> Instants(a) \subseteq H
  <2> HIDE DEF m, H
  <2> QED BY <1>1, <1>3, InsideIsHeard
<1>8. \A duration \in 1..Duration :
         (\A i \in DOMAIN entries : entries[i].end =< duration) =>
             (Sufficient(m, duration, TRUE) <=> H = 0..(duration - 1))
  <2>1. \A duration \in 1..Duration : duration \in Nat \ {0}
    BY RulesAssumption
  <2> QED BY <1>2, <2>1, FullCoverage
<1> QED BY <1>4, <1>5, <1>6, <1>7, <1>8 DEF OverlapsCountOnce

(* However the listening intervals and defect markers of a request overlap *)
(* or touch, an instant counts once.                                       *)
THEOREM OverlapsAreCountedOnce == Spec => []OverlapsCountOnce
BY TypesAreKept, IntervalsCountOnce, PTL

-----------------------------------------------------------------------------
(* A review repeated from what was kept of it.                             *)

(* A list whose keys increase is sorted.                                   *)
LEMMA SortedIsKept ==
    ASSUME NEW X, NEW s \in Seq(X), NEW keys \in [1..Len(s) -> Int \X Int],
           \A i, j \in 1..Len(s) : i < j => Less(keys[i], keys[j])
    PROVE  Sorted(s, keys) = s
<1> DEFINE n == Len(s)
           C(i) == Cardinality(Preceding(keys, i))
<1>1. n \in Nat /\ DOMAIN s = 1..n /\ DOMAIN keys = 1..n
  OBVIOUS
<1>2. ASSUME NEW i \in 1..n PROVE C(i) = i - 1
  <2>1. ASSUME NEW j \in 1..n PROVE j \in Preceding(keys, i) <=> j < i
    <3>1. CASE j < i
      BY <1>1, <3>1 DEF Preceding
    <3>2. CASE j = i
      <4>1. ~ Less(keys[i], keys[i])
        <5>1. keys[i] \in Int \X Int
          OBVIOUS
        <5> QED BY <5>1, LessOrder
      <4> QED BY <3>2, <4>1 DEF Preceding
    <3>3. CASE i < j
      <4>1. keys[i] \in Int \X Int /\ keys[j] \in Int \X Int
        OBVIOUS
      <4>2. Less(keys[i], keys[j])
        BY <3>3
      <4>3. ~ Less(keys[j], keys[i]) /\ ~ Less(keys[i], keys[i])
        BY <4>1, <4>2, LessOrder
      <4>4. ~ (j < i)
        BY <3>3
      <4> QED BY <4>3, <4>4 DEF Preceding
    <3> QED BY <3>1, <3>2, <3>3
  <2>2. Preceding(keys, i) \subseteq 1..n
    BY <1>1 DEF Preceding
  <2>3. Preceding(keys, i) = 1..(i - 1)
    <3> DEFINE A == Preceding(keys, i)
    <3>1. \A j : j \in 1..(i - 1) <=> j \in 1..n /\ j < i
      BY <1>1
    <3>2. \A j : j \in A <=> j \in 1..n /\ j < i
      BY <2>1, <2>2
    <3> HIDE DEF A, n
    <3>3. A = 1..(i - 1)
      BY <3>1, <3>2
    <3> QED BY <3>3 DEF A
  <2>4. Cardinality(1..(i - 1)) = i - 1
    <3>1. 1 \in Int /\ i - 1 \in Int /\ (IF 1 > i - 1 THEN 0 ELSE (i - 1) - 1 + 1) = i - 1
      OBVIOUS
    <3> QED BY <3>1, FS_Interval
  <2> QED BY <2>3, <2>4
<1>3. ASSUME NEW k \in DOMAIN s
      PROVE  (CHOOSE i \in DOMAIN s : C(i) = k - 1) = k
  <2>1. \A i \in DOMAIN s : C(i) = k - 1 <=> i = k
    <3>1. SUFFICES ASSUME NEW i \in DOMAIN s PROVE C(i) = k - 1 <=> i = k
      OBVIOUS
    <3>2. C(i) = i - 1
      BY <1>1, <1>2
    <3> HIDE DEF C
    <3> QED BY <1>1, <3>2
  <2> HIDE DEF C
  <2> QED BY <2>1
<1>4. Sorted(s, keys) = [k \in DOMAIN s |-> s[CHOOSE i \in DOMAIN s : C(i) = k - 1]]
  BY DEF Sorted
<1> HIDE DEF C
<1>5. Sorted(s, keys) = [k \in DOMAIN s |-> s[k]]
  BY <1>3, <1>4
<1> QED BY <1>5

(* Intervals that are apart stay as they are.                              *)
LEMMA MergedIsKept ==
    ASSUME NEW m \in Seq(Spans), Apart(m)
    PROVE  Merged(m) = m
<1> DEFINE n == Len(m)
           keys == SpanKeys(m)
           P(i) == Merging(m)[i]
           S == {i \in 0..n : /\ P(i) \in Seq(Spans) /\ Len(P(i)) = i
                              /\ \A k \in 1..i : P(i)[k] = m[k]}
<1>1. n \in Nat /\ DOMAIN m = 1..n
  OBVIOUS
<1>2. \A i \in 1..n : /\ m[i] \in Spans /\ m[i].start \in Nat
                      /\ m[i].end \in Nat /\ m[i].start < m[i].end
  BY SpanFields
<1>3. ByStart(m) = m
  <2>1. /\ keys \in [1..n -> Int \X Int]
        /\ \A i \in 1..n : keys[i] = <<m[i].start, m[i].end>> /\ keys[i][1] = m[i].start
    BY <1>1, <1>2 DEF SpanKeys
  <2>2. ASSUME NEW i \in 1..n, NEW j \in 1..n, i < j PROVE Less(keys[i], keys[j])
    <3>1. m[i].end < m[j].start
      BY <1>1, <2>2 DEF Apart
    <3>2. m[i].start < m[j].start
      BY <1>2, <3>1
    <3> HIDE DEF keys
    <3> QED BY <2>1, <3>2 DEF Less
  <2>3. Sorted(m, keys) = m
    <3> HIDE DEF keys
    <3> QED BY <2>1, <2>2, SortedIsKept
  <2> QED BY <2>3 DEF ByStart, SpanKeys
<1>4. 0 \in S
  <2>1. P(0) = <<>>
    BY MergeLoop
  <2>2. P(0) \in Seq(Spans)
    BY <2>1
  <2>3. Len(P(0)) = 0
    BY <2>1
  <2>4. 0 \in 0..n /\ \A k \in 1..0 : FALSE
    BY <1>1
  <2> HIDE DEF P, n
  <2> QED BY <2>2, <2>3, <2>4
<1>5. ASSUME NEW i \in 0..(n - 1), i \in S PROVE i + 1 \in S
  <2> DEFINE e == m[i + 1]
             w == P(i)
  <2>1. i + 1 \in 1..n /\ (i + 1) - 1 = i /\ i + 1 \in 0..n /\ e \in Spans /\ i \in Nat
    BY <1>1
  <2>2. P(i + 1) = Merge(w, e)
    BY <2>1, MergeLoop
  <2>3. w \in Seq(Spans) /\ Len(w) = i /\ \A k \in 1..i : w[k] = m[k]
    BY <1>5
  <2> HIDE DEF P, w, e
  <2>4. w = <<>> \/ e.start > w[Len(w)].end
    <3>1. CASE i = 0
      BY <2>3, <3>1
    <3>2. CASE i > 0
      <4>1. i \in 1..i /\ i \in DOMAIN m /\ i + 1 \in DOMAIN m /\ i < i + 1
        BY <1>1, <2>1, <3>2
      <4>2. w[Len(w)] = m[i]
        BY <2>3, <4>1
      <4>3. m[i].end < m[i + 1].start /\ m[i].end \in Nat /\ m[i + 1].start \in Nat
        BY <1>2, <1>1, <4>1 DEF Apart
      <4> QED BY <4>2, <4>3 DEF e
    <3> QED BY <2>1, <3>1, <3>2
  <2>5. P(i + 1) = Append(w, e)
    BY <2>1, <2>2, <2>3, <2>4, MergeType
  <2>6. /\ P(i + 1) \in Seq(Spans) /\ Len(P(i + 1)) = i + 1 /\ P(i + 1)[i + 1] = e
        /\ \A k \in 1..i : P(i + 1)[k] = m[k]
    <3>1. /\ Append(w, e) \in Seq(Spans) /\ Len(Append(w, e)) = i + 1
          /\ Append(w, e)[i + 1] = e
          /\ \A k \in 1..i : Append(w, e)[k] = w[k]
      <4>1. e \in Spans
        BY <2>1
      <4>2. w \in Seq(Spans) /\ Len(w) = i
        BY <2>3
      <4> QED BY <4>1, <4>2
    <3> QED BY <2>3, <2>5, <3>1
  <2>7. \A k \in 1..(i + 1) : P(i + 1)[k] = m[k]
    <3>1. 1..(i + 1) = (1..i) \cup {i + 1}
      BY <2>1
    <3> QED BY <2>6, <3>1 DEF e
  <2> QED BY <2>1, <2>6, <2>7
<1>6. n \in S
  <2> HIDE DEF S
  <2>1. \A i \in 0..n : i \in S
    BY <1>1, <1>4, <1>5, BoundedInduction
  <2> QED BY <1>1, <2>1
<1>7. Merged(m) = P(n)
  BY <1>3 DEF Merged, Merging
<1> HIDE DEF P
<1>8. P(n) = m
  BY <1>1, <1>6
<1> QED BY <1>7, <1>8

(* Merging moves no end beyond the last one.                               *)
LEMMA KeptIsInside ==
    ASSUME NEW s \in Seq(Spans), NEW duration \in Nat,
           \A i \in DOMAIN s : s[i].end =< duration
    PROVE  \A i \in DOMAIN Merged(s) : Merged(s)[i].end =< duration
<1> DEFINE m == Merged(s)
<1>1. m \in Seq(Spans) /\ Heard(m) = Heard(s)
  BY MergedFacts
<1> HIDE DEF m
<1>2. SUFFICES ASSUME NEW i \in DOMAIN m PROVE m[i].end =< duration
  BY DEF m
<1>3. m[i].start \in Nat /\ m[i].end \in Nat /\ m[i].start < m[i].end
  BY <1>1, SpanFields
<1> DEFINE x == m[i].end - 1
<1>4. x \in Nat /\ m[i].start =< x /\ x < m[i].end
  BY <1>3
<1>5. x \in Heard(s)
  <2> HIDE DEF x
  <2> QED BY <1>1, <1>4, HeardIs
<1> HIDE DEF x
<1>6. PICK j \in DOMAIN s : s[j].start =< x /\ x < s[j].end
  BY <1>5, HeardIs
<1>7. s[j].end \in Nat /\ s[j].end =< duration
  BY SpanFields
<1> QED BY <1>3, <1>6, <1>7 DEF x

(* What a review keeps is reviewed with the same result.                   *)
LEMMA ReviewIsRepeated ==
    ASSUME NEW s \in Seq(Spans), NEW anomalies, NEW duration \in Nat, NEW full \in BOOLEAN
    PROVE  SealRepeats(s, anomalies, <<duration, duration>>, full)
<1> DEFINE m == Merged(s)
           review == Review(s, anomalies, duration, full)
           again == Review(review.intervals, anomalies, duration, full)
           Outside(l) == \E i \in DOMAIN l : l[i].end > duration
           Inside == \E a \in anomalies : ~InsideInterval(m, a)
           R(l) == Review(l, anomalies, duration, full)
<1>1. m \in Seq(Spans) /\ Apart(m) /\ Heard(m) = Heard(s)
  BY MergedFacts
<1>2. Merged(m) = m
  <2> HIDE DEF m
  <2> QED BY <1>1, MergedIsKept
<1>3. ~Outside(s) => ~Outside(m)
  <2>1. ASSUME ~Outside(s) PROVE ~Outside(m)
    <3>1. \A i \in DOMAIN s : s[i].end =< duration
      BY <2>1, SpanFields
    <3>2. \A i \in DOMAIN m : m[i].end =< duration
      BY <3>1, KeptIsInside
    <3>3. \A i \in DOMAIN m : m[i].end \in Nat
      <4> HIDE DEF m
      <4> QED BY <1>1, SpanFields
    <3> HIDE DEF m
    <3> QED BY <3>2, <3>3
  <2> QED BY <2>1
<1>4. \A l : Merged(l) = m =>
         /\ R(l).verdict = IF Outside(l) THEN "invalid"
                           ELSE IF ~Sufficient(m, duration, full) THEN "insufficient"
                           ELSE IF Inside THEN "invalid" ELSE "covered"
         /\ R(l).covered = Covered(m) /\ R(l).of = duration
         /\ R(l).intervals = IF R(l).verdict = "invalid" THEN <<>> ELSE m
  <2> DEFINE v(l) == Verdict(l, m, anomalies, duration, full)
  <2>1. ASSUME NEW l, Merged(l) = m
        PROVE  Review(l, anomalies, duration, full) =
                 [verdict |-> v(l), covered |-> Covered(m), of |-> duration,
                  intervals |-> IF v(l) = "invalid" THEN <<>> ELSE m]
    <3> HIDE DEF m
    <3> QED BY <2>1 DEF Review, Coverage
  <2>2. ASSUME NEW l
        PROVE  v(l) = IF Outside(l) THEN "invalid"
                      ELSE IF ~Sufficient(m, duration, full) THEN "insufficient"
                      ELSE IF Inside THEN "invalid" ELSE "covered"
    BY DEF Verdict
  <2> HIDE DEF m, v, Outside, Inside
  <2> QED BY <2>1, <2>2
<1>5. /\ review.verdict # "invalid" => ~Outside(s)
      /\ review.verdict = IF Outside(s) THEN "invalid"
                          ELSE IF ~Sufficient(m, duration, full) THEN "insufficient"
                          ELSE IF Inside THEN "invalid" ELSE "covered"
      /\ review.covered = Covered(m) /\ review.of = duration
      /\ review.intervals = IF review.verdict = "invalid" THEN <<>> ELSE m
  BY <1>4
<1>6. ASSUME review.verdict # "invalid"
      PROVE  /\ again.verdict # "invalid" /\ again.intervals = review.intervals
             /\ again.covered = review.covered
             /\ again.covered * review.of = review.covered * again.of
  <2>1. review.intervals = m
    BY <1>5, <1>6
  <2>2. /\ again.verdict = IF Outside(m) THEN "invalid"
                           ELSE IF ~Sufficient(m, duration, full) THEN "insufficient"
                           ELSE IF Inside THEN "invalid" ELSE "covered"
        /\ again.covered = Covered(m) /\ again.of = duration
        /\ again.intervals = IF again.verdict = "invalid" THEN <<>> ELSE m
    <3>1. again = Review(m, anomalies, duration, full)
      BY <2>1
    <3> HIDE DEF again, review, m, Outside, Inside
    <3> QED BY <1>2, <1>4, <3>1
  <2> HIDE DEF again, review, m, Outside, Inside
  <2> QED BY <1>3, <1>5, <1>6, <2>1, <2>2
<1>7. /\ ReviewDuration(<<duration, duration>>) = duration
      /\ SealDuration(<<duration, duration>>) = duration
  BY DEF ReviewDuration, SealDuration, Last
<1> QED BY <1>6, <1>7 DEF SealRepeats

LEMMA ReviewsAreRepeated == TypeOK => SealRepeatsReview
<1> SUFFICES ASSUME TypeOK, list = "intervals", NEW full \in BOOLEAN,
                    NEW anomaly \in Entries[list]
             PROVE  SealRepeats(entries, {anomaly}, <<Duration, Duration>>, full)
  BY DEF SealRepeatsReview
<1>1. entries \in Seq(Spans)
  <2>1. entries \in Seq(Entries[list])
    BY DEF TypeOK
  <2>2. \A a \in Entries[list] : a \in Spans
    BY EntriesAssumption DEF Spans
  <2> QED BY <2>1, <2>2
<1>2. Duration \in Nat
  BY RulesAssumption
<1> QED BY <1>1, <1>2, ReviewIsRepeated

(* A review, once accepted, is accepted again when the case is sealed, from *)
(* what was kept of it and with the same result.                           *)
THEOREM SealsRepeatReviews == Spec => []SealRepeatsReview
BY TypesAreKept, ReviewsAreRepeated, PTL

-----------------------------------------------------------------------------
(* What is accepted is proven by its list.                                 *)

(* Accepted segments: each ends where the next one starts, so that each    *)
(* instant of the file is in exactly one.                                  *)
LEMMA SegmentsPartition ==
    ASSUME NEW X, \A x \in X : x.start \in Int /\ x.end \in Int,
           NEW s \in Seq(X), SegmentsAccepted(s),
           NEW t \in 0..(Duration - 1)
    PROVE  Cardinality({i \in DOMAIN s : t \in Instants(s[i])}) = 1
<1> DEFINE n == Len(s)
<1>1. n \in Nat \ {0} /\ DOMAIN s = 1..n /\ n \in 1..n /\ Duration \in Int
  <2>1. s # <<>>
    BY DEF SegmentsAccepted
  <2> QED BY <2>1, RulesAssumption
<1>2. \A i \in 1..n : /\ s[i].start \in Int /\ s[i].end \in Int
                      /\ s[i].start < s[i].end
                      /\ s[i].start = IF i = 1 THEN 0 ELSE s[i - 1].end
  <2>1. \A i \in 1..n : s[i] \in X
    BY <1>1
  <2> QED BY <1>1, <2>1 DEF SegmentsAccepted
<1>3. s[n].end = Duration
  BY DEF SegmentsAccepted, Last
<1>4. \A i \in 0..n : \A j \in 1..i : s[j].end =< s[i].end
  <2> DEFINE S == {i \in 0..n : \A j \in 1..i : s[j].end =< s[i].end}
  <2>1. 0 \in S
    BY <1>1
  <2>2. ASSUME NEW i \in 0..(n - 1), i \in S PROVE i + 1 \in S
    <3>1. i + 1 \in 1..n /\ i \in Nat /\ i + 1 \in 0..n
      BY <1>1
    <3>2. SUFFICES ASSUME NEW j \in 1..(i + 1) PROVE s[j].end =< s[i + 1].end
      BY <3>1
    <3>3. CASE j = i + 1
      BY <1>2, <3>1, <3>3
    <3>4. CASE j \in 1..i
      <4>1. s[j].end =< s[i].end
        BY <2>2, <3>4
      <4>2. i \in 1..n /\ j \in 1..n /\ i + 1 # 1 /\ (i + 1) - 1 = i
        BY <1>1, <3>1, <3>4
      <4>3. s[i + 1].start = s[i].end
        BY <1>2, <3>1, <4>2
      <4> QED BY <1>2, <3>1, <4>1, <4>2, <4>3
    <3> QED BY <3>1, <3>3, <3>4
  <2> HIDE DEF S
  <2>3. \A i \in 0..n : i \in S
    BY <1>1, <2>1, <2>2, BoundedInduction
  <2> QED BY <2>3 DEF S
<1>5. \A j, k \in 1..n : j < k => s[j].end =< s[k].start
  <2> SUFFICES ASSUME NEW j \in 1..n, NEW k \in 1..n, j < k
               PROVE  s[j].end =< s[k].start
    OBVIOUS
  <2>1. k # 1 /\ k - 1 \in 0..n /\ j \in 1..(k - 1)
    BY <1>1
  <2>2. s[k].start = s[k - 1].end
    BY <1>2, <2>1
  <2>3. s[j].end =< s[k - 1].end
    BY <1>4, <2>1
  <2> QED BY <2>2, <2>3
<1>6. t \in Int /\ 0 =< t /\ t < Duration
  BY <1>1
<1> HIDE DEF n
<1>7. \E m \in 1..n : s[m].start =< t /\ t < s[m].end
  <2> DEFINE E == {j \in 1..n : t < s[j].end}
  <2>1. E \subseteq Nat /\ E # {}
    BY <1>1, <1>3, <1>6
  <2>2. PICK m \in E : \A k \in E : m =< k
    <3> HIDE DEF E
    <3> QED BY <2>1, Least
  <2>3. m \in 1..n /\ t < s[m].end
    BY <2>2
  <2>4. CASE m = 1
    BY <1>2, <1>6, <2>3, <2>4
  <2>5. CASE m # 1
    <3>1. m - 1 \in 1..n /\ ~ (m =< m - 1)
      BY <1>1, <2>3, <2>5
    <3>2. m - 1 \notin E
      BY <2>2, <3>1
    <3>3. s[m - 1].end =< t
      BY <1>2, <1>6, <3>1, <3>2
    <3>4. s[m].start = s[m - 1].end
      BY <1>2, <2>3, <2>5
    <3> QED BY <2>3, <3>3, <3>4
  <2> QED BY <2>4, <2>5
<1>8. PICK m \in 1..n : s[m].start =< t /\ t < s[m].end
  BY <1>7
<1>9. ASSUME NEW i \in 1..n PROVE t \in Instants(s[i]) <=> i = m
  <2>1. t \in Instants(s[i]) <=> s[i].start =< t /\ t < s[i].end
    BY <1>2, <1>6 DEF Instants
  <2>2. i < m \/ i = m \/ m < i
    BY <1>1
  <2>3. i < m => s[i].end =< t
    <3>1. i < m => s[i].end =< s[m].start
      BY <1>5
    <3> QED BY <1>2, <1>6, <1>8, <3>1
  <2>4. m < i => t < s[i].start
    <3>1. m < i => s[m].end =< s[i].start
      BY <1>5
    <3> QED BY <1>2, <1>6, <1>8, <3>1
  <2> QED BY <1>2, <1>6, <1>8, <2>1, <2>2, <2>3, <2>4
<1>10. {i \in DOMAIN s : t \in Instants(s[i])} = {m}
  BY <1>1, <1>9
<1> QED BY <1>10, FS_Singleton

(* The tasks of an accepted plan are the playable facets, in an order.     *)
LEMMA TasksPartition ==
    ASSUME NEW X, NEW s \in Seq(X), TasksAccepted(s)
    PROVE  /\ \A f \in Facets : Cardinality({i \in DOMAIN s : s[i].facet = f}) = 1
           /\ \A i \in DOMAIN s : s[i].facet \in Playable <=> s[i].order # 0
           /\ {s[i].order : i \in DOMAIN s} \ {0} = 1..Cardinality(Playable)
<1> DEFINE n == Len(s)
           T == TasksOf(s)
<1>1. n \in Nat /\ DOMAIN s = 1..n
  OBVIOUS
<1>2. \A i \in DOMAIN s : s[i].order # 0 <=> i \in T
  BY DEF TasksOf
<1>3. T \subseteq DOMAIN s
  BY DEF TasksOf
<1>4. \A i \in T : s[i].facet \in Playable
  BY DEF TasksAccepted
<1>5. \A i \in DOMAIN s : i \notin T => s[i].facet \in Facets \ Playable
  BY DEF TasksAccepted, SkipsOf
<1>6. \A i, j \in DOMAIN s : s[i].facet = s[j].facet => i = j
  BY DEF TasksAccepted, IsInjective, FacetList
<1>7. \A i, j \in T : s[i].order = s[j].order => i = j
  BY DEF TasksAccepted, IsInjective, Orders
<1>8. {s[i].facet : i \in DOMAIN s} = Facets
  BY DEF TasksAccepted
<1>9. \A k \in 1..Cardinality(T) : \E i \in T : s[i].order = k
  BY DEF TasksAccepted
<1>10. IsFiniteSet(T) /\ Cardinality(T) \in Nat
  <2>1. IsFiniteSet(1..n)
    BY <1>1, FS_Interval
  <2> HIDE DEF T, n
  <2> QED BY <1>1, <1>3, <2>1, FS_Subset, FS_CardinalityType
<1> HIDE DEF T, n
<1>11. ASSUME NEW f \in Facets
       PROVE  Cardinality({i \in DOMAIN s : s[i].facet = f}) = 1
  <2>1. PICK i \in DOMAIN s : s[i].facet = f
    BY <1>8
  <2>2. {j \in DOMAIN s : s[j].facet = f} = {i}
    BY <1>6, <2>1
  <2> QED BY <2>2, FS_Singleton
<1>12. Cardinality(Playable) = Cardinality(T)
  <2> DEFINE g == [i \in T |-> s[i].facet]
  <2>1. g \in [T -> Playable] /\ \A i \in T : g[i] = s[i].facet
    BY <1>4
  <2>2. \A p \in Playable : \E i \in T : g[i] = p
    <3> SUFFICES ASSUME NEW p \in Playable PROVE \E i \in T : g[i] = p
      OBVIOUS
    <3>1. p \in Facets
      BY RulesAssumption
    <3>2. PICK i \in DOMAIN s : s[i].facet = p
      BY <1>8, <3>1
    <3>3. i \in T
      BY <1>5, <3>2
    <3> QED BY <2>1, <3>2, <3>3
  <2> HIDE DEF g
  <2>3. \A i, j \in T : g[i] = g[j] => i = j
    BY <1>3, <1>6, <2>1
  <2>4. DOMAIN g = T
    BY <2>1
  <2>5. g \in Bijection(T, Playable)
    BY <2>1, <2>2, <2>3, <2>4 DEF Bijection, Injection, Surjection, IsInjective
  <2> QED BY <1>10, <2>5, FS_Bijection DEF ExistsBijection
<1>13. {s[i].order : i \in DOMAIN s} \ {0} = 1..Cardinality(T)
  <2> DEFINE O == {s[i].order : i \in T}
             c == Cardinality(T)
             h == [i \in T |-> s[i].order]
  <2>1. {s[i].order : i \in DOMAIN s} \ {0} = O
    BY <1>2, <1>3
  <2>2. 1..c \subseteq O
    <3> SUFFICES ASSUME NEW k \in 1..c PROVE k \in O
      OBVIOUS
    <3>1. PICK i \in T : s[i].order = k
      BY <1>9
    <3> QED BY <3>1
  <2>3. h \in [T -> O] /\ \A i \in T : h[i] = s[i].order
    OBVIOUS
  <2>4. \A o \in O : \E i \in T : s[i].order = o
    OBVIOUS
  <2> HIDE DEF h, O
  <2>5. DOMAIN h = T
    BY <2>3
  <2>6. h \in Bijection(T, O)
    BY <1>7, <2>3, <2>4, <2>5 DEF Bijection, Injection, Surjection, IsInjective
  <2>7. IsFiniteSet(O) /\ Cardinality(O) = c
    BY <1>10, <2>6, FS_Bijection DEF ExistsBijection
  <2>8. Cardinality(1..c) = c
    <3>1. 1 \in Int /\ c \in Int /\ (IF 1 > c THEN 0 ELSE c - 1 + 1) = c
      BY <1>10
    <3> HIDE DEF c
    <3> QED BY <3>1, FS_Interval
  <2>9. 1..c = O
    <3> HIDE DEF c
    <3> QED BY <2>2, <2>7, <2>8, FS_Subset
  <2> QED BY <2>1, <2>9
<1> QED BY <1>2, <1>4, <1>5, <1>11, <1>12, <1>13

Windows == [open : BOOLEAN, from : Int]

LookingBack(first, s) == Loop(LookBack, first, s)

LEMMA LookBackIs ==
    ASSUME NEW w \in Windows, NEW r, r.at \in Int, r.inside \in BOOLEAN
    PROVE  /\ LookBack(w, r) \in Windows
           /\ w.open /\ r.inside =>
                 LookBack(w, r).open /\ LookBack(w, r).from = r.at
           /\ ~ (w.open /\ r.inside) =>
                 ~ LookBack(w, r).open /\ LookBack(w, r).from = w.from
<1>1. CASE w.open /\ r.inside
  <2>1. LookBack(w, r) = [open |-> TRUE, from |-> r.at]
    BY <1>1 DEF LookBack
  <2> QED BY <1>1, <2>1 DEF Windows
<1>2. CASE ~ (w.open /\ r.inside)
  <2>1. LookBack(w, r) = [w EXCEPT !.open = FALSE]
    BY <1>2 DEF LookBack
  <2>2. LookBack(w, r) = [open |-> FALSE, from |-> w.from] /\ w.from \in Int
    BY <2>1 DEF Windows
  <2> QED BY <1>2, <2>2 DEF Windows
<1> QED BY <1>1, <1>2

LEMMA LookBackLoop ==
    ASSUME NEW first \in Windows,
           NEW X, \A x \in X : x.at \in Int /\ x.inside \in BOOLEAN, NEW s \in Seq(X)
    PROVE  /\ LookingBack(first, s)[0] = first
           /\ \A i \in 1..Len(s) :
                 LookingBack(first, s)[i] = LookBack(LookingBack(first, s)[i - 1], s[i])
<1> DEFINE n == Len(s)
           V == Windows
           step == [x \in (1..n) \X V |-> LookBack(x[2], s[x[1]])]
           body(g) == [i \in 0..n |-> IF i = 0 THEN first ELSE LookBack(g[i - 1], s[i])]
<1>1. step \in Steps(n, V)
  <2>1. ASSUME NEW x \in (1..n) \X V PROVE LookBack(x[2], s[x[1]]) \in V
    <3>1. x[2] \in Windows /\ s[x[1]] \in X
      OBVIOUS
    <3> QED BY <3>1, LookBackIs
  <2> QED BY <2>1 DEF Steps
<1>2. n \in Nat /\ first \in V
  OBVIOUS
<1>3. PICK g \in [0..n -> V] : /\ g[0] = first
                               /\ \A i \in 1..n : g[i] = step[<<i, g[i - 1]>>]
  <2> HIDE DEF step, V, n
  <2>1. HasValues(n, V, first, step)
    BY <1>1, <1>2, LoopExists
  <2> QED BY <2>1 DEF HasValues
<1>4. ASSUME NEW i \in 1..n PROVE g[i] = LookBack(g[i - 1], s[i])
  <2>1. i - 1 \in 0..n /\ g[i - 1] \in V
    BY <1>3
  <2>2. <<i, g[i - 1]>> \in (1..n) \X V
    BY <2>1
  <2> QED BY <1>3, <2>2
<1>5. g = body(g)
  BY <1>3, <1>4
<1>6. LookingBack(first, s) = CHOOSE h : h = body(h)
  BY DEF LookingBack, Loop
<1>7. LookingBack(first, s) = body(LookingBack(first, s))
  <2> HIDE DEF body
  <2> QED BY <1>5, <1>6
<1>8. LookingBack(first, s)[0] = first
  BY <1>2, <1>7
<1>9. ASSUME NEW i \in 1..n
      PROVE  LookingBack(first, s)[i] = LookBack(LookingBack(first, s)[i - 1], s[i])
  <2>1. i \in 0..n /\ i # 0
    BY <1>2
  <2> QED BY <1>7, <2>1
<1> QED BY <1>8, <1>9

(* After i readings from the last one back, all readings from the one      *)
(* whose time is kept on were inside, and it is the i-th while the window  *)
(* is open.  Before the first one it is the instant after the last.        *)
LookedBack(s, i, w) ==
    /\ w \in Windows
    /\ \E k \in (Len(s) - i + 1)..(Len(s) + 1) :
         /\ \A j \in k..Len(s) : s[j].inside
         /\ w.from = IF k = Len(s) + 1 THEN s[Len(s)].at + 1 ELSE s[k].at
         /\ w.open => k = Len(s) - i + 1

(* The next reading, further back, extends the window or ends it.          *)
LEMMA LookBackStep ==
    ASSUME NEW X, \A x \in X : x.at \in Int /\ x.inside \in BOOLEAN, NEW s \in Seq(X),
           NEW i \in 0..(Len(s) - 1), NEW w, LookedBack(s, i, w)
    PROVE  LookedBack(s, i + 1, LookBack(w, s[Len(s) - i]))
<1> DEFINE n == Len(s)
           r == s[n - i]
           v == LookBack(w, r)
<1>1. n \in Nat /\ DOMAIN s = 1..n /\ n - i \in 1..n /\ i \in Nat
  OBVIOUS
<1>2. r.at \in Int /\ r.inside \in BOOLEAN
  BY <1>1
<1>3. PICK k \in (n - i + 1)..(n + 1) :
         /\ \A j \in k..n : s[j].inside
         /\ w.from = IF k = n + 1 THEN s[n].at + 1 ELSE s[k].at
         /\ w.open => k = n - i + 1
  BY DEF LookedBack
<1>4. w \in Windows
  BY DEF LookedBack
<1> HIDE DEF n
<1>5. v \in Windows
  <2> HIDE DEF r
  <2> QED BY <1>2, <1>4, LookBackIs
<1>6. CASE w.open /\ r.inside
  <2>1. v.open /\ v.from = r.at
    <3> HIDE DEF r
    <3> QED BY <1>2, <1>4, <1>6, LookBackIs
  <2>2. k = n - i + 1
    BY <1>3, <1>6
  <2>3. \A j \in (n - i)..n : s[j].inside
    <3>1. (n - i)..n = {n - i} \cup (k..n)
      BY <1>1, <2>2
    <3> QED BY <1>3, <1>6, <3>1
  <2>4. /\ n - i \in (n - (i + 1) + 1)..(n + 1) /\ n - i # n + 1
        /\ n - i = n - (i + 1) + 1
    BY <1>1
  <2> HIDE DEF v
  <2>5. v.from = IF n - i = n + 1 THEN s[n].at + 1 ELSE s[n - i].at
    BY <2>1, <2>4
  <2> QED BY <1>5, <2>3, <2>4, <2>5 DEF LookedBack, n, v
<1>7. CASE ~ (w.open /\ r.inside)
  <2>1. ~ v.open /\ v.from = w.from
    <3> HIDE DEF r
    <3> QED BY <1>2, <1>4, <1>7, LookBackIs
  <2>2. k \in (n - (i + 1) + 1)..(n + 1)
    BY <1>1, <1>3
  <2> HIDE DEF v
  <2>3. v.from = IF k = n + 1 THEN s[n].at + 1 ELSE s[k].at
    BY <1>3, <2>1
  <2> QED BY <1>3, <1>5, <2>1, <2>2, <2>3 DEF LookedBack, n, v
<1> QED BY <1>6, <1>7

(* Accepted readings were inside for long enough.                          *)
LEMMA ReadingsAreStable ==
    ASSUME NEW X, \A x \in X : x.at \in Int /\ x.inside \in BOOLEAN, NEW s \in Seq(X),
           ReadingsAccepted(s)
    PROVE  \E i \in DOMAIN s : /\ s[i].at =< Last(s).at - Stable
                               /\ \A j \in i..Len(s) : s[j].inside
<1> DEFINE n == Len(s)
           t == Reverse(s)
           first == [open |-> TRUE, from |-> Last(s).at + 1]
           W(i) == LookingBack(first, t)[i]
           S == {i \in 0..n : LookedBack(s, i, W(i))}
<1>1. n \in Nat /\ n >= 2 /\ DOMAIN s = 1..n /\ n \in 1..n /\ Last(s) = s[n]
  BY DEF ReadingsAccepted, Last
<1>2. \A i \in 1..n : s[i] \in X /\ s[i].at \in Int
  BY <1>1
<1>3. first \in Windows /\ first.open /\ first.from = s[n].at + 1
  BY <1>1, <1>2 DEF Windows
<1>4. t \in Seq(X) /\ Len(t) = n /\ \A i \in 1..n : t[i] = s[n - i + 1]
  <2>1. t = [i \in 1..n |-> s[n - i + 1]]
    BY DEF Reverse
  <2>2. \A i \in 1..n : n - i + 1 \in 1..n
    BY <1>1
  <2>3. \A i \in 1..n : s[n - i + 1] \in X
    BY <1>1, <2>2
  <2> HIDE DEF t, n
  <2> QED BY <1>1, <2>1, <2>3
<1> HIDE DEF t, first
<1>5. W(0) = first /\ \A i \in 1..n : W(i) = LookBack(W(i - 1), t[i])
  BY <1>3, <1>4, LookBackLoop
<1>6. 0 \in S
  <2>1. /\ n + 1 \in (n - 0 + 1)..(n + 1) /\ n + 1 = n - 0 + 1
        /\ \A j \in (n + 1)..n : FALSE
    BY <1>1
  <2>2. LookedBack(s, 0, first)
    <3> HIDE DEF n
    <3> QED BY <1>3, <2>1 DEF LookedBack, n
  <2> QED BY <1>1, <1>5, <2>2
<1>7. ASSUME NEW i \in 0..(n - 1), i \in S PROVE i + 1 \in S
  <2>1. i + 1 \in 1..n /\ (i + 1) - 1 = i /\ n - (i + 1) + 1 = n - i /\ i + 1 \in 0..n
    BY <1>1
  <2>2. W(i + 1) = LookBack(W(i), s[n - i])
    <3>1. t[i + 1] = s[n - i]
      BY <1>4, <2>1
    <3> HIDE DEF W
    <3> QED BY <1>5, <2>1, <3>1
  <2>3. LookedBack(s, i, W(i))
    BY <1>7
  <2> HIDE DEF W
  <2>4. LookedBack(s, i + 1, LookBack(W(i), s[n - i]))
    BY <2>3, LookBackStep
  <2> QED BY <2>1, <2>2, <2>4
<1>8. LookedBack(s, n, W(n))
  <2> HIDE DEF S
  <2>1. \A i \in 0..n : i \in S
    BY <1>1, <1>6, <1>7, BoundedInduction
  <2> QED BY <1>1, <2>1 DEF S
<1>9. StableFrom(s) = W(n).from
  BY <1>4 DEF StableFrom, LookingBack, t, first
<1>10. s[n].at - W(n).from >= Stable
  BY <1>1, <1>9 DEF ReadingsAccepted
<1> HIDE DEF W
<1>11. PICK k \in (n - n + 1)..(n + 1) :
         /\ \A j \in k..n : s[j].inside
         /\ W(n).from = IF k = n + 1 THEN s[n].at + 1 ELSE s[k].at
  BY <1>8 DEF LookedBack
<1>12. Stable \in Nat /\ s[n].at \in Int
  BY <1>1, <1>2, RulesAssumption
<1>13. k # n + 1
  BY <1>10, <1>11, <1>12
<1>14. k \in 1..n
  BY <1>1, <1>13
<1>15. s[k].at =< s[n].at - Stable
  BY <1>2, <1>10, <1>11, <1>12, <1>13, <1>14
<1> QED BY <1>1, <1>11, <1>14, <1>15

LEMMA AcceptedListsProve == TypeOK => AcceptedIsProven
<1> SUFFICES ASSUME TypeOK PROVE AcceptedIsProven
  OBVIOUS
<1>1. list # "audit" => entries \in Seq(Entries[list])
  BY DEF TypeOK
<1>2. ASSUME list = "segments", SegmentsAccepted(entries), NEW t \in 0..(Duration - 1)
      PROVE  Cardinality({i \in DOMAIN entries : t \in Instants(entries[i])}) = 1
  <2>1. \A x \in Entries["segments"] : x.start \in Int /\ x.end \in Int
    BY EntriesAssumption
  <2>2. entries \in Seq(Entries["segments"])
    BY <1>1, <1>2
  <2> QED BY <1>2, <2>1, <2>2, SegmentsPartition
<1>3. ASSUME list = "tasks", TasksAccepted(entries)
      PROVE  /\ \A f \in Facets :
                  Cardinality({i \in DOMAIN entries : entries[i].facet = f}) = 1
             /\ \A i \in DOMAIN entries :
                  entries[i].facet \in Playable <=> entries[i].order # 0
             /\ {entries[i].order : i \in DOMAIN entries} \ {0}
                  = 1..Cardinality(Playable)
  <2>1. entries \in Seq(Entries["tasks"])
    BY <1>1, <1>3
  <2> QED BY <1>3, <2>1, TasksPartition
<1>4. ASSUME list = "readings", ReadingsAccepted(entries)
      PROVE  \E i \in DOMAIN entries :
                /\ entries[i].at =< Last(entries).at - Stable
                /\ \A j \in i..Len(entries) : entries[j].inside
  <2>1. \A x \in Entries["readings"] : x.at \in Int /\ x.inside \in BOOLEAN
    BY EntriesAssumption
  <2>2. entries \in Seq(Entries["readings"])
    BY <1>1, <1>4
  <2> QED BY <1>4, <2>1, <2>2, ReadingsAreStable
<1> QED BY <1>2, <1>3, <1>4 DEF AcceptedIsProven

(* Segments, tasks and readings that are accepted prove what they are sent *)
(* for: a file without gaps, facets captured or skipped once, a stable     *)
(* climate.                                                                *)
THEOREM AcceptedListsAreProven == Spec => []AcceptedIsProven
BY TypesAreKept, AcceptedListsProve, PTL

-----------------------------------------------------------------------------
(* Pauses.                                                                 *)

(* Paused at t, by the times of the pauses and of the resumes.             *)
PausedAt(P, R, t) == \E p \in P : p =< t /\ R \cap (p + 1)..t = {}

PausedIn(P, R) == {t \in 0..(Ended - 1) : PausedAt(P, R, t)}

PausedBefore(P, R, q) == {t \in PausedIn(P, R) : t < q}

(* After pauses at P, resumes at R and repairs at X, all in order, with a  *)
(* pause that is open from at, or none: the closed pauses last for paused. *)
PausesWell(P, R, X, at, paused) ==
    /\ at = NotPaused => /\ \A p \in P : \E r \in R : p < r
                         /\ paused = Cardinality(PausedIn(P, R))
    /\ at # NotPaused => /\ at \in P
                         /\ \A r \in R : r < at
                         /\ \A p \in P : p =< at
                         /\ paused = Cardinality(PausedBefore(P, R, at))
    /\ \A x \in X : \E p \in P : p =< x /\ R \cap (p + 1)..(x - 1) = {}

(* The instants that are paused are finitely many.                         *)
LEMMA PausedSets ==
    ASSUME NEW P, NEW R, NEW q
    PROVE  /\ IsFiniteSet(PausedIn(P, R)) /\ IsFiniteSet(PausedBefore(P, R, q))
           /\ \A t : t \in PausedIn(P, R) <=>
                t \in Int /\ 0 =< t /\ t < Ended /\ PausedAt(P, R, t)
           /\ \A t : t \in PausedBefore(P, R, q) <=>
                t \in Int /\ 0 =< t /\ t < Ended /\ PausedAt(P, R, t) /\ t < q
<1>1. Ended \in Nat
  BY RulesAssumption
<1>2. \A t : t \in PausedIn(P, R) <=>
          t \in Int /\ 0 =< t /\ t < Ended /\ PausedAt(P, R, t)
  BY <1>1 DEF PausedIn
<1>3. IsFiniteSet(0..(Ended - 1))
  BY <1>1, FS_Interval
<1>4. PausedIn(P, R) \subseteq 0..(Ended - 1)
  BY DEF PausedIn
<1>5. PausedBefore(P, R, q) \subseteq 0..(Ended - 1)
  BY DEF PausedIn, PausedBefore
<1>6. IsFiniteSet(PausedIn(P, R)) /\ IsFiniteSet(PausedBefore(P, R, q))
  BY <1>3, <1>4, <1>5, FS_Subset
<1> QED BY <1>2, <1>6 DEF PausedBefore

(* A pause opens: nothing that is closed lasts beyond it.                  *)
LEMMA PauseOpens ==
    ASSUME NEW P \in SUBSET (0..Ended), NEW R \in SUBSET (0..Ended),
           NEW X \in SUBSET (0..Ended), NEW q \in 0..Ended, NEW paused,
           \A p \in P : p =< q, \A r \in R : r < q,
           PausesWell(P, R, X, NotPaused, paused)
    PROVE  PausesWell(P \cup {q}, R, X, q, paused)
<1> DEFINE Q == P \cup {q}
<1>1. Ended \in Nat /\ q \in Nat /\ q # NotPaused /\ \A p \in P : p \in Nat
  BY RulesAssumption DEF NotPaused
<1>2. \A r \in R : r \in Nat
  BY <1>1
<1>3. /\ \A p \in P : \E r \in R : p < r
      /\ paused = Cardinality(PausedIn(P, R))
      /\ \A x \in X : \E p \in P : p =< x /\ R \cap (p + 1)..(x - 1) = {}
  BY DEF PausesWell
<1>4. ASSUME NEW t \in Int, PausedAt(P, R, t) PROVE t < q
  <2>1. PICK p \in P : p =< t /\ R \cap (p + 1)..t = {}
    BY <1>4 DEF PausedAt
  <2>2. PICK r \in R : p < r
    BY <1>3
  <2>3. r \notin (p + 1)..t
    BY <2>1, <2>2
  <2>4. t < r
    BY <1>1, <1>2, <2>2, <2>3
  <2> QED BY <1>1, <1>2, <2>4
<1>5. ASSUME NEW t \in Int, t < q PROVE PausedAt(Q, R, t) <=> PausedAt(P, R, t)
  <2>1. ~ (q =< t)
    BY <1>1, <1>5
  <2> QED BY <2>1 DEF PausedAt
<1>6. PausedBefore(Q, R, q) = PausedIn(P, R)
  <2>1. ASSUME NEW t PROVE t \in PausedBefore(Q, R, q) <=> t \in PausedIn(P, R)
    <3> HIDE DEF Q
    <3>1. t \in PausedBefore(Q, R, q) <=>
            t \in Int /\ 0 =< t /\ t < Ended /\ PausedAt(Q, R, t) /\ t < q
      BY PausedSets
    <3>2. t \in PausedIn(P, R) <=>
            t \in Int /\ 0 =< t /\ t < Ended /\ PausedAt(P, R, t)
      BY PausedSets
    <3> QED BY <1>4, <1>5, <3>1, <3>2
  <2> HIDE DEF Q
  <2> QED BY <2>1
<1>7. \A x \in X : \E p \in Q : p =< x /\ R \cap (p + 1)..(x - 1) = {}
  BY <1>3
<1>8. q \in Q /\ \A p \in Q : p =< q
  BY <1>1
<1> HIDE DEF Q
<1>9. PausesWell(Q, R, X, q, paused)
  BY <1>1, <1>3, <1>6, <1>7, <1>8 DEF PausesWell
<1> QED BY <1>9 DEF Q

(* A resume closes the open pause, which lasted until then.                *)
LEMMA ResumeCloses ==
    ASSUME NEW P \in SUBSET (0..Ended), NEW R \in SUBSET (0..Ended),
           NEW X \in SUBSET (0..Ended), NEW q \in 0..Ended, NEW r \in 0..Ended,
           NEW paused, q < r, \A x \in X : x =< r,
           PausesWell(P, R, X, q, paused)
    PROVE  PausesWell(P, R \cup {r}, X, NotPaused, paused + (r - q))
<1> DEFINE T == R \cup {r}
           B == PausedBefore(P, R, q)
           I == q..(r - 1)
<1>1. Ended \in Nat /\ q \in Nat /\ r \in Nat /\ q # NotPaused /\ r =< Ended
  BY RulesAssumption DEF NotPaused
<1>2. /\ q \in P /\ \A u \in R : u < q
      /\ \A p \in P : p =< q
      /\ paused = Cardinality(B)
      /\ \A x \in X : \E p \in P : p =< x /\ R \cap (p + 1)..(x - 1) = {}
  BY <1>1 DEF PausesWell
<1>3. /\ \A p \in P : p \in Nat
      /\ \A u \in R : u \in Nat
      /\ \A x \in X : x \in Nat
  BY <1>1
<1>4. ASSUME NEW t \in Int, t < q PROVE PausedAt(P, T, t) <=> PausedAt(P, R, t)
  <2>1. \A p : r \notin (p + 1)..t
    BY <1>1, <1>4
  <2>2. \A p : T \cap (p + 1)..t = R \cap (p + 1)..t
    BY <2>1
  <2> QED BY <2>2 DEF PausedAt
<1>5. ASSUME NEW t \in Int, q =< t, t < r PROVE PausedAt(P, T, t)
  <2>1. \A u \in T : u \notin (q + 1)..t
    BY <1>1, <1>2, <1>3, <1>5
  <2>2. T \cap (q + 1)..t = {}
    BY <2>1
  <2> QED BY <1>2, <1>5, <2>2 DEF PausedAt
<1>6. ASSUME NEW t \in Int, r =< t PROVE ~ PausedAt(P, T, t)
  <2>1. SUFFICES ASSUME NEW p \in P PROVE r \in (p + 1)..t
    BY DEF PausedAt
  <2>2. p =< q /\ p \in Nat
    BY <1>2, <1>3
  <2> QED BY <1>1, <1>6, <2>2
<1>7. PausedIn(P, T) = B \cup I
  <2>1. ASSUME NEW t PROVE t \in PausedIn(P, T) <=> t \in B \/ t \in I
    <3>1. t \in PausedIn(P, T) <=>
            t \in Int /\ 0 =< t /\ t < Ended /\ PausedAt(P, T, t)
      <4> HIDE DEF T
      <4> QED BY PausedSets
    <3>2. t \in B <=> t \in Int /\ 0 =< t /\ t < Ended /\ PausedAt(P, R, t) /\ t < q
      BY PausedSets
    <3>3. t \in I <=> t \in Int /\ q =< t /\ t < r
      BY <1>1
    <3>4. t \in Int => t < q \/ (q =< t /\ t < r) \/ r =< t
      BY <1>1
    <3>5. t \in Int /\ q =< t /\ t < r => 0 =< t /\ t < Ended /\ ~ (t < q)
      BY <1>1
    <3>6. t \in Int /\ r =< t => ~ (t < q) /\ ~ (t < r)
      BY <1>1
    <3> HIDE DEF T, B, I
    <3>7. CASE t \in Int /\ t < q
      <4>1. ~ (q =< t)
        BY <1>1, <3>7
      <4> QED BY <1>4, <3>1, <3>2, <3>3, <3>7, <4>1
    <3>8. CASE t \in Int /\ q =< t /\ t < r
      BY <1>5, <3>1, <3>3, <3>5, <3>8
    <3>9. CASE t \in Int /\ r =< t
      BY <1>6, <3>1, <3>2, <3>3, <3>6, <3>9
    <3>10. CASE t \notin Int
      BY <3>1, <3>2, <3>3, <3>10
    <3> QED BY <3>4, <3>7, <3>8, <3>9, <3>10
  <2> HIDE DEF B, I, T
  <2> QED BY <2>1
<1>8. Cardinality(PausedIn(P, T)) = paused + (r - q)
  <2>1. IsFiniteSet(I) /\ Cardinality(I) = r - q
    BY <1>1, InstantsOf
  <2>2. IsFiniteSet(B)
    BY PausedSets
  <2>3. B \cap I = {}
    <3>1. \A t \in B : t \in Int /\ t < q
      BY PausedSets
    <3>2. \A t \in I : t \in Int /\ q =< t
      BY <1>1
    <3> HIDE DEF B, I
    <3> QED BY <1>1, <3>1, <3>2
  <2> HIDE DEF B, I, T
  <2> QED BY <1>2, <1>7, <2>1, <2>2, <2>3, DisjointUnion
<1>9. \A p \in P : \E u \in T : p < u
  <2>1. \A p \in P : p < r
    BY <1>1, <1>2, <1>3
  <2> QED BY <2>1
<1>10. ASSUME NEW x \in X PROVE \E p \in P : p =< x /\ T \cap (p + 1)..(x - 1) = {}
  <2>1. PICK p \in P : p =< x /\ R \cap (p + 1)..(x - 1) = {}
    BY <1>2
  <2>2. x =< r
    OBVIOUS
  <2>3. r \notin (p + 1)..(x - 1)
    BY <1>1, <1>3, <2>2
  <2> QED BY <2>1, <2>3
<1> HIDE DEF T
<1>11. PausesWell(P, T, X, NotPaused, paused + (r - q))
  BY <1>8, <1>9, <1>10 DEF PausesWell
<1> QED BY <1>11 DEF T

(* A repair is made in the open pause.                                     *)
LEMMA RepairIsInPause ==
    ASSUME NEW P \in SUBSET (0..Ended), NEW R \in SUBSET (0..Ended),
           NEW X \in SUBSET (0..Ended), NEW q \in 0..Ended, NEW x \in 0..Ended,
           NEW paused, \A p \in P : p =< x,
           PausesWell(P, R, X, q, paused)
    PROVE  PausesWell(P, R, X \cup {x}, q, paused)
<1>1. Ended \in Nat /\ q \in Nat /\ x \in Nat /\ q # NotPaused
  BY RulesAssumption DEF NotPaused
<1>2. q \in P /\ \A u \in R : u < q
  BY <1>1 DEF PausesWell
<1>3. \A u \in R : u \in Nat
  BY <1>1
<1>4. q =< x
  BY <1>2
<1>5. \A u \in R : u \notin (q + 1)..(x - 1)
  BY <1>1, <1>2, <1>3
<1>6. R \cap (q + 1)..(x - 1) = {}
  BY <1>5
<1> QED BY <1>2, <1>4, <1>6 DEF PausesWell

Operations ==
    [type : {"pause", "resume", "splice_repair", "operator_note"}, at : 0..Ended]

Logs == [valid : BOOLEAN, pauseAt : Int, paused : Int]

NoLog == [valid |-> TRUE, pauseAt |-> NotPaused, paused |-> 0]

Scanning(s) == Loop(Scan, NoLog, s)

LEMMA OperationFields ==
    ASSUME NEW e \in Operations
    PROVE  /\ e.at \in Int /\ 0 =< e.at /\ e.at =< Ended /\ e.at # NotPaused
           /\ Rank(e.type) \in 0..2
           /\ e.type = "pause" <=> Rank(e.type) = 0
           /\ e.type = "resume" <=> Rank(e.type) = 2
           /\ e.type \in {"pause", "resume", "splice_repair", "operator_note"}
<1>1. e.at \in 0..Ended /\ Ended \in Nat
  BY RulesAssumption DEF Operations
<1>2. e.type \in {"pause", "resume", "splice_repair", "operator_note"}
  BY DEF Operations
<1>3. CASE e.type = "pause"
  BY <1>1, <1>3 DEF Rank, NotPaused
<1>4. CASE e.type = "resume"
  BY <1>1, <1>4 DEF Rank, NotPaused
<1>5. CASE e.type \in {"splice_repair", "operator_note"}
  <2>1. Rank(e.type) = 1 /\ e.type # "pause" /\ e.type # "resume"
    BY <1>5 DEF Rank
  <2> QED BY <1>1, <1>2, <2>1 DEF NotPaused
<1> QED BY <1>2, <1>3, <1>4, <1>5

(* What the scan makes of one operation.                                   *)
LEMMA ScanIs ==
    ASSUME NEW v \in Logs, NEW e \in Operations
    PROVE  /\ Scan(v, e) \in Logs
           /\ e.type = "pause" =>
                /\ Scan(v, e).valid <=> v.valid /\ v.pauseAt = NotPaused
                /\ Scan(v, e).pauseAt = e.at /\ Scan(v, e).paused = v.paused
           /\ e.type = "resume" =>
                /\ Scan(v, e).valid <=> v.valid /\ v.pauseAt # NotPaused
                                                /\ e.at > v.pauseAt
                /\ Scan(v, e).pauseAt = NotPaused
                /\ Scan(v, e).paused = v.paused + (e.at - v.pauseAt)
           /\ e.type = "splice_repair" =>
                /\ Scan(v, e).valid <=> v.valid /\ v.pauseAt # NotPaused
                /\ Scan(v, e).pauseAt = v.pauseAt /\ Scan(v, e).paused = v.paused
           /\ e.type = "operator_note" => Scan(v, e) = v
<1>1. e.at \in Int /\ e.type \in {"pause", "resume", "splice_repair", "operator_note"}
  BY OperationFields
<1>2. v.valid \in BOOLEAN /\ v.pauseAt \in Int /\ v.paused \in Int
  BY DEF Logs
<1>3. \A b \in BOOLEAN :
         [v EXCEPT !.valid = b] = [valid |-> b, pauseAt |-> v.pauseAt, paused |-> v.paused]
  BY DEF Logs
<1>4. CASE e.type = "pause"
  <2> DEFINE b == v.valid /\ v.pauseAt = NotPaused
  <2>1. Scan(v, e) = [v EXCEPT !.valid = b, !.pauseAt = e.at]
    BY <1>4 DEF Scan
  <2>2. b \in BOOLEAN
    OBVIOUS
  <2> HIDE DEF b
  <2>3. Scan(v, e) = [valid |-> b, pauseAt |-> e.at, paused |-> v.paused]
    BY <2>1 DEF Logs
  <2>4. Scan(v, e) \in Logs
    BY <1>1, <1>2, <2>2, <2>3 DEF Logs
  <2>5. Scan(v, e).valid = b /\ Scan(v, e).pauseAt = e.at /\ Scan(v, e).paused = v.paused
    BY <2>3
  <2> QED BY <1>4, <2>4, <2>5 DEF b
<1>5. CASE e.type = "resume"
  <2> DEFINE b == v.valid /\ v.pauseAt # NotPaused /\ e.at > v.pauseAt
             d == v.paused + (e.at - v.pauseAt)
  <2>1. Scan(v, e) = [v EXCEPT !.valid = b, !.paused = d, !.pauseAt = NotPaused]
    BY <1>5 DEF Scan
  <2>2. b \in BOOLEAN /\ d \in Int /\ NotPaused \in Int
    BY <1>1, <1>2 DEF NotPaused
  <2> HIDE DEF b, d
  <2>3. Scan(v, e) = [valid |-> b, pauseAt |-> NotPaused, paused |-> d]
    BY <2>1 DEF Logs
  <2>4. Scan(v, e) \in Logs
    BY <2>2, <2>3 DEF Logs
  <2>5. Scan(v, e).valid = b /\ Scan(v, e).pauseAt = NotPaused /\ Scan(v, e).paused = d
    BY <2>3
  <2> QED BY <1>5, <2>4, <2>5 DEF b, d
<1>6. CASE e.type = "splice_repair"
  <2> DEFINE b == v.valid /\ v.pauseAt # NotPaused
  <2>1. Scan(v, e) = [v EXCEPT !.valid = b]
    BY <1>6 DEF Scan
  <2>2. b \in BOOLEAN
    OBVIOUS
  <2> HIDE DEF b
  <2>3. Scan(v, e) = [valid |-> b, pauseAt |-> v.pauseAt, paused |-> v.paused]
    BY <1>3, <2>1, <2>2
  <2>4. Scan(v, e) \in Logs
    BY <1>2, <2>2, <2>3 DEF Logs
  <2>5. /\ Scan(v, e).valid = b /\ Scan(v, e).pauseAt = v.pauseAt
        /\ Scan(v, e).paused = v.paused
    BY <2>3
  <2> QED BY <1>6, <2>4, <2>5 DEF b
<1>7. CASE e.type = "operator_note"
  <2>1. Scan(v, e) = v
    BY <1>7 DEF Scan
  <2> QED BY <1>7, <2>1
<1> QED BY <1>1, <1>4, <1>5, <1>6, <1>7

(* The same of a log and the log that follows.                             *)
Scans(v, e, w) ==
    /\ e.type = "pause" =>
         /\ w.valid <=> v.valid /\ v.pauseAt = NotPaused
         /\ w.pauseAt = e.at /\ w.paused = v.paused
    /\ e.type = "resume" =>
         /\ w.valid <=> v.valid /\ v.pauseAt # NotPaused /\ e.at > v.pauseAt
         /\ w.pauseAt = NotPaused
         /\ w.paused = v.paused + (e.at - v.pauseAt)
    /\ e.type = "splice_repair" =>
         /\ w.valid <=> v.valid /\ v.pauseAt # NotPaused
         /\ w.pauseAt = v.pauseAt /\ w.paused = v.paused
    /\ e.type = "operator_note" => w = v

LEMMA ScanScans ==
    ASSUME NEW v \in Logs, NEW e \in Operations
    PROVE  Scans(v, e, Scan(v, e))
<1> DEFINE w == Scan(v, e)
<1>1. /\ e.type = "pause" =>
           /\ w.valid <=> v.valid /\ v.pauseAt = NotPaused
           /\ w.pauseAt = e.at /\ w.paused = v.paused
      /\ e.type = "resume" =>
           /\ w.valid <=> v.valid /\ v.pauseAt # NotPaused /\ e.at > v.pauseAt
           /\ w.pauseAt = NotPaused
           /\ w.paused = v.paused + (e.at - v.pauseAt)
      /\ e.type = "splice_repair" =>
           /\ w.valid <=> v.valid /\ v.pauseAt # NotPaused
           /\ w.pauseAt = v.pauseAt /\ w.paused = v.paused
      /\ e.type = "operator_note" => w = v
  BY ScanIs
<1> HIDE DEF w
<1>2. Scans(v, e, w)
  BY <1>1 DEF Scans
<1> QED BY <1>2 DEF w

LEMMA ScanLoop ==
    ASSUME NEW s \in Seq(Operations)
    PROVE  /\ Scanning(s)[0] = NoLog
           /\ \A i \in 0..Len(s) : Scanning(s)[i] \in Logs
           /\ \A i \in 1..Len(s) : Scanning(s)[i] = Scan(Scanning(s)[i - 1], s[i])
<1> DEFINE n == Len(s)
           V == Logs
           first == NoLog
           step == [x \in (1..n) \X V |-> Scan(x[2], s[x[1]])]
           body(g) == [i \in 0..n |-> IF i = 0 THEN first ELSE Scan(g[i - 1], s[i])]
<1>1. step \in Steps(n, V)
  <2>1. ASSUME NEW x \in (1..n) \X V PROVE Scan(x[2], s[x[1]]) \in V
    <3>1. x[2] \in Logs /\ s[x[1]] \in Operations
      OBVIOUS
    <3> QED BY <3>1, ScanIs
  <2> QED BY <2>1 DEF Steps
<1>2. n \in Nat /\ first \in V
  BY DEF NoLog, Logs, NotPaused
<1>3. PICK g \in [0..n -> V] : /\ g[0] = first
                               /\ \A i \in 1..n : g[i] = step[<<i, g[i - 1]>>]
  <2> HIDE DEF step, V, n, first
  <2>1. HasValues(n, V, first, step)
    BY <1>1, <1>2, LoopExists
  <2> QED BY <2>1 DEF HasValues
<1>4. ASSUME NEW i \in 1..n PROVE g[i] = Scan(g[i - 1], s[i])
  <2>1. i - 1 \in 0..n /\ g[i - 1] \in V
    BY <1>3
  <2>2. <<i, g[i - 1]>> \in (1..n) \X V
    BY <2>1
  <2> QED BY <1>3, <2>2
<1>5. g = body(g)
  BY <1>3, <1>4
<1>6. Scanning(s) = CHOOSE h : h = body(h)
  BY DEF Scanning, Loop
<1>7. Scanning(s) = body(Scanning(s))
  <2> HIDE DEF body
  <2> QED BY <1>5, <1>6
<1>8. Scanning(s)[0] = first
  BY <1>2, <1>7
<1>9. ASSUME NEW i \in 1..n PROVE Scanning(s)[i] = Scan(Scanning(s)[i - 1], s[i])
  <2>1. i \in 0..n /\ i # 0
    BY <1>2
  <2> QED BY <1>7, <2>1
<1>10. \A i \in 0..n : Scanning(s)[i] \in Logs
  <2> DEFINE S == {i \in 0..n : Scanning(s)[i] \in Logs}
  <2>1. 0 \in S
    BY <1>2, <1>8
  <2>2. ASSUME NEW i \in 0..(n - 1), i \in S PROVE i + 1 \in S
    <3>1. i + 1 \in 1..n /\ (i + 1) - 1 = i /\ i + 1 \in 0..n /\ s[i + 1] \in Operations
      BY <1>2
    <3>2. Scanning(s)[i + 1] = Scan(Scanning(s)[i], s[i + 1])
      BY <1>9, <3>1
    <3> QED BY <2>2, <3>1, <3>2, ScanIs
  <2> HIDE DEF S
  <2>3. \A i \in 0..n : i \in S
    BY <1>2, <2>1, <2>2, BoundedInduction
  <2> QED BY <2>3 DEF S
<1> QED BY <1>8, <1>9, <1>10

(* In the order in which the scan wants them.                              *)
Chronological(l) ==
    \A i, j \in DOMAIN l : i < j =>
        /\ l[i].at =< l[j].at
        /\ l[i].at = l[j].at => Rank(l[i].type) =< Rank(l[j].type)

LEMMA ByTimeFacts ==
    ASSUME NEW s \in Seq(Operations)
    PROVE  /\ ByTime(s) \in Seq(Operations) /\ Len(ByTime(s)) = Len(s)
           /\ Chronological(ByTime(s))
           /\ \E p : /\ IsPermutation(p, Len(s))
                     /\ \A i \in 1..Len(s) : ByTime(s)[i] = s[p[i]]
<1> DEFINE n == Len(s)
           keys == [i \in DOMAIN s |-> <<s[i].at, Rank(s[i].type)>>]
           t == ByTime(s)
<1>1. n \in Nat /\ DOMAIN s = 1..n
  OBVIOUS
<1>2. \A i \in 1..n : /\ s[i] \in Operations /\ s[i].at \in Int
                      /\ Rank(s[i].type) \in Int
  BY OperationFields
<1>3. /\ keys \in [1..n -> Int \X Int]
      /\ \A i \in 1..n : keys[i][1] = s[i].at /\ keys[i][2] = Rank(s[i].type)
  BY <1>1, <1>2
<1>4. t = Sorted(s, keys)
  BY DEF ByTime
<1>5. PICK p : /\ IsPermutation(p, n)
               /\ t = [i \in 1..n |-> s[p[i]]]
               /\ \A i, j \in 1..n : i < j => ~ Less(keys[p[j]], keys[p[i]])
  <2> HIDE DEF keys, t
  <2> QED BY <1>3, <1>4, SortedPermutes
<1> HIDE DEF t, keys
<1>6. \A i \in 1..n : p[i] \in 1..n /\ t[i] = s[p[i]]
  BY <1>5 DEF IsPermutation
<1>7. t \in Seq(Operations) /\ Len(t) = n /\ DOMAIN t = 1..n
  BY <1>1, <1>2, <1>5, <1>6
<1>8. ASSUME NEW i \in 1..n, NEW j \in 1..n, i < j
      PROVE  /\ t[i].at =< t[j].at
             /\ t[i].at = t[j].at => Rank(t[i].type) =< Rank(t[j].type)
  <2>1. p[i] \in 1..n /\ p[j] \in 1..n /\ t[i] = s[p[i]] /\ t[j] = s[p[j]]
    BY <1>6
  <2>2. ~ Less(keys[p[j]], keys[p[i]])
    BY <1>5, <1>8
  <2>3. /\ ~ (s[p[j]].at < s[p[i]].at)
        /\ ~ (s[p[j]].at = s[p[i]].at /\ Rank(s[p[j]].type) < Rank(s[p[i]].type))
    <3>1. /\ keys[p[i]][1] = s[p[i]].at /\ keys[p[i]][2] = Rank(s[p[i]].type)
          /\ keys[p[j]][1] = s[p[j]].at /\ keys[p[j]][2] = Rank(s[p[j]].type)
      BY <1>3, <2>1
    <3> QED BY <2>2, <3>1 DEF Less
  <2>4. /\ s[p[i]].at \in Int /\ s[p[j]].at \in Int
        /\ Rank(s[p[i]].type) \in Int /\ Rank(s[p[j]].type) \in Int
    BY <1>2, <2>1
  <2> QED BY <2>1, <2>3, <2>4
<1>9. Chronological(t)
  BY <1>7, <1>8 DEF Chronological
<1> QED BY <1>5, <1>6, <1>7, <1>9 DEF t

TimesIn(l, i, type) == {l[j].at : j \in {k \in 1..i : l[k].type = type}}

(* The times of the operations of one type, and what comes after them.     *)
LEMMA TimesStep ==
    ASSUME NEW l \in Seq(Operations), Chronological(l), NEW i \in 0..(Len(l) - 1),
           NEW type
    PROVE  /\ TimesIn(l, i, type) \in SUBSET (0..Ended)
           /\ TimesIn(l, i + 1, type) =
                IF l[i + 1].type = type THEN TimesIn(l, i, type) \cup {l[i + 1].at}
                ELSE TimesIn(l, i, type)
           /\ \A t \in TimesIn(l, i, type) :
                /\ t =< l[i + 1].at
                /\ type = "resume" /\ l[i + 1].type = "pause" => t < l[i + 1].at
<1>1. /\ i \in Nat /\ i + 1 \in DOMAIN l /\ 1..(i + 1) = (1..i) \cup {i + 1}
      /\ 1..i \subseteq DOMAIN l /\ \A j \in 1..i : j < i + 1
  OBVIOUS
<1>2. \A j \in DOMAIN l : l[j] \in Operations
  OBVIOUS
<1>3. TimesIn(l, i, type) \in SUBSET (0..Ended)
  <2>1. \A j \in 1..i : l[j].at \in 0..Ended
    BY <1>1, <1>2 DEF Operations
  <2> QED BY <2>1 DEF TimesIn
<1>4. TimesIn(l, i + 1, type) =
        IF l[i + 1].type = type THEN TimesIn(l, i, type) \cup {l[i + 1].at}
        ELSE TimesIn(l, i, type)
  <2>1. \A j : j \in 1..(i + 1) <=> j \in 1..i \/ j = i + 1
    BY <1>1
  <2> QED BY <2>1 DEF TimesIn
<1>5. ASSUME NEW t \in TimesIn(l, i, type)
      PROVE  /\ t =< l[i + 1].at
             /\ type = "resume" /\ l[i + 1].type = "pause" => t < l[i + 1].at
  <2>1. PICK j \in 1..i : l[j].type = type /\ t = l[j].at
    BY DEF TimesIn
  <2>2. j \in DOMAIN l /\ j < i + 1 /\ l[j] \in Operations /\ l[i + 1] \in Operations
    BY <1>1, <1>2
  <2>3. /\ l[j].at =< l[i + 1].at
        /\ l[j].at = l[i + 1].at => Rank(l[j].type) =< Rank(l[i + 1].type)
    BY <1>1, <2>2 DEF Chronological
  <2>4. l[j].at \in Int /\ l[i + 1].at \in Int
    BY <2>2, OperationFields
  <2>5. ASSUME type = "resume", l[i + 1].type = "pause" PROVE l[j].at # l[i + 1].at
    <3>1. Rank(l[j].type) = 2 /\ Rank(l[i + 1].type) = 0
      BY <2>1, <2>2, <2>5, OperationFields
    <3> QED BY <2>3, <3>1
  <2>6. type = "resume" /\ l[i + 1].type = "pause" => l[j].at < l[i + 1].at
    <3>1. type = "resume" /\ l[i + 1].type = "pause" => l[j].at # l[i + 1].at
      BY <2>5
    <3> QED BY <2>3, <2>4, <3>1
  <2> QED BY <2>1, <2>3, <2>6
<1> QED BY <1>3, <1>4, <1>5

(* The scan of a log that is valid so far has counted its pauses.          *)
ScannedWell(l, i, v) ==
    v.valid => PausesWell(TimesIn(l, i, "pause"), TimesIn(l, i, "resume"),
                          TimesIn(l, i, "splice_repair"), v.pauseAt, v.paused)

(* The next operation, if it keeps the log valid.                          *)
LEMMA ScanStep ==
    ASSUME NEW l \in Seq(Operations), Chronological(l), NEW i \in 0..(Len(l) - 1),
           NEW v \in Logs, ScannedWell(l, i, v)
    PROVE  ScannedWell(l, i + 1, Scan(v, l[i + 1]))
<1> DEFINE e == l[i + 1]
           w == Scan(v, e)
           P == TimesIn(l, i, "pause")
           R == TimesIn(l, i, "resume")
           X == TimesIn(l, i, "splice_repair")
           Pn == TimesIn(l, i + 1, "pause")
           Rn == TimesIn(l, i + 1, "resume")
           Xn == TimesIn(l, i + 1, "splice_repair")
<1>1. e \in Operations
  OBVIOUS
<1>2. e.at \in 0..Ended /\ e.at \in Int
  BY <1>1, OperationFields DEF Operations
<1>3. P \in SUBSET (0..Ended) /\ R \in SUBSET (0..Ended) /\ X \in SUBSET (0..Ended)
  BY TimesStep
<1>4. /\ Pn = IF e.type = "pause" THEN P \cup {e.at} ELSE P
      /\ Rn = IF e.type = "resume" THEN R \cup {e.at} ELSE R
      /\ Xn = IF e.type = "splice_repair" THEN X \cup {e.at} ELSE X
  <2>1. Pn = IF e.type = "pause" THEN P \cup {e.at} ELSE P
    BY TimesStep
  <2>2. Rn = IF e.type = "resume" THEN R \cup {e.at} ELSE R
    BY TimesStep
  <2>3. Xn = IF e.type = "splice_repair" THEN X \cup {e.at} ELSE X
    BY TimesStep
  <2> QED BY <2>1, <2>2, <2>3
<1>5. /\ \A t \in P : t =< e.at
      /\ \A t \in X : t =< e.at
      /\ \A t \in R : e.type = "pause" => t < e.at
  <2>1. \A t \in P : t =< e.at
    BY TimesStep
  <2>2. \A t \in X : t =< e.at
    BY TimesStep
  <2>3. \A t \in R : e.type = "pause" => t < e.at
    BY TimesStep
  <2> QED BY <2>1, <2>2, <2>3
<1>6. v.valid => PausesWell(P, R, X, v.pauseAt, v.paused)
  BY DEF ScannedWell
<1>7. v.valid /\ v.pauseAt # NotPaused => v.pauseAt \in 0..Ended
  <2> HIDE DEF P, R, X
  <2>1. v.valid /\ v.pauseAt # NotPaused => v.pauseAt \in P
    BY <1>6 DEF PausesWell
  <2> QED BY <1>3, <2>1
<1>8. SUFFICES ASSUME w.valid PROVE PausesWell(Pn, Rn, Xn, w.pauseAt, w.paused)
  BY DEF ScannedWell
<1> HIDE DEF e, P, R, X, Pn, Rn, Xn
<1>9. CASE e.type = "pause"
  <2>1. /\ v.valid /\ v.pauseAt = NotPaused
        /\ w.pauseAt = e.at /\ w.paused = v.paused
    BY <1>1, <1>8, <1>9, ScanIs
  <2>2. PausesWell(P, R, X, NotPaused, v.paused)
    BY <1>6, <2>1
  <2>3. PausesWell(P \cup {e.at}, R, X, e.at, v.paused)
    BY <1>2, <1>3, <1>5, <1>9, <2>2, PauseOpens
  <2> QED BY <1>4, <1>9, <2>1, <2>3
<1>10. CASE e.type = "resume"
  <2> DEFINE q == v.pauseAt
  <2>1. /\ v.valid /\ q # NotPaused /\ e.at > q
        /\ w.pauseAt = NotPaused /\ w.paused = v.paused + (e.at - q)
    BY <1>1, <1>8, <1>10, ScanIs
  <2>2. PausesWell(P, R, X, q, v.paused) /\ q \in 0..Ended /\ q < e.at
    BY <1>2, <1>6, <1>7, <2>1
  <2> HIDE DEF q
  <2>3. PausesWell(P, R \cup {e.at}, X, NotPaused, v.paused + (e.at - q))
    BY <1>2, <1>3, <1>5, <2>2, ResumeCloses
  <2> QED BY <1>4, <1>10, <2>1, <2>3
<1>11. CASE e.type = "splice_repair"
  <2> DEFINE q == v.pauseAt
  <2>1. /\ v.valid /\ q # NotPaused
        /\ w.pauseAt = q /\ w.paused = v.paused
    BY <1>1, <1>8, <1>11, ScanIs
  <2>2. PausesWell(P, R, X, q, v.paused) /\ q \in 0..Ended
    BY <1>6, <1>7, <2>1
  <2> HIDE DEF q
  <2>3. PausesWell(P, R, X \cup {e.at}, q, v.paused)
    BY <1>2, <1>3, <1>5, <2>2, RepairIsInPause
  <2> QED BY <1>4, <1>11, <2>1, <2>3
<1>12. CASE e.type = "operator_note"
  <2>1. w = v
    BY <1>1, <1>12, ScanIs
  <2> QED BY <1>4, <1>6, <1>8, <1>12, <2>1
<1> QED BY <1>1, <1>9, <1>10, <1>11, <1>12, OperationFields

(* All of them.                                                            *)
LEMMA ScanCounts ==
    ASSUME NEW l \in Seq(Operations), Chronological(l)
    PROVE  ScannedWell(l, Len(l), Scanning(l)[Len(l)])
<1> DEFINE n == Len(l)
           S == {i \in 0..n : ScannedWell(l, i, Scanning(l)[i])}
<1>1. n \in Nat
  OBVIOUS
<1>2. 0 \in S
  <2>1. /\ TimesIn(l, 0, "pause") = {} /\ TimesIn(l, 0, "resume") = {}
        /\ TimesIn(l, 0, "splice_repair") = {}
    BY DEF TimesIn
  <2>2. PausedIn({}, {}) = {}
    BY DEF PausedIn, PausedAt
  <2>3. PausesWell({}, {}, {}, NotPaused, 0)
    BY <2>2, FS_EmptySet DEF PausesWell
  <2>4. NoLog.pauseAt = NotPaused /\ NoLog.paused = 0
    BY DEF NoLog
  <2>5. ScannedWell(l, 0, NoLog)
    BY <2>1, <2>3, <2>4 DEF ScannedWell
  <2>6. Scanning(l)[0] = NoLog
    BY ScanLoop
  <2> QED BY <1>1, <2>5, <2>6
<1>3. ASSUME NEW i \in 0..(n - 1), i \in S PROVE i + 1 \in S
  <2>1. i + 1 \in 1..n /\ (i + 1) - 1 = i /\ i + 1 \in 0..n /\ i \in 0..n
    BY <1>1
  <2>2. Scanning(l)[i + 1] = Scan(Scanning(l)[i], l[i + 1]) /\ Scanning(l)[i] \in Logs
    BY <2>1, ScanLoop
  <2>3. ScannedWell(l, i, Scanning(l)[i])
    BY <1>3
  <2>4. ScannedWell(l, i + 1, Scan(Scanning(l)[i], l[i + 1]))
    BY <2>2, <2>3, ScanStep
  <2> QED BY <2>1, <2>2, <2>4
<1>4. \A i \in 0..n : i \in S
  <2> HIDE DEF S
  <2> QED BY <1>1, <1>2, <1>3, BoundedInduction
<1> QED BY <1>1, <1>4

SubmittedAt(s, type) == {s[i].at : i \in {j \in DOMAIN s : s[j].type = type}}

(* What an accepted log says of its pauses.                                *)
LEMMA PausesAreCounted ==
    ASSUME NEW s \in Seq(Operations), OperationsAccepted(s), NEW P, NEW R, NEW running,
           P = SubmittedAt(s, "pause"), R = SubmittedAt(s, "resume"),
           running = {t \in 0..(Ended - 1) : ~PausedAt(P, R, t)}
    PROVE  /\ Scanned(s).paused = Ended - Cardinality(running)
           /\ \A x \in SubmittedAt(s, "splice_repair") :
                PausedAt(P, R, x) \/ PausedAt(P, R, x - 1)
           /\ AsLongAs(Duration, Cardinality(running))
<1> DEFINE n == Len(s)
           l == ByTime(s)
           log == Scanned(s)
<1>1. n \in Nat /\ DOMAIN s = 1..n /\ Ended \in Nat
  BY RulesAssumption
<1>2. l \in Seq(Operations) /\ Len(l) = n /\ Chronological(l)
  BY ByTimeFacts
<1>3. PICK p : IsPermutation(p, n) /\ \A i \in 1..n : l[i] = s[p[i]]
  BY ByTimeFacts
<1>4. log = Scanning(l)[n]
  BY DEF Scanned, Scanning, NoLog
<1>5. log.valid /\ log.pauseAt = NotPaused /\ AsLongAs(Duration, Ended - log.paused)
  BY DEF OperationsAccepted
<1>6. ASSUME NEW type PROVE TimesIn(l, n, type) = SubmittedAt(s, type)
  <2> HIDE DEF l, n
  <2>1. TimesIn(l, n, type) \subseteq SubmittedAt(s, type)
    <3> SUFFICES ASSUME NEW t \in TimesIn(l, n, type) PROVE t \in SubmittedAt(s, type)
      OBVIOUS
    <3>1. PICK i \in 1..n : l[i].type = type /\ t = l[i].at
      BY DEF TimesIn
    <3>2. p[i] \in 1..n /\ l[i] = s[p[i]]
      BY <1>3 DEF IsPermutation
    <3> QED BY <1>1, <3>1, <3>2 DEF SubmittedAt
  <2>2. SubmittedAt(s, type) \subseteq TimesIn(l, n, type)
    <3> SUFFICES ASSUME NEW t \in SubmittedAt(s, type) PROVE t \in TimesIn(l, n, type)
      OBVIOUS
    <3>1. PICK j \in 1..n : s[j].type = type /\ t = s[j].at
      BY <1>1 DEF SubmittedAt
    <3>2. PICK i \in 1..n : p[i] = j
      BY <1>3 DEF IsPermutation
    <3>3. l[i] = s[j]
      BY <1>3, <3>2
    <3> QED BY <3>1, <3>3 DEF TimesIn
  <2> QED BY <2>1, <2>2
<1> DEFINE X == SubmittedAt(s, "splice_repair")
<1>7. PausesWell(P, R, X, NotPaused, log.paused)
  <2>1. ScannedWell(l, n, log)
    <3> HIDE DEF l, log
    <3> QED BY <1>2, <1>4, ScanCounts
  <2> HIDE DEF l, n, log
  <2> QED BY <1>5, <1>6, <2>1 DEF ScannedWell
<1> HIDE DEF log, l, X
<1>8. /\ log.paused = Cardinality(PausedIn(P, R))
      /\ \A x \in X : \E q \in P : q =< x /\ R \cap (q + 1)..(x - 1) = {}
  BY <1>7 DEF PausesWell
<1>9. Cardinality(running) \in Nat /\ log.paused = Ended - Cardinality(running)
  <2> DEFINE A == PausedIn(P, R)
             U == 0..(Ended - 1)
  <2>1. A \cup running = U /\ A \cap running = {}
    BY DEF PausedIn
  <2>2. IsFiniteSet(U) /\ Cardinality(U) = Ended
    <3>1. /\ 0 \in Int /\ Ended - 1 \in Int
          /\ (IF 0 > Ended - 1 THEN 0 ELSE (Ended - 1) - 0 + 1) = Ended
      BY <1>1
    <3> QED BY <3>1, FS_Interval
  <2> HIDE DEF A, U
  <2>3. IsFiniteSet(A) /\ IsFiniteSet(running)
    <3>1. A \in SUBSET U /\ running \in SUBSET U
      BY <2>1
    <3> QED BY <2>2, <3>1, FS_Subset
  <2>4. Cardinality(U) = Cardinality(A) + Cardinality(running)
    BY <2>1, <2>3, DisjointUnion
  <2>5. Cardinality(A) \in Nat /\ Cardinality(running) \in Nat
    BY <2>3, FS_CardinalityType
  <2> QED BY <1>1, <1>8, <2>2, <2>4, <2>5 DEF A
<1>10. AsLongAs(Duration, Cardinality(running))
  <2>1. Ended - log.paused = Cardinality(running)
    BY <1>1, <1>9
  <2> QED BY <1>5, <2>1
<1>11. ASSUME NEW x \in X PROVE PausedAt(P, R, x) \/ PausedAt(P, R, x - 1)
  <2>1. PICK q \in P : q =< x /\ R \cap (q + 1)..(x - 1) = {}
    BY <1>8
  <2>2. x \in Int /\ q \in Int
    <3>1. \A i \in DOMAIN s : s[i].at \in Int
      BY OperationFields
    <3> QED BY <3>1 DEF X, SubmittedAt
  <2>3. CASE q = x
    <3>1. (q + 1)..x = {}
      BY <2>2, <2>3
    <3> QED BY <2>1, <3>1 DEF PausedAt
  <2>4. CASE q # x
    <3>1. q =< x - 1
      BY <2>1, <2>2, <2>4
    <3> QED BY <2>1, <3>1 DEF PausedAt
  <2> QED BY <2>3, <2>4
<1> QED BY <1>9, <1>10, <1>11 DEF log, X

(* Whatever the order in which a list is submitted, its keys are sorted to *)
(* the same sequence.                                                      *)
Keys(n) == [1..n -> Int \X Int]

SortedBy(keys, p, n) ==
    \A i, j \in 1..n : i < j => ~ Less(keys[p[j]], keys[p[i]])

LEMMA NotEarlier ==
    ASSUME NEW n \in Nat, NEW keys \in Keys(n), NEW p, NEW q,
           IsPermutation(p, n), IsPermutation(q, n),
           SortedBy(keys, p, n), SortedBy(keys, q, n),
           NEW i \in 1..n
    PROVE  ~ Less(keys[p[i]], keys[q[i]])
<1> DEFINE a == keys[p[i]]
           b == keys[q[i]]
           F == {k \in 1..n : Less(keys[k], b)}
           f == [j \in 1..i |-> p[j]]
           g == [k \in F |-> CHOOSE j \in 1..n : q[j] = k]
<1>1. SUFFICES ASSUME Less(a, b) PROVE FALSE
  OBVIOUS
<1>2. /\ \A j \in 1..n : p[j] \in 1..n /\ q[j] \in 1..n
      /\ \A j, k \in 1..n : p[j] = p[k] => j = k
      /\ \A k \in 1..n : \E j \in 1..n : q[j] = k
  BY DEF IsPermutation
<1>3. \A k \in 1..n : keys[k] \in Int \X Int
  BY DEF Keys
<1>4. a \in Int \X Int /\ b \in Int \X Int
  BY <1>2, <1>3
<1>5. ASSUME NEW j \in 1..i PROVE p[j] \in F
  <2>1. j \in 1..n /\ p[j] \in 1..n /\ (j = i \/ j < i)
    BY <1>2
  <2>2. ~ Less(a, keys[p[j]])
    <3>1. CASE j = i
      BY <1>4, <3>1, LessOrder
    <3>2. CASE j < i
      BY <2>1, <3>2 DEF SortedBy
    <3> QED BY <2>1, <3>1, <3>2
  <2>3. keys[p[j]] \in Int \X Int
    BY <1>3, <2>1
  <2> HIDE DEF a, b
  <2>4. keys[p[j]] = a \/ Less(keys[p[j]], a)
    BY <1>4, <2>2, <2>3, LessOrder
  <2>5. Less(keys[p[j]], b)
    <3>1. CASE keys[p[j]] = a
      BY <1>1, <3>1
    <3>2. CASE Less(keys[p[j]], a)
      BY <1>1, <1>4, <2>3, <3>2, LessOrder
    <3> QED BY <2>4, <3>1, <3>2
  <2> QED BY <2>1, <2>5
<1>6. ASSUME NEW k \in F PROVE g[k] \in 1..(i - 1) /\ q[g[k]] = k
  <2>1. k \in 1..n /\ Less(keys[k], b)
    OBVIOUS
  <2>2. g[k] \in 1..n /\ q[g[k]] = k
    <3>1. \E j \in 1..n : q[j] = k
      BY <1>2, <2>1
    <3>2. g[k] = CHOOSE j \in 1..n : q[j] = k
      OBVIOUS
    <3> HIDE DEF g, F
    <3> QED BY <3>1, <3>2
  <2> HIDE DEF g, F
  <2>3. ~ (i < g[k])
    BY <2>1, <2>2 DEF SortedBy
  <2>4. g[k] # i
    <3>1. ~ Less(b, b)
      BY <1>4, LessOrder
    <3> QED BY <2>1, <2>2, <3>1
  <2> QED BY <2>2, <2>3, <2>4
<1>7. IsFiniteSet(F) /\ Cardinality(F) \in Nat
  <2>1. F \in SUBSET (1..n) /\ IsFiniteSet(1..n)
    BY FS_Interval
  <2> HIDE DEF F
  <2> QED BY <2>1, FS_Subset, FS_CardinalityType
<1>8. Cardinality(1..i) =< Cardinality(F)
  <2>1. f \in [1..i -> F] /\ DOMAIN f = 1..i
    BY <1>5
  <2>2. \A j, k \in 1..i : f[j] = f[k] => j = k
    <3>1. \A j \in 1..i : j \in 1..n /\ f[j] = p[j]
      OBVIOUS
    <3> HIDE DEF f
    <3> QED BY <1>2, <3>1
  <2> HIDE DEF f, F
  <2>3. f \in Injection(1..i, F)
    BY <2>1, <2>2 DEF Injection, IsInjective
  <2> QED BY <1>7, <2>3, FS_Injection
<1>9. Cardinality(F) =< Cardinality(1..(i - 1))
  <2>1. g \in [F -> 1..(i - 1)] /\ DOMAIN g = F
    BY <1>6
  <2>2. \A j, k \in F : g[j] = g[k] => j = k
    <3> HIDE DEF g, F
    <3> QED BY <1>6
  <2> HIDE DEF g, F
  <2>3. g \in Injection(F, 1..(i - 1))
    BY <2>1, <2>2 DEF Injection, IsInjective
  <2>4. IsFiniteSet(1..(i - 1))
    BY FS_Interval
  <2> QED BY <2>3, <2>4, FS_Injection
<1>10. Cardinality(1..i) = i /\ Cardinality(1..(i - 1)) = i - 1
  <2>1. /\ 1 \in Int /\ i \in Int /\ (IF 1 > i THEN 0 ELSE i - 1 + 1) = i
        /\ i - 1 \in Int /\ (IF 1 > i - 1 THEN 0 ELSE (i - 1) - 1 + 1) = i - 1
    OBVIOUS
  <2> QED BY <2>1, FS_Interval
<1> HIDE DEF F
<1> QED BY <1>7, <1>8, <1>9, <1>10

(* Two sorted orders of one list have the same keys.                       *)
LEMMA SameKeys ==
    ASSUME NEW n \in Nat, NEW keys \in Keys(n), NEW p, NEW q,
           IsPermutation(p, n), IsPermutation(q, n),
           SortedBy(keys, p, n), SortedBy(keys, q, n)
    PROVE  \A i \in 1..n : keys[p[i]] = keys[q[i]]
<1> SUFFICES ASSUME NEW i \in 1..n PROVE keys[p[i]] = keys[q[i]]
  OBVIOUS
<1>1. ~ Less(keys[p[i]], keys[q[i]])
  BY NotEarlier
<1>2. ~ Less(keys[q[i]], keys[p[i]])
  BY NotEarlier
<1>3. p[i] \in 1..n /\ q[i] \in 1..n
  BY DEF IsPermutation
<1>4. keys[p[i]] \in Int \X Int /\ keys[q[i]] \in Int \X Int
  BY <1>3 DEF Keys
<1> QED BY <1>1, <1>2, <1>4, LessOrder

(* Between two operations of rank 1 with one time, all are of that rank.   *)
LEMMA Between ==
    ASSUME NEW l \in Seq(Operations), Chronological(l),
           NEW a \in DOMAIN l, NEW b \in DOMAIN l, NEW c \in a..b,
           l[a].at = l[b].at, Rank(l[a].type) = 1, Rank(l[b].type) = 1
    PROVE  c \in DOMAIN l /\ Rank(l[c].type) = 1
<1>1. c \in DOMAIN l /\ (c = a \/ a < c) /\ (c = b \/ c < b)
  OBVIOUS
<1>2. \A i \in DOMAIN l : l[i].at \in Int /\ Rank(l[i].type) \in 0..2
  BY OperationFields
<1>3. l[a].at =< l[c].at /\ l[c].at =< l[b].at
  BY <1>1, <1>2 DEF Chronological
<1>4. l[c].at = l[a].at /\ l[c].at = l[b].at
  BY <1>1, <1>2, <1>3
<1>5. /\ c = a \/ Rank(l[a].type) =< Rank(l[c].type)
      /\ c = b \/ Rank(l[c].type) =< Rank(l[b].type)
  BY <1>1, <1>4 DEF Chronological
<1> QED BY <1>1, <1>2, <1>5

(* A scan that is valid at the end was always valid, and operations that   *)
(* neither pause nor resume leave the pause as it is.                      *)
LEMMA ScanHistory ==
    ASSUME NEW l \in Seq(Operations)
    PROVE  /\ Scanning(l)[Len(l)].valid =>
                \A i \in 0..Len(l) : Scanning(l)[i].valid
           /\ \A b \in 0..Len(l) : \A a \in 0..b :
                (\A c \in (a + 1)..b : Rank(l[c].type) = 1) =>
                    Scanning(l)[a].pauseAt = Scanning(l)[b].pauseAt
<1> DEFINE n == Len(l)
           v == Scanning(l)
           S == {i \in 0..n : v[i].valid => \A j \in 0..i : v[j].valid}
           T == {b \in 0..n : \A a \in 0..b :
                    (\A c \in (a + 1)..b : Rank(l[c].type) = 1) =>
                        v[a].pauseAt = v[b].pauseAt}
<1>1. n \in Nat /\ \A i \in 1..n : l[i] \in Operations
  OBVIOUS
<1>2. /\ \A i \in 0..n : v[i] \in Logs
      /\ \A i \in 1..n : v[i] = Scan(v[i - 1], l[i])
  BY ScanLoop
<1> HIDE DEF n, v
<1>3. ASSUME NEW i \in 0..(n - 1)
      PROVE  /\ i + 1 \in 0..n /\ i + 1 \in 1..n /\ v[i] \in Logs
             /\ v[i + 1] = Scan(v[i], l[i + 1]) /\ l[i + 1] \in Operations
  <2>1. i + 1 \in 0..n /\ i + 1 \in 1..n /\ (i + 1) - 1 = i /\ i \in 0..n
    BY <1>1
  <2> QED BY <1>1, <1>2, <2>1
<1>4. 0 \in S /\ 0 \in T
  <2>1. 0 \in 0..n /\ \A a \in 0..0 : a = 0
    BY <1>1
  <2> QED BY <2>1
<1>5. ASSUME NEW i \in 0..(n - 1), i \in S PROVE i + 1 \in S
  <2>1. v[i + 1].valid => v[i].valid
    BY <1>3, ScanIs, OperationFields
  <2>2. v[i].valid => \A j \in 0..i : v[j].valid
    BY <1>5
  <2>3. \A j \in 0..(i + 1) : j \in 0..i \/ j = i + 1
    BY <1>1
  <2> QED BY <1>3, <2>1, <2>2, <2>3
<1>6. ASSUME NEW b \in 0..(n - 1), b \in T PROVE b + 1 \in T
  <2>1. SUFFICES ASSUME NEW a \in 0..(b + 1),
                        \A c \in (a + 1)..(b + 1) : Rank(l[c].type) = 1
                 PROVE  v[a].pauseAt = v[b + 1].pauseAt
    BY <1>3
  <2>2. CASE a = b + 1
    BY <2>2
  <2>3. CASE a # b + 1
    <3>1. /\ a \in 0..b /\ b + 1 \in (a + 1)..(b + 1)
          /\ \A c \in (a + 1)..b : c \in (a + 1)..(b + 1)
      BY <1>1, <2>3
    <3>2. v[a].pauseAt = v[b].pauseAt
      BY <1>6, <2>1, <3>1
    <3>3. Rank(l[b + 1].type) = 1
      BY <2>1, <3>1
    <3>4. v[b + 1].pauseAt = v[b].pauseAt
      <4>1. l[b + 1].type \in {"splice_repair", "operator_note"}
        BY <1>3, <3>3, OperationFields
      <4>2. CASE l[b + 1].type = "splice_repair"
        BY <1>3, <4>2, ScanIs
      <4>3. CASE l[b + 1].type = "operator_note"
        BY <1>3, <4>3, ScanIs
      <4> QED BY <4>1, <4>2, <4>3
    <3> QED BY <3>2, <3>4
  <2> QED BY <2>2, <2>3
<1>7. (\A i \in 0..n : i \in S) /\ (\A i \in 0..n : i \in T)
  <2> HIDE DEF S, T
  <2>1. \A i \in 0..n : i \in S
    BY <1>1, <1>4, <1>5, BoundedInduction
  <2>2. \A i \in 0..n : i \in T
    BY <1>1, <1>4, <1>6, BoundedInduction
  <2> QED BY <2>1, <2>2
<1>8. n \in 0..n
  BY <1>1
<1> QED BY <1>7, <1>8 DEF n, v

(* Lists with the same operations and the same sorted keys are scanned     *)
(* alike, however repairs and notes of one time are mixed.                 *)
LEMMA ScansAgree ==
    ASSUME NEW l \in Seq(Operations), NEW m \in Seq(Operations), Len(m) = Len(l),
           Chronological(l), Scanning(l)[Len(l)].valid,
           \A i \in 1..Len(l) : m[i].at = l[i].at /\ Rank(m[i].type) = Rank(l[i].type),
           \A i \in 1..Len(l) : \E j \in 1..Len(l) : m[i] = l[j]
    PROVE  /\ Scanning(m)[Len(l)].valid
           /\ Scanning(m)[Len(l)].pauseAt = Scanning(l)[Len(l)].pauseAt
           /\ Scanning(m)[Len(l)].paused = Scanning(l)[Len(l)].paused
<1> DEFINE n == Len(l)
           v == Scanning(l)
           w == Scanning(m)
           S == {i \in 0..n : /\ w[i].valid /\ w[i].pauseAt = v[i].pauseAt
                              /\ w[i].paused = v[i].paused}
<1>1. /\ n \in Nat /\ DOMAIN l = 1..n /\ DOMAIN m = 1..n
      /\ \A i \in 1..n : l[i] \in Operations /\ m[i] \in Operations
  OBVIOUS
<1>2. /\ v[0] = NoLog /\ w[0] = NoLog
      /\ \A i \in 0..n : v[i] \in Logs /\ w[i] \in Logs
      /\ \A i \in 1..n : v[i] = Scan(v[i - 1], l[i]) /\ w[i] = Scan(w[i - 1], m[i])
  BY ScanLoop
<1>3. \A i \in 0..n : v[i].valid
  BY ScanHistory
<1>4. \A b \in 0..n : \A a \in 0..b :
         (\A c \in (a + 1)..b : Rank(l[c].type) = 1) => v[a].pauseAt = v[b].pauseAt
  BY ScanHistory
<1> HIDE DEF n, v, w
<1>5. 0 \in S
  <2>1. NoLog.valid
    BY DEF NoLog
  <2> QED BY <1>1, <1>2, <2>1
<1>6. ASSUME NEW i \in 0..(n - 1), i \in S PROVE i + 1 \in S
  <2> DEFINE e == l[i + 1]
             f == m[i + 1]
  <2>1. i + 1 \in 0..n /\ i + 1 \in 1..n /\ (i + 1) - 1 = i /\ i \in 0..n /\ i \in Nat
    BY <1>1
  <2>2. /\ v[i] \in Logs /\ w[i] \in Logs /\ e \in Operations /\ f \in Operations
        /\ v[i + 1] = Scan(v[i], e) /\ w[i + 1] = Scan(w[i], f)
        /\ v[i].valid /\ v[i + 1].valid
    BY <1>1, <1>2, <1>3, <2>1
  <2>3. f.at = e.at /\ Rank(f.type) = Rank(e.type)
    BY <2>1 DEF n
  <2>4. w[i].valid /\ w[i].pauseAt = v[i].pauseAt /\ w[i].paused = v[i].paused
    BY <1>6
  <2>5. PICK j \in 1..n : f = l[j]
    BY <2>1 DEF n
  <2> HIDE DEF e, f, S
  <2>6. Scans(v[i], e, v[i + 1]) /\ Scans(w[i], f, w[i + 1])
    BY <2>2, ScanScans
  <2>7. CASE e.type = "pause"
    <3>1. f.type = "pause"
      BY <2>2, <2>3, <2>7, OperationFields
    <3>2. v[i].pauseAt = NotPaused /\ v[i + 1].pauseAt = e.at /\ v[i + 1].paused = v[i].paused
      BY <2>2, <2>6, <2>7 DEF Scans
    <3>3. w[i + 1].valid /\ w[i + 1].pauseAt = f.at /\ w[i + 1].paused = w[i].paused
      BY <2>4, <2>6, <3>1, <3>2 DEF Scans
    <3> QED BY <2>1, <2>3, <2>4, <3>2, <3>3 DEF S
  <2>8. CASE e.type = "resume"
    <3>1. f.type = "resume"
      BY <2>2, <2>3, <2>8, OperationFields
    <3>2. /\ v[i].pauseAt # NotPaused /\ e.at > v[i].pauseAt
          /\ v[i + 1].pauseAt = NotPaused
          /\ v[i + 1].paused = v[i].paused + (e.at - v[i].pauseAt)
      BY <2>2, <2>6, <2>8 DEF Scans
    <3>3. f.at > w[i].pauseAt /\ w[i].pauseAt # NotPaused
      BY <2>3, <2>4, <3>2
    <3>4. w[i + 1].valid
      BY <2>4, <2>6, <3>1, <3>3 DEF Scans
    <3>5. /\ w[i + 1].pauseAt = NotPaused
          /\ w[i + 1].paused = w[i].paused + (f.at - w[i].pauseAt)
      BY <2>6, <3>1 DEF Scans
    <3> QED BY <2>1, <2>3, <2>4, <3>2, <3>4, <3>5 DEF S
  <2>9. CASE e.type \in {"splice_repair", "operator_note"}
    <3>1. f.type \in {"splice_repair", "operator_note"} /\ Rank(f.type) = 1 /\ Rank(e.type) = 1
      BY <2>2, <2>3, <2>9, OperationFields
    <3>2. v[i + 1].pauseAt = v[i].pauseAt /\ v[i + 1].paused = v[i].paused
      BY <2>6, <2>9 DEF Scans
    <3>3. w[i + 1].pauseAt = w[i].pauseAt /\ w[i + 1].paused = w[i].paused
      BY <2>6, <3>1 DEF Scans
    <3>4. ASSUME f.type = "splice_repair" PROVE w[i].pauseAt # NotPaused
      <4>1. /\ j - 1 \in 0..n /\ j \in 1..n /\ j \in 0..n /\ j \in Nat
            /\ j \in DOMAIN l /\ i + 1 \in DOMAIN l
        BY <1>1, <2>1
      <4>2. v[j - 1].pauseAt # NotPaused
        <5>1. v[j] = Scan(v[j - 1], l[j]) /\ v[j].valid /\ v[j - 1] \in Logs
          BY <1>2, <1>3, <4>1
        <5>2. l[j] \in Operations /\ l[j].type = "splice_repair"
          BY <1>1, <2>5, <3>4
        <5>3. Scans(v[j - 1], l[j], v[j])
          BY <5>1, <5>2, ScanScans
        <5> QED BY <5>1, <5>2, <5>3 DEF Scans
      <4>3. l[j].at = l[i + 1].at /\ Rank(l[j].type) = 1 /\ Rank(l[i + 1].type) = 1
        BY <2>3, <2>5, <3>1 DEF e
      <4>4. CASE j =< i + 1
        <5>1. ASSUME NEW c \in j..(i + 1) PROVE Rank(l[c].type) = 1
          BY <4>1, <4>3, Between
        <5>2. j - 1 \in 0..i /\ \A c \in ((j - 1) + 1)..i : c \in j..(i + 1)
          BY <2>1, <4>1, <4>4
        <5>3. v[j - 1].pauseAt = v[i].pauseAt
          <6> DEFINE a == j - 1
          <6>1. a \in 0..i /\ \A c \in (a + 1)..i : Rank(l[c].type) = 1
            BY <5>1, <5>2
          <6> HIDE DEF a
          <6>2. v[a].pauseAt = v[i].pauseAt
            BY <1>4, <2>1, <6>1
          <6> QED BY <6>2 DEF a
        <5> QED BY <2>4, <4>2, <5>3
      <4>5. CASE i + 1 < j
        <5>1. ASSUME NEW c \in (i + 1)..j PROVE Rank(l[c].type) = 1
          BY <4>1, <4>3, Between
        <5>2. i \in 0..(j - 1) /\ \A c \in (i + 1)..(j - 1) : c \in (i + 1)..j
          BY <2>1, <4>1, <4>5
        <5>3. v[i].pauseAt = v[j - 1].pauseAt
          <6> DEFINE b == j - 1
          <6>1. b \in 0..n /\ i \in 0..b /\ \A c \in (i + 1)..b : Rank(l[c].type) = 1
            BY <4>1, <5>1, <5>2
          <6> HIDE DEF b
          <6>2. v[i].pauseAt = v[b].pauseAt
            BY <1>4, <6>1
          <6> QED BY <6>2 DEF b
        <5> QED BY <2>4, <4>2, <5>3
      <4> QED BY <2>1, <4>1, <4>4, <4>5
    <3>5. w[i + 1].valid
      <4>1. CASE f.type = "splice_repair"
        BY <2>4, <2>6, <3>4, <4>1 DEF Scans
      <4>2. CASE f.type = "operator_note"
        BY <2>4, <2>6, <4>2 DEF Scans
      <4> QED BY <3>1, <4>1, <4>2
    <3> QED BY <2>1, <2>4, <3>2, <3>3, <3>5 DEF S
  <2> QED BY <2>2, <2>7, <2>8, <2>9, OperationFields
<1>7. \A i \in 0..n : i \in S
  <2> HIDE DEF S
  <2> QED BY <1>1, <1>5, <1>6, BoundedInduction
<1>8. n \in S
  BY <1>1, <1>7
<1> QED BY <1>8 DEF n, v, w

(* The order in which the operations are submitted does not matter.        *)
LEMMA AcceptedInAnyOrder ==
    ASSUME NEW s \in Seq(Operations), NEW t \in Seq(Operations), Len(t) = Len(s),
           NEW r, IsPermutation(r, Len(s)), \A i \in 1..Len(s) : t[i] = s[r[i]],
           OperationsAccepted(s)
    PROVE  OperationsAccepted(t)
<1> DEFINE n == Len(s)
           l == ByTime(s)
           m == ByTime(t)
           keys == [i \in 1..n |-> <<s[i].at, Rank(s[i].type)>>]
<1>1. n \in Nat
  OBVIOUS
<1>2. /\ l \in Seq(Operations) /\ Len(l) = n /\ Chronological(l)
      /\ m \in Seq(Operations) /\ Len(m) = n /\ Chronological(m)
  BY ByTimeFacts
<1>3. PICK p : IsPermutation(p, n) /\ \A i \in 1..n : l[i] = s[p[i]]
  BY ByTimeFacts
<1>4. PICK q : IsPermutation(q, n) /\ \A i \in 1..n : m[i] = t[q[i]]
  BY ByTimeFacts
<1>5. \A i \in 1..n : /\ s[i] \in Operations /\ s[i].at \in Int
                      /\ Rank(s[i].type) \in Int
  <2>1. \A i \in 1..n : s[i] \in Operations
    OBVIOUS
  <2>2. ASSUME NEW i \in 1..n PROVE Rank(s[i].type) \in Int /\ s[i].at \in Int
    BY <2>1, OperationFields
  <2> QED BY <2>1, <2>2
<1> DEFINE u == [i \in 1..n |-> r[q[i]]]
<1> HIDE DEF l, m, n
<1>6. IsPermutation(r, n) /\ \A i \in 1..n : t[i] = s[r[i]]
  BY DEF n
<1>7. IsPermutation(u, n) /\ \A i \in 1..n : m[i] = s[u[i]]
  <2>1. \A i \in 1..n : q[i] \in 1..n /\ r[i] \in 1..n /\ u[i] = r[q[i]]
    BY <1>4, <1>6 DEF IsPermutation
  <2>2. u \in [1..n -> 1..n]
    BY <2>1
  <2> HIDE DEF u
  <2>3. ASSUME NEW i \in 1..n, NEW j \in 1..n, u[i] = u[j] PROVE i = j
    <3>1. q[i] \in 1..n /\ q[j] \in 1..n /\ r[q[i]] = r[q[j]]
      BY <2>1, <2>3
    <3>2. q[i] = q[j]
      <4>1. \A a, b \in 1..n : r[a] = r[b] => a = b
        BY <1>6 DEF IsPermutation
      <4> QED BY <3>1, <4>1
    <3> QED BY <1>4, <3>2 DEF IsPermutation
  <2>4. ASSUME NEW k \in 1..n PROVE \E j \in 1..n : u[j] = k
    <3>1. PICK i \in 1..n : r[i] = k
      BY <1>6 DEF IsPermutation
    <3>2. PICK j \in 1..n : q[j] = i
      BY <1>4 DEF IsPermutation
    <3> QED BY <2>1, <3>1, <3>2
  <2>5. \A i \in 1..n : m[i] = s[u[i]]
    BY <1>4, <1>6, <2>1
  <2> QED BY <2>2, <2>3, <2>4, <2>5 DEF IsPermutation
<1> HIDE DEF u
<1>8. /\ keys \in [1..n -> Int \X Int]
      /\ \A i \in 1..n : keys[i] = <<s[i].at, Rank(s[i].type)>>
  BY <1>5
<1> HIDE DEF keys
<1>9. ASSUME NEW a, IsPermutation(a, n), NEW o \in Seq(Operations), Len(o) = n,
             Chronological(o), \A i \in 1..n : o[i] = s[a[i]]
      PROVE  SortedBy(keys, a, n)
  <2> SUFFICES ASSUME NEW i \in 1..n, NEW j \in 1..n, i < j
               PROVE  ~ Less(keys[a[j]], keys[a[i]])
    BY DEF SortedBy
  <2>1. a[i] \in 1..n /\ a[j] \in 1..n /\ o[i] = s[a[i]] /\ o[j] = s[a[j]] /\ DOMAIN o = 1..n
    <3>1. a \in [1..n -> 1..n]
      BY <1>9 DEF IsPermutation
    <3>2. DOMAIN o = 1..n
      BY <1>9
    <3> QED BY <1>9, <3>1, <3>2
  <2>2. /\ o[i].at =< o[j].at
        /\ o[i].at = o[j].at => Rank(o[i].type) =< Rank(o[j].type)
    BY <1>9, <2>1 DEF Chronological
  <2>3. /\ o[i].at \in Int /\ Rank(o[i].type) \in Int
        /\ o[j].at \in Int /\ Rank(o[j].type) \in Int
    BY <1>5, <2>1
  <2>4. /\ keys[a[i]] = <<o[i].at, Rank(o[i].type)>>
        /\ keys[a[j]] = <<o[j].at, Rank(o[j].type)>>
    BY <1>8, <2>1
  <2> QED BY <2>2, <2>3, <2>4 DEF Less
<1>10. \A i \in 1..n : keys[p[i]] = keys[u[i]]
  <2>1. SortedBy(keys, p, n)
    BY <1>2, <1>3, <1>9
  <2>2. SortedBy(keys, u, n)
    BY <1>2, <1>7, <1>9
  <2>3. IsPermutation(p, n) /\ IsPermutation(u, n) /\ keys \in Keys(n)
    BY <1>3, <1>7, <1>8 DEF Keys
  <2> QED BY <1>1, <2>1, <2>2, <2>3, SameKeys
<1>11. ASSUME NEW i \in 1..n
       PROVE  m[i].at = l[i].at /\ Rank(m[i].type) = Rank(l[i].type)
  <2>1. p[i] \in 1..n /\ u[i] \in 1..n /\ l[i] = s[p[i]] /\ m[i] = s[u[i]]
    BY <1>3, <1>7 DEF IsPermutation
  <2>2. keys[p[i]] = <<l[i].at, Rank(l[i].type)>> /\ keys[u[i]] = <<m[i].at, Rank(m[i].type)>>
    BY <1>8, <2>1
  <2> QED BY <1>10, <2>2
<1>12. ASSUME NEW i \in 1..n PROVE \E j \in 1..n : m[i] = l[j]
  <2>1. u[i] \in 1..n /\ m[i] = s[u[i]]
    BY <1>7 DEF IsPermutation
  <2>2. PICK j \in 1..n : p[j] = u[i]
    BY <1>3, <2>1 DEF IsPermutation
  <2> QED BY <1>3, <2>1, <2>2
<1>13. Scanned(s) = Scanning(l)[n] /\ Scanned(t) = Scanning(m)[n]
  BY DEF Scanned, Scanning, NoLog, l, m, n
<1>14. /\ Scanning(l)[n].valid /\ Scanning(l)[n].pauseAt = NotPaused
       /\ AsLongAs(Duration, Ended - Scanning(l)[n].paused)
  BY <1>13 DEF OperationsAccepted
<1>15. /\ Scanning(m)[n].valid /\ Scanning(m)[n].pauseAt = Scanning(l)[n].pauseAt
       /\ Scanning(m)[n].paused = Scanning(l)[n].paused
  <2>1. \A i \in 1..Len(l) : m[i].at = l[i].at /\ Rank(m[i].type) = Rank(l[i].type)
    BY <1>2, <1>11
  <2>2. \A i \in 1..Len(l) : \E j \in 1..Len(l) : m[i] = l[j]
    BY <1>2, <1>12
  <2>3. Scanning(l)[Len(l)].valid /\ Len(m) = Len(l)
    BY <1>2, <1>14
  <2>4. /\ Scanning(m)[Len(l)].valid
        /\ Scanning(m)[Len(l)].pauseAt = Scanning(l)[Len(l)].pauseAt
        /\ Scanning(m)[Len(l)].paused = Scanning(l)[Len(l)].paused
    BY <1>2, <2>1, <2>2, <2>3, ScansAgree
  <2> QED BY <1>2, <2>4
<1> QED BY <1>13, <1>14, <1>15 DEF OperationsAccepted

LEMMA PausesOfAccepted == TypeOK => PausesAddUp
<1> SUFFICES ASSUME TypeOK, list = "operations", OperationsAccepted(entries)
             PROVE  PausesAddUp
  BY DEF PausesAddUp
<1> DEFINE P == SubmittedAt(entries, "pause")
           R == SubmittedAt(entries, "resume")
           running == {t \in 0..(Ended - 1) : ~PausedAt(P, R, t)}
           n == Len(entries)
           t == Reverse(entries)
<1>1. entries \in Seq(Operations)
  <2>1. entries \in Seq(Entries["operations"])
    BY DEF TypeOK
  <2>2. \A e \in Entries["operations"] : e \in Operations
    BY EntriesAssumption DEF Operations
  <2> QED BY <2>1, <2>2
<1>2. /\ Scanned(entries).paused = Ended - Cardinality(running)
      /\ \A x \in SubmittedAt(entries, "splice_repair") :
           PausedAt(P, R, x) \/ PausedAt(P, R, x - 1)
      /\ AsLongAs(Duration, Cardinality(running))
  <2> HIDE DEF P, R, running
  <2>1. /\ P = SubmittedAt(entries, "pause") /\ R = SubmittedAt(entries, "resume")
        /\ running = {x \in 0..(Ended - 1) : ~PausedAt(P, R, x)}
    BY DEF P, R, running
  <2> QED BY <1>1, <2>1, PausesAreCounted
<1>3. OperationsAccepted(t)
  <2> DEFINE r == [i \in 1..n |-> n - i + 1]
  <2>1. n \in Nat /\ \A i \in 1..n : n - i + 1 \in 1..n /\ r[i] = n - i + 1
    OBVIOUS
  <2>2. t = [i \in 1..n |-> entries[n - i + 1]]
    BY DEF Reverse
  <2>3. \A i \in 1..n : t[i] = entries[r[i]] /\ t[i] \in Operations
    BY <1>1, <2>1, <2>2
  <2>4. t \in Seq(Operations) /\ Len(t) = n
    <3> HIDE DEF t, n, r
    <3>1. t \in [1..n -> Operations]
      BY <2>2, <2>3
    <3> QED BY <2>1, <3>1
  <2>5. IsPermutation(r, n)
    <3>1. r \in [1..n -> 1..n]
      BY <2>1
    <3> HIDE DEF r, n
    <3>2. \A i, j \in 1..n : r[i] = r[j] => i = j
      BY <2>1
    <3>3. ASSUME NEW k \in 1..n PROVE \E j \in 1..n : r[j] = k
      <4>1. n - k + 1 \in 1..n /\ n - (n - k + 1) + 1 = k
        BY <2>1
      <4> QED BY <2>1, <4>1
    <3> QED BY <3>1, <3>2, <3>3 DEF IsPermutation
  <2> HIDE DEF t, r
  <2> QED BY <1>1, <2>3, <2>4, <2>5, AcceptedInAnyOrder
<1> QED BY <1>2, <1>3 DEF PausesAddUp, SubmittedAt, PausedAt

(* The pauses of an accepted recording are the instants after a pause and  *)
(* no resume, in whatever order the operations were sent.                  *)
THEOREM PausesAlwaysAddUp == Spec => []PausesAddUp
BY TypesAreKept, PausesOfAccepted, PTL
=============================================================================
