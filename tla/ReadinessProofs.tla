--------------------------- MODULE ReadinessProofs ---------------------------
(***************************************************************************)
(* Readiness for any plan, policy and results, and any number of runs.     *)
(*                                                                         *)
(* Sums and counts are recursive functions over a list, and what they      *)
(* compute is proved by induction on its prefixes: a set of naturals with  *)
(* zero and with every successor is all of them (Naturals).  Rationals are *)
(* pairs, so each law of theirs is a polynomial inequality, proved once.   *)
(***************************************************************************)
EXTENDS Readiness, FiniteSetTheorems, WellFoundedInduction, TLAPS

(***************************************************************************)
(* Induction.                                                              *)
(***************************************************************************)
LEMMA LeastNatural ==
    ASSUME NEW T, T \subseteq Nat, T # {}
    PROVE  \E x \in T : \A y \in T : x <= y
<1> DEFINE R == OpToRel(<, Nat)
<1>1. IsWellFoundedOn(R, Nat)
  BY NatLessThanWellFounded
<1>2. \A x, y \in Nat : << x, y >> \in R <=> x < y
  BY DEF OpToRel
<1> HIDE DEF R
<1>3. PICK x \in T : \A y \in T : ~(<< y, x >> \in R)
  BY <1>1, WFMin
<1>4. \A y \in T : ~(y < x)
  BY <1>2, <1>3
<1>5. \A y \in T : x <= y
  BY <1>4
<1> QED
  BY <1>5

LEMMA Naturals ==
    ASSUME NEW S, 0 \in S, \A n \in Nat : n \in S => n + 1 \in S
    PROVE  \A n \in Nat : n \in S
<1> DEFINE T == {n \in Nat : n \notin S}
<1>1. SUFFICES ASSUME T # {} PROVE FALSE
  OBVIOUS
<1>2. PICK x \in T : \A y \in T : x <= y
  <2> HIDE DEF T
  <2>1. T \subseteq Nat
    BY DEF T
  <2> QED
    BY <1>1, <2>1, LeastNatural
<1>3. x \in Nat /\ x # 0
  OBVIOUS
<1>4. x - 1 \in Nat /\ x - 1 \notin T
  BY <1>2, <1>3
<1> QED
  BY <1>3, <1>4

(***************************************************************************)
(* Rationals.                                                              *)
(***************************************************************************)
LEMMA ProductGrows ==
    /\ \A x, y \in Int, z \in Nat \ {0} : x <= y <=> x * z <= y * z
    /\ \A x, y \in Int, z \in Nat \ {0} : x < y <=> x * z < y * z
    /\ \A x, y \in Int, z \in Nat : x <= y => x * z <= y * z
    /\ \A x, y \in Nat \ {0} : x * y \in Nat \ {0}
    /\ \A x, y \in Int : x * y \in Int
OBVIOUS

LEMMA RationalIs ==
    /\ \A a \in Rational : a.n \in Int /\ a.d \in Nat \ {0} /\ a.d \in Int
    /\ \A n \in Int, d \in Nat \ {0} : Q(n, d) \in Rational
    /\ \A n, d : Q(n, d).n = n /\ Q(n, d).d = d
BY DEF Rational, Q

LEMMA PlusType == \A a, b \in Rational : Plus(a, b) \in Rational
BY RationalIs, ProductGrows DEF Plus

LEMMA TimesType == \A a, b \in Rational : Times(a, b) \in Rational
BY RationalIs, ProductGrows DEF Times

LEMMA ConstantsType == Zero \in Rational /\ One \in Rational /\ \A n \in Int : Q(n, 1) \in Rational
BY RationalIs DEF Zero, One

LEMMA LeqOrder ==
    /\ \A a \in Rational : Leq(a, a)
    /\ \A a, b \in Rational : Leq(a, b) \/ Leq(b, a)
BY RationalIs, ProductGrows DEF Leq

LEMMA LeqTransitive ==
    ASSUME NEW a \in Rational, NEW b \in Rational, NEW c \in Rational, Leq(a, b), Leq(b, c)
    PROVE  Leq(a, c)
<1>1. /\ a.n \in Int /\ b.n \in Int /\ c.n \in Int
      /\ a.d \in Nat \ {0} /\ b.d \in Nat \ {0} /\ c.d \in Nat \ {0}
  BY RationalIs
<1>2. (a.n * b.d) * c.d <= (b.n * a.d) * c.d
  BY <1>1, ProductGrows DEF Leq
<1>3. (b.n * c.d) * a.d <= (c.n * b.d) * a.d
  BY <1>1, ProductGrows DEF Leq
<1>4. (a.n * c.d) * b.d <= (c.n * a.d) * b.d
  BY <1>1, <1>2, <1>3
<1> QED
  BY <1>1, <1>4, ProductGrows DEF Leq

LEMMA SumOfFractions ==
    ASSUME NEW x \in Int, NEW y \in Int, NEW k \in Int, NEW l \in Int, NEW p \in Int, NEW q \in Int
    PROVE  (x * l + y * k) * (p * q) = (x * p) * (l * q) + (y * q) * (k * p)
OBVIOUS

LEMMA PlusGrows ==
    ASSUME NEW a \in Rational, NEW b \in Rational, NEW c \in Rational, NEW e \in Rational,
           Leq(a, b), Leq(c, e)
    PROVE  Leq(Plus(a, c), Plus(b, e))
<1>1. /\ a.n \in Int /\ b.n \in Int /\ c.n \in Int /\ e.n \in Int
      /\ a.d \in Nat \ {0} /\ b.d \in Nat \ {0} /\ c.d \in Nat \ {0} /\ e.d \in Nat \ {0}
  BY RationalIs
<1>2. (a.n * b.d) * (c.d * e.d) <= (b.n * a.d) * (c.d * e.d)
  BY <1>1, ProductGrows DEF Leq
<1>3. (c.n * e.d) * (a.d * b.d) <= (e.n * c.d) * (a.d * b.d)
  BY <1>1, ProductGrows DEF Leq
<1>4. (a.n * c.d + c.n * a.d) * (b.d * e.d) =
         (a.n * b.d) * (c.d * e.d) + (c.n * e.d) * (a.d * b.d)
  BY <1>1, SumOfFractions
<1>5. (b.n * e.d + e.n * b.d) * (a.d * c.d) =
         (b.n * a.d) * (c.d * e.d) + (e.n * c.d) * (a.d * b.d)
  <2>1. (b.n * e.d + e.n * b.d) * (a.d * c.d) =
           (b.n * a.d) * (e.d * c.d) + (e.n * c.d) * (b.d * a.d)
    BY <1>1, SumOfFractions
  <2> QED
    BY <1>1, <2>1
<1>6. (a.n * c.d + c.n * a.d) * (b.d * e.d) <= (b.n * e.d + e.n * b.d) * (a.d * c.d)
  <2> DEFINE A == (a.n * b.d) * (c.d * e.d)
             B == (c.n * e.d) * (a.d * b.d)
             C == (b.n * a.d) * (c.d * e.d)
             D == (e.n * c.d) * (a.d * b.d)
  <2>1. A \in Int /\ B \in Int /\ C \in Int /\ D \in Int
    BY <1>1, ProductGrows
  <2>2. A <= C /\ B <= D
    BY <1>2, <1>3
  <2> HIDE DEF A, B, C, D
  <2>3. A + B <= C + D
    BY <2>1, <2>2
  <2> QED
    BY <1>4, <1>5, <2>3 DEF A, B, C, D
<1> QED
  BY <1>6, RationalIs DEF Leq, Plus

(***************************************************************************)
(* Sums and counts.                                                        *)
(***************************************************************************)
Sums(values) ==
    CHOOSE s : s = [i \in 0..Len(values) |-> IF i = 0 THEN Zero ELSE Plus(s[i - 1], values[i])]

LEMMA TotalOfSums == ASSUME NEW values PROVE Total(values) = Sums(values)[Len(values)]
BY DEF Total, Sums

\* The recursive definition defines: there is such a function, prefix by prefix.
LEMMA SumsExist ==
    ASSUME NEW values, NEW m \in Nat
    PROVE  \E s : s = [i \in 0..m |-> IF i = 0 THEN Zero ELSE Plus(s[i - 1], values[i])]
<1> DEFINE S == {n \in Nat :
              \E s : s = [i \in 0..n |-> IF i = 0 THEN Zero ELSE Plus(s[i - 1], values[i])]}
<1>1. 0 \in S
  <2> DEFINE s == [i \in 0..0 |-> Zero]
  <2>1. s = [i \in 0..0 |-> IF i = 0 THEN Zero ELSE Plus(s[i - 1], values[i])]
    OBVIOUS
  <2> QED
    BY <2>1
<1>2. ASSUME NEW n \in Nat, n \in S PROVE n + 1 \in S
  <2>1. PICK s : s = [i \in 0..n |-> IF i = 0 THEN Zero ELSE Plus(s[i - 1], values[i])]
    BY <1>2
  <2> DEFINE t == [i \in 0..n + 1 |->
                      IF i = n + 1 THEN Plus(s[n], values[n + 1]) ELSE s[i]]
  <2>2. ASSUME NEW i \in 0..n + 1
        PROVE  t[i] = IF i = 0 THEN Zero ELSE Plus(t[i - 1], values[i])
    <3>1. CASE i = n + 1
      <4>1. i # 0 /\ i - 1 = n /\ n \in 0..n + 1 /\ n # n + 1
        BY <3>1
      <4>2. t[i] = Plus(s[n], values[i]) /\ t[i - 1] = s[n]
        BY <3>1, <4>1
      <4> QED
        BY <4>1, <4>2
    <3>2. CASE i = 0
      BY <2>1, <3>2
    <3>3. CASE i \in 1..n
      <4>1. t[i] = s[i] /\ t[i - 1] = s[i - 1]
        BY <3>3
      <4>2. s[i] = Plus(s[i - 1], values[i])
        BY <2>1, <3>3
      <4> QED
        BY <3>3, <4>1, <4>2
    <3> QED
      BY <3>1, <3>2, <3>3
  <2>3. t = [i \in 0..n + 1 |-> IF i = 0 THEN Zero ELSE Plus(t[i - 1], values[i])]
    <3>1. t = [i \in 0..n + 1 |-> t[i]]
      OBVIOUS
    <3> HIDE DEF t
    <3> QED
      BY <2>2, <3>1
  <2>4. \E u : u = [i \in 0..n + 1 |-> IF i = 0 THEN Zero ELSE Plus(u[i - 1], values[i])]
    <3> HIDE DEF t
    <3> QED
      BY <2>3
  <2> QED
    BY <2>4
<1> HIDE DEF S
<1>3. m \in S
  BY <1>1, <1>2, Naturals
<1> QED
  BY <1>3 DEF S

LEMMA SumsAre ==
    ASSUME NEW values, Len(values) \in Nat
    PROVE  /\ Sums(values)[0] = Zero
           /\ \A i \in 1..Len(values) : Sums(values)[i] = Plus(Sums(values)[i - 1], values[i])
<1> DEFINE n == Len(values)
           s == Sums(values)
<1>1. s = [i \in 0..n |-> IF i = 0 THEN Zero ELSE Plus(s[i - 1], values[i])]
  BY SumsExist, Zenon DEF Sums
<1> HIDE DEF s
<1> QED
  BY <1>1 DEF s

LEMMA SumsType ==
    ASSUME NEW values \in Seq(Rational)
    PROVE  \A i \in 0..Len(values) : Sums(values)[i] \in Rational
<1> DEFINE S == {n \in Nat : n <= Len(values) => Sums(values)[n] \in Rational}
<1>0. Len(values) \in Nat /\ \A i \in 1..Len(values) : values[i] \in Rational
  OBVIOUS
<1>1. 0 \in S
  BY <1>0, SumsAre, ConstantsType
<1>2. ASSUME NEW n \in Nat, n \in S PROVE n + 1 \in S
  <2>1. CASE n + 1 <= Len(values)
    <3>1. n + 1 \in 1..Len(values) /\ (n + 1) - 1 = n /\ n <= Len(values)
      BY <1>0, <2>1
    <3>2. Sums(values)[n] \in Rational /\ values[n + 1] \in Rational
      BY <1>0, <1>2, <3>1
    <3>3. Sums(values)[n + 1] = Plus(Sums(values)[n], values[n + 1])
      BY <1>0, <3>1, SumsAre
    <3> QED
      BY <3>2, <3>3, PlusType
  <2> QED
    BY <1>0, <2>1
<1> HIDE DEF S
<1>3. \A n \in Nat : n \in S
  BY <1>1, <1>2, Naturals
<1> QED
  BY <1>0, <1>3 DEF S

LEMMA TotalType == ASSUME NEW values \in Seq(Rational) PROVE Total(values) \in Rational
<1>1. Len(values) \in 0..Len(values)
  OBVIOUS
<1> QED
  BY <1>1, SumsType, TotalOfSums

Counts(rs) ==
    CHOOSE s : s = [i \in 0..Len(rs) |-> IF i = 0 THEN 0 ELSE s[i - 1] + rs[i].samples]

LEMMA SampleCountOfCounts == ASSUME NEW rs PROVE SampleCount(rs) = Counts(rs)[Len(rs)]
BY DEF SampleCount, Counts

LEMMA CountsExist ==
    ASSUME NEW rs, NEW m \in Nat
    PROVE  \E s : s = [i \in 0..m |-> IF i = 0 THEN 0 ELSE s[i - 1] + rs[i].samples]
<1> DEFINE S == {n \in Nat :
              \E s : s = [i \in 0..n |-> IF i = 0 THEN 0 ELSE s[i - 1] + rs[i].samples]}
<1>1. 0 \in S
  <2> DEFINE s == [i \in 0..0 |-> 0]
  <2>1. s = [i \in 0..0 |-> IF i = 0 THEN 0 ELSE s[i - 1] + rs[i].samples]
    OBVIOUS
  <2> QED
    BY <2>1
<1>2. ASSUME NEW n \in Nat, n \in S PROVE n + 1 \in S
  <2>1. PICK s : s = [i \in 0..n |-> IF i = 0 THEN 0 ELSE s[i - 1] + rs[i].samples]
    BY <1>2
  <2> DEFINE t == [i \in 0..n + 1 |->
                      IF i = n + 1 THEN s[n] + rs[n + 1].samples ELSE s[i]]
  <2>2. ASSUME NEW i \in 0..n + 1
        PROVE  t[i] = IF i = 0 THEN 0 ELSE t[i - 1] + rs[i].samples
    <3>1. CASE i = n + 1
      <4>1. i # 0 /\ i - 1 = n /\ n \in 0..n + 1 /\ n # n + 1
        BY <3>1
      <4>2. t[i] = s[n] + rs[i].samples /\ t[i - 1] = s[n]
        BY <3>1, <4>1
      <4> QED
        BY <4>1, <4>2
    <3>2. CASE i = 0
      BY <2>1, <3>2
    <3>3. CASE i \in 1..n
      <4>1. t[i] = s[i] /\ t[i - 1] = s[i - 1]
        BY <3>3
      <4>2. s[i] = s[i - 1] + rs[i].samples
        BY <2>1, <3>3
      <4> QED
        BY <3>3, <4>1, <4>2
    <3> QED
      BY <3>1, <3>2, <3>3
  <2>3. t = [i \in 0..n + 1 |-> IF i = 0 THEN 0 ELSE t[i - 1] + rs[i].samples]
    <3>1. t = [i \in 0..n + 1 |-> t[i]]
      OBVIOUS
    <3> HIDE DEF t
    <3> QED
      BY <2>2, <3>1
  <2>4. \E u : u = [i \in 0..n + 1 |-> IF i = 0 THEN 0 ELSE u[i - 1] + rs[i].samples]
    <3> HIDE DEF t
    <3> QED
      BY <2>3
  <2> QED
    BY <2>4
<1> HIDE DEF S
<1>3. m \in S
  BY <1>1, <1>2, Naturals
<1> QED
  BY <1>3 DEF S

LEMMA CountsAre ==
    ASSUME NEW rs, Len(rs) \in Nat
    PROVE  /\ Counts(rs)[0] = 0
           /\ \A i \in 1..Len(rs) : Counts(rs)[i] = Counts(rs)[i - 1] + rs[i].samples
<1> DEFINE n == Len(rs)
           s == Counts(rs)
<1>1. s = [i \in 0..n |-> IF i = 0 THEN 0 ELSE s[i - 1] + rs[i].samples]
  BY CountsExist, Zenon DEF Counts
<1> HIDE DEF s
<1> QED
  BY <1>1 DEF s

LEMMA CountsType ==
    ASSUME NEW rs \in Seq(Result)
    PROVE  \A i \in 0..Len(rs) : Counts(rs)[i] \in Nat
<1> DEFINE S == {n \in Nat : n <= Len(rs) => Counts(rs)[n] \in Nat}
<1>0. Len(rs) \in Nat /\ \A i \in 1..Len(rs) : rs[i].samples \in Nat
  <2>1. Len(rs) \in Nat /\ \A i \in 1..Len(rs) : rs[i] \in Result
    OBVIOUS
  <2> QED
    BY <2>1, ResultAssumption
<1>1. 0 \in S
  BY <1>0, CountsAre
<1>2. ASSUME NEW n \in Nat, n \in S PROVE n + 1 \in S
  <2>1. CASE n + 1 <= Len(rs)
    <3>1. n + 1 \in 1..Len(rs) /\ (n + 1) - 1 = n /\ n <= Len(rs)
      BY <1>0, <2>1
    <3>2. Counts(rs)[n] \in Nat /\ rs[n + 1].samples \in Nat
      BY <1>0, <1>2, <3>1
    <3>3. Counts(rs)[n + 1] = Counts(rs)[n] + rs[n + 1].samples
      BY <1>0, <3>1, CountsAre
    <3> QED
      BY <3>2, <3>3
  <2> QED
    BY <1>0, <2>1
<1> HIDE DEF S
<1>3. \A n \in Nat : n \in S
  BY <1>1, <1>2, Naturals
<1> QED
  BY <1>0, <1>3 DEF S

LEMMA SampleCountType == ASSUME NEW rs \in Seq(Result) PROVE SampleCount(rs) \in Nat
<1>1. Len(rs) \in 0..Len(rs)
  OBVIOUS
<1> QED
  BY <1>1, CountsType, SampleCountOfCounts

\* Another result adds its samples to those of the results before it.
LEMMA SampleCountGrows ==
    ASSUME NEW rs \in Seq(Result), NEW r \in Result
    PROVE  SampleCount(Append(rs, r)) = SampleCount(rs) + r.samples
<1> DEFINE m == Len(rs)
           more == Append(rs, r)
           S == {n \in Nat : n <= m => Counts(more)[n] = Counts(rs)[n]}
<1>0. /\ m \in Nat /\ more \in Seq(Result) /\ Len(more) = m + 1 /\ more[m + 1] = r
      /\ \A i \in 1..m : more[i] = rs[i]
  OBVIOUS
<1> HIDE DEF more, m
<1>a. \A i \in 1..m + 1 : Counts(more)[i] = Counts(more)[i - 1] + more[i].samples
  <2>1. Len(more) \in Nat
    BY <1>0
  <2>2. \A i \in 1..Len(more) : Counts(more)[i] = Counts(more)[i - 1] + more[i].samples
    BY <2>1, CountsAre
  <2> QED
    BY <1>0, <2>2
<1>1. 0 \in S
  BY <1>0, CountsAre DEF m
<1>2. ASSUME NEW n \in Nat, n \in S PROVE n + 1 \in S
  <2>1. CASE n + 1 <= m
    <3>1. n + 1 \in 1..m /\ n + 1 \in 1..m + 1 /\ (n + 1) - 1 = n /\ n <= m
      BY <1>0, <2>1
    <3>2. Counts(rs)[n + 1] = Counts(rs)[n] + rs[n + 1].samples
      BY <1>0, <3>1, CountsAre DEF m
    <3>3. Counts(more)[n + 1] = Counts(more)[n] + more[n + 1].samples
      BY <1>a, <3>1
    <3> QED
      BY <1>0, <1>2, <3>1, <3>2, <3>3
  <2> QED
    BY <1>0, <2>1
<1> HIDE DEF S
<1>3. \A n \in Nat : n \in S
  BY <1>1, <1>2, Naturals
<1>4. Counts(more)[m] = Counts(rs)[m]
  BY <1>0, <1>3 DEF S
<1>5. Counts(more)[m + 1] = Counts(more)[m] + r.samples
  <2>1. m + 1 \in 1..m + 1 /\ (m + 1) - 1 = m
    BY <1>0
  <2> QED
    BY <1>0, <1>a, <2>1
<1> QED
  BY <1>0, <1>4, <1>5, SampleCountOfCounts DEF m, more

(***************************************************************************)
(* Bounds of sums and means.                                               *)
(***************************************************************************)
LEMMA TotalGrows ==
    ASSUME NEW vs \in Seq(Rational), NEW ws \in Seq(Rational), Len(vs) = Len(ws),
           \A i \in 1..Len(vs) : Leq(vs[i], ws[i])
    PROVE  Leq(Total(vs), Total(ws))
<1> DEFINE m == Len(vs)
           S == {n \in Nat : n <= m => Leq(Sums(vs)[n], Sums(ws)[n])}
<1>0. /\ m \in Nat /\ Len(ws) = m
      /\ \A i \in 1..m : vs[i] \in Rational /\ ws[i] \in Rational /\ Leq(vs[i], ws[i])
  OBVIOUS
<1>a. /\ Sums(vs)[0] = Zero /\ Sums(ws)[0] = Zero
      /\ \A i \in 1..m : /\ Sums(vs)[i] = Plus(Sums(vs)[i - 1], vs[i])
                         /\ Sums(ws)[i] = Plus(Sums(ws)[i - 1], ws[i])
      /\ \A i \in 0..m : Sums(vs)[i] \in Rational /\ Sums(ws)[i] \in Rational
  BY <1>0, SumsAre, SumsType
<1>b. Total(vs) = Sums(vs)[m] /\ Total(ws) = Sums(ws)[m]
  BY <1>0, TotalOfSums
<1> HIDE DEF m
<1>1. 0 \in S
  BY <1>a, ConstantsType, LeqOrder
<1>2. ASSUME NEW n \in Nat, n \in S PROVE n + 1 \in S
  <2>1. CASE n + 1 <= m
    <3>1. n + 1 \in 1..m /\ n \in 0..m /\ (n + 1) - 1 = n /\ n <= m
      BY <1>0, <2>1
    <3>2. Leq(Sums(vs)[n], Sums(ws)[n]) /\ Leq(vs[n + 1], ws[n + 1])
      BY <1>0, <1>2, <3>1
    <3>3. Leq(Plus(Sums(vs)[n], vs[n + 1]), Plus(Sums(ws)[n], ws[n + 1]))
      BY <1>0, <1>a, <3>1, <3>2, PlusGrows
    <3>4. /\ Sums(vs)[n + 1] = Plus(Sums(vs)[n], vs[n + 1])
          /\ Sums(ws)[n + 1] = Plus(Sums(ws)[n], ws[n + 1])
      BY <1>a, <3>1
    <3> QED
      BY <3>3, <3>4
  <2> QED
    BY <1>0, <2>1
<1> HIDE DEF S
<1>3. \A n \in Nat : n \in S
  BY <1>1, <1>2, Naturals
<1> QED
  BY <1>0, <1>b, <1>3 DEF S

LEMMA TimesSplits ==
    ASSUME NEW x \in Rational, NEW p \in Nat, NEW q \in Nat
    PROVE  Same(Plus(Times(x, Q(p, 1)), Times(x, Q(q, 1))), Times(x, Q(p + q, 1)))
<1>1. x.n \in Int /\ x.d \in Nat \ {0}
  BY RationalIs
<1>2. Plus(Times(x, Q(p, 1)), Times(x, Q(q, 1))) =
         Q(((x.n * p) * (x.d * 1)) + ((x.n * q) * (x.d * 1)), (x.d * 1) * (x.d * 1))
  BY RationalIs DEF Plus, Times
<1>3. Times(x, Q(p + q, 1)) = Q(x.n * (p + q), x.d * 1)
  BY RationalIs DEF Times
<1>4. (((x.n * p) * (x.d * 1)) + ((x.n * q) * (x.d * 1))) * (x.d * 1)
         = (x.n * (p + q)) * ((x.d * 1) * (x.d * 1))
  BY <1>1
<1>5. (((x.n * p) * (x.d * 1)) + ((x.n * q) * (x.d * 1))) * (x.d * 1) \in Int
  BY <1>1, ProductGrows
<1> QED
  BY <1>2, <1>3, <1>4, <1>5, RationalIs DEF Same, Leq

\* A sum of multiples of one number, c[i] times up to the i-th.
LEMMA TotalOfMultiples ==
    ASSUME NEW vs \in Seq(Rational), NEW x \in Rational, NEW c \in [0..Len(vs) -> Nat],
           c[0] = 0,
           \A i \in 1..Len(vs) :
              c[i] - c[i - 1] \in Nat /\ vs[i] = Times(x, Q(c[i] - c[i - 1], 1))
    PROVE  Same(Total(vs), Times(x, Q(c[Len(vs)], 1)))
<1> DEFINE m == Len(vs)
           S == {n \in Nat : n <= m => Same(Sums(vs)[n], Times(x, Q(c[n], 1)))}
<1>0. /\ m \in Nat /\ \A i \in 1..m : vs[i] \in Rational
      /\ \A i \in 0..m : c[i] \in Nat
      /\ \A i \in 1..m : c[i] - c[i - 1] \in Nat /\ vs[i] = Times(x, Q(c[i] - c[i - 1], 1))
  <2>1. \A i \in 1..m : c[i] - c[i - 1] \in Nat /\ vs[i] = Times(x, Q(c[i] - c[i - 1], 1))
    BY Zenon
  <2>2. m \in Nat /\ \A i \in 1..m : vs[i] \in Rational
    OBVIOUS
  <2>3. \A i \in 0..m : c[i] \in Nat
    OBVIOUS
  <2> QED
    BY <2>1, <2>2, <2>3
<1>a. /\ Sums(vs)[0] = Zero
      /\ \A i \in 1..m : Sums(vs)[i] = Plus(Sums(vs)[i - 1], vs[i])
      /\ \A i \in 0..m : Sums(vs)[i] \in Rational
  BY <1>0, SumsAre, SumsType
<1>b. Total(vs) = Sums(vs)[m]
  BY TotalOfSums
<1> HIDE DEF m
<1>1. 0 \in S
  <2>1. Times(x, Q(0, 1)) = Q(x.n * 0, x.d * 1) /\ x.n \in Int /\ x.d \in Nat \ {0}
    BY RationalIs DEF Times
  <2> DEFINE t == Times(x, Q(0, 1))
  <2>2. t.n = 0 /\ t.d \in Int
    <3>1. t.n = x.n * 0 /\ t.d = x.d * 1
      BY <2>1, RationalIs
    <3> HIDE DEF t
    <3> QED
      BY <2>1, <3>1
  <2>3. Same(Zero, t)
    <3>1. Zero.n = 0 /\ Zero.d = 1
      BY RationalIs DEF Zero
    <3> HIDE DEF t
    <3> QED
      BY <2>2, <3>1 DEF Same, Leq
  <2> QED
    BY <1>a, <2>3
<1>2. ASSUME NEW n \in Nat, n \in S PROVE n + 1 \in S
  <2>1. CASE n + 1 <= m
    <3>1. n + 1 \in 1..m /\ n + 1 \in 0..m /\ n \in 0..m /\ (n + 1) - 1 = n /\ n <= m
      BY <1>0, <2>1
    <3> DEFINE p == c[n]
               q == c[n + 1] - c[n]
    <3>2. p \in Nat /\ q \in Nat /\ p + q = c[n + 1] /\ vs[n + 1] = Times(x, Q(q, 1))
      BY <1>0, <3>1
    <3>3. Same(Sums(vs)[n], Times(x, Q(p, 1)))
      BY <1>2, <3>1
    <3> HIDE DEF p, q
    <3>4. /\ Times(x, Q(p, 1)) \in Rational /\ Times(x, Q(q, 1)) \in Rational
          /\ Times(x, Q(p + q, 1)) \in Rational /\ Sums(vs)[n] \in Rational
      BY <1>a, <3>1, <3>2, TimesType, ConstantsType
    <3> DEFINE A == Plus(Sums(vs)[n], Times(x, Q(q, 1)))
               B == Plus(Times(x, Q(p, 1)), Times(x, Q(q, 1)))
               C == Times(x, Q(p + q, 1))
    <3>5. A \in Rational /\ B \in Rational /\ C \in Rational
      BY <3>4, PlusType
    <3>6. Leq(A, B) /\ Leq(B, A)
      BY <3>3, <3>4, PlusGrows, LeqOrder DEF Same
    <3>7. Leq(B, C) /\ Leq(C, B)
      BY <3>2, TimesSplits DEF Same
    <3>8. Sums(vs)[n + 1] = A
      BY <1>a, <3>1, <3>2
    <3> HIDE DEF A, B, C
    <3>9. Leq(A, C) /\ Leq(C, A)
      BY <3>5, <3>6, <3>7, LeqTransitive
    <3> QED
      BY <3>2, <3>8, <3>9 DEF Same, C
  <2> QED
    BY <1>0, <2>1
<1> HIDE DEF S
<1>3. \A n \in Nat : n \in S
  BY <1>1, <1>2, Naturals
<1> QED
  BY <1>0, <1>b, <1>3 DEF S, m

\* If every value is at least (at most) x times its share of a count, so is the sum.
LEMMA TotalBetween ==
    ASSUME NEW vs \in Seq(Rational), NEW x \in Rational, NEW c \in [0..Len(vs) -> Nat],
           c[0] = 0, \A i \in 1..Len(vs) : c[i] - c[i - 1] \in Nat
    PROVE  /\ (\A i \in 1..Len(vs) : Leq(Times(x, Q(c[i] - c[i - 1], 1)), vs[i]))
                 => Leq(Times(x, Q(c[Len(vs)], 1)), Total(vs))
           /\ (\A i \in 1..Len(vs) : Leq(vs[i], Times(x, Q(c[i] - c[i - 1], 1))))
                 => Leq(Total(vs), Times(x, Q(c[Len(vs)], 1)))
<1> DEFINE m == Len(vs)
           ws == [i \in 1..m |-> Times(x, Q(c[i] - c[i - 1], 1))]
           all == Times(x, Q(c[m], 1))
<1>1. m \in Nat /\ m \in 0..m
  OBVIOUS
<1>2. \A i \in 1..m : Times(x, Q(c[i] - c[i - 1], 1)) \in Rational
  BY ConstantsType, TimesType
<1>3. ws \in Seq(Rational) /\ Len(ws) = m
  BY <1>1, <1>2
<1>4. \A i \in 1..m : ws[i] = Times(x, Q(c[i] - c[i - 1], 1))
  OBVIOUS
<1> HIDE DEF ws
<1>5. Same(Total(ws), all)
  <2>1. c \in [0..Len(ws) -> Nat] /\ \A i \in 1..Len(ws) : c[i] - c[i - 1] \in Nat
    BY <1>3
  <2> QED
    BY <1>3, <1>4, <2>1, TotalOfMultiples
<1>6. Total(ws) \in Rational /\ Total(vs) \in Rational
  BY <1>3, TotalType
<1>7. all \in Rational
  <2>1. c[m] \in Nat
    BY <1>1
  <2> QED
    BY <2>1, ConstantsType, TimesType
<1>8. (\A i \in 1..m : Leq(ws[i], vs[i])) => Leq(Total(ws), Total(vs))
  BY <1>3, TotalGrows
<1>9. (\A i \in 1..m : Leq(vs[i], ws[i])) => Leq(Total(vs), Total(ws))
  BY <1>3, TotalGrows
<1> HIDE DEF all, m
<1>10. ASSUME \A i \in 1..m : Leq(Times(x, Q(c[i] - c[i - 1], 1)), vs[i])
       PROVE  Leq(all, Total(vs))
  <2>1. Leq(Total(ws), Total(vs))
    BY <1>4, <1>8, <1>10
  <2> QED
    BY <1>5, <1>6, <1>7, <2>1, LeqTransitive DEF Same
<1>11. ASSUME \A i \in 1..m : Leq(vs[i], Times(x, Q(c[i] - c[i - 1], 1)))
       PROVE  Leq(Total(vs), all)
  <2>1. Leq(Total(vs), Total(ws))
    BY <1>4, <1>9, <1>11
  <2> QED
    BY <1>5, <1>6, <1>7, <2>1, LeqTransitive DEF Same
<1> QED
  BY <1>10, <1>11 DEF all, m

LEMMA Quotient ==
    ASSUME NEW t \in Rational, NEW x \in Rational, NEW k \in Nat \ {0}
    PROVE  /\ Times(t, Q(1, k)) \in Rational
           /\ Leq(Times(x, Q(k, 1)), t) <=> Leq(x, Times(t, Q(1, k)))
           /\ Leq(t, Times(x, Q(k, 1))) <=> Leq(Times(t, Q(1, k)), x)
<1>1. t.n \in Int /\ t.d \in Nat \ {0} /\ x.n \in Int /\ x.d \in Nat \ {0}
  BY RationalIs
<1>2. /\ Times(t, Q(1, k)).n = t.n * 1 /\ Times(t, Q(1, k)).d = t.d * k
      /\ Times(x, Q(k, 1)).n = x.n * k /\ Times(x, Q(k, 1)).d = x.d * 1
  BY RationalIs DEF Times
<1>3. (x.n * k) * t.d = x.n * (t.d * k) /\ t.n * (x.d * 1) = (t.n * 1) * x.d
  BY <1>1
<1>4. Times(t, Q(1, k)) \in Rational
  BY RationalIs, TimesType
<1> QED
  BY <1>2, <1>3, <1>4 DEF Leq

LEMMA TimesKeepsOrder ==
    ASSUME NEW a \in Rational, NEW b \in Rational, NEW s \in Nat, Leq(a, b)
    PROVE  Leq(Times(a, Q(s, 1)), Times(b, Q(s, 1)))
<1>1. a.n \in Int /\ a.d \in Nat \ {0} /\ b.n \in Int /\ b.d \in Nat \ {0}
  BY RationalIs
<1>2. /\ Times(a, Q(s, 1)).n = a.n * s /\ Times(a, Q(s, 1)).d = a.d * 1
      /\ Times(b, Q(s, 1)).n = b.n * s /\ Times(b, Q(s, 1)).d = b.d * 1
  BY RationalIs DEF Times
<1>3. (a.n * b.d) * s <= (b.n * a.d) * s
  BY <1>1, ProductGrows DEF Leq
<1>4. (a.n * s) * (b.d * 1) = (a.n * b.d) * s /\ (b.n * s) * (a.d * 1) = (b.n * a.d) * s
  BY <1>1
<1> QED
  BY <1>2, <1>3, <1>4 DEF Leq

\* Every nonempty list of numbers has a lowest and a highest one.
LEMMA ExtremesExist ==
    ASSUME NEW vs \in Seq(Rational), vs # << >>
    PROVE  /\ \E v \in Among(vs) : \A w \in Among(vs) : Leq(v, w)
           /\ \E v \in Among(vs) : \A w \in Among(vs) : Leq(w, v)
<1> DEFINE m == Len(vs)
           S == {n \in Nat : n + 1 <= m =>
                   /\ \E j \in 1..n + 1 : \A i \in 1..n + 1 : Leq(vs[j], vs[i])
                   /\ \E j \in 1..n + 1 : \A i \in 1..n + 1 : Leq(vs[i], vs[j])}
<1>0. m \in Nat /\ m # 0 /\ DOMAIN vs = 1..m /\ \A i \in 1..m : vs[i] \in Rational
  OBVIOUS
<1> HIDE DEF m
<1>1. 0 \in S
  BY <1>0, LeqOrder
<1>2. ASSUME NEW n \in Nat, n \in S PROVE n + 1 \in S
  <2>1. CASE (n + 1) + 1 <= m
    <3> DEFINE k == (n + 1) + 1
    <3>1. /\ n + 1 <= m /\ k \in 1..m /\ k \in 1..k
          /\ \A i \in 1..k : i = k \/ i \in 1..n + 1
          /\ \A i \in 1..n + 1 : i \in 1..k
          /\ \A i \in 1..k : i \in 1..m
      BY <1>0, <2>1
    <3> HIDE DEF k
    <3>2. PICK j \in 1..n + 1 : \A i \in 1..n + 1 : Leq(vs[j], vs[i])
      BY <1>2, <3>1
    <3>3. PICK h \in 1..n + 1 : \A i \in 1..n + 1 : Leq(vs[i], vs[h])
      BY <1>2, <3>1
    <3>4. \A i \in 1..k : vs[i] \in Rational
      BY <1>0, <3>1
    <3>5. \E jj \in 1..k : \A i \in 1..k : Leq(vs[jj], vs[i])
      <4>1. CASE Leq(vs[j], vs[k])
        BY <3>1, <3>2, <4>1
      <4>2. CASE Leq(vs[k], vs[j])
        <5>1. \A i \in 1..k : Leq(vs[k], vs[i])
          <6>1. TAKE i \in 1..k
          <6>2. CASE i = k
            BY <3>1, <3>4, <6>2, LeqOrder
          <6>3. CASE i \in 1..n + 1
            BY <3>1, <3>2, <3>4, <4>2, <6>3, LeqTransitive
          <6> QED
            BY <3>1, <6>2, <6>3
        <5> QED
          BY <3>1, <5>1
      <4> QED
        BY <3>1, <3>4, <4>1, <4>2, LeqOrder
    <3>6. \E jj \in 1..k : \A i \in 1..k : Leq(vs[i], vs[jj])
      <4>1. CASE Leq(vs[k], vs[h])
        BY <3>1, <3>3, <4>1
      <4>2. CASE Leq(vs[h], vs[k])
        <5>1. \A i \in 1..k : Leq(vs[i], vs[k])
          <6>1. TAKE i \in 1..k
          <6>2. CASE i = k
            BY <3>1, <3>4, <6>2, LeqOrder
          <6>3. CASE i \in 1..n + 1
            BY <3>1, <3>3, <3>4, <4>2, <6>3, LeqTransitive
          <6> QED
            BY <3>1, <6>2, <6>3
        <5> QED
          BY <3>1, <5>1
      <4> QED
        BY <3>1, <3>4, <4>1, <4>2, LeqOrder
    <3>7. n + 1 \in Nat
      OBVIOUS
    <3>8. /\ \E jj \in 1..(n + 1) + 1 : \A i \in 1..(n + 1) + 1 : Leq(vs[jj], vs[i])
          /\ \E jj \in 1..(n + 1) + 1 : \A i \in 1..(n + 1) + 1 : Leq(vs[i], vs[jj])
      BY Zenon, <3>5, <3>6 DEF k
    <3> QED
      BY Zenon, <3>7, <3>8
  <2> QED
    BY <1>0, <2>1
<1> HIDE DEF S
<1>3. \A n \in Nat : n \in S
  BY <1>1, <1>2, Naturals
<1>4. m - 1 \in Nat /\ (m - 1) + 1 = m
  BY <1>0
<1>5. /\ \E j \in 1..m : \A i \in 1..m : Leq(vs[j], vs[i])
      /\ \E j \in 1..m : \A i \in 1..m : Leq(vs[i], vs[j])
  <2>1. (m - 1) + 1 <= m
    BY <1>0, <1>4
  <2>2. m - 1 \in S
    BY <1>3, <1>4
  <2> QED
    BY <1>4, <2>1, <2>2 DEF S
<1> QED
  BY <1>0, <1>5 DEF Among

LEMMA Extremes ==
    ASSUME NEW vs \in Seq(Rational), vs # << >>
    PROVE  /\ Lowest(vs) \in Rational /\ Highest(vs) \in Rational
           /\ \E i \in DOMAIN vs : vs[i] = Lowest(vs)
           /\ \E i \in DOMAIN vs : vs[i] = Highest(vs)
           /\ \A i \in DOMAIN vs : Leq(Lowest(vs), vs[i]) /\ Leq(vs[i], Highest(vs))
<1>1. Lowest(vs) \in Among(vs) /\ \A w \in Among(vs) : Leq(Lowest(vs), w)
  BY ExtremesExist, Zenon DEF Lowest
<1>2. Highest(vs) \in Among(vs) /\ \A w \in Among(vs) : Leq(w, Highest(vs))
  BY ExtremesExist, Zenon DEF Highest
<1>3. \A i \in DOMAIN vs : vs[i] \in Rational
  OBVIOUS
<1> QED
  BY <1>1, <1>2, <1>3 DEF Among

(***************************************************************************)
(* What an aggregation may yield: a number between the lowest and the      *)
(* highest of what it aggregates.                                          *)
(***************************************************************************)
LEMMA TimesOne ==
    ASSUME NEW x \in Rational
    PROVE  Leq(Times(x, Q(1, 1)), x) /\ Leq(x, Times(x, Q(1, 1)))
<1>1. x.n \in Int /\ x.d \in Nat \ {0}
  BY RationalIs
<1>2. Times(x, Q(1, 1)).n = x.n * 1 /\ Times(x, Q(1, 1)).d = x.d * 1
  BY RationalIs DEF Times
<1>3. (x.n * 1) * x.d = x.n * (x.d * 1) /\ (x.n * 1) * x.d \in Int
  BY <1>1
<1> QED
  BY <1>2, <1>3 DEF Leq

\* A mean of values that are all at least (at most) x is so too.
LEMMA MeanBetween ==
    ASSUME NEW vs \in Seq(Rational), vs # << >>, NEW x \in Rational
    PROVE  /\ SafeMean(vs) \in Rational
           /\ (\A i \in 1..Len(vs) : Leq(x, vs[i])) => Leq(x, SafeMean(vs))
           /\ (\A i \in 1..Len(vs) : Leq(vs[i], x)) => Leq(SafeMean(vs), x)
<1> DEFINE m == Len(vs)
           c == [i \in 0..m |-> i]
           one == Times(x, Q(1, 1))
<1>1. m \in Nat \ {0} /\ \A i \in 1..m : vs[i] \in Rational
  OBVIOUS
<1>2. /\ c \in [0..m -> Nat] /\ c[0] = 0 /\ c[m] = m
      /\ \A i \in 1..m : c[i] - c[i - 1] = 1
  BY <1>1
<1>3. SafeMean(vs) = Times(Total(vs), Q(1, m))
  BY DEF SafeMean
<1>4. one \in Rational /\ Leq(one, x) /\ Leq(x, one)
  BY TimesOne, TimesType, ConstantsType
<1> HIDE DEF c, one
<1>5. /\ (\A i \in 1..m : Leq(one, vs[i])) => Leq(Times(x, Q(m, 1)), Total(vs))
      /\ (\A i \in 1..m : Leq(vs[i], one)) => Leq(Total(vs), Times(x, Q(m, 1)))
  <2>1. \A i \in 1..m : c[i] - c[i - 1] \in Nat /\ Times(x, Q(c[i] - c[i - 1], 1)) = one
    BY <1>2 DEF one
  <2>2. /\ (\A i \in 1..m : Leq(Times(x, Q(c[i] - c[i - 1], 1)), vs[i]))
              => Leq(Times(x, Q(c[m], 1)), Total(vs))
        /\ (\A i \in 1..m : Leq(vs[i], Times(x, Q(c[i] - c[i - 1], 1))))
              => Leq(Total(vs), Times(x, Q(c[m], 1)))
    BY <1>2, <2>1, TotalBetween
  <2> QED
    BY <1>2, <2>1, <2>2
<1> HIDE DEF m
<1>6. Total(vs) \in Rational
  BY TotalType
<1>7. ASSUME \A i \in 1..m : Leq(x, vs[i]) PROVE Leq(x, SafeMean(vs))
  <2>1. \A i \in 1..m : Leq(one, vs[i])
    BY <1>1, <1>4, <1>7, LeqTransitive
  <2> QED
    BY <1>1, <1>3, <1>5, <1>6, <2>1, Quotient
<1>8. ASSUME \A i \in 1..m : Leq(vs[i], x) PROVE Leq(SafeMean(vs), x)
  <2>1. \A i \in 1..m : Leq(vs[i], one)
    BY <1>1, <1>4, <1>8, LeqTransitive
  <2> QED
    BY <1>1, <1>3, <1>5, <1>6, <2>1, Quotient
<1> QED
  BY <1>1, <1>3, <1>6, <1>7, <1>8, Quotient DEF m

LEMMA FieldsAre ==
    ASSUME NEW rs \in Seq(Result), NEW field \in {"score", "value"}
    PROVE  /\ Field(rs, field) \in Seq(Rational) /\ Len(Field(rs, field)) = Len(rs)
           /\ DOMAIN Field(rs, field) = 1..Len(rs)
           /\ rs # << >> => Field(rs, field) # << >>
           /\ \A i \in 1..Len(rs) : /\ Field(rs, field)[i] = rs[i][field]
                                    /\ rs[i][field] \in Rational
                                    /\ rs[i].samples \in Nat
<1>1. Len(rs) \in Nat /\ DOMAIN rs = 1..Len(rs) /\ \A i \in 1..Len(rs) : rs[i] \in Result
  OBVIOUS
<1>2. \A r \in Result : r["score"] \in Rational /\ r["value"] \in Rational /\ r.samples \in Nat
  BY ResultAssumption
<1>3. \A i \in 1..Len(rs) : rs[i][field] \in Rational /\ rs[i].samples \in Nat
  BY <1>1, <1>2
<1>4. Field(rs, field) = [i \in 1..Len(rs) |-> rs[i][field]]
  BY <1>1 DEF Field
<1>5. Field(rs, field) \in Seq(Rational) /\ Len(Field(rs, field)) = Len(rs)
  BY <1>1, <1>3, <1>4
<1>6. rs # << >> => Field(rs, field) # << >>
  <2>1. rs # << >> => Len(rs) # 0
    OBVIOUS
  <2> QED
    BY <1>5, <2>1
<1> QED
  BY <1>3, <1>4, <1>5, <1>6

LEMMA WeightedMeanBetween ==
    ASSUME NEW rs \in Seq(Result), NEW field \in {"score", "value"}, NEW x \in Rational,
           SampleCount(rs) # 0
    PROVE  /\ SampleWeightedMean(rs, field) \in Rational
           /\ (\A i \in 1..Len(rs) : Leq(x, rs[i][field]))
                 => Leq(x, SampleWeightedMean(rs, field))
           /\ (\A i \in 1..Len(rs) : Leq(rs[i][field], x))
                 => Leq(SampleWeightedMean(rs, field), x)
<1> DEFINE m == Len(rs)
           c == [i \in 0..m |-> Counts(rs)[i]]
           vs == [i \in 1..m |-> Times(rs[i][field], Q(rs[i].samples, 1))]
           k == SampleCount(rs)
<1>1. /\ m \in Nat /\ DOMAIN rs = 1..m
      /\ \A i \in 1..m : rs[i][field] \in Rational /\ rs[i].samples \in Nat
  BY FieldsAre
<1>2. \A i \in 1..m : Times(rs[i][field], Q(rs[i].samples, 1)) \in Rational
  BY <1>1, ConstantsType, TimesType
<1>3. vs \in Seq(Rational) /\ Len(vs) = m
  BY <1>1, <1>2
<1>4. SampleWeightedMean(rs, field) = Times(Total(vs), Q(1, k))
  BY <1>1 DEF SampleWeightedMean, WeightedTotal
<1>5. /\ c \in [0..m -> Nat] /\ c[0] = 0 /\ c[m] = k
      /\ \A i \in 1..m : c[i] - c[i - 1] = rs[i].samples
  <2>1. /\ \A i \in 0..m : Counts(rs)[i] \in Nat
        /\ Counts(rs)[0] = 0 /\ Counts(rs)[m] = k
        /\ \A i \in 1..m : Counts(rs)[i] = Counts(rs)[i - 1] + rs[i].samples
    BY <1>1, CountsType, CountsAre, SampleCountOfCounts
  <2>2. \A i \in 1..m : i \in 0..m /\ i - 1 \in 0..m
    BY <1>1
  <2>3. 0 \in 0..m /\ m \in 0..m
    BY <1>1
  <2>4. c \in [0..m -> Nat]
    BY <2>1
  <2>5. \A i \in 0..m : c[i] = Counts(rs)[i]
    OBVIOUS
  <2> HIDE DEF c, m, k
  <2>6. \A i \in 1..m : c[i] - c[i - 1] = rs[i].samples
    <3>1. TAKE i \in 1..m
    <3>2. c[i] = Counts(rs)[i] /\ c[i - 1] = Counts(rs)[i - 1]
      BY <2>2, <2>5
    <3>3. Counts(rs)[i - 1] \in Nat /\ Counts(rs)[i] = Counts(rs)[i - 1] + rs[i].samples
      BY <2>1, <2>2
    <3> QED
      BY <1>1, <3>2, <3>3
  <2> QED
    BY <2>1, <2>3, <2>4, <2>5, <2>6
<1>6. k \in Nat \ {0}
  BY SampleCountType
<1>7. \A i \in 1..m : vs[i] = Times(rs[i][field], Q(rs[i].samples, 1))
  OBVIOUS
<1> HIDE DEF c, vs, k, m
<1>8. /\ (\A i \in 1..m : Leq(Times(x, Q(rs[i].samples, 1)), vs[i]))
            => Leq(Times(x, Q(k, 1)), Total(vs))
      /\ (\A i \in 1..m : Leq(vs[i], Times(x, Q(rs[i].samples, 1))))
            => Leq(Total(vs), Times(x, Q(k, 1)))
  <2>1. \A i \in 1..m : /\ c[i] - c[i - 1] \in Nat
                        /\ Times(x, Q(c[i] - c[i - 1], 1)) = Times(x, Q(rs[i].samples, 1))
    BY <1>1, <1>5
  <2>2. /\ (\A i \in 1..m : Leq(Times(x, Q(c[i] - c[i - 1], 1)), vs[i]))
              => Leq(Times(x, Q(c[m], 1)), Total(vs))
        /\ (\A i \in 1..m : Leq(vs[i], Times(x, Q(c[i] - c[i - 1], 1))))
              => Leq(Total(vs), Times(x, Q(c[m], 1)))
    BY <1>3, <1>5, <2>1, TotalBetween
  <2> QED
    BY <1>5, <2>1, <2>2
<1>9. Total(vs) \in Rational
  BY <1>3, TotalType
<1>10. ASSUME \A i \in 1..m : Leq(x, rs[i][field])
       PROVE  Leq(x, SampleWeightedMean(rs, field))
  <2>1. \A i \in 1..m : Leq(Times(x, Q(rs[i].samples, 1)), vs[i])
    BY <1>1, <1>7, <1>10, TimesKeepsOrder
  <2> QED
    BY <1>4, <1>6, <1>8, <1>9, <2>1, Quotient
<1>11. ASSUME \A i \in 1..m : Leq(rs[i][field], x)
       PROVE  Leq(SampleWeightedMean(rs, field), x)
  <2>1. \A i \in 1..m : Leq(vs[i], Times(x, Q(rs[i].samples, 1)))
    BY <1>1, <1>7, <1>11, TimesKeepsOrder
  <2> QED
    BY <1>4, <1>6, <1>8, <1>9, <2>1, Quotient
<1> QED
  BY <1>4, <1>6, <1>9, <1>10, <1>11, Quotient DEF m

LEMMA AggregateWithin ==
    ASSUME NEW rs \in Seq(Result), rs # << >>, NEW field \in {"score", "value"},
           NEW rule \in Rules
    PROVE  /\ Aggregate(rule, rs, field) \in Rational
           /\ \E i \in 1..Len(rs) : Leq(rs[i][field], Aggregate(rule, rs, field))
           /\ \E i \in 1..Len(rs) : Leq(Aggregate(rule, rs, field), rs[i][field])
<1> DEFINE vs == Field(rs, field)
           lo == Lowest(vs)
           hi == Highest(vs)
           a == Aggregate(rule, rs, field)
<1>1. /\ vs \in Seq(Rational) /\ Len(vs) = Len(rs) /\ DOMAIN vs = 1..Len(rs) /\ vs # << >>
      /\ \A i \in 1..Len(rs) : vs[i] = rs[i][field]
  BY FieldsAre
<1>2. /\ lo \in Rational /\ hi \in Rational
      /\ \E i \in 1..Len(rs) : rs[i][field] = lo
      /\ \E i \in 1..Len(rs) : rs[i][field] = hi
      /\ \A i \in 1..Len(rs) : Leq(lo, rs[i][field]) /\ Leq(rs[i][field], hi)
  <2> HIDE DEF vs
  <2>1. /\ lo \in Rational /\ hi \in Rational
        /\ \E i \in DOMAIN vs : vs[i] = lo
        /\ \E i \in DOMAIN vs : vs[i] = hi
        /\ \A i \in DOMAIN vs : Leq(lo, vs[i]) /\ Leq(vs[i], hi)
    BY <1>1, Extremes
  <2> QED
    BY <1>1, <2>1
<1>3. \A i \in 1..Len(vs) : Leq(lo, vs[i]) /\ Leq(vs[i], hi)
  <2> HIDE DEF vs, lo, hi
  <2> QED
    BY <1>1, <1>2
<1> HIDE DEF lo, hi, vs
<1>4. SafeMean(vs) \in Rational /\ Leq(lo, SafeMean(vs)) /\ Leq(SafeMean(vs), hi)
  BY <1>1, <1>2, <1>3, MeanBetween
<1>5. a \in Rational /\ Leq(lo, a) /\ Leq(a, hi)
  <2>1. CASE rule = "sample_weighted_mean" /\ SampleCount(rs) # 0
    <3>1. a = SampleWeightedMean(rs, field)
      BY <2>1 DEF Aggregate
    <3> QED
      BY <1>2, <2>1, <3>1, WeightedMeanBetween
  <2>2. CASE rule = "sample_weighted_mean" /\ SampleCount(rs) = 0
    <3>1. a = SafeMean(vs)
      BY <2>2 DEF Aggregate, SampleWeightedMean, vs
    <3> QED
      BY <1>4, <3>1
  <2>3. CASE rule = "mean"
    BY <1>4, <2>3 DEF Aggregate, vs
  <2>4. CASE rule = "minimum"
    <3>1. a = lo
      BY <2>4 DEF Aggregate, vs, lo
    <3>2. \E i \in 1..Len(vs) : TRUE
      BY <1>1, <1>2
    <3> QED
      BY <1>1, <1>2, <1>3, <3>1, <3>2, LeqOrder, LeqTransitive
  <2>5. CASE rule = "maximum"
    <3>1. a = hi
      BY <2>5 DEF Aggregate, vs, hi
    <3> QED
      BY <1>1, <1>2, <1>3, <3>1, LeqOrder, LeqTransitive
  <2> QED
    BY <2>1, <2>2, <2>3, <2>4, <2>5 DEF Rules
<1> HIDE DEF a
<1>6. /\ \E i \in 1..Len(rs) : Leq(rs[i][field], a)
      /\ \E i \in 1..Len(rs) : Leq(a, rs[i][field])
  BY <1>2, <1>5
<1> QED
  BY <1>5, <1>6 DEF a

(***************************************************************************)
(* Every state the program can be in.                                      *)
(***************************************************************************)
\* The policy is a valid one and every criterion has a list of results.
Typed == policy \in Policies /\ results \in [Criterion -> Seq(Result)]

LEMMA GroupedType ==
    ASSUME NEW rr \in [Criterion -> Seq(Result)], NEW measured \in SUBSET Criterion,
           NEW r \in [measured -> Result]
    PROVE  Grouped(rr, r) \in [Criterion -> Seq(Result)]
<1>1. ASSUME NEW c \in Criterion
      PROVE  (IF c \in DOMAIN r THEN Append(rr[c], r[c]) ELSE rr[c]) \in Seq(Result)
  <2>1. CASE c \in measured
    <3>1. r[c] \in Result /\ rr[c] \in Seq(Result)
      BY <2>1
    <3> QED
      BY <2>1, <3>1
  <2> QED
    BY <2>1
<1> QED
  BY <1>1 DEF Grouped

\* Whatever runs succeed, policy and results stay what the readiness code expects.
THEOREM ReadinessTyped == Spec => []Typed
<1>1. Init => Typed
  <2>1. [c \in Criterion |-> << >>] \in [Criterion -> Seq(Result)]
    OBVIOUS
  <2> QED
    BY <2>1, GroupedType DEF Init, Typed
<1>2. Typed /\ [Next]_vars => Typed'
  <2> SUFFICES ASSUME Typed, [Next]_vars PROVE Typed'
    OBVIOUS
  <2>1. CASE Next
    <3>1. PICK r \in [Criterion -> Result] : RunSucceeds(r)
      BY <2>1 DEF Next
    <3>2. Grouped(results, r) \in [Criterion -> Seq(Result)]
      BY GroupedType DEF Typed
    <3> QED
      BY <3>1, <3>2 DEF Typed, RunSucceeds
  <2>2. CASE UNCHANGED vars
    BY <2>2 DEF Typed, vars
  <2> QED
    BY <2>1, <2>2
<1> QED
  BY <1>1, <1>2, PTL DEF Spec

LEMMA PolicyIs ==
    ASSUME policy \in Policies
    PROVE  /\ policy.minimumScore \in Rational /\ Leq(Zero, policy.minimumScore)
           /\ \A c \in Criterion :
                 /\ Def(c).weight \in Rational /\ Leq(Zero, Def(c).weight)
                 /\ Def(c).threshold \in Rational /\ Def(c).minimumSamples \in Nat
                 /\ Def(c).rule \in Rules /\ Def(c).operator \in Operators
BY PolicyAssumption DEF Def

\* For every criterion, rule and sequence of runs: the score that readiness uses is
\* no lower than the worst and no higher than the best result, also when no run took
\* a sample and all the weights of the mean are zero.
THEOREM ScoresWithinResults == Spec => []ScoreWithinResults
<1>1. Typed => ScoreWithinResults
  <2> SUFFICES ASSUME Typed, NEW c \in Criterion, Field(results[c], "score") # << >>
               PROVE  LET scores == Field(results[c], "score")
                      IN  /\ \E i \in DOMAIN scores : Leq(scores[i], Score(c, results))
                          /\ \E i \in DOMAIN scores : Leq(Score(c, results), scores[i])
    BY DEF ScoreWithinResults
  <2> DEFINE rs == results[c]
  <2>1. rs \in Seq(Result) /\ Def(c).rule \in Rules
    BY PolicyIs DEF Typed
  <2>2. rs # << >>
    BY DEF Field
  <2> HIDE DEF rs
  <2>3. /\ \E i \in 1..Len(rs) : Leq(rs[i]["score"], Aggregate(Def(c).rule, rs, "score"))
        /\ \E i \in 1..Len(rs) : Leq(Aggregate(Def(c).rule, rs, "score"), rs[i]["score"])
    BY <2>1, <2>2, AggregateWithin
  <2>4. /\ DOMAIN Field(rs, "score") = 1..Len(rs)
        /\ \A i \in 1..Len(rs) : Field(rs, "score")[i] = rs[i]["score"]
    BY <2>1, FieldsAre
  <2> QED
    BY <2>3, <2>4 DEF Score, rs
<1> QED
  BY <1>1, ReadinessTyped, PTL

(***************************************************************************)
(* What another run may change.                                            *)
(***************************************************************************)
\* It adds one result to those of every criterion.
LEMMA RunAdds ==
    ASSUME NEW rr \in [Criterion -> Seq(Result)], NEW r \in [Criterion -> Result],
           NEW c \in Criterion
    PROVE  /\ rr[c] \in Seq(Result) /\ r[c] \in Result
           /\ Grouped(rr, r)[c] = Append(rr[c], r[c])
           /\ Grouped(rr, r)[c] \in Seq(Result)
           /\ Grouped(rr, r)[c] # << >>
           /\ Len(Grouped(rr, r)[c]) = Len(rr[c]) + 1
           /\ \A i \in 1..Len(rr[c]) : Grouped(rr, r)[c][i] = rr[c][i]
<1>1. rr[c] \in Seq(Result) /\ r[c] \in Result
  OBVIOUS
<1>2. Grouped(rr, r)[c] = Append(rr[c], r[c])
  BY DEF Grouped
<1> DEFINE rs == rr[c]
           x == r[c]
<1> HIDE DEF rs, x
<1>3. rs \in Seq(Result) /\ x \in Result
  BY <1>1 DEF rs, x
<1>4. /\ Append(rs, x) \in Seq(Result) /\ Append(rs, x) # << >>
      /\ Len(Append(rs, x)) = Len(rs) + 1
      /\ \A i \in 1..Len(rs) : Append(rs, x)[i] = rs[i]
  <2>1. /\ Append(rs, x) \in Seq(Result) /\ Len(Append(rs, x)) = Len(rs) + 1
        /\ Len(rs) \in Nat
    BY <1>3
  <2>2. \A i \in 1..Len(rs) : Append(rs, x)[i] = rs[i]
    BY <1>3
  <2>3. Len(Append(rs, x)) # 0
    BY <2>1
  <2>4. Append(rs, x) # << >>
    BY <2>3
  <2> QED
    BY <2>1, <2>2, <2>4
<1> QED
  BY <1>1, <1>2, <1>4 DEF rs, x

\* A complete criterion stays complete.
LEMMA CompleteStays ==
    ASSUME policy \in Policies, NEW rr \in [Criterion -> Seq(Result)],
           NEW r \in [Criterion -> Result], NEW c \in Criterion, Complete(c, rr)
    PROVE  Complete(c, Grouped(rr, r))
<1> DEFINE rs == rr[c]
           more == Grouped(rr, r)[c]
<1>1. /\ rs \in Seq(Result) /\ more \in Seq(Result) /\ more # << >>
      /\ Len(more) = Len(rs) + 1 /\ \A i \in 1..Len(rs) : more[i] = rs[i]
  BY RunAdds
<1>2. SampleCount(more) >= Def(c).minimumSamples
  <2>1. SampleCount(more) = SampleCount(rs) + r[c].samples
    BY RunAdds, SampleCountGrows
  <2>2. r[c].samples \in Nat
    BY ResultAssumption
  <2>3. SampleCount(rs) \in Nat /\ Def(c).minimumSamples \in Nat
    BY <1>1, SampleCountType, PolicyIs
  <2>4. SampleCount(rs) >= Def(c).minimumSamples
    BY DEF Complete, EnoughSamples
  <2> HIDE DEF rs, more
  <2> QED
    BY <2>1, <2>2, <2>3, <2>4
<1>3. UNION {rs[i].evidence : i \in DOMAIN rs} \subseteq UNION {more[i].evidence : i \in DOMAIN more}
  <2>1. /\ DOMAIN rs = 1..Len(rs) /\ DOMAIN more = 1..Len(more) /\ Len(rs) \in Nat
    BY <1>1
  <2> HIDE DEF rs, more
  <2>2. \A i \in DOMAIN rs : i \in DOMAIN more /\ more[i] = rs[i]
    BY <1>1, <2>1
  <2> QED
    BY <2>2
<1>4. Def(c).requiredEvidence \subseteq UNION {more[i].evidence : i \in DOMAIN more}
  <2>1. Def(c).requiredEvidence \subseteq UNION {rs[i].evidence : i \in DOMAIN rs}
    BY DEF Complete, RequiredEvidence
  <2> HIDE DEF rs, more
  <2> QED
    BY <1>3, <2>1
<1> QED
  BY <1>1, <1>2, <1>4 DEF Complete, EnoughSamples, RequiredEvidence

\* The lowest of more numbers is no higher.
LEMMA LowestFalls ==
    ASSUME NEW vs \in Seq(Rational), vs # << >>, NEW ws \in Seq(Rational),
           Len(ws) = Len(vs) + 1, \A i \in 1..Len(vs) : ws[i] = vs[i]
    PROVE  Leq(Lowest(ws), Lowest(vs))
<1>1. DOMAIN vs = 1..Len(vs) /\ DOMAIN ws = 1..Len(ws) /\ Len(vs) \in Nat /\ ws # << >>
  OBVIOUS
<1>2. PICK i \in DOMAIN vs : vs[i] = Lowest(vs)
  BY Extremes
<1>3. i \in DOMAIN ws /\ ws[i] = vs[i]
  BY <1>1
<1> QED
  BY <1>1, <1>2, <1>3, Extremes

\* For every plan and any number of runs: under the minimum rule a gate that asks for
\* at least (more than) its threshold and has failed stays failed.
THEOREM WorstResultStands == Spec => WorstResultDecides
<1> DEFINE Stands == \A c \in HardGates :
              /\ Def(c).rule = "minimum" /\ Def(c).operator \in {"gte", "gt"}
              /\ Verdict(c, results) = "FAILED"
              => Verdict(c, results') = "FAILED"
<1>1. Typed /\ [Next]_vars => [Stands]_vars
  <2> SUFFICES ASSUME Typed, Next, NEW c \in HardGates,
                      Def(c).rule = "minimum", Def(c).operator \in {"gte", "gt"},
                      Verdict(c, results) = "FAILED"
               PROVE  Verdict(c, results') = "FAILED"
    OBVIOUS
  <2>1. PICK r \in [Criterion -> Result] : results' = Grouped(results, r)
    BY DEF Next, RunSucceeds
  <2> DEFINE rs == results[c]
             more == results'[c]
             old == Lowest(Field(rs, "value"))
             new == Lowest(Field(more, "value"))
             bar == Def(c).threshold
  <2>2. c \in Criterion /\ results \in [Criterion -> Seq(Result)] /\ policy \in Policies
    BY DEF HardGates, Typed
  <2>3. /\ rs \in Seq(Result) /\ more \in Seq(Result) /\ more # << >>
        /\ Len(more) = Len(rs) + 1 /\ \A i \in 1..Len(rs) : more[i] = rs[i]
    BY <2>1, <2>2, RunAdds
  <2>4. Complete(c, results) /\ ~Compares(Def(c).operator, Measured(c, results), bar)
    BY Zenon DEF Verdict
  <2>5. Complete(c, results')
    BY <2>1, <2>2, <2>4, CompleteStays
  <2>6. Measured(c, results) = old /\ Measured(c, results') = new
    BY DEF Measured, Aggregate
  <2>7. rs # << >>
    BY <2>4 DEF Complete
  <2>8. bar \in Rational
    BY <2>2, PolicyIs
  <2>9. old \in Rational /\ new \in Rational /\ Leq(new, old)
    <3> HIDE DEF rs, more
    <3>1. /\ Field(rs, "value") \in Seq(Rational) /\ Len(Field(rs, "value")) = Len(rs)
          /\ Field(rs, "value") # << >>
          /\ \A i \in 1..Len(rs) : Field(rs, "value")[i] = rs[i]["value"]
      BY <2>3, <2>7, FieldsAre
    <3>2. /\ Field(more, "value") \in Seq(Rational) /\ Len(Field(more, "value")) = Len(more)
          /\ Field(more, "value") # << >>
          /\ \A i \in 1..Len(more) : Field(more, "value")[i] = more[i]["value"]
      BY <2>3, FieldsAre
    <3>3. \A i \in 1..Len(rs) : Field(more, "value")[i] = Field(rs, "value")[i]
      <4>1. Len(rs) \in Nat
        BY <2>3
      <4>2. \A i \in 1..Len(rs) : i \in 1..Len(more)
        BY <2>3, <4>1
      <4> QED
        BY <2>3, <3>1, <3>2, <4>2
    <3>4. Leq(new, old)
      BY <2>3, <3>1, <3>2, <3>3, LowestFalls
    <3> QED
      BY <3>1, <3>2, <3>4, Extremes
  <2> HIDE DEF old, new, bar
  <2>10. ~Compares(Def(c).operator, new, bar)
    <3>1. CASE Def(c).operator = "gte"
      <4>1. ~Leq(bar, old)
        BY <2>4, <2>6, <3>1 DEF Compares
      <4>2. ~Leq(bar, new)
        BY <2>8, <2>9, <4>1, LeqTransitive
      <4> QED
        BY <3>1, <4>2 DEF Compares
    <3>2. CASE Def(c).operator = "gt"
      <4>1. Leq(old, bar)
        BY <2>4, <2>6, <3>2 DEF Compares
      <4>2. Leq(new, bar)
        BY <2>8, <2>9, <4>1, LeqTransitive
      <4> QED
        BY <3>2, <4>2 DEF Compares
    <3> QED
      BY <3>1, <3>2
  <2> QED
    BY Zenon, <2>5, <2>6, <2>10 DEF Verdict, bar
<1> QED
  BY <1>1, ReadinessTyped, PTL DEF Spec, WorstResultDecides

(***************************************************************************)
(* Completeness of samples and of evaluations.                             *)
(***************************************************************************)
LEMMA DivideKeepsOrder ==
    ASSUME NEW a \in Rational, NEW b \in Rational, NEW k \in Nat \ {0}, Leq(a, b)
    PROVE  Leq(Times(a, Q(1, k)), Times(b, Q(1, k)))
<1>1. a.n \in Int /\ a.d \in Nat \ {0} /\ b.n \in Int /\ b.d \in Nat \ {0}
  BY RationalIs
<1>2. /\ Times(a, Q(1, k)).n = a.n * 1 /\ Times(a, Q(1, k)).d = a.d * k
      /\ Times(b, Q(1, k)).n = b.n * 1 /\ Times(b, Q(1, k)).d = b.d * k
  BY RationalIs DEF Times
<1>3. (a.n * b.d) * k <= (b.n * a.d) * k
  BY <1>1, ProductGrows DEF Leq
<1>4. (a.n * 1) * (b.d * k) = (a.n * b.d) * k /\ (b.n * 1) * (a.d * k) = (b.n * a.d) * k
  BY <1>1
<1> QED
  BY <1>2, <1>3, <1>4 DEF Leq

LEMMA MeanGrows ==
    ASSUME NEW vs \in Seq(Rational), NEW ws \in Seq(Rational), Len(vs) = Len(ws),
           \A i \in 1..Len(vs) : Leq(vs[i], ws[i])
    PROVE  Leq(SafeMean(vs), SafeMean(ws))
<1>1. CASE vs = << >>
  <2>1. Len(ws) = 0
    BY <1>1
  <2>2. ws = << >>
    BY <2>1
  <2> QED
    BY <1>1, <2>2, ConstantsType, LeqOrder DEF SafeMean
<1>2. CASE vs # << >>
  <2>1. Len(vs) \in Nat \ {0} /\ ws # << >>
    BY <1>2
  <2>2. /\ SafeMean(vs) = Times(Total(vs), Q(1, Len(vs)))
        /\ SafeMean(ws) = Times(Total(ws), Q(1, Len(vs)))
    BY <1>2, <2>1 DEF SafeMean
  <2> QED
    BY <2>1, <2>2, TotalGrows, TotalType, DivideKeepsOrder
<1> QED
  BY <1>1, <1>2

LEMMA LesserIs ==
    ASSUME NEW a \in Rational, NEW b \in Rational, NEW e \in Rational
    PROVE  /\ Lesser(a, e) \in Rational /\ Leq(Lesser(a, e), e)
           /\ Leq(e, Lesser(a, e)) <=> Leq(e, a)
           /\ Leq(a, b) => Leq(Lesser(a, e), Lesser(b, e))
<1>1. Leq(a, e) \/ Leq(e, a)
  BY LeqOrder
<1>2. Leq(b, e) \/ Leq(e, b)
  BY LeqOrder
<1>3. Leq(a, a) /\ Leq(b, b) /\ Leq(e, e)
  BY LeqOrder
<1>4. Leq(a, b) /\ Leq(b, e) => Leq(a, e)
  BY LeqTransitive
<1> QED
  BY <1>1, <1>2, <1>3, <1>4 DEF Lesser

LEMMA RatioIs ==
    ASSUME NEW m \in Nat, NEW n \in Nat, NEW k \in Nat
    PROVE  /\ SafeRatio(m, k) \in Rational
           /\ m <= n => Leq(SafeRatio(m, k), SafeRatio(n, k))
           /\ m <= k => Leq(SafeRatio(m, k), One)
           /\ Leq(One, SafeRatio(m, k)) <=> (k = 0 \/ k <= m)
<1>1. CASE k = 0
  BY <1>1, ConstantsType, LeqOrder DEF SafeRatio
<1>2. CASE k # 0
  <2>1. SafeRatio(m, k) = Q(m, k) /\ SafeRatio(n, k) = Q(n, k)
    BY <1>2 DEF SafeRatio
  <2>2. /\ Q(m, k).n = m /\ Q(m, k).d = k /\ Q(n, k).n = n /\ Q(n, k).d = k
        /\ One.n = 1 /\ One.d = 1
    BY RationalIs DEF One
  <2>3. Q(m, k) \in Rational
    BY <1>2, RationalIs
  <2>4. m <= n => m * k <= n * k
    BY ProductGrows
  <2> QED
    BY <1>2, <2>1, <2>2, <2>3, <2>4 DEF Leq
<1> QED
  BY <1>1, <1>2

\* What a criterion contributes to the sample completeness.
Share(c, rr) ==
    IF Def(c).minimumSamples = 0 THEN One
    ELSE Lesser(SafeRatio(SampleCount(rr[c]), Def(c).minimumSamples), One)

LEMMA ShareIs ==
    ASSUME policy \in Policies, NEW rr \in [Criterion -> Seq(Result)], NEW c \in Criterion
    PROVE  Share(c, rr) \in Rational /\ Leq(Share(c, rr), One)
<1>1. SampleCount(rr[c]) \in Nat /\ Def(c).minimumSamples \in Nat
  <2>1. rr[c] \in Seq(Result)
    OBVIOUS
  <2> QED
    BY <2>1, SampleCountType, PolicyIs
<1>2. SafeRatio(SampleCount(rr[c]), Def(c).minimumSamples) \in Rational
  BY <1>1, RatioIs
<1> QED
  BY <1>2, ConstantsType, LeqOrder, LesserIs DEF Share

LEMMA ShareGrows ==
    ASSUME policy \in Policies, NEW rr \in [Criterion -> Seq(Result)],
           NEW r \in [Criterion -> Result], NEW c \in Criterion
    PROVE  Leq(Share(c, rr), Share(c, Grouped(rr, r)))
<1> DEFINE few == SampleCount(rr[c])
           many == SampleCount(Grouped(rr, r)[c])
           k == Def(c).minimumSamples
<1>1. few \in Nat /\ k \in Nat /\ many \in Nat /\ few <= many
  <2>1. many = few + r[c].samples
    BY RunAdds, SampleCountGrows
  <2>2. few \in Nat /\ k \in Nat /\ r[c].samples \in Nat
    BY RunAdds, SampleCountType, PolicyIs, ResultAssumption
  <2> HIDE DEF few, many, k
  <2> QED
    BY <2>1, <2>2
<1>2. /\ Share(c, rr) = IF k = 0 THEN One ELSE Lesser(SafeRatio(few, k), One)
      /\ Share(c, Grouped(rr, r)) = IF k = 0 THEN One ELSE Lesser(SafeRatio(many, k), One)
  BY DEF Share
<1> HIDE DEF few, many, k
<1>3. /\ SafeRatio(few, k) \in Rational /\ SafeRatio(many, k) \in Rational
      /\ Leq(SafeRatio(few, k), SafeRatio(many, k))
  BY <1>1, RatioIs
<1>4. Leq(Lesser(SafeRatio(few, k), One), Lesser(SafeRatio(many, k), One))
  BY <1>3, ConstantsType, LesserIs
<1> QED
  BY <1>2, <1>4, ConstantsType, LeqOrder

LEMMA SharesAre ==
    ASSUME policy \in Policies, NEW rr \in [Criterion -> Seq(Result)]
    PROVE  /\ [c \in Criterion |-> Share(c, rr)] \in Seq(Rational)
           /\ Len([c \in Criterion |-> Share(c, rr)]) = PlanSize
           /\ SampleCompleteness(rr) = SafeMean([c \in Criterion |-> Share(c, rr)])
<1>1. \A c \in Criterion : Share(c, rr) \in Rational
  BY ShareIs
<1>2. PlanSize \in Nat /\ Criterion = 1..PlanSize
  BY PlanAssumption DEF Criterion
<1>3. SampleCompleteness(rr) = SafeMean([c \in Criterion |-> Share(c, rr)])
  BY Zenon DEF SampleCompleteness, Share
<1> QED
  BY <1>1, <1>2, <1>3

LEMMA SampleCompletenessIs ==
    ASSUME policy \in Policies, NEW rr \in [Criterion -> Seq(Result)]
    PROVE  SampleCompleteness(rr) \in Rational /\ Leq(SampleCompleteness(rr), One)
<1> DEFINE vs == [c \in Criterion |-> Share(c, rr)]
<1>1. vs \in Seq(Rational) /\ Len(vs) = PlanSize /\ SampleCompleteness(rr) = SafeMean(vs)
  BY SharesAre
<1>2. \A i \in 1..PlanSize : Leq(vs[i], One)
  BY ShareIs DEF Criterion
<1> HIDE DEF vs
<1>3. CASE vs = << >>
  BY <1>1, <1>3, ConstantsType, LeqOrder DEF SafeMean
<1>4. CASE vs # << >>
  BY <1>1, <1>2, <1>4, ConstantsType, MeanBetween
<1> QED
  BY <1>3, <1>4

LEMMA SampleCompletenessGrows ==
    ASSUME policy \in Policies, NEW rr \in [Criterion -> Seq(Result)],
           NEW r \in [Criterion -> Result]
    PROVE  Leq(SampleCompleteness(rr), SampleCompleteness(Grouped(rr, r)))
<1> DEFINE more == Grouped(rr, r)
           vs == [c \in Criterion |-> Share(c, rr)]
           ws == [c \in Criterion |-> Share(c, more)]
<1>1. more \in [Criterion -> Seq(Result)]
  BY GroupedType
<1>2. vs \in Seq(Rational) /\ Len(vs) = PlanSize /\ SampleCompleteness(rr) = SafeMean(vs)
  BY SharesAre
<1>3. ws \in Seq(Rational) /\ Len(ws) = PlanSize /\ SampleCompleteness(more) = SafeMean(ws)
  <2> HIDE DEF more
  <2> QED
    BY <1>1, SharesAre
<1>4. \A i \in 1..PlanSize : Leq(vs[i], ws[i])
  BY ShareGrows DEF Criterion
<1> HIDE DEF more, vs, ws
<1>5. Leq(SafeMean(vs), SafeMean(ws))
  BY <1>2, <1>3, <1>4, MeanGrows
<1> QED
  BY <1>2, <1>3, <1>5 DEF more

LEMMA CriteriaFinite ==
    \A S \in SUBSET Criterion : IsFiniteSet(S) /\ Cardinality(S) \in Nat
<1>1. IsFiniteSet(Criterion)
  BY PlanAssumption, FS_Interval DEF Criterion
<1> QED
  BY <1>1, FS_Subset, FS_CardinalityType

LEMMA SubsetRatio ==
    ASSUME NEW S \in SUBSET Criterion, NEW T \in SUBSET S
    PROVE  /\ SafeRatio(Cardinality(T), Cardinality(S)) \in Rational
           /\ Leq(SafeRatio(Cardinality(T), Cardinality(S)), One)
           /\ Leq(One, SafeRatio(Cardinality(T), Cardinality(S))) <=> T = S
<1>1. /\ IsFiniteSet(S) /\ Cardinality(S) \in Nat /\ Cardinality(T) \in Nat
      /\ T \in SUBSET Criterion
  BY CriteriaFinite
<1>2. Cardinality(T) <= Cardinality(S) /\ (Cardinality(S) = Cardinality(T) => S = T)
  BY <1>1, FS_Subset
<1>3. Cardinality(S) = 0 => S = {}
  BY <1>1, FS_EmptySet
<1>4. Cardinality(S) = 0 => T = S
  BY <1>3
<1> DEFINE s == Cardinality(S)
           t == Cardinality(T)
<1>5. T = S => s <= t
  BY <1>1
<1>6. /\ SafeRatio(t, s) \in Rational /\ Leq(SafeRatio(t, s), One)
      /\ Leq(One, SafeRatio(t, s)) <=> (s = 0 \/ s <= t)
  BY <1>1, <1>2, RatioIs
<1> HIDE DEF s, t
<1>7. s = 0 \/ s <= t <=> T = S
  <2>1. s <= t => s = t
    BY <1>1, <1>2 DEF s, t
  <2> QED
    BY <1>2, <1>4, <1>5, <2>1 DEF s, t
<1> QED
  BY <1>6, <1>7 DEF s, t

\* For every plan and any number of runs: a gate that is decided stays decided, and
\* another run lowers neither the sample nor the evaluation completeness.
THEOREM ProgressStays == Spec => ProgressIsKept
<1> DEFINE Kept ==
      /\ \A c \in HardGates :
            Verdict(c, results) # "REMAINING" => Verdict(c, results') # "REMAINING"
      /\ Leq(SampleCompleteness(results), SampleCompleteness(results'))
      /\ Leq(EvaluationCompleteness(results), EvaluationCompleteness(results'))
<1>1. Typed /\ [Next]_vars => [Kept]_vars
  <2> SUFFICES ASSUME Typed, Next PROVE Kept
    OBVIOUS
  <2>1. PICK r \in [Criterion -> Result] : results' = Grouped(results, r)
    BY DEF Next, RunSucceeds
  <2>2. results \in [Criterion -> Seq(Result)] /\ policy \in Policies
    BY DEF Typed
  <2>3. \A c \in Criterion : Complete(c, results) => Complete(c, results')
    BY <2>1, <2>2, CompleteStays
  <2>4. \A c \in HardGates :
           Verdict(c, results) # "REMAINING" => Verdict(c, results') # "REMAINING"
    <3>1. TAKE c \in HardGates
    <3>2. c \in Criterion
      BY DEF HardGates
    <3> QED
      BY <2>3, <3>2 DEF Verdict
  <2>5. Leq(SampleCompleteness(results), SampleCompleteness(results'))
    BY <2>1, <2>2, SampleCompletenessGrows
  <2>6. Leq(EvaluationCompleteness(results), EvaluationCompleteness(results'))
    <3> DEFINE done == {c \in Criterion : Complete(c, results)}
               more == {c \in Criterion : Complete(c, results')}
    <3>1. done \in SUBSET more /\ more \in SUBSET Criterion /\ done \in SUBSET Criterion
      BY <2>3
    <3>2. /\ EvaluationCompleteness(results) = SafeRatio(Cardinality(done), Cardinality(Criterion))
          /\ EvaluationCompleteness(results') = SafeRatio(Cardinality(more), Cardinality(Criterion))
      BY DEF EvaluationCompleteness
    <3> HIDE DEF done, more
    <3>3. /\ Cardinality(done) \in Nat /\ Cardinality(more) \in Nat /\ IsFiniteSet(more)
          /\ Cardinality(Criterion) \in Nat
      BY <3>1, CriteriaFinite
    <3>4. Cardinality(done) <= Cardinality(more)
      BY <3>1, <3>3, FS_Subset
    <3> QED
      BY <3>2, <3>3, <3>4, RatioIs
  <2> QED
    BY <2>4, <2>5, <2>6
<1> QED
  BY <1>1, ReadinessTyped, PTL DEF Spec, ProgressIsKept

(***************************************************************************)
(* The percentage and the flag.                                            *)
(***************************************************************************)
LEMMA ZeroLeq == \A a \in Rational : Leq(Zero, a) <=> 0 <= a.n
<1>1. Zero.n = 0 /\ Zero.d = 1
  BY RationalIs DEF Zero
<1> QED
  BY <1>1, RationalIs DEF Leq

LEMMA ProductPositive ==
    ASSUME NEW a \in Rational, NEW b \in Rational, Leq(Zero, a), Leq(Zero, b)
    PROVE  Leq(Zero, Times(a, b))
<1>1. a.n \in Nat /\ b.n \in Nat
  BY ZeroLeq, RationalIs
<1>2. a.n * b.n \in Nat
  BY <1>1
<1>3. Times(a, b).n = a.n * b.n
  BY RationalIs DEF Times
<1> QED
  BY <1>2, <1>3, TimesType, ZeroLeq

LEMMA TotalPositive ==
    ASSUME NEW vs \in Seq(Rational), \A i \in 1..Len(vs) : Leq(Zero, vs[i])
    PROVE  Leq(Zero, Total(vs))
<1> DEFINE m == Len(vs)
           c == [i \in 0..m |-> 0]
<1>1. m \in Nat /\ 0 \in 0..m /\ m \in 0..m /\ \A i \in 1..m : i \in 0..m /\ i - 1 \in 0..m
  OBVIOUS
<1>2. c \in [0..m -> Nat] /\ \A i \in 0..m : c[i] = 0
  OBVIOUS
<1> HIDE DEF c, m
<1>3. Times(Zero, Q(0, 1)) = Zero
  <2>1. Times(Zero, Q(0, 1)) = Q(0 * 0, 1 * 1)
    BY RationalIs DEF Times, Zero
  <2>2. 0 * 0 = 0 /\ 1 * 1 = 1
    OBVIOUS
  <2> QED
    BY <2>1, <2>2 DEF Zero
<1>4. \A i \in 1..m : c[i] - c[i - 1] = 0
  BY <1>1, <1>2
<1>5. c[0] = 0 /\ c[m] = 0
  BY <1>1, <1>2
<1>6. \A i \in 1..m : /\ c[i] - c[i - 1] \in Nat
                      /\ Leq(Times(Zero, Q(c[i] - c[i - 1], 1)), vs[i])
  BY <1>3, <1>4 DEF m
<1>7. Leq(Times(Zero, Q(c[m], 1)), Total(vs))
  BY <1>2, <1>5, <1>6, ConstantsType, TotalBetween DEF m
<1> QED
  BY <1>3, <1>5, <1>7

\* What a criterion contributes to the weighted score.
Scored(c, rr) ==
    IF c \in Weighted /\ Complete(c, rr) THEN Times(Def(c).weight, Score(c, rr)) ELSE Zero

LEMMA ScoredIs ==
    ASSUME policy \in Policies, NEW rr \in [Criterion -> Seq(Result)], NEW c \in Criterion
    PROVE  Scored(c, rr) \in Rational /\ Leq(Zero, Scored(c, rr))
<1>1. CASE c \in Weighted /\ Complete(c, rr)
  <2> DEFINE rs == rr[c]
             score == Aggregate(Def(c).rule, rs, "score")
  <2>1. /\ rs \in Seq(Result) /\ rs # << >> /\ Def(c).rule \in Rules
        /\ Def(c).weight \in Rational /\ Leq(Zero, Def(c).weight)
    BY <1>1, PolicyIs DEF Complete
  <2>2. Scored(c, rr) = Times(Def(c).weight, score)
    BY <1>1 DEF Scored, Score
  <2> HIDE DEF rs
  <2>3. score \in Rational /\ \E i \in 1..Len(rs) : Leq(rs[i]["score"], score)
    BY <2>1, AggregateWithin
  <2>4. PICK i \in 1..Len(rs) : Leq(rs[i]["score"], score)
    BY <2>3
  <2>5. rs[i]["score"] \in Rational /\ Leq(Zero, rs[i]["score"])
    <3>1. rs[i] \in Result
      BY <2>1
    <3>2. \A r \in Result : r["score"] \in Rational /\ Leq(Zero, r["score"])
      BY ResultAssumption
    <3> QED
      BY <3>1, <3>2
  <2> HIDE DEF score
  <2>6. Leq(Zero, score)
    BY <2>3, <2>4, <2>5, ConstantsType, LeqTransitive
  <2> QED
    BY <2>1, <2>2, <2>3, <2>6, TimesType, ProductPositive
<1>2. CASE ~(c \in Weighted /\ Complete(c, rr))
  BY <1>2, ConstantsType, LeqOrder DEF Scored
<1> QED
  BY <1>1, <1>2

LEMMA WeightedScoreIs ==
    ASSUME policy \in Policies, NEW rr \in [Criterion -> Seq(Result)]
    PROVE  WeightedScore(rr) \in Rational /\ Leq(Zero, WeightedScore(rr))
<1> DEFINE vs == [c \in Criterion |-> Scored(c, rr)]
<1>1. \A c \in Criterion : Scored(c, rr) \in Rational /\ Leq(Zero, Scored(c, rr))
  BY ScoredIs
<1>2. PlanSize \in Nat /\ Criterion = 1..PlanSize
  BY PlanAssumption DEF Criterion
<1>3. vs \in Seq(Rational) /\ Len(vs) = PlanSize
  BY <1>1, <1>2
<1>4. \A i \in 1..PlanSize : Leq(Zero, vs[i])
  BY <1>1, <1>2
<1>5. WeightedScore(rr) = Total(vs)
  BY Zenon DEF WeightedScore, Scored
<1> HIDE DEF vs
<1> QED
  BY <1>3, <1>4, <1>5, TotalType, TotalPositive

\* The minimum score, zero included, is reached exactly when its readiness is full.
LEMMA WeightedReadinessIs ==
    ASSUME policy \in Policies, NEW rr \in [Criterion -> Seq(Result)]
    PROVE  /\ WeightedReadiness(rr) \in Rational /\ Leq(WeightedReadiness(rr), One)
           /\ Leq(One, WeightedReadiness(rr))
                 <=> (Weighted = {} \/ Leq(policy.minimumScore, WeightedScore(rr)))
<1> DEFINE low == policy.minimumScore
           score == WeightedScore(rr)
           part == Times(score, Q(low.d, low.n))
<1>1. /\ low \in Rational /\ Leq(Zero, low) /\ score \in Rational /\ Leq(Zero, score)
  BY PolicyIs, WeightedScoreIs
<1>2. CASE Weighted = {}
  BY <1>2, ConstantsType, LeqOrder DEF WeightedReadiness
<1>3. CASE Weighted # {} /\ Same(low, Zero)
  <2>1. WeightedReadiness(rr) = One
    BY <1>3 DEF WeightedReadiness
  <2> HIDE DEF low, score
  <2>2. Leq(low, score)
    BY <1>1, <1>3, ConstantsType, LeqTransitive DEF Same
  <2> QED
    BY <2>1, <2>2, ConstantsType, LeqOrder DEF low, score
<1>4. CASE Weighted # {} /\ ~Same(low, Zero)
  <2>1. WeightedReadiness(rr) = Lesser(part, One)
    BY <1>4 DEF WeightedReadiness
  <2> HIDE DEF low, score
  <2>2. low.n \in Nat \ {0}
    <3>1. Zero.n = 0 /\ Zero.d = 1 /\ low.n \in Int /\ low.d \in Nat \ {0}
      BY <1>1, RationalIs DEF Zero
    <3>2. 0 <= low.n
      BY <1>1, ZeroLeq
    <3>3. ~Leq(low, Zero)
      BY <1>1, <1>4 DEF Same
    <3> QED
      BY <3>1, <3>2, <3>3 DEF Leq
  <2>3. part \in Rational
    BY <1>1, <2>2, RationalIs, TimesType
  <2>4. Leq(One, part) <=> Leq(low, score)
    <3>1. part.n = score.n * low.d /\ part.d = score.d * low.n
      BY RationalIs DEF Times
    <3>2. /\ low.n \in Int /\ low.d \in Int /\ score.n \in Int /\ score.d \in Int
          /\ One.n = 1 /\ One.d = 1
      BY <1>1, RationalIs DEF One
    <3> HIDE DEF part
    <3>3. 1 * (score.d * low.n) = low.n * score.d /\ (score.n * low.d) * 1 = score.n * low.d
      BY <3>2
    <3> QED
      BY <3>1, <3>2, <3>3 DEF Leq
  <2> HIDE DEF part
  <2>5. /\ Lesser(part, One) \in Rational /\ Leq(Lesser(part, One), One)
        /\ Leq(One, Lesser(part, One)) <=> Leq(One, part)
    BY <2>3, ConstantsType, LesserIs
  <2> QED
    BY <1>4, <2>1, <2>4, <2>5 DEF low, score
<1> QED
  BY <1>2, <1>3, <1>4

\* A sum of two numbers, each at most its limit, reaches the sum of the limits
\* exactly when both reach theirs.
LEMMA FullSum ==
    ASSUME NEW a \in Rational, NEW b \in Rational, NEW p \in Nat, NEW q \in Nat,
           Leq(a, Q(p, 1)), Leq(b, Q(q, 1))
    PROVE  /\ Plus(a, b) \in Rational /\ Leq(Plus(a, b), Q(p + q, 1))
           /\ Leq(Q(p + q, 1), Plus(a, b)) <=> Leq(Q(p, 1), a) /\ Leq(Q(q, 1), b)
<1> DEFINE u == p * a.d - a.n
           v == q * b.d - b.n
<1>1. a.n \in Int /\ a.d \in Nat \ {0} /\ b.n \in Int /\ b.d \in Nat \ {0}
  BY RationalIs
<1>2. u \in Nat /\ v \in Nat
  <2>1. a.n * 1 <= p * a.d /\ b.n * 1 <= q * b.d
    BY RationalIs DEF Leq
  <2>2. p * a.d \in Int /\ q * b.d \in Int
    BY <1>1
  <2> QED
    BY <1>1, <2>1, <2>2
<1>3. /\ Leq(Q(p, 1), a) <=> u = 0
      /\ Leq(Q(q, 1), b) <=> v = 0
  <2>1. Leq(Q(p, 1), a) <=> p * a.d <= a.n * 1
    BY RationalIs DEF Leq
  <2>2. Leq(Q(q, 1), b) <=> q * b.d <= b.n * 1
    BY RationalIs DEF Leq
  <2>3. p * a.d \in Int /\ q * b.d \in Int
    BY <1>1
  <2> QED
    BY <1>1, <1>2, <2>1, <2>2, <2>3
<1>4. Plus(a, b).n = a.n * b.d + b.n * a.d /\ Plus(a, b).d = a.d * b.d
  BY RationalIs DEF Plus
<1>5. (p + q) * (a.d * b.d) - (a.n * b.d + b.n * a.d) * 1 = u * b.d + v * a.d
  BY <1>1
<1>6. (p + q) * (a.d * b.d) \in Int /\ (a.n * b.d + b.n * a.d) * 1 \in Int
  BY <1>1
<1> HIDE DEF u, v
<1>7. u * b.d \in Nat /\ v * a.d \in Nat
  BY <1>1, <1>2
<1>8. /\ u * b.d = 0 <=> u = 0
      /\ v * a.d = 0 <=> v = 0
  BY <1>1, <1>2
<1>9. Leq(Plus(a, b), Q(p + q, 1))
         <=> (a.n * b.d + b.n * a.d) * 1 <= (p + q) * (a.d * b.d)
  BY <1>4, RationalIs DEF Leq
<1>10. Leq(Q(p + q, 1), Plus(a, b))
         <=> (p + q) * (a.d * b.d) <= (a.n * b.d + b.n * a.d) * 1
  BY <1>4, RationalIs DEF Leq
<1>11. Leq(Plus(a, b), Q(p + q, 1))
  BY <1>5, <1>6, <1>7, <1>9
<1>12. Leq(Q(p + q, 1), Plus(a, b)) <=> u * b.d + v * a.d = 0
  BY <1>5, <1>6, <1>7, <1>10
<1>13. u * b.d + v * a.d = 0 <=> u * b.d = 0 /\ v * a.d = 0
  BY <1>7
<1> QED
  BY <1>3, <1>8, <1>11, <1>12, <1>13, PlusType

LEMMA Quarters ==
    ASSUME NEW a \in Rational
    PROVE  /\ Leq(Times(Q(25, 1), a), Q(100, 1)) <=> Leq(a, Q(4, 1))
           /\ Leq(Q(100, 1), Times(Q(25, 1), a)) <=> Leq(Q(4, 1), a)
<1>1. a.n \in Int /\ a.d \in Int
  BY RationalIs
<1>2. Times(Q(25, 1), a).n = 25 * a.n /\ Times(Q(25, 1), a).d = 1 * a.d
  BY RationalIs DEF Times
<1>3. /\ (25 * a.n) * 1 <= 100 * (1 * a.d) <=> a.n * 1 <= 4 * a.d
      /\ 100 * (1 * a.d) <= (25 * a.n) * 1 <=> 4 * a.d <= a.n * 1
  BY <1>1
<1> QED
  BY <1>2, <1>3, RationalIs DEF Leq

\* For every plan and policy, also one that requires nothing, and any number of runs:
\* the readiness percentage is 100 exactly when the evidence is eligible.
THEOREM FullMeansEligible == Spec => []FullIsEligible
<1>1. Typed => FullIsEligible
  <2> SUFFICES ASSUME Typed PROVE FullIsEligible
    OBVIOUS
  <2> DEFINE gates == HardGateReadiness(results)
             scores == WeightedReadiness(results)
             samples == SampleCompleteness(results)
             evaluations == EvaluationCompleteness(results)
             passed == {c \in HardGates : Verdict(c, results) = "PASSED"}
             done == {c \in Criterion : Complete(c, results)}
             sum == Plus(Plus(gates, scores), Plus(samples, evaluations))
  <2>1. policy \in Policies /\ results \in [Criterion -> Seq(Result)]
    BY DEF Typed
  <2>2. /\ gates \in Rational /\ Leq(gates, One)
        /\ Leq(One, gates) <=> \A c \in HardGates : Verdict(c, results) = "PASSED"
    <3>1. HardGates \in SUBSET Criterion /\ passed \in SUBSET HardGates
      BY DEF HardGates
    <3>2. gates = SafeRatio(Cardinality(passed), Cardinality(HardGates))
      BY DEF HardGateReadiness
    <3>3. passed = HardGates <=> \A c \in HardGates : Verdict(c, results) = "PASSED"
      OBVIOUS
    <3> HIDE DEF gates, passed
    <3> QED
      BY <3>1, <3>2, <3>3, SubsetRatio
  <2>3. /\ scores \in Rational /\ Leq(scores, One)
        /\ Leq(One, scores) <=> (Weighted = {} \/ Leq(policy.minimumScore, WeightedScore(results)))
    BY <2>1, WeightedReadinessIs
  <2>4. samples \in Rational /\ Leq(samples, One)
    BY <2>1, SampleCompletenessIs
  <2>5. evaluations \in Rational /\ Leq(evaluations, One)
    <3>1. done \in SUBSET Criterion /\ Criterion \in SUBSET Criterion
      OBVIOUS
    <3>2. evaluations = SafeRatio(Cardinality(done), Cardinality(Criterion))
      BY DEF EvaluationCompleteness
    <3> HIDE DEF evaluations, done
    <3> QED
      BY <3>1, <3>2, SubsetRatio
  <2>6. EvidenceEligible(results) <=>
          /\ Leq(One, gates) /\ Leq(One, scores) /\ Leq(One, samples) /\ Leq(One, evaluations)
    BY <2>2, <2>3, <2>4, <2>5 DEF EvidenceEligible, Same
  <2>7. ReadinessPercentage(results) = Times(Q(25, 1), sum)
    BY Zenon DEF ReadinessPercentage
  <2> HIDE DEF gates, scores, samples, evaluations
  <2>8. One = Q(1, 1) /\ 1 + 1 = 2 /\ 2 + 2 = 4
    BY DEF One
  <2>9. /\ Plus(gates, scores) \in Rational /\ Leq(Plus(gates, scores), Q(2, 1))
        /\ Leq(Q(2, 1), Plus(gates, scores)) <=> Leq(One, gates) /\ Leq(One, scores)
    BY <2>2, <2>3, <2>8, FullSum
  <2>10. /\ Plus(samples, evaluations) \in Rational /\ Leq(Plus(samples, evaluations), Q(2, 1))
         /\ Leq(Q(2, 1), Plus(samples, evaluations))
               <=> Leq(One, samples) /\ Leq(One, evaluations)
    BY <2>4, <2>5, <2>8, FullSum
  <2>11. /\ sum \in Rational /\ Leq(sum, Q(4, 1))
         /\ Leq(Q(4, 1), sum) <=> /\ Leq(Q(2, 1), Plus(gates, scores))
                                  /\ Leq(Q(2, 1), Plus(samples, evaluations))
    BY <2>8, <2>9, <2>10, FullSum
  <2> HIDE DEF sum
  <2>12. /\ Leq(Times(Q(25, 1), sum), Q(100, 1))
         /\ Leq(Q(100, 1), Times(Q(25, 1), sum)) <=> Leq(Q(4, 1), sum)
    BY <2>11, Quarters
  <2> QED
    BY <2>6, <2>7, <2>9, <2>10, <2>11, <2>12 DEF FullIsEligible, Same
<1> QED
  BY <1>1, ReadinessTyped, PTL

===============================================================================
