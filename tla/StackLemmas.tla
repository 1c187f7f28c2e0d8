----------------------------- MODULE StackLemmas -----------------------------
(* Sequences used as stacks and lists: what a pop and a retain leave.       *)
EXTENDS Integers, SequencesExt, SequenceTheorems, FiniteSetTheorems, Vectors, TLAPS

\* Popping a non-empty stack (the Vec::pop of the free lists) takes its last
\* element and leaves the others where they were.
LEMMA FrontLast ==
  ASSUME NEW S, NEW s \in Seq(S), s # << >>
  PROVE  /\ Len(s) \in Nat \ {0}
         /\ Front(s) \in Seq(S)
         /\ Len(Front(s)) = Len(s) - 1
         /\ \A i \in 1 .. Len(s) - 1 : Front(s)[i] = s[i]
         /\ Last(s) \in S
         /\ Last(s) = s[Len(s)]
  <1>1. Len(s) \in Nat \ {0} /\ \A i \in 1 .. Len(s) : s[i] \in S
    BY EmptySeq, LenProperties
  <1> DEFINE m == Len(s) - 1
  <1>2. Front(s) = SubSeq(s, 1, m) /\ Last(s) = s[Len(s)]
    BY DEF Front, Last
  <1>3. m \in Nat /\ \A i \in 1 .. m : s[i] \in S
    BY <1>1
  <1>4. /\ Front(s) \in Seq(S)
        /\ Len(Front(s)) = IF 1 <= m THEN m - 1 + 1 ELSE 0
        /\ \A i \in 1 .. m - 1 + 1 : Front(s)[i] = s[1 + i - 1]
    <2> HIDE DEF m
    <2> QED BY <1>2, <1>3, SubSeqProperties
  <1>5. Len(Front(s)) = m
    <2> HIDE DEF m
    <2> QED BY <1>3, <1>4
  <1>6. \A i \in 1 .. m : Front(s)[i] = s[i]
    <2> HIDE DEF m
    <2> QED BY <1>3, <1>4
  <1> QED BY <1>1, <1>2, <1>4, <1>5, <1>6

\* What Vec::retain keeps: each of the places in keep once, in some order.
LEMMA RetainedElements ==
  ASSUME NEW S, NEW s \in Seq(S), NEW keep \in SUBSET DOMAIN s
  PROVE  /\ IsFiniteSet(keep) /\ Cardinality(keep) \in Nat
         /\ Retained(s, keep) \in Seq(S) /\ Len(Retained(s, keep)) = Cardinality(keep)
         /\ \E place \in Bijection(1 .. Cardinality(keep), keep) :
              Retained(s, keep) = [j \in 1 .. Cardinality(keep) |-> s[place[j]]]
  <1> DEFINE rank(i) == Cardinality({k \in keep : k <= i})
             n == Cardinality(keep)
             ranks == [i \in keep |-> rank(i)]
             at(j) == CHOOSE i \in keep : rank(i) = j
             place == [j \in 1 .. n |-> at(j)]
  <1>1. /\ DOMAIN s = 1 .. Len(s) /\ Len(s) \in Nat /\ keep \subseteq 1 .. Len(s)
        /\ \A i \in keep : s[i] \in S /\ i \in Int
    BY LenProperties
  <1>2. IsFiniteSet(keep) /\ n \in Nat
    <2>1. IsFiniteSet(1 .. Len(s)) /\ keep \in SUBSET (1 .. Len(s))
      BY <1>1, FS_Interval
    <2> QED BY <2>1, FS_Subset, FS_CardinalityType
  <1>3. \A i \in keep : IsFiniteSet({k \in keep : k <= i}) /\ rank(i) \in 1 .. n
    <2> SUFFICES ASSUME NEW i \in keep
                 PROVE  IsFiniteSet({k \in keep : k <= i}) /\ rank(i) \in 1 .. n
      OBVIOUS
    <2> DEFINE T == {k \in keep : k <= i}
    <2>1. T \in SUBSET keep /\ i \in T
      BY <1>1
    <2> HIDE DEF T
    <2>2. IsFiniteSet(T) /\ Cardinality(T) \in Nat /\ Cardinality(T) <= n
      BY <2>1, <1>2, FS_Subset, FS_CardinalityType
    <2>3. Cardinality(T) # 0
      BY <2>1, <2>2, FS_EmptySet
    <2>4. Cardinality(T) \in 1 .. n
      BY <2>2, <2>3, <1>2
    <2> QED BY <2>2, <2>4 DEF T
  <1>4. \A i, j \in keep : i < j => rank(i) < rank(j)
    <2> SUFFICES ASSUME NEW i \in keep, NEW j \in keep, i < j PROVE rank(i) < rank(j)
      OBVIOUS
    <2> DEFINE T == {k \in keep : k <= i}
               U == {k \in keep : k <= j}
    <2>1. T \in SUBSET U /\ j \in U /\ j \notin T
      BY <1>1
    <2>2. IsFiniteSet(U) /\ Cardinality(T) \in 1 .. n /\ Cardinality(U) \in 1 .. n
      BY <1>3
    <2> HIDE DEF T, U
    <2>3. Cardinality(T) <= Cardinality(U) /\ Cardinality(T) # Cardinality(U)
      BY <2>1, <2>2, FS_Subset
    <2>4. Cardinality(T) < Cardinality(U)
      BY <2>2, <2>3
    <2> QED BY <2>4 DEF T, U
  <1> HIDE DEF rank
  <1>5. \A i, j \in keep : rank(i) = rank(j) => i = j
    <2> SUFFICES ASSUME NEW i \in keep, NEW j \in keep, rank(i) = rank(j) PROVE i = j
      OBVIOUS
    <2>1. ~(i < j) /\ ~(j < i)
      <3>1. rank(i) \in 1 .. n
        BY <1>3
      <3> HIDE DEF n
      <3>2. rank(i) \in Int
        BY <1>2, <3>1
      <3>3. ~(rank(i) < rank(j)) /\ ~(rank(j) < rank(i))
        BY <3>2
      <3> QED BY <3>3, <1>4
    <2> QED BY <2>1, <1>1
  <1> HIDE DEF n
  <1>6. ranks \in Injection(keep, 1 .. n)
    BY <1>3, <1>5 DEF Injection, IsInjective
  <1>7. ranks \in Surjection(keep, 1 .. n)
    BY <1>2, <1>6, FS_Interval, FS_Injection DEF n
  <1>8. \A j \in 1 .. n : at(j) \in keep /\ rank(at(j)) = j
    <2> TAKE j \in 1 .. n
    <2>1. \E i \in keep : ranks[i] = j
      BY <1>7 DEF Surjection
    <2>2. \E i \in keep : rank(i) = j
      BY <2>1
    <2> QED BY <2>2
  <1> HIDE DEF at
  <1>9. \A i \in keep : rank(i) \in 1 .. n /\ at(rank(i)) = i
    BY <1>3, <1>5, <1>8
  <1>10. Retained(s, keep) = [j \in 1 .. n |-> s[at(j)]]
    BY DEF Retained, at, rank, n
  <1>11. Retained(s, keep) \in Seq(S) /\ Len(Retained(s, keep)) = n
    <2>1. \A j \in 1 .. n : s[at(j)] \in S
      BY <1>1, <1>8
    <2> QED BY <2>1, <1>2, <1>10, IsASeq, LenProperties
  <1>12. place \in Bijection(1 .. n, keep)
    <2>1. place \in [1 .. n -> keep]
      BY <1>8
    <2>2. \A i, j \in 1 .. n : place[i] = place[j] => i = j
      BY <1>8
    <2>3. \A i \in keep : rank(i) \in 1 .. n /\ place[rank(i)] = i
      BY <1>9
    <2> QED BY <2>1, <2>2, <2>3 DEF Bijection, Injection, Surjection, IsInjective
  <1>13. Retained(s, keep) = [j \in 1 .. n |-> s[place[j]]]
    BY <1>10
  <1> QED BY <1>2, <1>11, <1>12, <1>13 DEF n

\* Vec::retain keeps nothing else, and takes no element twice.
LEMMA RetainedOnly ==
  ASSUME NEW S, NEW s \in Seq(S), NEW keep \in SUBSET DOMAIN s
  PROVE  /\ Retained(s, keep) \in Seq(S)
         /\ ToSet(Retained(s, keep)) = {s[i] : i \in keep}
         /\ IsInjective(s) => IsInjective(Retained(s, keep))
  <1> DEFINE n == Cardinality(keep)
             t == Retained(s, keep)
  <1>1. t \in Seq(S)
    BY RetainedElements
  <1>2. PICK place \in Bijection(1 .. n, keep) : t = [j \in 1 .. n |-> s[place[j]]]
    BY RetainedElements
  <1> HIDE DEF n, t
  <1>3. /\ \A j \in 1 .. n : place[j] \in keep
        /\ \A i, j \in 1 .. n : place[i] = place[j] => i = j
        /\ \A i \in keep : \E j \in 1 .. n : place[j] = i
    BY DEF Bijection, Injection, Surjection, IsInjective
  <1>4. ToSet(t) = {s[i] : i \in keep}
    <2>1. ToSet(t) = {s[place[j]] : j \in 1 .. n}
      BY <1>2 DEF ToSet
    <2> QED BY <2>1, <1>3
  <1>5. ASSUME IsInjective(s) PROVE IsInjective(t)
    BY <1>2, <1>3, <1>5 DEF IsInjective
  <1> QED BY <1>1, <1>4, <1>5 DEF t

\* Vec::retain of everything but x keeps every other element.
LEMMA WithoutOthers ==
  ASSUME NEW S, NEW s \in Seq(S), NEW x
  PROVE  /\ Without(s, x) \in Seq(S)
         /\ ToSet(Without(s, x)) = ToSet(s) \ {x}
         /\ IsInjective(s) => IsInjective(Without(s, x))
  <1> DEFINE keep == {i \in DOMAIN s : s[i] # x}
  <1>1. keep \in SUBSET DOMAIN s /\ Without(s, x) = Retained(s, keep)
    BY DEF Without
  <1>2. {s[i] : i \in keep} = ToSet(s) \ {x}
    BY DEF ToSet
  <1> HIDE DEF keep
  <1> QED BY <1>1, <1>2, RetainedOnly

\* A pop takes the top, and nothing else, from the elements of a stack that
\* holds none twice.
LEMMA PopDistinct ==
  ASSUME NEW S, NEW s \in Seq(S), s # << >>, IsInjective(s)
  PROVE  /\ Last(s) \in ToSet(s)
         /\ ToSet(Front(s)) = ToSet(s) \ {Last(s)}
         /\ IsInjective(Front(s))
  <1> DEFINE n == Len(s)
             f == Front(s)
  <1>1. /\ n \in Nat \ {0} /\ DOMAIN s = 1 .. n
        /\ DOMAIN f = 1 .. n - 1 /\ \A i \in 1 .. n - 1 : f[i] = s[i]
        /\ Last(s) = s[n]
    <2>1. n \in Nat \ {0} /\ f \in Seq(S) /\ Len(f) = n - 1
      BY FrontLast
    <2> QED BY <2>1, FrontLast, LenProperties
  <1> HIDE DEF n, f
  <1>2. \A i, j \in 1 .. n : s[i] = s[j] => i = j
    BY <1>1 DEF IsInjective
  <1>3. Last(s) \in ToSet(s)
    BY <1>1 DEF ToSet
  <1>4. ToSet(f) = ToSet(s) \ {Last(s)}
    <2>1. ASSUME NEW x, x \in ToSet(f) PROVE x \in ToSet(s) \ {Last(s)}
      <3>1. PICK i \in 1 .. n - 1 : x = f[i]
        BY <2>1, <1>1 DEF ToSet
      <3>2. i \in 1 .. n /\ i # n /\ n \in 1 .. n /\ x = s[i]
        BY <3>1, <1>1
      <3> QED BY <3>2, <1>1, <1>2 DEF ToSet
    <2>2. ASSUME NEW x, x \in ToSet(s) \ {Last(s)} PROVE x \in ToSet(f)
      <3>1. PICK i \in 1 .. n : x = s[i]
        BY <2>2, <1>1 DEF ToSet
      <3>2. i \in 1 .. n - 1
        BY <3>1, <2>2, <1>1
      <3> QED BY <3>1, <3>2, <1>1 DEF ToSet
    <2> QED BY <2>1, <2>2
  <1>5. IsInjective(f)
    BY <1>1, <1>2 DEF IsInjective
  <1> QED BY <1>3, <1>4, <1>5 DEF f

\* A push of an element that is not there yet.
LEMMA PushDistinct ==
  ASSUME NEW S, NEW s \in Seq(S), NEW x \in S, x \notin ToSet(s)
  PROVE  /\ ToSet(Append(s, x)) = ToSet(s) \union {x}
         /\ IsInjective(s) => IsInjective(Append(s, x))
  <1> DEFINE n == Len(s)
             t == Append(s, x)
  <1>1. /\ n \in Nat /\ DOMAIN s = 1 .. n /\ DOMAIN t = 1 .. n + 1
        /\ \A i \in 1 .. n : t[i] = s[i]
        /\ t[n + 1] = x
    <2>1. n \in Nat /\ t \in Seq(S) /\ Len(t) = n + 1
      BY LenProperties, AppendProperties
    <2> QED BY <2>1, AppendProperties, LenProperties
  <1> HIDE DEF n, t
  <1>2. \A i \in 1 .. n : s[i] # x
    BY <1>1 DEF ToSet
  <1>3. ToSet(t) = ToSet(s) \union {x}
    <2>1. ToSet(t) = {t[i] : i \in 1 .. n + 1} /\ ToSet(s) = {s[i] : i \in 1 .. n}
      BY <1>1 DEF ToSet
    <2>2. \A i \in 1 .. n + 1 : i \in 1 .. n \/ i = n + 1
      BY <1>1
    <2>3. n + 1 \in 1 .. n + 1 /\ \A i \in 1 .. n : i \in 1 .. n + 1
      BY <1>1
    <2> QED BY <2>1, <2>2, <2>3, <1>1
  <1>4. ASSUME IsInjective(s) PROVE IsInjective(t)
    <2> SUFFICES ASSUME NEW i \in 1 .. n + 1, NEW j \in 1 .. n + 1, t[i] = t[j] PROVE i = j
      BY <1>1 DEF IsInjective
    <2>1. CASE i = n + 1 \/ j = n + 1
      BY <2>1, <1>1, <1>2
    <2>2. CASE i \in 1 .. n /\ j \in 1 .. n
      BY <2>2, <1>1, <1>4 DEF IsInjective
    <2> QED BY <2>1, <2>2, <1>1
  <1> QED BY <1>3, <1>4 DEF t

\* A list is extended by another one that shares nothing with it.
LEMMA ConcatDistinct ==
  ASSUME NEW S, NEW s \in Seq(S), NEW t \in Seq(S)
  PROVE  /\ s \o t \in Seq(S)
         /\ ToSet(s \o t) = ToSet(s) \union ToSet(t)
         /\ IsInjective(s) /\ IsInjective(t) /\ ToSet(s) \intersect ToSet(t) = {}
              => IsInjective(s \o t)
  <1> DEFINE m == Len(s)
             n == Len(t)
             u == s \o t
  <1>1. /\ m \in Nat /\ n \in Nat /\ DOMAIN s = 1 .. m /\ DOMAIN t = 1 .. n
        /\ u \in Seq(S) /\ DOMAIN u = 1 .. m + n
        /\ \A i \in 1 .. m + n : u[i] = IF i <= m THEN s[i] ELSE t[i - m]
    <2>1. u \in Seq(S) /\ Len(u) = m + n
      BY ConcatProperties
    <2> QED BY <2>1, ConcatProperties, LenProperties
  <1> HIDE DEF m, n, u
  <1>2. /\ \A i \in 1 .. m : i \in 1 .. m + n /\ u[i] = s[i]
        /\ \A i \in 1 .. n : m + i \in 1 .. m + n /\ u[m + i] = t[i]
    <2>1. \A i \in 1 .. n : m + i \in 1 .. m + n /\ ~(m + i <= m) /\ m + i - m = i
      BY <1>1
    <2> QED BY <2>1, <1>1
  <1>3. \A i \in 1 .. m + n : i \in 1 .. m \/ \E j \in 1 .. n : i = m + j
    <2> TAKE i \in 1 .. m + n
    <2>1. CASE i <= m
      BY <2>1, <1>1
    <2>2. CASE ~(i <= m)
      <3>1. i - m \in 1 .. n /\ i = m + (i - m)
        BY <2>2, <1>1
      <3> QED BY <3>1
    <2> QED BY <2>1, <2>2
  <1>4. ToSet(u) = ToSet(s) \union ToSet(t)
    <2>1. ASSUME NEW x, x \in ToSet(u) PROVE x \in ToSet(s) \union ToSet(t)
      <3>1. PICK i \in 1 .. m + n : x = u[i]
        BY <2>1, <1>1 DEF ToSet
      <3> QED BY <3>1, <1>1, <1>2, <1>3 DEF ToSet
    <2>2. ASSUME NEW x, x \in ToSet(s) \union ToSet(t) PROVE x \in ToSet(u)
      <3>1. CASE x \in ToSet(s)
        BY <3>1, <1>1, <1>2 DEF ToSet
      <3>2. CASE x \in ToSet(t)
        <4>1. PICK j \in 1 .. n : x = t[j]
          BY <3>2, <1>1 DEF ToSet
        <4>2. x = u[m + j] /\ m + j \in DOMAIN u
          BY <4>1, <1>1, <1>2
        <4> QED BY <4>2 DEF ToSet
      <3> QED BY <2>2, <3>1, <3>2
    <2> QED BY <2>1, <2>2
  <1>5. ASSUME IsInjective(s), IsInjective(t), ToSet(s) \intersect ToSet(t) = {}
        PROVE  IsInjective(u)
    <2>1. /\ \A i, j \in 1 .. m : s[i] = s[j] => i = j
          /\ \A i, j \in 1 .. n : t[i] = t[j] => i = j
          /\ \A i \in 1 .. m, j \in 1 .. n : s[i] # t[j]
      <3>1. (\A i \in 1 .. m : s[i] \in ToSet(s)) /\ (\A j \in 1 .. n : t[j] \in ToSet(t))
        BY <1>1 DEF ToSet
      <3>2. \A i \in 1 .. m, j \in 1 .. n : s[i] # t[j]
        BY <3>1, <1>5
      <3> QED BY <3>2, <1>1, <1>5 DEF IsInjective
    <2> SUFFICES ASSUME NEW i \in 1 .. m + n, NEW j \in 1 .. m + n, u[i] = u[j] PROVE i = j
      BY <1>1 DEF IsInjective
    <2>2. CASE i \in 1 .. m /\ j \in 1 .. m
      BY <2>1, <2>2, <1>2
    <2>3. CASE i \in 1 .. m /\ \E l \in 1 .. n : j = m + l
      BY <2>1, <2>3, <1>2
    <2>4. CASE j \in 1 .. m /\ \E l \in 1 .. n : i = m + l
      BY <2>1, <2>4, <1>2
    <2>5. CASE (\E k \in 1 .. n : i = m + k) /\ (\E l \in 1 .. n : j = m + l)
      BY <2>1, <2>5, <1>2
    <2> QED BY <2>2, <2>3, <2>4, <2>5, <1>3
  <1> QED BY <1>1, <1>4, <1>5 DEF u

\* The least element of a set of natural numbers that is not empty.
LEMMA LeastIsIn ==
  ASSUME NEW S \in SUBSET Nat, S # {}
  PROVE  Min(S) \in S /\ \A m \in S : Min(S) <= m
  <1>1. \E n \in S : \A m \in S : ~(<<m, n>> \in OpToRel(<, Nat))
    BY NatLessThanWellFounded, WFMin
  <1>2. \A m, n \in Nat : m < n => <<m, n>> \in OpToRel(<, Nat)
    BY DEF OpToRel
  <1>3. PICK n \in S : \A m \in S : ~(m < n)
    BY <1>1, <1>2
  <1>4. \A m \in S : n <= m
    BY <1>3
  <1> QED BY <1>4 DEF Min

\* A set has at least as many subsets as elements, and 2 ^ n of them.
LEMMA PowerExceeds ==
  ASSUME NEW n \in Nat
  PROVE  2 ^ n \in Nat /\ n <= 2 ^ n
<1> DEFINE S == 1 .. n
           f == [i \in S |-> {i}]
<1>1. IsFiniteSet(S) /\ Cardinality(S) = n
  BY FS_Interval
<1>2. IsFiniteSet(SUBSET S) /\ Cardinality(SUBSET S) = 2 ^ n
  BY <1>1, FS_SUBSET
<1>3. f \in Injection(S, SUBSET S)
  BY DEF Injection, IsInjective
<1>4. Cardinality(S) <= Cardinality(SUBSET S)
  BY <1>2, <1>3, FS_Injection
<1>5. Cardinality(SUBSET S) \in Nat
  BY <1>2, FS_CardinalityType
<1> QED
  BY <1>1, <1>2, <1>4, <1>5

\* Doubling a positive number reaches any other.
LEMMA DoublingReaches ==
  ASSUME NEW one \in Nat \ {0}, NEW min \in Nat
  PROVE  LET least == Min({n \in {one * 2 ^ k : k \in 0 .. min} : n >= min})
         IN  least \in Nat /\ min <= least
<1> DEFINE sizes == {one * 2 ^ k : k \in 0 .. min}
           enough == {n \in sizes : n >= min}
<1>1. \A k \in 0 .. min : 2 ^ k \in Nat
  BY PowerExceeds
<1>2. \A p \in Nat : one * p \in Nat /\ p <= one * p
  OBVIOUS
<1>3. sizes \in SUBSET Nat
  BY <1>1, <1>2
<1>4. one * 2 ^ min \in sizes
  OBVIOUS
<1>5. min <= one * 2 ^ min
  BY <1>2, PowerExceeds
<1>6. enough # {} /\ enough \in SUBSET Nat
  BY <1>3, <1>4, <1>5
<1>7. Min(enough) \in enough
  BY <1>6, LeastIsIn
<1> QED
  BY <1>6, <1>7

\* A sum over finitely many is a natural number.
LEMMA SumTyped ==
  ASSUME NEW S, IsFiniteSet(S), NEW f, \A x \in S : f[x] \in Nat
  PROVE  IsFiniteSet(UnitsOf(f, S)) /\ SumOver(f, S) \in Nat
<1> DEFINE part(x) == {x} \X (1 .. f[x])
           parts == {part(x) : x \in S}
<1>1. IsFiniteSet(parts)
  <2> DEFINE h == [x \in S |-> part(x)]
  <2> HIDE DEF part
  <2>1. h \in Surjection(S, parts)
    BY DEF Surjection
  <2> HIDE DEF h, parts
  <2> QED BY <2>1, FS_Surjection
<1>2. ASSUME NEW x \in S PROVE IsFiniteSet(part(x))
  <2>1. IsFiniteSet({x})
    BY FS_Singleton
  <2>2. IsFiniteSet(1 .. f[x])
    <3>1. f[x] \in Int
      OBVIOUS
    <3> QED BY <3>1, FS_Interval
  <2> QED BY <2>1, <2>2, FS_Product
<1>3. IsFiniteSet(UNION parts)
  <2> HIDE DEF part
  <2>1. \A T \in parts : IsFiniteSet(T)
    BY <1>2
  <2> HIDE DEF parts
  <2> QED BY <1>1, <2>1, FS_UNION
<1> QED
  BY <1>3, FS_CardinalityType DEF SumOver, UnitsOf

\* A sum over two sets that share nothing is the sum of the sums.
LEMMA SumParts ==
  ASSUME NEW S, IsFiniteSet(S), NEW T, IsFiniteSet(T), S \cap T = {},
         NEW f, \A x \in S \cup T : f[x] \in Nat
  PROVE  SumOver(f, S \cup T) = SumOver(f, S) + SumOver(f, T)
<1>1. UnitsOf(f, S \cup T) = UnitsOf(f, S) \cup UnitsOf(f, T)
  BY DEF UnitsOf
<1>2. UnitsOf(f, S) \cap UnitsOf(f, T) = {}
  BY DEF UnitsOf
<1>3. IsFiniteSet(UnitsOf(f, S)) /\ IsFiniteSet(UnitsOf(f, T))
  BY SumTyped
<1>4. SumOver(f, S) \in Nat /\ SumOver(f, T) \in Nat
  BY SumTyped
<1>5. Cardinality(UnitsOf(f, S) \cup UnitsOf(f, T))
        = Cardinality(UnitsOf(f, S)) + Cardinality(UnitsOf(f, T)) - 0
  <2>1. Cardinality(UnitsOf(f, S) \cap UnitsOf(f, T)) = 0
    BY <1>2, FS_EmptySet, Zenon
  <2>2. Cardinality(UnitsOf(f, S) \cup UnitsOf(f, T))
          = Cardinality(UnitsOf(f, S)) + Cardinality(UnitsOf(f, T))
              - Cardinality(UnitsOf(f, S) \cap UnitsOf(f, T))
    BY <1>3, FS_Union
  <2> QED BY <2>1, <2>2, Zenon
<1>6. SumOver(f, S \cup T) = SumOver(f, S) + SumOver(f, T) - 0
  BY <1>1, <1>5, Zenon DEF SumOver
<1> QED
  BY <1>4, <1>6

\* The sum over one is its summand.
LEMMA SumOfOne ==
  ASSUME NEW f, NEW x, f[x] \in Nat
  PROVE  SumOver(f, {x}) = f[x]
<1> DEFINE U == UnitsOf(f, {x})
           g == [i \in 1 .. f[x] |-> <<x, i>>]
<1>1. U = {x} \X (1 .. f[x])
  BY DEF UnitsOf
<1>2. g \in Bijection(1 .. f[x], U)
  <2>1. g \in [1 .. f[x] -> U] /\ \A i, j \in 1 .. f[x] : g[i] = g[j] => i = j
    BY <1>1
  <2>2. \A u \in U : \E i \in 1 .. f[x] : g[i] = u
    BY <1>1
  <2> HIDE DEF g, U
  <2> QED BY <2>1, <2>2 DEF Bijection, Injection, Surjection, IsInjective
<1>3. IsFiniteSet(1 .. f[x]) /\ Cardinality(1 .. f[x]) = f[x]
  BY FS_Interval
<1>4. ExistsBijection(1 .. f[x], U)
  BY <1>2 DEF ExistsBijection
<1>5. Cardinality(U) = Cardinality(1 .. f[x])
  <2> HIDE DEF U
  <2> QED BY <1>3, <1>4, FS_Bijection
<1> QED
  BY <1>3, <1>5 DEF SumOver

\* The sum over none is nothing.
LEMMA SumOfNone ==
  ASSUME NEW f
  PROVE  SumOver(f, {}) = 0
<1>1. UnitsOf(f, {}) = {}
  BY DEF UnitsOf
<1> QED
  BY <1>1, FS_EmptySet DEF SumOver

\* The sum over fewer is no more.
LEMMA SumOfFewer ==
  ASSUME NEW S, IsFiniteSet(S), NEW T \in SUBSET S, NEW f, \A x \in S : f[x] \in Nat
  PROVE  /\ SumOver(f, T) \in Nat /\ SumOver(f, S) \in Nat /\ SumOver(f, T) <= SumOver(f, S)
         /\ SumOver(f, S \ T) = SumOver(f, S) - SumOver(f, T)
<1>1. IsFiniteSet(T) /\ IsFiniteSet(S \ T)
  <2>1. S \ T \in SUBSET S
    OBVIOUS
  <2> QED BY <2>1, FS_Subset
<1>2. SumOver(f, T) \in Nat /\ SumOver(f, S \ T) \in Nat /\ SumOver(f, S) \in Nat
  BY <1>1, SumTyped
<1>3. S = T \cup (S \ T) /\ T \cap (S \ T) = {}
  OBVIOUS
<1>4. SumOver(f, T \cup (S \ T)) = SumOver(f, T) + SumOver(f, S \ T)
  BY <1>1, <1>3, SumParts
<1> QED
  BY <1>2, <1>3, <1>4

\* A sum depends on the summands alone.
LEMMA SumOfSame ==
  ASSUME NEW S, NEW f, NEW g, \A x \in S : f[x] = g[x]
  PROVE  SumOver(f, S) = SumOver(g, S)
<1>1. UnitsOf(f, S) = UnitsOf(g, S)
  BY DEF UnitsOf
<1> QED
  BY <1>1 DEF SumOver

==============================================================================
