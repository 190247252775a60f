----------------------------- MODULE SumLemmas -----------------------------
(***************************************************************************)
(* What sums over finite sets do when an element comes, goes or changes,    *)
(* and why proportional shares, rounded down, fit into the whole.           *)
(***************************************************************************)
EXTENDS Sums, Sequences, FiniteSetTheorems, TLAPS

LEMMA UnitsIs ==
  ASSUME NEW S, NEW f
  PROVE  \A u : u \in Units(f, S) <=>
                  \E s \in S : \E n \in 1..f[s] : u = <<s, n>>
  BY DEF Units

LEMMA UnitsOfOne ==
  ASSUME NEW x, NEW n \in Nat
  PROVE  IsFiniteSet({x} \X (1..n)) /\ Cardinality({x} \X (1..n)) = n
  <1>1. IsFiniteSet(1..n) /\ Cardinality(1..n) = n
    BY FS_Interval
  <1>2. IsFiniteSet({x}) /\ Cardinality({x}) = 1
    BY FS_Singleton
  <1>3. /\ IsFiniteSet({x} \X (1..n))
        /\ Cardinality({x} \X (1..n)) = Cardinality({x}) * Cardinality(1..n)
    BY <1>1, <1>2, FS_Product
  <1> QED
    BY <1>1, <1>2, <1>3

LEMMA UnitsFinite ==
  ASSUME NEW S, IsFiniteSet(S), NEW f, \A s \in S : f[s] \in Nat
  PROVE  IsFiniteSet(Units(f, S)) /\ Total(f, S) \in Nat
  <1> DEFINE U == {{s} \X (1..f[s]) : s \in S}
             g == [s \in S |-> {s} \X (1..f[s])]
  <1>1. g \in Surjection(S, U)
    BY DEF Surjection
  <1>2. IsFiniteSet(U)
    BY <1>1, FS_Surjection
  <1>3. ASSUME NEW T \in U PROVE IsFiniteSet(T)
    <2>1. PICK s \in S : T = {s} \X (1..f[s])
      OBVIOUS
    <2> QED
      BY <2>1, UnitsOfOne
  <1>4. IsFiniteSet(UNION U)
    BY <1>2, <1>3, FS_UNION
  <1> QED
    BY <1>4, FS_CardinalityType DEF Units, Total

LEMMA TotalOfNone == ASSUME NEW f PROVE Total(f, {}) = 0
  <1>1. Units(f, {}) = {}
    BY DEF Units
  <1> QED
    BY <1>1, FS_EmptySet DEF Total

LEMMA TotalSame ==
  ASSUME NEW S, NEW f, NEW g, \A s \in S : f[s] = g[s]
  PROVE  Total(f, S) = Total(g, S)
  <1>1. Units(f, S) = Units(g, S)
    BY DEF Units
  <1> QED
    BY <1>1 DEF Total

LEMMA TotalAdd ==
  ASSUME NEW S, IsFiniteSet(S), NEW f, \A s \in S : f[s] \in Nat,
         NEW x, x \notin S, f[x] \in Nat
  PROVE  Total(f, S \cup {x}) = Total(f, S) + f[x]
  <1> DEFINE V == {x} \X (1..f[x])
  <1>1. Units(f, S \cup {x}) = Units(f, S) \cup V
    BY DEF Units
  <1>2. Units(f, S) \cap V = {}
    BY UnitsIs
  <1>3. IsFiniteSet(V) /\ Cardinality(V) = f[x]
    BY UnitsOfOne
  <1>4. IsFiniteSet(Units(f, S)) /\ Cardinality(Units(f, S)) \in Nat
    BY UnitsFinite, FS_CardinalityType
  <1> HIDE DEF V
  <1>5. Cardinality(Units(f, S) \cup V) =
          Cardinality(Units(f, S)) + Cardinality(V) - Cardinality({})
    BY <1>2, <1>3, <1>4, FS_Union
  <1>6. Cardinality({}) = 0
    BY FS_EmptySet
  <1>7. /\ Total(f, S \cup {x}) = Cardinality(Units(f, S) \cup V)
        /\ Total(f, S) = Cardinality(Units(f, S))
    BY <1>1, ZenonT(90) DEF Total
  <1> QED
    BY <1>3, <1>4, <1>5, <1>6, <1>7

LEMMA TotalRemove ==
  ASSUME NEW S, IsFiniteSet(S), NEW f, \A s \in S : f[s] \in Nat, NEW x \in S
  PROVE  /\ Total(f, S \ {x}) = Total(f, S) - f[x]
         /\ f[x] <= Total(f, S)
  <1>1. IsFiniteSet(S \ {x})
    BY FS_RemoveElement
  <1>2. S = (S \ {x}) \cup {x}
    OBVIOUS
  <1>3. Total(f, (S \ {x}) \cup {x}) = Total(f, S \ {x}) + f[x]
    BY <1>1, TotalAdd
  <1>4. Total(f, S \ {x}) \in Nat
    BY <1>1, UnitsFinite
  <1>5. Total(f, S) = Total(f, S \ {x}) + f[x]
    BY <1>2, <1>3, ZenonT(90)
  <1> QED
    BY <1>4, <1>5

LEMMA TotalChange ==
  ASSUME NEW S, IsFiniteSet(S), NEW x \in S,
         NEW f, \A s \in S : f[s] \in Nat,
         NEW g, \A s \in S \ {x} : g[s] = f[s], g[x] \in Nat
  PROVE  Total(g, S) = Total(f, S) - f[x] + g[x]
  <1>1. Total(f, S \ {x}) = Total(f, S) - f[x] /\ Total(f, S) \in Nat
    BY TotalRemove, UnitsFinite
  <1>2. \A s \in S : g[s] \in Nat
    OBVIOUS
  <1>3. Total(g, S \ {x}) = Total(g, S) - g[x] /\ Total(g, S) \in Nat
    BY <1>2, TotalRemove, UnitsFinite
  <1>4. Total(g, S \ {x}) = Total(f, S \ {x})
    BY TotalSame
  <1> QED
    BY <1>1, <1>3, <1>4

LEMMA TotalMonotone ==
  ASSUME NEW T, IsFiniteSet(T), NEW S \in SUBSET T,
         NEW f, NEW g, \A s \in T : g[s] \in Nat,
         \A s \in S : f[s] \in Nat /\ f[s] <= g[s]
  PROVE  Total(f, S) <= Total(g, T)
  <1>1. Units(f, S) \subseteq Units(g, T)
    <2> SUFFICES ASSUME NEW s \in S, NEW n \in 1..f[s]
                 PROVE  <<s, n>> \in Units(g, T)
      BY UnitsIs
    <2>1. n \in 1..g[s]
      OBVIOUS
    <2> QED
      BY <2>1, UnitsIs
  <1> QED
    BY <1>1, UnitsFinite, FS_Subset DEF Total

(* The sum of multiples is the multiple of the sum: every unit counts c     *)
(* times.                                                                   *)

LEMMA Digits ==
  ASSUME NEW c \in Nat \ {0}, NEW f \in Nat
  PROVE  /\ \A j \in 1..f, k \in 1..c : (j - 1) * c + k \in 1..(c * f)
         /\ \A j1, j2 \in 1..f, k1, k2 \in 1..c :
              (j1 - 1) * c + k1 = (j2 - 1) * c + k2 => j1 = j2 /\ k1 = k2
         /\ \A n \in 1..(c * f) : \E j \in 1..f, k \in 1..c :
              n = (j - 1) * c + k
  <1>1. \A a, b \in Int : a <= b => a * c <= b * c
    OBVIOUS
  <1>2. ASSUME NEW j \in 1..f, NEW k \in 1..c
        PROVE  (j - 1) * c + k \in 1..(c * f)
    <2>1. (j - 1) * c <= (f - 1) * c /\ 0 * c <= (j - 1) * c
      BY <1>1
    <2>2. (f - 1) * c = c * f - c /\ 0 * c = 0
      OBVIOUS
    <2>3. (j - 1) * c \in Int /\ c * f \in Int
      OBVIOUS
    <2> QED
      BY <2>1, <2>2, <2>3
  <1>3. ASSUME NEW j1 \in 1..f, NEW j2 \in 1..f, NEW k1 \in 1..c,
               NEW k2 \in 1..c, j1 < j2
        PROVE  (j1 - 1) * c + k1 < (j2 - 1) * c + k2
    <2>1. j1 * c <= (j2 - 1) * c
      BY <1>1, <1>3
    <2>2. j1 * c = (j1 - 1) * c + c
      OBVIOUS
    <2>3. (j1 - 1) * c \in Int /\ (j2 - 1) * c \in Int
      OBVIOUS
    <2> QED
      BY <2>1, <2>2, <2>3
  <1>4. ASSUME NEW j1 \in 1..f, NEW j2 \in 1..f, NEW k1 \in 1..c,
               NEW k2 \in 1..c, (j1 - 1) * c + k1 = (j2 - 1) * c + k2
        PROVE  j1 = j2 /\ k1 = k2
    <2>1. (j1 - 1) * c \in Int /\ (j2 - 1) * c \in Int
      OBVIOUS
    <2>2. ~ (j1 < j2)
      BY <1>3, <1>4, <2>1
    <2>3. ~ (j2 < j1)
      BY <1>3, <1>4, <2>1
    <2>4. j1 = j2
      BY <2>2, <2>3
    <2> QED
      BY <1>4, <2>1, <2>4
  <1>5. ASSUME NEW n \in 1..(c * f)
        PROVE  \E j \in 1..f, k \in 1..c : n = (j - 1) * c + k
    <2> DEFINE q == (n - 1) \div c
               r == (n - 1) % c
    <2>1. q \in Int /\ r \in 0..(c - 1) /\ n - 1 = c * q + r
      OBVIOUS
    <2> HIDE DEF q, r
    <2>2. q >= 0
      <3>1. q <= -1 => q * c <= (-1) * c
        BY <1>1, <2>1
      <3>2. q * c = c * q /\ (-1) * c = -c
        BY <2>1
      <3> QED
        BY <2>1, <3>1, <3>2
    <2>3. q < f
      <3>1. f <= q => f * c <= q * c
        BY <1>1, <2>1
      <3>2. q * c = c * q /\ f * c = c * f
        BY <2>1
      <3> QED
        BY <2>1, <3>1, <3>2
    <2>4. q + 1 \in 1..f /\ r + 1 \in 1..c
      BY <2>1, <2>2, <2>3
    <2>5. n = ((q + 1) - 1) * c + (r + 1)
      <3>1. ((q + 1) - 1) * c = c * q
        BY <2>1
      <3> QED
        BY <2>1, <3>1
    <2> QED
      BY <2>4, <2>5
  <1> QED
    BY <1>2, <1>4, <1>5

LEMMA TotalScale ==
  ASSUME NEW S, IsFiniteSet(S), NEW f, \A s \in S : f[s] \in Nat,
         NEW c \in Nat \ {0}
  PROVE  Total([s \in S |-> c * f[s]], S) = c * Total(f, S)
  <1> DEFINE g == [s \in S |-> c * f[s]]
             D == Units(f, S) \X (1..c)
             m == [d \in D |-> <<d[1][1], (d[1][2] - 1) * c + d[2]>>]
  <1>1. \A d : d \in D <=> \E s \in S : \E j \in 1..f[s], k \in 1..c :
                             d = <<<<s, j>>, k>>
    BY UnitsIs
  <1>2. \A s, j, k : <<<<s, j>>, k>> \in D =>
          m[<<<<s, j>>, k>>] = <<s, (j - 1) * c + k>>
    OBVIOUS
  <1> HIDE DEF D, m
  <1>3. ASSUME NEW s \in S, NEW j \in 1..f[s], NEW k \in 1..c
        PROVE  /\ <<<<s, j>>, k>> \in D
               /\ m[<<<<s, j>>, k>>] = <<s, (j - 1) * c + k>>
               /\ <<s, (j - 1) * c + k>> \in Units(g, S)
    <2>1. <<<<s, j>>, k>> \in D
      BY <1>1
    <2>2. (j - 1) * c + k \in 1..(c * f[s])
      BY Digits
    <2>3. g[s] = c * f[s]
      OBVIOUS
    <2>4. m[<<<<s, j>>, k>>] = <<s, (j - 1) * c + k>>
      BY <1>2, <2>1, ZenonT(90)
    <2>5. <<s, (j - 1) * c + k>> \in Units(g, S)
      BY <2>2, <2>3, UnitsIs
    <2> QED
      BY <2>1, <2>4, <2>5
  <1>4. m \in Bijection(D, Units(g, S))
    <2>1. m \in [D -> Units(g, S)]
      <3>1. ASSUME NEW d \in D PROVE m[d] \in Units(g, S)
        <4>1. PICK s \in S : \E j \in 1..f[s], k \in 1..c : d = <<<<s, j>>, k>>
          BY <1>1
        <4>2. PICK j \in 1..f[s], k \in 1..c : d = <<<<s, j>>, k>>
          BY <4>1
        <4>3. /\ m[<<<<s, j>>, k>>] = <<s, (j - 1) * c + k>>
              /\ <<s, (j - 1) * c + k>> \in Units(g, S)
          BY <1>3
        <4> QED
          BY <4>2, <4>3, ZenonT(90)
      <3>2. m = [d \in D |-> m[d]]
        BY DEF m
      <3> QED
        BY <3>1, <3>2
    <2>2. ASSUME NEW d \in D, NEW e \in D, m[d] = m[e] PROVE d = e
      <3>1. PICK s \in S : \E j \in 1..f[s], k \in 1..c : d = <<<<s, j>>, k>>
        BY <1>1
      <3>2. PICK j \in 1..f[s], k \in 1..c : d = <<<<s, j>>, k>>
        BY <3>1
      <3>3. PICK t \in S : \E i \in 1..f[t], l \in 1..c : e = <<<<t, i>>, l>>
        BY <1>1
      <3>4. PICK i \in 1..f[t], l \in 1..c : e = <<<<t, i>>, l>>
        BY <3>3
      <3>5. <<s, (j - 1) * c + k>> = <<t, (i - 1) * c + l>>
        <4>1. /\ m[<<<<s, j>>, k>>] = <<s, (j - 1) * c + k>>
              /\ m[<<<<t, i>>, l>>] = <<t, (i - 1) * c + l>>
          BY <1>3
        <4> QED
          BY <2>2, <3>2, <3>4, <4>1, ZenonT(90)
      <3>6. s = t /\ (j - 1) * c + k = (i - 1) * c + l
        BY <3>5
      <3>7. j = i /\ k = l
        BY <3>6, Digits
      <3> QED
        BY <3>2, <3>4, <3>6, <3>7
    <2>3. ASSUME NEW u \in Units(g, S) PROVE \E d \in D : m[d] = u
      <3>1. PICK s \in S : \E n \in 1..(c * f[s]) : u = <<s, n>>
        BY UnitsIs
      <3>2. PICK n \in 1..(c * f[s]) : u = <<s, n>>
        BY <3>1
      <3>3. PICK j \in 1..f[s], k \in 1..c : n = (j - 1) * c + k
        <4>1. f[s] \in Nat
          OBVIOUS
        <4>2. \A i \in 1..(c * f[s]) : \E j \in 1..f[s], k \in 1..c :
                i = (j - 1) * c + k
          BY <4>1, Digits, ZenonT(90)
        <4> QED
          BY <4>2, ZenonT(90)
      <3>4. /\ <<<<s, j>>, k>> \in D
            /\ m[<<<<s, j>>, k>>] = <<s, (j - 1) * c + k>>
        BY <1>3
      <3>5. u = <<s, (j - 1) * c + k>>
        BY <3>2, <3>3
      <3>6. m[<<<<s, j>>, k>>] = u
        BY <3>4, <3>5, ZenonT(90)
      <3> QED
        BY <3>4, <3>6, ZenonT(90)
    <2> HIDE DEF g
    <2>4. m \in Injection(D, Units(g, S))
      BY <2>1, <2>2, ZenonT(90) DEF Injection, IsInjective
    <2>5. m \in Surjection(D, Units(g, S))
      BY <2>1, <2>3, ZenonT(90) DEF Surjection
    <2> QED
      BY <2>4, <2>5 DEF Bijection
  <1>5. /\ IsFiniteSet(Units(f, S)) /\ Total(f, S) \in Nat
        /\ IsFiniteSet(1..c) /\ Cardinality(1..c) = c
    BY UnitsFinite, FS_Interval
  <1>6. IsFiniteSet(D) /\ Cardinality(D) = Total(f, S) * c
    BY <1>5, FS_Product DEF D, Total
  <1>7. Cardinality(Units(g, S)) = Cardinality(D)
    BY <1>4, <1>6, FS_Bijection DEF ExistsBijection
  <1> QED
    BY <1>5, <1>6, <1>7 DEF Total

(* Shares of R in proportion to the weights w, rounded down, fit into R.    *)
LEMMA SharesFit ==
  ASSUME NEW S, IsFiniteSet(S), NEW w, \A s \in S : w[s] \in Nat,
         NEW R \in Nat, Total(w, S) > 0,
         NEW g, \A s \in S : g[s] = (w[s] * R) \div Total(w, S)
  PROVE  Total(g, S) <= R /\ \A s \in S : g[s] \in Nat
  <1> DEFINE T == Total(w, S)
  <1>1. T \in Nat \ {0}
    BY UnitsFinite
  <1> HIDE DEF T
  <1>2. ASSUME NEW s \in S
        PROVE  g[s] \in Nat /\ T * g[s] <= R * w[s]
    <2> DEFINE n == w[s] * R
    <2>1. n \in Nat /\ g[s] = n \div T /\ n = R * w[s]
      BY DEF T
    <2> HIDE DEF n
    <2>2. n \div T \in Nat /\ T * (n \div T) <= n
      BY <1>1, <2>1
    <2> QED
      BY <2>1, <2>2
  <1>3. CASE R = 0
    <2>1. \A s \in S : g[s] = 0
      <3> SUFFICES ASSUME NEW s \in S PROVE g[s] = 0
        OBVIOUS
      <3>1. w[s] * R = 0 /\ 0 \div T = 0
        BY <1>1, <1>3
      <3> QED
        BY <3>1 DEF T
    <2>2. Units(g, S) = {}
      BY <2>1, UnitsIs
    <2> QED
      BY <1>2, <1>3, <2>2, FS_EmptySet DEF Total
  <1>4. CASE R # 0
    <2> DEFINE a == [s \in S |-> T * g[s]]
               b == [s \in S |-> R * w[s]]
    <2>1. Total(a, S) = T * Total(g, S)
      BY <1>1, <1>2, TotalScale
    <2>2. Total(b, S) = R * T
      BY <1>4, TotalScale DEF T
    <2>3. \A s \in S : a[s] \in Nat /\ b[s] \in Nat /\ a[s] <= b[s]
      BY <1>1, <1>2
    <2> HIDE DEF a, b
    <2>4. Total(a, S) <= Total(b, S)
      BY <2>3, TotalMonotone
    <2>5. Total(g, S) \in Nat
      BY <1>2, UnitsFinite
    <2>6. T * Total(g, S) <= T * R
      BY <1>1, <2>1, <2>2, <2>4
    <2>7. \A x, y \in Nat : T * x <= T * y => x <= y
      BY <1>1
    <2> QED
      BY <1>2, <2>5, <2>6, <2>7
  <1> QED
    BY <1>3, <1>4

(* The sum of a sequence: a number joins it at the end and leaves it at the *)
(* head.                                                                    *)
LEMMA TotalAppend ==
  ASSUME NEW s \in Seq(Nat), NEW n \in Nat
  PROVE  Total(Append(s, n), DOMAIN Append(s, n)) = Total(s, DOMAIN s) + n
  <1> DEFINE t == Append(s, n)
             x == Len(s) + 1
  <1>1. /\ Len(s) \in Nat /\ DOMAIN s = 1..Len(s) /\ DOMAIN t = 1..x
        /\ t[x] = n /\ \A i \in DOMAIN s : t[i] = s[i] /\ t[i] \in Nat
    OBVIOUS
  <1> HIDE DEF t
  <1>2. DOMAIN t = DOMAIN s \cup {x} /\ x \notin DOMAIN s
    BY <1>1
  <1> HIDE DEF x
  <1>3. IsFiniteSet(DOMAIN s)
    BY <1>1, FS_Interval
  <1>4. Total(t, DOMAIN s \cup {x}) = Total(t, DOMAIN s) + t[x]
    BY <1>1, <1>2, <1>3, TotalAdd
  <1>5. Total(t, DOMAIN s) = Total(s, DOMAIN s)
    BY <1>1, TotalSame
  <1>6. Total(t, DOMAIN t) = Total(s, DOMAIN s) + n
    BY <1>1, <1>2, <1>4, <1>5
  <1> QED
    BY <1>6 DEF t

LEMMA SeqTotalNat == ASSUME NEW s \in Seq(Nat) PROVE Total(s, DOMAIN s) \in Nat
  <1>1. /\ Len(s) \in Nat /\ DOMAIN s = 1..Len(s)
        /\ \A i \in DOMAIN s : s[i] \in Nat
    OBVIOUS
  <1>2. IsFiniteSet(DOMAIN s)
    BY <1>1, FS_Interval
  <1> QED
    BY <1>1, <1>2, UnitsFinite

LEMMA TotalTail ==
  ASSUME NEW s \in Seq(Nat), s # <<>>
  PROVE  Total(s, DOMAIN s) = Head(s) + Total(Tail(s), DOMAIN Tail(s))
  <1> DEFINE t == Tail(s)
             R == DOMAIN s \ {1}
             U == Units(t, DOMAIN t)
             V == Units(s, R)
             m == [u \in U |-> <<u[1] + 1, u[2]>>]
  <1>1. /\ Len(s) \in Nat /\ DOMAIN s = 1..Len(s) /\ 1 \in DOMAIN s
        /\ DOMAIN t = 1..(Len(s) - 1) /\ Head(s) = s[1]
        /\ \A i \in DOMAIN s : s[i] \in Nat
        /\ \A i \in DOMAIN t : t[i] = s[i + 1]
    OBVIOUS
  <1> HIDE DEF t
  <1>2. /\ \A i \in DOMAIN t : i + 1 \in R
        /\ \A i \in R : i - 1 \in DOMAIN t /\ t[i - 1] = s[i]
    <2>1. \A i \in DOMAIN t : i + 1 \in R
      BY <1>1
    <2>2. ASSUME NEW i \in R PROVE i - 1 \in DOMAIN t /\ t[i - 1] = s[i]
      <3>1. i - 1 \in DOMAIN t /\ (i - 1) + 1 = i
        BY <1>1
      <3> QED
        BY <1>1, <3>1
    <2> QED
      BY <2>1, <2>2
  <1>3. \A i \in DOMAIN t : t[i] \in Nat
    <2>1. \A i \in R : i \in DOMAIN s
      OBVIOUS
    <2> QED
      BY <1>1, <1>2, <2>1, ZenonT(90)
  <1> HIDE DEF R
  <1>4. ASSUME NEW i \in DOMAIN t, NEW n \in 1..t[i]
        PROVE  /\ <<i, n>> \in U /\ <<i + 1, n>> \in V
               /\ m[<<i, n>>] = <<i + 1, n>>
    <2>1. <<i, n>> \in U
      BY UnitsIs
    <2>2. <<i + 1, n>> \in V
      BY <1>1, <1>2, UnitsIs
    <2> HIDE DEF U, V
    <2> QED
      BY <2>1, <2>2
  <1>5. m \in Bijection(U, V)
    <2>0. m = [u \in U |-> m[u]]
      OBVIOUS
    <2>a. \A u \in U : \E i \in DOMAIN t : \E n \in 1..t[i] : u = <<i, n>>
      BY UnitsIs
    <2>b. \A v \in V : \E i \in R : \E n \in 1..s[i] : v = <<i, n>>
      BY UnitsIs
    <2> HIDE DEF U, V, m
    <2>1. ASSUME NEW u \in U PROVE m[u] \in V
      <3>1. PICK i \in DOMAIN t : \E n \in 1..t[i] : u = <<i, n>>
        BY <2>a
      <3>2. PICK n \in 1..t[i] : u = <<i, n>>
        BY <3>1
      <3> QED
        BY <1>4, <3>2, ZenonT(90)
    <2>2. m \in [U -> V]
      BY <2>0, <2>1
    <2>3. ASSUME NEW u \in U, NEW w \in U, m[u] = m[w] PROVE u = w
      <3>1. PICK i \in DOMAIN t : \E n \in 1..t[i] : u = <<i, n>>
        BY <2>a
      <3>2. PICK n \in 1..t[i] : u = <<i, n>>
        BY <3>1
      <3>3. PICK j \in DOMAIN t : \E n1 \in 1..t[j] : w = <<j, n1>>
        BY <2>a
      <3>4. PICK k \in 1..t[j] : w = <<j, k>>
        BY <3>3
      <3>5. m[u] = <<i + 1, n>> /\ m[w] = <<j + 1, k>>
        BY <1>4, <3>2, <3>4, ZenonT(90)
      <3>6. i + 1 = j + 1 /\ n = k
        <4>1. <<i + 1, n>> = <<j + 1, k>>
          BY <2>3, <3>5, ZenonT(90)
        <4> QED
          BY <4>1
      <3>7. i \in Int /\ j \in Int
        BY <1>1
      <3>8. i = j
        BY <3>6, <3>7
      <3> QED
        BY <3>2, <3>4, <3>6, <3>8
    <2>4. ASSUME NEW v \in V PROVE \E u \in U : m[u] = v
      <3>1. PICK i \in R : \E n \in 1..s[i] : v = <<i, n>>
        BY <2>b
      <3>2. PICK n \in 1..s[i] : v = <<i, n>>
        BY <3>1
      <3>3. i - 1 \in DOMAIN t /\ n \in 1..t[i - 1] /\ (i - 1) + 1 = i
        BY <1>1, <1>2 DEF R
      <3>4. <<i - 1, n>> \in U /\ m[<<i - 1, n>>] = <<(i - 1) + 1, n>>
        BY <1>4, <3>3, ZenonT(90)
      <3> QED
        BY <3>2, <3>3, <3>4, ZenonT(90)
    <2>5. m \in Injection(U, V)
      BY <2>2, <2>3, ZenonT(90) DEF Injection, IsInjective
    <2>6. m \in Surjection(U, V)
      BY <2>2, <2>4, ZenonT(90) DEF Surjection
    <2> QED
      BY <2>5, <2>6 DEF Bijection
  <1>6. /\ IsFiniteSet(DOMAIN s) /\ IsFiniteSet(DOMAIN t)
    BY <1>1, FS_Interval
  <1>7. IsFiniteSet(U)
    BY <1>3, <1>6, UnitsFinite
  <1>8. Cardinality(U) = Cardinality(V)
    <2> HIDE DEF U, V, m
    <2> QED
      BY <1>5, <1>7, FS_Bijection DEF ExistsBijection
  <1> HIDE DEF U, V, m
  <1>9. /\ Total(s, DOMAIN s \ {1}) = Total(s, DOMAIN s) - s[1]
        /\ Total(s, DOMAIN s) \in Nat /\ s[1] \in Nat
    <2>1. \A i \in DOMAIN s : s[i] \in Nat
      BY <1>1, ZenonT(90)
    <2>2. Total(s, DOMAIN s \ {1}) = Total(s, DOMAIN s) - s[1]
      BY <1>1, <1>6, <2>1, TotalRemove, ZenonT(90)
    <2>3. Total(s, DOMAIN s) \in Nat
      BY <1>6, <2>1, UnitsFinite, ZenonT(90)
    <2> QED
      BY <1>1, <2>1, <2>2, <2>3, ZenonT(90)
  <1>10. Total(t, DOMAIN t) = Total(s, DOMAIN s \ {1})
    BY <1>8 DEF Total, R, U, V
  <1>11. Total(s, DOMAIN s) = s[1] + Total(t, DOMAIN t)
    BY <1>9, <1>10
  <1> QED
    BY <1>1, <1>11 DEF t

\* The order of the natural numbers is well-founded.
LEMMA NatWF == \E R : /\ IsWellFoundedOn(R, Nat)
                  /\ \A x, y \in Nat : x < y => <<x, y>> \in R
  <1>1. IsWellFoundedOn(OpToRel(<,Nat), Nat)
    BY NatLessThanWellFounded
  <1>2. \A x, y \in Nat : x < y => <<x, y>> \in OpToRel(<, Nat)
    BY DEF OpToRel
  <1> QED
    BY <1>1, <1>2

\* A bounded set of positive numbers that is not empty has a largest element.
LEMMA LargestExists ==
  ASSUME NEW n \in Nat, NEW S \in SUBSET (1..n), S # {}
  PROVE  \E x \in S : \A y \in S : x >= y
  <1> DEFINE T == {n - x : x \in S}
  <1>1. PICK R : /\ IsWellFoundedOn(R, Nat)
                 /\ \A x, y \in Nat : x < y => <<x, y>> \in R
    BY NatWF
  <1>2. T \subseteq Nat /\ T # {}
    <2>1. \A x \in S : x \in 1..n /\ n - x \in Nat
      OBVIOUS
    <2> QED
      BY <2>1
  <1>3. PICK t \in T : \A y \in T : ~(<<y, t>> \in R)
    <2>1. ASSUME NEW U, U \subseteq Nat, U # {}
          PROVE  \E t \in U : \A y \in U : ~(<<y, t>> \in R)
      <3>1. IsWellFoundedOn(R, Nat)
        BY <1>1
      <3> QED
        BY <2>1, <3>1, WFMin, Zenon
    <2> HIDE DEF T
    <2> QED
      BY <1>2, <2>1
  <1>4. PICK x \in S : t = n - x
    OBVIOUS
  <1>5. ASSUME NEW y \in S PROVE x >= y
    <2>1. n - y \in T /\ n - y \in Nat /\ t \in Nat
      BY <1>2
    <2>2. ~(n - y < t)
      BY <1>1, <1>3, <2>1
    <2> QED
      BY <1>4, <2>2
  <1> QED
    BY <1>5
=============================================================================
