---------------------------- MODULE VersionProofs ----------------------------
(* The order of versions, for strings and keys of any length.              *)
EXTENDS Version, WellFoundedInduction, TLAPS

-------------------------------------------------------------------------------
(* Induction and recursion                                                 *)

\* Every set of numbers that is not empty has a least element.
LEMMA Least ==
  ASSUME NEW T \in SUBSET Nat, T # {}
  PROVE  \E i \in T : \A k \in T : i <= k
<1>1. PICK i \in T : \A k \in T : <<k, i>> \notin OpToRel(<, Nat)
  BY WFMin, NatLessThanWellFounded
<1>2. ASSUME NEW k \in T PROVE i <= k
  <2>1. <<k, i>> \notin OpToRel(<, Nat)
    BY <1>1
  <2>2. ~(k < i)
    BY <2>1 DEF OpToRel
  <2> QED BY <2>2
<1> QED BY <1>2

\* Induction: the numbers with a property, as a set.
LEMMA Induction ==
  ASSUME NEW T, 0 \in T, \A n \in Nat : n \in T => n + 1 \in T
  PROVE  \A n \in Nat : n \in T
<1> DEFINE U == {n \in Nat : n \notin T}
<1>1. U \in SUBSET Nat
  OBVIOUS
<1>2. CASE U = {}
  BY <1>2
<1>3. CASE U # {}
  <2> HIDE DEF U
  <2>1. PICK i \in U : \A k \in U : i <= k
    BY <1>1, <1>3, Least
  <2>2. i \in Nat /\ i # 0 /\ i \notin T
    BY DEF U
  <2>3. i - 1 \in Nat /\ i - 1 \notin U
    BY <1>1, <2>1, <2>2
  <2>4. (i - 1) + 1 \in T
    BY <2>3 DEF U
  <2> QED BY <2>2, <2>4
<1> QED BY <1>2, <1>3

\* The same from one number up to another.
LEMMA Climb ==
  ASSUME NEW i \in Int, NEW e \in Int, NEW T, i \in T,
         \A k \in i..(e - 1) : k \in T => k + 1 \in T
  PROVE  \A k \in i..e : k \in T
<1> DEFINE U == {n \in Nat : i + n <= e => i + n \in T}
<1>1. 0 \in U
  OBVIOUS
<1>2. ASSUME NEW n \in Nat, n \in U PROVE n + 1 \in U
  <2>1. CASE i + (n + 1) <= e
    <3>1. i + n \in i..(e - 1) /\ i + n \in T
      BY <1>2, <2>1
    <3>2. (i + n) + 1 \in T
      BY <3>1
    <3>3. (i + n) + 1 = i + (n + 1)
      OBVIOUS
    <3> QED BY <3>2, <3>3
  <2>2. CASE ~(i + (n + 1) <= e)
    BY <2>2
  <2> QED BY <2>1, <2>2
<1>3. ASSUME NEW k \in i..e PROVE k \in T
  <2> HIDE DEF U
  <2>1. \A n \in Nat : n \in U
    BY <1>1, <1>2, Induction
  <2>2. k - i \in Nat /\ i + (k - i) = k
    OBVIOUS
  <2>3. k - i \in U
    BY <2>1, <2>2
  <2> QED BY <2>2, <2>3 DEF U
<1> QED BY <1>3

\* Induction over a measure.
LEMMA MeasureInduction ==
  ASSUME NEW D, NEW mu, NEW N \in Nat, mu \in [D -> 0..N], NEW T,
         \A x \in D : (\A y \in D : mu[y] < mu[x] => y \in T) => x \in T
  PROVE  \A x \in D : x \in T
<1> DEFINE U == {n \in Nat : \A x \in D : mu[x] < n => x \in T}
<1>1. 0 \in U
  OBVIOUS
<1>2. ASSUME NEW n \in Nat, n \in U PROVE n + 1 \in U
  <2>1. ASSUME NEW x \in D, mu[x] < n + 1 PROVE x \in T
    <3>1. \A y \in D : mu[y] \in Int
      OBVIOUS
    <3>2. \A y \in D : mu[y] < mu[x] => y \in T
      BY <1>2, <2>1, <3>1
    <3> QED BY <3>2
  <2>2. n + 1 \in Nat
    OBVIOUS
  <2> QED BY <2>1, <2>2
<1>3. N + 1 \in U
  <2> HIDE DEF U
  <2>1. \A n \in Nat : n \in U
    BY <1>1, <1>2, Induction
  <2> QED BY <2>1
<1>4. \A x \in D : mu[x] < N + 1
  OBVIOUS
<1> QED BY <1>3, <1>4

\* What it takes for step to define a function on D with values in S: the value at x
\* depends on the values at arguments of a smaller measure only.
Recursion(D, S, mu, step) ==
  /\ S # {}
  /\ \E N \in Nat : mu \in [D -> 0..N]
  /\ step \in [D \X [D -> S] -> S]
  /\ \A x \in D : \A f, g \in [D -> S] :
       (\A y \in D : mu[y] < mu[x] => f[y] = g[y]) => step[<<x, f>>] = step[<<x, g>>]

\* Such a function exists.
LEMMA RecursiveFunction ==
  ASSUME NEW D, NEW S, NEW mu, NEW step, Recursion(D, S, mu, step)
  PROVE  \E f \in [D -> S] : \A x \in D : f[x] = step[<<x, f>>]
<1> DEFINE Good(n, f) == \A x \in D : mu[x] < n => f[x] = step[<<x, f>>]
           T == {n \in Nat : \E f \in [D -> S] : Good(n, f)}
<1>1. PICK N \in Nat : mu \in [D -> 0..N]
  BY DEF Recursion
<1>2. S # {} /\ step \in [D \X [D -> S] -> S]
  BY DEF Recursion
<1>3. 0 \in T
  <2>1. PICK s \in S : TRUE
    BY <1>2
  <2>2. [x \in D |-> s] \in [D -> S]
    BY <2>1
  <2>3. Good(0, [x \in D |-> s])
    BY <1>1
  <2> QED BY <2>2, <2>3
<1>4. ASSUME NEW n \in Nat, n \in T PROVE n + 1 \in T
  <2>1. PICK f \in [D -> S] : Good(n, f)
    BY <1>4
  <2> DEFINE g == [x \in D |-> IF mu[x] = n THEN step[<<x, f>>] ELSE f[x]]
  <2>2. g \in [D -> S]
    BY <1>2
  <2>3. ASSUME NEW x \in D, mu[x] < n + 1 PROVE g[x] = step[<<x, g>>]
    <3>1. mu[x] \in Int
      BY <1>1
    <3>2. \A y \in D : mu[y] < mu[x] => f[y] = g[y]
      BY <1>1, <2>3, <3>1
    <3>3. step[<<x, f>>] = step[<<x, g>>]
      BY <2>2, <3>2 DEF Recursion
    <3>4. g[x] = step[<<x, f>>]
      BY <1>1, <2>1, <2>3, <3>1
    <3> QED BY <3>3, <3>4
  <2>4. Good(n + 1, g)
    BY <2>3
  <2>5. n + 1 \in Nat
    OBVIOUS
  <2> HIDE DEF g, Good
  <2> QED BY <2>2, <2>4, <2>5
<1>5. N + 1 \in T
  <2> HIDE DEF T
  <2>1. \A n \in Nat : n \in T
    BY <1>3, <1>4, Induction
  <2> QED BY <2>1
<1>6. PICK f \in [D -> S] : Good(N + 1, f)
  BY <1>5
<1>7. ASSUME NEW x \in D PROVE f[x] = step[<<x, f>>]
  <2>1. mu[x] < N + 1
    BY <1>1
  <2> QED BY <1>6, <2>1
<1> QED BY <1>7

-------------------------------------------------------------------------------
(* Strings and their numbers                                               *)

Chars == 1..127
CString == Seq(Chars)

LEMMA CharAtType ==
  ASSUME NEW s \in CString, NEW i \in Nat \ {0}
  PROVE  /\ CharAt(s, i) \in 0..127
         /\ i > Len(s) => CharAt(s, i) = 0
         /\ CharAt(s, i) = 0 => i > Len(s)
         /\ i <= Len(s) => CharAt(s, i) = s[i]
<1>1. i <= Len(s) => s[i] \in Chars
  BY DEF CString
<1>2. Len(s) \in Nat
  BY DEF CString
<1>3. CASE i <= Len(s)
  <2>1. s[i] \in 1..127 /\ CharAt(s, i) = s[i]
    BY <1>1, <1>3 DEF Chars, CharAt
  <2>2. CharAt(s, i) \in 0..127 /\ CharAt(s, i) # 0
    BY <2>1
  <2>3. ~(i > Len(s))
    BY <1>2, <1>3
  <2> QED BY <2>1, <2>2, <2>3
<1>4. CASE i > Len(s)
  <2>1. CharAt(s, i) = 0 /\ ~(i <= Len(s))
    BY <1>2, <1>4 DEF CharAt
  <2> QED BY <1>4, <2>1
<1> QED BY <1>2, <1>3, <1>4

LEMMA SkipDigitsIs ==
  ASSUME NEW s \in CString, NEW i \in 1..(Len(s) + 1)
  PROVE  /\ SkipDigits(s, i) \in i..(Len(s) + 1)
         /\ ~isdigit(CharAt(s, SkipDigits(s, i)))
         /\ \A h \in i..(SkipDigits(s, i) - 1) : isdigit(s[h])
<1> DEFINE T == {k \in i..(Len(s) + 1) : ~isdigit(CharAt(s, k))}
           Stop(k) == ~isdigit(CharAt(s, k)) /\ \A h \in i..(k - 1) : isdigit(s[h])
<1>1. T \in SUBSET Nat
  BY DEF CString
<1>2. Len(s) + 1 \in T
  BY CharAtType DEF CString, isdigit
<1>3. PICK k \in T : \A h \in T : k <= h
  <2> HIDE DEF T
  <2> QED BY <1>1, <1>2, Least
<1>4. \A h \in i..(k - 1) : isdigit(s[h])
  BY <1>3, CharAtType DEF CString
<1>5. k \in i..(Len(s) + 1) /\ Stop(k)
  BY <1>4
<1> HIDE DEF Stop
<1>6. LET m == CHOOSE m \in i..(Len(s) + 1) : Stop(m)
      IN  m \in i..(Len(s) + 1) /\ Stop(m)
  BY <1>5
<1> QED BY <1>6 DEF SkipDigits, Stop

LEMMA SkipZeroesIs ==
  ASSUME NEW s \in CString, NEW i \in 1..(Len(s) + 1)
  PROVE  /\ SkipZeroes(s, i) \in i..(Len(s) + 1)
         /\ CharAt(s, SkipZeroes(s, i)) # 48
         /\ \A h \in i..(SkipZeroes(s, i) - 1) : s[h] = 48
<1> DEFINE T == {k \in i..(Len(s) + 1) : CharAt(s, k) # 48}
           Stop(k) == CharAt(s, k) # 48 /\ \A h \in i..(k - 1) : s[h] = 48
<1>1. T \in SUBSET Nat
  BY DEF CString
<1>2. Len(s) + 1 \in T
  BY CharAtType DEF CString
<1>3. PICK k \in T : \A h \in T : k <= h
  <2> HIDE DEF T
  <2> QED BY <1>1, <1>2, Least
<1>4. \A h \in i..(k - 1) : s[h] = 48
  BY <1>3, CharAtType DEF CString
<1>5. k \in i..(Len(s) + 1) /\ Stop(k)
  BY <1>4
<1> HIDE DEF Stop
<1>6. LET m == CHOOSE m \in i..(Len(s) + 1) : Stop(m)
      IN  m \in i..(Len(s) + 1) /\ Stop(m)
  BY <1>5
<1> QED BY <1>6 DEF SkipZeroes, Stop
\* v[k] is the value of the digits of s from i up to k.
Counts(v, s, i, e) ==
  /\ v \in [i..e -> Nat]
  /\ v[i] = 0
  /\ \A k \in i..(e - 1) : s[k] \in 48..57 /\ v[k + 1] = 10 * v[k] + s[k] - 48

\* The number from i up to e begins with zeroes up to n.
IsNumber(s, i, n, e) ==
  /\ i \in Nat /\ n \in Nat /\ e \in Nat /\ i <= n /\ n <= e
  /\ \A h \in i..(e - 1) : s[h] \in 48..57
  /\ \A h \in i..(n - 1) : s[h] = 48
  /\ n < e => s[n] # 48

\* The function Number is defined by counts so.
LEMMA NumberCounts ==
  ASSUME NEW s, NEW i, NEW n, NEW e, IsNumber(s, i, n, e)
  PROVE  \E v : Counts(v, s, i, e) /\ Number(s, i, e) = v[e]
<1>0. /\ i \in Nat /\ e \in Nat /\ i <= e
      /\ \A h \in i..(e - 1) : s[h] \in 48..57
  BY DEF IsNumber
<1> USE <1>0
<1> DEFINE D == i..e
           mu == [k \in D |-> k - i]
           step == [x \in D \X [D -> Nat] |->
                      IF x[1] = i THEN 0 ELSE 10 * x[2][x[1] - 1] + s[x[1] - 1] - 48]
<1>1. mu \in [D -> 0..(e - i)] /\ e - i \in Nat
  OBVIOUS
<1>2. step \in [D \X [D -> Nat] -> Nat]
  <2> SUFFICES ASSUME NEW k \in D, NEW f \in [D -> Nat]
               PROVE  (IF k = i THEN 0 ELSE 10 * f[k - 1] + s[k - 1] - 48) \in Nat
    OBVIOUS
  <2>1. CASE k # i
    <3>1. k - 1 \in D /\ s[k - 1] \in 48..57
      BY <2>1
    <3>2. f[k - 1] \in Nat
      BY <3>1
    <3>3. \A m \in Nat, d \in 48..57 : 10 * m + d - 48 \in Nat
      OBVIOUS
    <3>4. 10 * f[k - 1] + s[k - 1] - 48 \in Nat
      BY <3>1, <3>2, <3>3
    <3> QED BY <2>1, <3>4
  <2> QED BY <2>1
<1>3. ASSUME NEW k \in D, NEW f \in [D -> Nat], NEW g \in [D -> Nat],
             \A y \in D : mu[y] < mu[k] => f[y] = g[y]
      PROVE  step[<<k, f>>] = step[<<k, g>>]
  <2>1. k # i => f[k - 1] = g[k - 1]
    BY <1>3
  <2> QED BY <2>1
<1>4. Recursion(D, Nat, mu, step)
  <2> HIDE DEF D, mu, step
  <2> QED BY <1>1, <1>2, <1>3 DEF Recursion
<1>5. PICK v \in [D -> Nat] : \A k \in D : v[k] = step[<<k, v>>]
  <2> HIDE DEF D, mu, step
  <2> QED BY <1>4, RecursiveFunction
<1>6. v = [k \in i..e |-> IF k = i THEN 0 ELSE 10 * v[k - 1] + s[k - 1] - 48]
  BY <1>5
<1> DEFINE value == CHOOSE w :
             w = [k \in i..e |-> IF k = i THEN 0 ELSE 10 * w[k - 1] + s[k - 1] - 48]
<1> HIDE DEF step, mu
<1>7. value = [k \in i..e |-> IF k = i THEN 0 ELSE 10 * value[k - 1] + s[k - 1] - 48]
  BY <1>6, Zenon
<1>8. Number(s, i, e) = value[e]
  BY Zenon DEF Number
<1> HIDE DEF value
<1>9. \A k \in i..e : value[k] = v[k]
  <2> DEFINE T == {k \in i..e : value[k] = v[k]}
  <2>1. i \in T
    BY <1>6, <1>7
  <2>2. ASSUME NEW k \in i..(e - 1), k \in T PROVE k + 1 \in T
    <3>1. k + 1 \in i..e /\ k + 1 # i /\ (k + 1) - 1 = k
      OBVIOUS
    <3>2. value[k + 1] = 10 * value[k] + s[k] - 48
      BY <1>7, <3>1
    <3>3. v[k + 1] = 10 * v[k] + s[k] - 48
      BY <1>6, <3>1
    <3> QED BY <2>2, <3>1, <3>2, <3>3
  <2> HIDE DEF T, D
  <2>3. i \in Int /\ e \in Int
    OBVIOUS
  <2>4. \A k \in i..e : k \in T
    BY <2>1, <2>2, <2>3, Climb
  <2> QED BY <2>4 DEF T
<1>10. Counts(v, s, i, e)
  <2>1. v[i] = 0
    BY <1>6
  <2>2. ASSUME NEW k \in i..(e - 1) PROVE v[k + 1] = 10 * v[k] + s[k] - 48
    <3>1. k + 1 \in i..e /\ k + 1 # i /\ (k + 1) - 1 = k
      OBVIOUS
    <3> QED BY <1>6, <3>1
  <2> QED BY <1>5, <2>1, <2>2 DEF Counts
<1> QED BY <1>8, <1>9, <1>10

\* Leading zeroes count for nothing.
LEMMA Zeroes ==
  ASSUME NEW v, NEW s, NEW i \in Nat, NEW e \in Nat, Counts(v, s, i, e),
         NEW n \in i..e, \A h \in i..(n - 1) : s[h] = 48
  PROVE  v[n] = 0
<1> DEFINE T == {k \in i..n : v[k] = 0}
<1>1. i \in T
  BY DEF Counts
<1>2. ASSUME NEW k \in i..(n - 1), k \in T PROVE k + 1 \in T
  <2>1. k \in i..(e - 1) /\ s[k] = 48 /\ v[k] = 0
    BY <1>2
  <2>2. v[k + 1] = 10 * v[k] + s[k] - 48
    BY <2>1 DEF Counts
  <2> QED BY <2>1, <2>2
<1> HIDE DEF T
<1>3. i \in Int /\ n \in Int /\ n \in i..n
  OBVIOUS
<1>4. \A k \in i..n : k \in T
  BY <1>1, <1>2, <1>3, Climb
<1> QED BY <1>3, <1>4 DEF T

\* The same n digits follow a in s and b in t.
Agree(s, a, t, b, n) == \A h \in 0..(n - 1) : s[a + h] = t[b + h]

\* The same digits give the same value, from where the values are the same.
LEMMA SameDigits ==
  ASSUME NEW v, NEW s, NEW i \in Nat, NEW e \in Nat, Counts(v, s, i, e),
         NEW w, NEW t, NEW j \in Nat, NEW f \in Nat, Counts(w, t, j, f),
         NEW a \in i..e, NEW b \in j..f, v[a] = w[b],
         NEW n \in Nat, a + n <= e, b + n <= f, Agree(s, a, t, b, n)
  PROVE  v[a + n] = w[b + n]
<1> DEFINE T == {m \in 0..n : v[a + m] = w[b + m]}
<1>1. 0 \in T
  OBVIOUS
<1>2. ASSUME NEW m \in 0..(n - 1), m \in T PROVE m + 1 \in T
  <2>1. v[a + m] = w[b + m] /\ s[a + m] = t[b + m]
    BY <1>2 DEF Agree
  <2>2. a + m \in i..(e - 1) /\ b + m \in j..(f - 1)
    OBVIOUS
  <2>3. v[(a + m) + 1] = 10 * v[a + m] + s[a + m] - 48
    BY <2>2 DEF Counts
  <2>4. w[(b + m) + 1] = 10 * w[b + m] + t[b + m] - 48
    BY <2>2 DEF Counts
  <2>5. (a + m) + 1 = a + (m + 1) /\ (b + m) + 1 = b + (m + 1) /\ m + 1 \in 0..n
    OBVIOUS
  <2> QED BY <2>1, <2>3, <2>4, <2>5
<1> HIDE DEF T
<1>3. n \in Int /\ n \in 0..n
  OBVIOUS
<1>4. \A m \in 0..n : m \in T
  BY <1>1, <1>2, <1>3, Climb
<1> QED BY <1>3, <1>4 DEF T

\* A larger value stays larger, whatever the digits that follow.
LEMMA LargerStays ==
  ASSUME NEW v, NEW s, NEW i \in Nat, NEW e \in Nat, Counts(v, s, i, e),
         NEW w, NEW t, NEW j \in Nat, NEW f \in Nat, Counts(w, t, j, f),
         NEW a \in i..e, NEW b \in j..f, v[a] > w[b], e - a = f - b
  PROVE  v[e] > w[f]
<1> DEFINE n == e - a
           T == {m \in 0..n : v[a + m] > w[b + m]}
<1>1. 0 \in T /\ n \in Int /\ n \in 0..n
  OBVIOUS
<1>2. ASSUME NEW m \in 0..(n - 1), m \in T PROVE m + 1 \in T
  <2>1. v[a + m] > w[b + m]
    BY <1>2
  <2>2. a + m \in i..(e - 1) /\ b + m \in j..(f - 1)
    OBVIOUS
  <2>3. v[(a + m) + 1] = 10 * v[a + m] + s[a + m] - 48 /\ s[a + m] \in 48..57
    BY <2>2 DEF Counts
  <2>4. w[(b + m) + 1] = 10 * w[b + m] + t[b + m] - 48 /\ t[b + m] \in 48..57
    BY <2>2 DEF Counts
  <2>5. (a + m) + 1 = a + (m + 1) /\ (b + m) + 1 = b + (m + 1) /\ m + 1 \in 0..n
    OBVIOUS
  <2>6. v[a + m] \in Nat /\ w[b + m] \in Nat
    <3>1. a + m \in i..e /\ b + m \in j..f
      BY <2>2
    <3> QED BY <3>1 DEF Counts
  <2>7. \A x, y \in Nat, c, d \in 48..57 : x > y => 10 * x + c - 48 > 10 * y + d - 48
    OBVIOUS
  <2>8. v[(a + m) + 1] > w[(b + m) + 1]
    BY <2>1, <2>3, <2>4, <2>6, <2>7
  <2>9. v[a + (m + 1)] > w[b + (m + 1)]
    BY <2>5, <2>8
  <2> QED BY <2>5, <2>9
<1>3. n \in T
  <2> HIDE DEF T, n
  <2>1. \A m \in 0..n : m \in T
    BY <1>1, <1>2, Climb
  <2> QED BY <1>1, <2>1
<1> QED BY <1>3

\* A number that begins with another digit than zero has a value.
LEMMA Positive ==
  ASSUME NEW v, NEW s, NEW i \in Nat, NEW e \in Nat, Counts(v, s, i, e),
         NEW n \in i..(e - 1), s[n] # 48, NEW m \in (n + 1)..e
  PROVE  v[m] > 0
<1> DEFINE T == {k \in (n + 1)..m : v[k] > 0}
<1>1. ASSUME NEW k \in i..(e - 1)
      PROVE  /\ v[k] \in Nat /\ v[k + 1] \in Nat
             /\ s[k] \in 48..57 /\ v[k + 1] = 10 * v[k] + s[k] - 48
  <2>1. k \in i..e /\ k + 1 \in i..e
    OBVIOUS
  <2> QED BY <2>1 DEF Counts
<1>2. n + 1 \in T
  <2>1. v[n] \in Nat /\ s[n] \in 48..57 /\ v[n + 1] = 10 * v[n] + s[n] - 48
    BY <1>1
  <2>2. v[n + 1] > 0
    BY <2>1
  <2> QED BY <2>2
<1>3. ASSUME NEW k \in (n + 1)..(m - 1), k \in T PROVE k + 1 \in T
  <2>1. k \in i..(e - 1) /\ v[k] > 0
    BY <1>3
  <2>2. v[k + 1] > 0
    BY <1>1, <2>1
  <2> QED BY <2>2
<1> HIDE DEF T
<1>4. n + 1 \in Int /\ m \in Int /\ m \in (n + 1)..m
  OBVIOUS
<1>5. \A k \in (n + 1)..m : k \in T
  BY <1>2, <1>3, <1>4, Climb
<1> QED BY <1>4, <1>5 DEF T

\* Two numbers compare as newer_than compares them: without their leading zeroes the
\* longer one is larger; of two of the same length the first digit that differs decides.
LEMMA NumberOrder ==
  ASSUME NEW s, NEW i, NEW n, NEW e, IsNumber(s, i, n, e),
         NEW t, NEW j, NEW m, NEW f, IsNumber(t, j, m, f)
  PROVE  /\ Number(s, i, e) \in Nat
         /\ e - n > f - m => Number(s, i, e) > Number(t, j, f)
         /\ e - n = f - m =>
              /\ \A k \in 0..(e - n - 1) :
                   /\ s[n + k] > t[m + k]
                   /\ \A h \in 0..(k - 1) : s[n + h] = t[m + h]
                   => Number(s, i, e) > Number(t, j, f)
              /\ (\A k \in 0..(e - n - 1) : s[n + k] = t[m + k])
                   => Number(s, i, e) = Number(t, j, f)
<1>1. PICK v : Counts(v, s, i, e) /\ Number(s, i, e) = v[e]
  BY NumberCounts
<1>2. PICK w : Counts(w, t, j, f) /\ Number(t, j, f) = w[f]
  BY NumberCounts
<1>3. v[n] = 0 /\ w[m] = 0 /\ v[n] = w[m]
  <2>1. v[n] = 0
    BY <1>1, Zeroes DEF IsNumber
  <2>2. w[m] = 0
    BY <1>2, Zeroes DEF IsNumber
  <2> QED BY <2>1, <2>2
<1>4. v[e] \in Nat
  BY <1>1 DEF Counts, IsNumber
<1>8. /\ i \in Nat /\ n \in Nat /\ e \in Nat /\ i <= n /\ n <= e
      /\ j \in Nat /\ m \in Nat /\ f \in Nat /\ j <= m /\ m <= f
      /\ n < e => s[n] # 48
  BY DEF IsNumber
<1>5. ASSUME e - n > f - m PROVE v[e] > w[f]
  <2> DEFINE a == e - (f - m)
  <2>1. n \in i..(e - 1) /\ a \in (n + 1)..e /\ s[n] # 48
    BY <1>8, <1>5
  <2>2. v[a] > w[m]
    BY <1>8, <1>1, <1>3, <2>1, Positive
  <2>3. a \in i..e /\ m \in j..f /\ e - a = f - m
    BY <1>8, <1>5
  <2> HIDE DEF a
  <2> QED BY <1>8, <1>1, <1>2, <2>2, <2>3, LargerStays
<1>6. ASSUME e - n = f - m, NEW k \in 0..(e - n - 1), s[n + k] > t[m + k],
             \A h \in 0..(k - 1) : s[n + h] = t[m + h]
      PROVE  v[e] > w[f]
  <2>1. v[n + k] = w[m + k]
    <3>1. n \in i..e /\ m \in j..f /\ n + k <= e /\ m + k <= f /\ k \in Nat
      BY <1>8, <1>6
    <3>2. Agree(s, n, t, m, k)
      BY <1>6 DEF Agree
    <3> QED BY <1>8, <1>1, <1>2, <1>3, <3>1, <3>2, SameDigits
  <2>2. n + k \in i..(e - 1) /\ m + k \in j..(f - 1)
    BY <1>8, <1>6
  <2>3. v[(n + k) + 1] = 10 * v[n + k] + s[n + k] - 48 /\ s[n + k] \in 48..57
    BY <1>1, <2>2 DEF Counts
  <2>4. w[(m + k) + 1] = 10 * w[m + k] + t[m + k] - 48 /\ t[m + k] \in 48..57
    BY <1>2, <2>2 DEF Counts
  <2>5. v[n + k] \in Nat
    <3>1. n + k \in i..e
      BY <1>8, <2>2
    <3> QED BY <1>1, <3>1 DEF Counts
  <2>6. v[(n + k) + 1] > w[(m + k) + 1]
    BY <1>6, <2>1, <2>3, <2>4, <2>5
  <2>7. (n + k) + 1 \in i..e /\ (m + k) + 1 \in j..f /\ e - ((n + k) + 1) = f - ((m + k) + 1)
    BY <1>8, <1>6
  <2> QED BY <1>8, <1>1, <1>2, <2>6, <2>7, LargerStays
<1>7. ASSUME e - n = f - m, \A k \in 0..(e - n - 1) : s[n + k] = t[m + k]
      PROVE  v[e] = w[f]
  <2> DEFINE k == e - n
  <2>1. n \in i..e /\ m \in j..f /\ n + k = e /\ m + k = f /\ k \in Nat
    BY <1>8, <1>7
  <2>2. Agree(s, n, t, m, k)
    BY <1>7 DEF Agree
  <2> HIDE DEF k
  <2>3. n + k <= e /\ m + k <= f
    BY <2>1
  <2>4. v[n + k] = w[m + k]
    BY <1>8, <1>1, <1>2, <1>3, <2>1, <2>2, <2>3, SameDigits
  <2> QED BY <2>1, <2>4
<1> QED BY <1>1, <1>2, <1>4, <1>5, <1>6, <1>7

-------------------------------------------------------------------------------
(* The keys of versions                                                    *)

Keys == Seq(Int)

LEMMA KeyAtInt ==
  ASSUME NEW k \in Keys, NEW i \in Int
  PROVE  KeyAt(k, i) \in Int /\ (KeyAt(k, i) # 0 => i \in 1..Len(k))
BY DEF KeyAt, Keys

\* k is x and then l, filled up with zeroes.
IsCons(k, x, l) ==
  /\ k \in Keys /\ l \in Keys /\ x \in Int
  /\ KeyAt(k, 1) = x
  /\ \A i \in Nat \ {0} : KeyAt(k, i + 1) = KeyAt(l, i)

LEMMA ConsEmpty == <<>> \in Keys /\ IsCons(<<>>, 0, <<>>)
BY DEF IsCons, Keys, KeyAt

LEMMA ConsIs ==
  ASSUME NEW x \in Int, NEW y \in Int, NEW l \in Keys
  PROVE  /\ <<x>> \o l \in Keys /\ IsCons(<<x>> \o l, x, l)
         /\ <<x, y>> \o l \in Keys /\ IsCons(<<x, y>> \o l, x, <<y>> \o l)
<1>2. Len(l) \in Nat /\ DOMAIN l = 1..Len(l)
  BY DEF Keys
<1>3. ASSUME NEW z \in Int
      PROVE  /\ <<z>> \o l \in Keys /\ Len(<<z>> \o l) = Len(l) + 1
             /\ DOMAIN (<<z>> \o l) = 1..(Len(l) + 1)
             /\ (<<z>> \o l)[1] = z
             /\ \A i \in 1..Len(l) : (<<z>> \o l)[i + 1] = l[i]
  BY DEF Keys
<1>4. ASSUME NEW z \in Int PROVE IsCons(<<z>> \o l, z, l)
  <2> DEFINE k == <<z>> \o l
  <2>1. KeyAt(k, 1) = z
    BY <1>2, <1>3 DEF KeyAt
  <2>2. ASSUME NEW i \in Nat \ {0} PROVE KeyAt(k, i + 1) = KeyAt(l, i)
    <3>1. i + 1 \in DOMAIN k <=> i \in DOMAIN l
      BY <1>2, <1>3
    <3>2. i \in DOMAIN l => k[i + 1] = l[i]
      BY <1>2, <1>3
    <3> HIDE DEF k
    <3> QED BY <3>1, <3>2 DEF KeyAt
  <2> QED BY <1>3, <2>1, <2>2 DEF IsCons
<1>5. /\ <<x, y>> \o l \in Keys /\ Len(<<x, y>> \o l) = Len(l) + 2
      /\ DOMAIN (<<x, y>> \o l) = 1..(Len(l) + 2)
      /\ (<<x, y>> \o l)[1] = x /\ (<<x, y>> \o l)[2] = y
      /\ \A i \in 1..Len(l) : (<<x, y>> \o l)[i + 2] = l[i]
  BY DEF Keys
<1>6. IsCons(<<x, y>> \o l, x, <<y>> \o l)
  <2> DEFINE k == <<x, y>> \o l
             m == <<y>> \o l
  <2>1. KeyAt(k, 1) = x
    BY <1>2, <1>5 DEF KeyAt
  <2>2. ASSUME NEW i \in Nat \ {0} PROVE KeyAt(k, i + 1) = KeyAt(m, i)
    <3>1. i + 1 \in DOMAIN k <=> i \in DOMAIN m
      BY <1>2, <1>3, <1>5
    <3>2. i \in DOMAIN m => k[i + 1] = m[i]
      <4>1. CASE i = 1
        BY <1>3, <1>5, <4>1
      <4>2. CASE i # 1 /\ i \in DOMAIN m
        <5>1. i - 1 \in 1..Len(l) /\ (i - 1) + 2 = i + 1 /\ (i - 1) + 1 = i
          BY <1>2, <1>3, <4>2
        <5>2. k[(i - 1) + 2] = l[i - 1] /\ m[(i - 1) + 1] = l[i - 1]
          BY <1>3, <1>5, <5>1
        <5> HIDE DEF k, m
        <5> QED BY <5>1, <5>2
      <4> QED BY <4>1, <4>2
    <3> HIDE DEF k, m
    <3> QED BY <3>1, <3>2 DEF KeyAt
  <2>3. k \in Keys /\ m \in Keys
    BY <1>3, <1>5
  <2> HIDE DEF k, m
  <2>4. IsCons(k, x, m)
    BY <2>1, <2>2, <2>3 DEF IsCons
  <2> QED BY <2>4 DEF k, m
<1> QED BY <1>3, <1>4, <1>5, <1>6

\* Keys differ at places of theirs only, so the bound in Greater leaves out none.
LEMMA GreaterIs ==
  ASSUME NEW k \in Keys, NEW l \in Keys
  PROVE  Greater(k, l) <=>
           \E i \in Nat \ {0} :
             /\ KeyAt(k, i) > KeyAt(l, i)
             /\ \A h \in 1..(i - 1) : KeyAt(k, h) = KeyAt(l, h)
<1>1. Len(k) \in Nat /\ Len(l) \in Nat
  BY DEF Keys
<1>2. ASSUME NEW i \in Nat \ {0}, KeyAt(k, i) > KeyAt(l, i)
      PROVE  i \in 1..(Len(k) + Len(l))
  <2>1. /\ KeyAt(k, i) \in Int /\ KeyAt(l, i) \in Int
        /\ KeyAt(k, i) # 0 => i \in 1..Len(k)
        /\ KeyAt(l, i) # 0 => i \in 1..Len(l)
    BY KeyAtInt
  <2> QED BY <1>1, <1>2, <2>1
<1>3. 1..(Len(k) + Len(l)) \subseteq Nat \ {0}
  BY <1>1
<1> QED BY <1>2, <1>3 DEF Greater

\* The order of two keys by their first places.
LEMMA GreaterStep ==
  ASSUME NEW k, NEW x, NEW k2, IsCons(k, x, k2),
         NEW l, NEW y, NEW l2, IsCons(l, y, l2)
  PROVE  Greater(k, l) <=> x > y \/ (x = y /\ Greater(k2, l2))
<1>1. /\ k \in Keys /\ l \in Keys /\ k2 \in Keys /\ l2 \in Keys
      /\ x \in Int /\ y \in Int /\ KeyAt(k, 1) = x /\ KeyAt(l, 1) = y
      /\ \A i \in Nat \ {0} : /\ KeyAt(k, i + 1) = KeyAt(k2, i)
                              /\ KeyAt(l, i + 1) = KeyAt(l2, i)
  BY DEF IsCons
<1>2. ASSUME Greater(k, l), x <= y PROVE x = y /\ Greater(k2, l2)
  <2>1. PICK i \in Nat \ {0} : /\ KeyAt(k, i) > KeyAt(l, i)
                               /\ \A h \in 1..(i - 1) : KeyAt(k, h) = KeyAt(l, h)
    BY <1>1, <1>2, GreaterIs
  <2>2. i # 1
    BY <1>1, <1>2, <2>1
  <2>3. x = y
    BY <1>1, <2>1, <2>2
  <2>4. i - 1 \in Nat \ {0} /\ (i - 1) + 1 = i
    BY <2>2
  <2>5. KeyAt(k2, i - 1) > KeyAt(l2, i - 1)
    BY <1>1, <2>1, <2>4
  <2>6. ASSUME NEW h \in 1..(i - 1 - 1) PROVE KeyAt(k2, h) = KeyAt(l2, h)
    <3>1. h \in Nat \ {0} /\ h + 1 \in 1..(i - 1)
      BY <2>4
    <3> QED BY <1>1, <2>1, <3>1
  <2>7. Greater(k2, l2)
    BY <1>1, <2>4, <2>5, <2>6, GreaterIs
  <2> QED BY <2>3, <2>7
<1>3. ASSUME x > y PROVE Greater(k, l)
  <2>1. /\ 1 \in Nat \ {0} /\ KeyAt(k, 1) > KeyAt(l, 1)
        /\ \A h \in 1..(1 - 1) : KeyAt(k, h) = KeyAt(l, h)
    BY <1>1, <1>3
  <2> QED BY <1>1, <2>1, GreaterIs
<1>4. ASSUME x = y, Greater(k2, l2) PROVE Greater(k, l)
  <2>1. PICK i \in Nat \ {0} : /\ KeyAt(k2, i) > KeyAt(l2, i)
                               /\ \A h \in 1..(i - 1) : KeyAt(k2, h) = KeyAt(l2, h)
    BY <1>1, <1>4, GreaterIs
  <2>2. i + 1 \in Nat \ {0} /\ KeyAt(k, i + 1) > KeyAt(l, i + 1)
    BY <1>1, <2>1
  <2>3. ASSUME NEW h \in 1..(i + 1 - 1) PROVE KeyAt(k, h) = KeyAt(l, h)
    <3>1. CASE h = 1
      BY <1>1, <1>4, <3>1
    <3>2. CASE h # 1
      <4>1. h - 1 \in Nat \ {0} /\ h - 1 \in 1..(i - 1) /\ (h - 1) + 1 = h
        BY <3>2
      <4> QED BY <1>1, <2>1, <4>1
    <3> QED BY <3>1, <3>2
  <2> QED BY <1>1, <2>2, <2>3, GreaterIs
<1>5. x > y \/ x <= y
  BY <1>1
<1> QED BY <1>2, <1>3, <1>4, <1>5

\* The place where a number begins, or the end of the version.
NumberEnd(s, i) == SkipDigits(s, SkipZeroes(s, i))

LEMMA NumberAt ==
  ASSUME NEW s \in CString, NEW i \in 1..(Len(s) + 1), ~NonDigit(CharAt(s, i))
  PROVE  /\ IsNumber(s, i, SkipZeroes(s, i), NumberEnd(s, i))
         /\ NumberEnd(s, i) \in i..(Len(s) + 1)
         /\ ~isdigit(CharAt(s, NumberEnd(s, i)))
         /\ i <= Len(s) => NumberEnd(s, i) > i
         /\ NumberEnd(s, i) = SkipDigits(s, i)
<1> DEFINE n == SkipZeroes(s, i)
           e == NumberEnd(s, i)
           d == SkipDigits(s, i)
<1>1. Len(s) \in Nat
  BY DEF CString
<1>2. n \in i..(Len(s) + 1) /\ CharAt(s, n) # 48 /\ \A h \in i..(n - 1) : s[h] = 48
  BY SkipZeroesIs
<1>3. n \in 1..(Len(s) + 1)
  BY <1>1, <1>2
<1>4. /\ e \in n..(Len(s) + 1) /\ ~isdigit(CharAt(s, e))
      /\ \A h \in n..(e - 1) : isdigit(s[h])
  BY <1>3, SkipDigitsIs DEF NumberEnd
<1>5. /\ d \in i..(Len(s) + 1) /\ ~isdigit(CharAt(s, d))
      /\ \A h \in i..(d - 1) : isdigit(s[h])
  BY SkipDigitsIs
<1> HIDE DEF n, e, d
<1>6. ASSUME NEW h \in i..(e - 1) PROVE s[h] \in 48..57
  <2>1. h \in i..(n - 1) \/ h \in n..(e - 1)
    BY <1>1, <1>2, <1>4
  <2> QED BY <1>2, <1>4, <2>1 DEF isdigit
<1>7. n < e => s[n] # 48
  BY <1>1, <1>2, <1>3, <1>4, CharAtType
<1>8. IsNumber(s, i, n, e)
  BY <1>1, <1>2, <1>4, <1>6, <1>7 DEF IsNumber
<1>9. e = d
  <2>1. ~(e < d)
    <3>1. ASSUME e < d PROVE FALSE
      <4>1. e \in i..(d - 1) /\ e \in Nat \ {0} /\ e <= Len(s)
        BY <1>1, <1>2, <1>4, <1>5, <3>1
      <4>2. isdigit(s[e]) /\ CharAt(s, e) = s[e]
        BY <1>5, <4>1, CharAtType
      <4> QED BY <1>4, <4>2
    <3> QED BY <3>1
  <2>2. ~(d < e)
    <3>1. ASSUME d < e PROVE FALSE
      <4>1. d \in i..(e - 1) /\ d \in Nat \ {0} /\ d <= Len(s)
        BY <1>1, <1>4, <1>5, <3>1
      <4>2. s[d] \in 48..57 /\ CharAt(s, d) = s[d]
        BY <1>6, <4>1, CharAtType
      <4> QED BY <1>5, <4>2 DEF isdigit
    <3> QED BY <3>1
  <2> QED BY <1>1, <1>4, <1>5, <2>1, <2>2
<1>10. ASSUME i <= Len(s) PROVE e > i
  <2>1. i \in Nat \ {0}
    BY <1>1
  <2>2. isdigit(CharAt(s, i))
    BY <1>10, <2>1, CharAtType DEF NonDigit
  <2>3. e # i
    BY <1>4, <2>2
  <2> QED BY <1>1, <1>2, <1>4, <2>3
<1>11. e \in i..(Len(s) + 1)
  BY <1>1, <1>2, <1>4
<1> QED BY <1>4, <1>8, <1>9, <1>10, <1>11 DEF n, e, d

\* K[i] is the key of what is left of s from i on.
IsKey(K, s) ==
  /\ K \in [1..(Len(s) + 1) -> Keys]
  /\ K[Len(s) + 1] = <<>>
  /\ \A i \in 1..Len(s) :
       IF NonDigit(CharAt(s, i)) THEN IsCons(K[i], char_order(s[i]), K[i + 1])
       ELSE \E k : /\ IsCons(K[i], 0, k)
                   /\ IsCons(k, Number(s, i, NumberEnd(s, i)), K[NumberEnd(s, i)])

LEMMA char_orderType ==
  ASSUME NEW c \in 0..127
  PROVE  /\ char_order(c) \in Int
         /\ isdigit(c) => char_order(c) = 0
         /\ c = 0 => char_order(c) = -1
         /\ NonDigit(c) => char_order(c) # 0 /\ (char_order(c) > 0 <=> char_order(c) > -1)
         /\ NonDigit(c) => char_order(c) # -1
<1>1. CASE isdigit(c)
  <2>1. ~isalpha(c) /\ c # 0 /\ c # 126
    BY <1>1 DEF isdigit, isalpha
  <2> QED BY <1>1, <2>1 DEF char_order, NonDigit
<1>2. CASE ~isdigit(c) /\ isalpha(c)
  BY <1>2 DEF char_order, isdigit, isalpha, NonDigit
<1>3. CASE ~isdigit(c) /\ ~isalpha(c)
  BY <1>3 DEF char_order, isdigit, isalpha, NonDigit
<1> QED BY <1>1, <1>2, <1>3

LEMMA KeyIs ==
  ASSUME NEW s \in CString
  PROVE  \E K : IsKey(K, s) /\ K[1] = Key(s)
<1> DEFINE D == 1..(Len(s) + 1)
           mu == [i \in D |-> Len(s) + 1 - i]
           Body(f, i) == CASE i > Len(s) -> <<>>
                           [] NonDigit(CharAt(s, i)) -> <<char_order(s[i])>> \o f[i + 1]
                           [] OTHER -> <<0, Number(s, i, SkipDigits(s, i))>>
                                         \o f[SkipDigits(s, i)]
           step == [x \in D \X [D -> Keys] |-> Body(x[2], x[1])]
<1>1. Len(s) \in Nat
  BY DEF CString
<1>15. <<>> \in Keys /\ 0 \in Int
  BY ConsEmpty
<1>2. mu \in [D -> 0..Len(s)]
  BY <1>1
<1>16. ASSUME NEW i \in D, i > Len(s) PROVE ~NonDigit(CharAt(s, i))
  <2>1. i \in Nat \ {0}
    BY <1>1
  <2> QED BY <1>16, <2>1, CharAtType DEF NonDigit
<1>3. ASSUME NEW i \in D, i <= Len(s), ~NonDigit(CharAt(s, i))
      PROVE  /\ SkipDigits(s, i) = NumberEnd(s, i)
             /\ SkipDigits(s, i) \in D /\ SkipDigits(s, i) > i
             /\ Number(s, i, SkipDigits(s, i)) \in Int
  <2>1. /\ IsNumber(s, i, SkipZeroes(s, i), NumberEnd(s, i))
        /\ NumberEnd(s, i) \in i..(Len(s) + 1) /\ NumberEnd(s, i) > i
        /\ NumberEnd(s, i) = SkipDigits(s, i)
    BY <1>3, NumberAt
  <2>2. Number(s, i, NumberEnd(s, i)) \in Nat
    BY <2>1, NumberOrder
  <2> QED BY <1>1, <2>1, <2>2
<1>4. ASSUME NEW i \in D, i <= Len(s), NonDigit(CharAt(s, i))
      PROVE  i + 1 \in D /\ char_order(s[i]) \in Int
  <2>1. i \in Nat \ {0}
    BY <1>1
  <2>2. s[i] \in 0..127
    BY <1>4, <2>1, CharAtType
  <2>3. char_order(s[i]) \in Int
    BY <2>2, char_orderType
  <2> QED BY <1>1, <1>4, <2>3
<1>5. ASSUME NEW f \in [D -> Keys], NEW i \in D PROVE Body(f, i) \in Keys
  <2>1. CASE i > Len(s)
    <3>1. Body(f, i) = <<>>
      BY <1>16, <2>1
    <3> HIDE DEF Body
    <3> QED BY <1>15, <3>1
  <2>2. CASE i <= Len(s) /\ NonDigit(CharAt(s, i))
    <3>1. char_order(s[i]) \in Int /\ f[i + 1] \in Keys
      BY <1>4, <2>2
    <3>2. <<char_order(s[i])>> \o f[i + 1] \in Keys
      BY <3>1, ConsIs
    <3> QED BY <1>1, <2>2, <3>2
  <2>3. CASE i <= Len(s) /\ ~NonDigit(CharAt(s, i))
    <3>1. Number(s, i, SkipDigits(s, i)) \in Int /\ f[SkipDigits(s, i)] \in Keys
      BY <1>3, <2>3
    <3> HIDE DEF Body, D
    <3>2. <<0, Number(s, i, SkipDigits(s, i))>> \o f[SkipDigits(s, i)] \in Keys
      BY <1>15, <3>1, ConsIs
    <3> USE DEF Body, D
    <3> QED BY <1>1, <2>3, <3>2
  <2> QED BY <1>1, <2>1, <2>2, <2>3
<1>6. ASSUME NEW i \in D, NEW f, NEW g,
             \A y \in D : mu[y] < mu[i] => f[y] = g[y]
      PROVE  Body(f, i) = Body(g, i)
  <2>0. \A y \in D : y > i => f[y] = g[y]
    BY <1>1, <1>6
  <2> HIDE DEF mu
  <2>1. CASE i > Len(s)
    BY <1>16, <2>1
  <2>2. CASE i <= Len(s) /\ NonDigit(CharAt(s, i))
    <3>1. f[i + 1] = g[i + 1]
      BY <1>4, <2>0, <2>2
    <3> QED BY <1>1, <2>2, <3>1
  <2>3. CASE i <= Len(s) /\ ~NonDigit(CharAt(s, i))
    <3>1. f[SkipDigits(s, i)] = g[SkipDigits(s, i)]
      BY <1>3, <2>0, <2>3
    <3> QED BY <1>1, <2>3, <3>1
  <2> QED BY <1>1, <2>1, <2>2, <2>3
<1>7. Recursion(D, Keys, mu, step)
  <2>1. Keys # {}
    BY <1>15
  <2>2. step \in [D \X [D -> Keys] -> Keys]
    <3> HIDE DEF Body, D
    <3> QED BY <1>5
  <2>3. ASSUME NEW i \in D, NEW f \in [D -> Keys], NEW g \in [D -> Keys],
               \A y \in D : mu[y] < mu[i] => f[y] = g[y]
        PROVE  step[<<i, f>>] = step[<<i, g>>]
    <3>1. Body(f, i) = Body(g, i)
      BY <1>6, <2>3
    <3> HIDE DEF Body, D
    <3> QED BY <3>1
  <2> HIDE DEF D, mu, step
  <2> QED BY <1>1, <1>2, <2>1, <2>2, <2>3 DEF Recursion
<1>8. PICK f \in [D -> Keys] : \A i \in D : f[i] = Body(f, i)
  <2>1. PICK f \in [D -> Keys] : \A i \in D : f[i] = step[<<i, f>>]
    <3> HIDE DEF D, mu, step
    <3> QED BY <1>7, RecursiveFunction
  <2> HIDE DEF Body, D
  <2> QED BY <2>1
<1>9. f = [i \in D |-> Body(f, i)]
  <2> HIDE DEF Body, D
  <2> QED BY <1>8
<1> DEFINE K == CHOOSE g : g = [i \in D |-> Body(g, i)]
<1>10. Key(s) = K[1]
  BY Zenon DEF Key
<1>11. K = [i \in D |-> Body(K, i)]
  <2> HIDE DEF Body, D
  <2> QED BY <1>9, Zenon
<1> HIDE DEF K
<1>12. \A i \in D : K[i] = f[i]
  <2> DEFINE T == {i \in D : K[i] = f[i]}
  <2>1. ASSUME NEW i \in D, \A y \in D : mu[y] < mu[i] => y \in T PROVE i \in T
    <3>1. \A y \in D : mu[y] < mu[i] => K[y] = f[y]
      BY <2>1
    <3>2. Body(K, i) = Body(f, i)
      BY <1>6, <3>1
    <3> HIDE DEF Body, D, mu
    <3> QED BY <1>8, <1>11, <3>2
  <2> HIDE DEF T, D, mu
  <2>2. \A i \in D : i \in T
    BY <1>1, <1>2, <2>1, MeasureInduction
  <2> QED BY <2>2 DEF T
<1>13. IsKey(f, s)
  <2>1. f[Len(s) + 1] = <<>>
    <3>1. Len(s) + 1 \in D /\ Len(s) + 1 > Len(s)
      BY <1>1
    <3>2. Body(f, Len(s) + 1) = <<>>
      BY <1>16, <3>1
    <3> HIDE DEF Body, D
    <3> QED BY <1>8, <3>1, <3>2
  <2>2. ASSUME NEW i \in 1..Len(s), NonDigit(CharAt(s, i))
        PROVE  IsCons(f[i], char_order(s[i]), f[i + 1])
    <3>1. i \in D /\ i <= Len(s)
      BY <1>1
    <3>2. f[i] = <<char_order(s[i])>> \o f[i + 1]
      <4>1. Body(f, i) = <<char_order(s[i])>> \o f[i + 1]
        BY <1>1, <2>2, <3>1
      <4> HIDE DEF Body, D
      <4> QED BY <1>8, <3>1, <4>1
    <3>3. char_order(s[i]) \in Int /\ f[i + 1] \in Keys
      BY <1>4, <2>2, <3>1
    <3> QED BY <3>2, <3>3, ConsIs
  <2>3. ASSUME NEW i \in 1..Len(s), ~NonDigit(CharAt(s, i))
        PROVE  \E k : /\ IsCons(f[i], 0, k)
                      /\ IsCons(k, Number(s, i, NumberEnd(s, i)), f[NumberEnd(s, i)])
    <3> DEFINE e == NumberEnd(s, i)
               v == Number(s, i, e)
    <3>1. i \in D /\ i <= Len(s)
      BY <1>1
    <3>2. e = SkipDigits(s, i) /\ v \in Int /\ e \in D /\ f[e] \in Keys
      BY <1>3, <2>3, <3>1
    <3>3. f[i] = <<0, v>> \o f[e]
      <4>1. Body(f, i) = <<0, Number(s, i, SkipDigits(s, i))>> \o f[SkipDigits(s, i)]
        BY <1>1, <2>3, <3>1
      <4> HIDE DEF Body, D, e
      <4> QED BY <1>8, <3>1, <3>2, <4>1
    <3> HIDE DEF e, v, D
    <3>4. IsCons(<<0, v>> \o f[e], 0, <<v>> \o f[e]) /\ IsCons(<<v>> \o f[e], v, f[e])
      BY <1>15, <3>2, ConsIs, Zenon
    <3> QED BY <3>3, <3>4 DEF e, v
  <2> QED BY <1>8, <2>1, <2>2, <2>3 DEF IsKey
<1>14. 1 \in D
  BY <1>1
<1> QED BY <1>10, <1>12, <1>13, <1>14

LEMMA KeyType ==
  ASSUME NEW s \in CString
  PROVE  Key(s) \in Keys
<1>1. PICK K : IsKey(K, s) /\ K[1] = Key(s)
  BY KeyIs
<1>2. 1 \in 1..(Len(s) + 1)
  BY DEF CString
<1> QED BY <1>1, <1>2 DEF IsKey

-------------------------------------------------------------------------------
(* One step of newer_than and one of Greater                               *)

\* The first place of a key.
LEMMA HeadIs ==
  ASSUME NEW s \in CString, NEW K, IsKey(K, s), NEW i \in 1..(Len(s) + 1)
  PROVE  /\ NonDigit(CharAt(s, i)) =>
              /\ i \in 1..Len(s)
              /\ IsCons(K[i], char_order(CharAt(s, i)), K[i + 1])
         /\ ~NonDigit(CharAt(s, i)) => \E k : IsCons(K[i], 0, k)
<1>1. Len(s) \in Nat /\ i \in Nat \ {0}
  BY DEF CString
<1>2. ASSUME NonDigit(CharAt(s, i))
      PROVE  i \in 1..Len(s) /\ IsCons(K[i], char_order(CharAt(s, i)), K[i + 1])
  <2>1. i <= Len(s) /\ CharAt(s, i) = s[i]
    BY <1>1, <1>2, CharAtType DEF NonDigit
  <2>2. i \in 1..Len(s)
    BY <1>1, <2>1
  <2> QED BY <1>2, <2>1, <2>2 DEF IsKey
<1>3. ASSUME ~NonDigit(CharAt(s, i)) PROVE \E k : IsCons(K[i], 0, k)
  <2>1. CASE i \in 1..Len(s)
    BY <1>3, <2>1 DEF IsKey
  <2>2. CASE i = Len(s) + 1
    <3>1. K[i] = <<>>
      BY <2>2 DEF IsKey
    <3>2. IsCons(<<>>, 0, <<>>)
      BY ConsEmpty
    <3> QED BY <3>1, <3>2
  <2> QED BY <1>1, <2>1, <2>2
<1> QED BY <1>2, <1>3

\* The first two places of a key that begins with a number, or is at its end.
LEMMA NumberHead ==
  ASSUME NEW s \in CString, NEW K, IsKey(K, s), NEW i \in 1..(Len(s) + 1),
         ~NonDigit(CharAt(s, i))
  PROVE  \E k : /\ IsCons(K[i], 0, k)
                /\ IsCons(k, Number(s, i, NumberEnd(s, i)), K[NumberEnd(s, i)])
<1>1. Len(s) \in Nat
  BY DEF CString
<1>2. CASE i \in 1..Len(s)
  BY <1>2 DEF IsKey
<1>3. CASE i = Len(s) + 1
  <2>1. IsNumber(s, i, SkipZeroes(s, i), NumberEnd(s, i)) /\ NumberEnd(s, i) = i
    BY <1>1, <1>3, NumberAt
  <2>2. PICK v : Counts(v, s, i, NumberEnd(s, i))
                   /\ Number(s, i, NumberEnd(s, i)) = v[NumberEnd(s, i)]
    BY <2>1, NumberCounts
  <2>3. Number(s, i, NumberEnd(s, i)) = 0
    BY <2>1, <2>2 DEF Counts
  <2>4. K[i] = <<>> /\ K[NumberEnd(s, i)] = <<>>
    BY <1>3, <2>1 DEF IsKey
  <2>5. IsCons(<<>>, 0, <<>>)
    BY ConsEmpty
  <2> QED BY <2>3, <2>4, <2>5
<1> QED BY <1>1, <1>2, <1>3

\* A character that is no digit decides as its order does, even against the end.
LEMMA CharacterStep ==
  ASSUME NEW a \in CString, NEW K, IsKey(K, a), NEW i \in 1..(Len(a) + 1),
         NEW b \in CString, NEW L, IsKey(L, b), NEW j \in 1..(Len(b) + 1),
         NonDigit(CharAt(a, i)) \/ NonDigit(CharAt(b, j))
  PROVE  /\ char_order(CharAt(a, i)) # char_order(CharAt(b, j)) =>
              (Greater(K[i], L[j])
                 <=> char_order(CharAt(a, i)) > char_order(CharAt(b, j)))
         /\ char_order(CharAt(a, i)) = char_order(CharAt(b, j)) =>
              /\ i \in 1..Len(a) /\ j \in 1..Len(b)
              /\ Greater(K[i], L[j]) <=> Greater(K[i + 1], L[j + 1])
<1> DEFINE c == CharAt(a, i)
           d == CharAt(b, j)
           x == IF NonDigit(c) THEN char_order(c) ELSE 0
           y == IF NonDigit(d) THEN char_order(d) ELSE 0
<1>1. c \in 0..127 /\ d \in 0..127
  <2>1. i \in Nat \ {0} /\ j \in Nat \ {0}
    BY DEF CString
  <2> QED BY <2>1, CharAtType
<1>2. PICK k : IsCons(K[i], x, k) /\ (NonDigit(c) => k = K[i + 1])
  BY HeadIs
<1>3. PICK l : IsCons(L[j], y, l) /\ (NonDigit(d) => l = L[j + 1])
  BY HeadIs
<1>4. Greater(K[i], L[j]) <=> x > y \/ (x = y /\ Greater(k, l))
  BY <1>2, <1>3, GreaterStep
<1>5. /\ NonDigit(c) => i \in 1..Len(a)
      /\ NonDigit(d) => j \in 1..Len(b)
  BY HeadIs
<1> HIDE DEF c, d
<1>6. ASSUME NEW z \in 0..127, ~NonDigit(z) PROVE char_order(z) \in {0, -1}
  BY <1>6, char_orderType DEF NonDigit
<1>7. /\ char_order(c) \in Int /\ char_order(d) \in Int
      /\ ~NonDigit(c) => char_order(c) \in {0, -1}
      /\ ~NonDigit(d) => char_order(d) \in {0, -1}
      /\ NonDigit(c) => /\ char_order(c) # 0 /\ char_order(c) # -1
                        /\ char_order(c) > 0 <=> char_order(c) > -1
      /\ NonDigit(d) => /\ char_order(d) # 0 /\ char_order(d) # -1
                        /\ char_order(d) > 0 <=> char_order(d) > -1
  BY <1>1, <1>6, char_orderType
<1>8. NonDigit(c) \/ NonDigit(d)
  BY DEF c, d
<1>9. ASSUME char_order(c) # char_order(d)
      PROVE  x # y /\ (x > y <=> char_order(c) > char_order(d))
  <2>1. CASE NonDigit(c) /\ NonDigit(d)
    BY <1>9, <2>1
  <2>2. CASE NonDigit(c) /\ ~NonDigit(d)
    BY <1>7, <2>2
  <2>3. CASE ~NonDigit(c) /\ NonDigit(d)
    BY <1>7, <2>3
  <2> QED BY <1>8, <2>1, <2>2, <2>3
<1>10. ASSUME char_order(c) = char_order(d) PROVE NonDigit(c) /\ NonDigit(d)
  BY <1>7, <1>8, <1>10
<1>11. x \in Int /\ y \in Int
  BY <1>7
<1>12. ASSUME char_order(c) # char_order(d)
       PROVE  Greater(K[i], L[j]) <=> char_order(c) > char_order(d)
  BY <1>4, <1>9, <1>12
<1>13. ASSUME char_order(c) = char_order(d)
       PROVE  /\ i \in 1..Len(a) /\ j \in 1..Len(b)
              /\ Greater(K[i], L[j]) <=> Greater(K[i + 1], L[j + 1])
  <2>1. x = y /\ ~(x > y) /\ k = K[i + 1] /\ l = L[j + 1]
    BY <1>2, <1>3, <1>7, <1>10, <1>13
  <2> QED BY <1>4, <1>5, <1>10, <1>13, <2>1
<1> QED BY <1>12, <1>13 DEF c, d

\* Two numbers, or ends, decide as their values do.
LEMMA NumberStep ==
  ASSUME NEW a \in CString, NEW K, IsKey(K, a), NEW i \in 1..(Len(a) + 1),
         NEW b \in CString, NEW L, IsKey(L, b), NEW j \in 1..(Len(b) + 1),
         ~NonDigit(CharAt(a, i)), ~NonDigit(CharAt(b, j))
  PROVE  LET m == Number(a, i, NumberEnd(a, i))
             n == Number(b, j, NumberEnd(b, j))
         IN  /\ m \in Nat /\ n \in Nat
             /\ Greater(K[i], L[j])
                  <=> m > n \/ (m = n /\ Greater(K[NumberEnd(a, i)], L[NumberEnd(b, j)]))
<1> DEFINE m == Number(a, i, NumberEnd(a, i))
           n == Number(b, j, NumberEnd(b, j))
<1>1. PICK k : IsCons(K[i], 0, k) /\ IsCons(k, m, K[NumberEnd(a, i)])
  BY NumberHead
<1>2. PICK l : IsCons(L[j], 0, l) /\ IsCons(l, n, L[NumberEnd(b, j)])
  BY NumberHead
<1>3. Greater(K[i], L[j]) <=> 0 > 0 \/ (0 = 0 /\ Greater(k, l))
  BY <1>1, <1>2, GreaterStep
<1>4. Greater(k, l) <=> m > n \/ (m = n /\ Greater(K[NumberEnd(a, i)], L[NumberEnd(b, j)]))
  BY <1>1, <1>2, GreaterStep
<1>5. /\ IsNumber(a, i, SkipZeroes(a, i), NumberEnd(a, i))
      /\ IsNumber(b, j, SkipZeroes(b, j), NumberEnd(b, j))
  BY NumberAt
<1>6. m \in Nat /\ n \in Nat
  BY <1>5, NumberOrder
<1> QED BY <1>3, <1>4, <1>6

\* The numbers of two versions, as newer_than compares them.
LEMMA NumbersCompared ==
  ASSUME NEW a \in CString, NEW i \in 1..(Len(a) + 1), ~NonDigit(CharAt(a, i)),
         NEW b \in CString, NEW j \in 1..(Len(b) + 1), ~NonDigit(CharAt(b, j))
  PROVE  LET na == SkipZeroes(a, i)
             nb == SkipZeroes(b, j)
             ea == NumberEnd(a, i)
             eb == NumberEnd(b, j)
             m == Number(a, i, ea)
             n == Number(b, j, eb)
             Differ(k) == a[na + k] # b[nb + k]
         IN  /\ ea - na # eb - nb => m # n /\ (m > n <=> ea - na > eb - nb)
             /\ ea - na = eb - nb /\ (\E k \in 0..(ea - na - 1) : Differ(k)) =>
                  /\ m # n
                  /\ m > n <=> \E k \in 0..(ea - na - 1) :
                                 /\ a[na + k] > b[nb + k]
                                 /\ \A h \in 0..(k - 1) : ~Differ(h)
             /\ ea - na = eb - nb /\ ~(\E k \in 0..(ea - na - 1) : Differ(k)) => m = n
<1> DEFINE na == SkipZeroes(a, i)
           nb == SkipZeroes(b, j)
           ea == NumberEnd(a, i)
           eb == NumberEnd(b, j)
           m == Number(a, i, ea)
           n == Number(b, j, eb)
           Differ(k) == a[na + k] # b[nb + k]
<1>1. IsNumber(a, i, na, ea) /\ IsNumber(b, j, nb, eb)
  BY NumberAt
<1> HIDE DEF na, nb, ea, eb
<1>2. /\ na \in Nat /\ nb \in Nat /\ ea \in Nat /\ eb \in Nat
      /\ i \in Nat /\ j \in Nat /\ i <= na /\ j <= nb /\ na <= ea /\ nb <= eb
  BY <1>1 DEF IsNumber
<1>3. /\ m \in Nat
      /\ ea - na > eb - nb => m > n
      /\ ea - na = eb - nb =>
           /\ \A k \in 0..(ea - na - 1) :
                a[na + k] > b[nb + k] /\ (\A h \in 0..(k - 1) : ~Differ(h)) => m > n
           /\ ~(\E k \in 0..(ea - na - 1) : Differ(k)) => m = n
  BY <1>1, NumberOrder
<1>4. /\ n \in Nat
      /\ eb - nb > ea - na => n > m
      /\ eb - nb = ea - na =>
           \A k \in 0..(eb - nb - 1) :
             b[nb + k] > a[na + k] /\ (\A h \in 0..(k - 1) : b[nb + h] = a[na + h]) => n > m
  BY <1>1, NumberOrder
<1> HIDE DEF m, n
<1>5. ASSUME ea - na # eb - nb PROVE m # n /\ (m > n <=> ea - na > eb - nb)
  BY <1>2, <1>3, <1>4, <1>5
<1>6. ASSUME ea - na = eb - nb, \E k \in 0..(ea - na - 1) : Differ(k)
      PROVE  /\ m # n
             /\ m > n <=> \E k \in 0..(ea - na - 1) :
                            /\ a[na + k] > b[nb + k]
                            /\ \A h \in 0..(k - 1) : ~Differ(h)
  <2> DEFINE T == {k \in 0..(ea - na - 1) : Differ(k)}
  <2>1. T \in SUBSET Nat /\ T # {}
    BY <1>6
  <2>2. PICK k \in T : \A h \in T : k <= h
    <3> HIDE DEF T
    <3> QED BY <2>1, Least
  <2>3. /\ k \in 0..(ea - na - 1) /\ k \in 0..(eb - nb - 1) /\ Differ(k)
        /\ \A h \in 0..(k - 1) : ~Differ(h)
    <3>1. k \in 0..(ea - na - 1) /\ Differ(k) /\ k \in Nat
      OBVIOUS
    <3>2. ASSUME NEW h \in 0..(k - 1), Differ(h) PROVE FALSE
      <4>1. h \in T /\ h < k
        BY <1>2, <3>1, <3>2
      <4> HIDE DEF T
      <4> QED BY <2>2, <3>1, <4>1
    <3> QED BY <1>6, <3>1, <3>2
  <2> HIDE DEF T
  <2>4. a[na + k] \in Int /\ b[nb + k] \in Int
    <3>1. na + k \in i..(ea - 1) /\ nb + k \in j..(eb - 1)
      BY <1>2, <2>3
    <3>2. a[na + k] \in 48..57 /\ b[nb + k] \in 48..57
      BY <1>1, <3>1 DEF IsNumber
    <3> QED BY <3>2
  <2>5. CASE a[na + k] > b[nb + k]
    <3>1. m > n
      BY <1>3, <1>6, <2>3, <2>5
    <3> QED BY <1>3, <1>4, <2>3, <2>5, <3>1
  <2>6. CASE b[nb + k] > a[na + k]
    <3>1. n > m
      BY <1>4, <1>6, <2>3, <2>6
    <3>2. ASSUME NEW g \in 0..(ea - na - 1), a[na + g] > b[nb + g],
                 \A h \in 0..(g - 1) : ~Differ(h)
          PROVE  m > n
      BY <1>3, <1>6, <3>2
    <3>3. ~(m > n) /\ m # n
      BY <1>3, <1>4, <3>1
    <3> QED BY <3>2, <3>3
  <2>7. a[na + k] > b[nb + k] \/ b[nb + k] > a[na + k]
    BY <2>3, <2>4
  <2> QED BY <2>5, <2>6, <2>7
<1>7. ASSUME ea - na = eb - nb, ~(\E k \in 0..(ea - na - 1) : Differ(k))
      PROVE  m = n
  BY <1>3, <1>7
<1> QED BY <1>5, <1>6, <1>7 DEF na, nb, ea, eb, m, n

-------------------------------------------------------------------------------
(* newer_than                                                              *)

\* newer_than is the lexicographic order of the keys of two versions: numbers count by
\* their value whatever their length, "~" is before the end of a version.
THEOREM NewerIsGreater ==
  ASSUME NEW a \in CString, NEW b \in CString
  PROVE  newer_than(a, b) <=> Greater(Key(a), Key(b))
<1> DEFINE D == (1..(Len(a) + 1)) \X (1..(Len(b) + 1))
           mu == [p \in D |-> (Len(a) + 1 - p[1]) + (Len(b) + 1 - p[2])]
           Body(newer, p) ==
             LET ac == char_order(CharAt(a, p[1]))
                 bc == char_order(CharAt(b, p[2]))
                 na == SkipZeroes(a, p[1])
                 nb == SkipZeroes(b, p[2])
                 ea == SkipDigits(a, na)
                 eb == SkipDigits(b, nb)
                 Differ(k) == a[na + k] # b[nb + k]
             IN  IF NonDigit(CharAt(a, p[1])) \/ NonDigit(CharAt(b, p[2]))
                 THEN IF ac # bc THEN ac > bc ELSE newer[<<p[1] + 1, p[2] + 1>>]
                 ELSE IF ea - na # eb - nb
                 THEN ea - na > eb - nb
                 ELSE IF \E k \in 0..(ea - na - 1) : Differ(k)
                 THEN \E k \in 0..(ea - na - 1) :
                        /\ a[na + k] > b[nb + k]
                        /\ \A h \in 0..(k - 1) : ~Differ(h)
                 ELSE (ea <= Len(a) \/ eb <= Len(b)) /\ newer[<<ea, eb>>]
           step == [x \in D \X [D -> BOOLEAN] |-> Body(x[2], x[1])]
<1>1. Len(a) \in Nat /\ Len(b) \in Nat
  BY DEF CString
<1>2. PICK K : IsKey(K, a) /\ K[1] = Key(a)
  BY KeyIs
<1>3. PICK L : IsKey(L, b) /\ L[1] = Key(b)
  BY KeyIs
<1>4. ASSUME NEW p \in D
      PROVE  p[1] \in 1..(Len(a) + 1) /\ p[2] \in 1..(Len(b) + 1) /\ p = <<p[1], p[2]>>
  OBVIOUS
<1>5. ASSUME NEW p \in D
      PROVE  mu[p] = (Len(a) + 1 - p[1]) + (Len(b) + 1 - p[2]) /\ mu[p] \in 0..(Len(a) + Len(b))
  BY <1>1, <1>4
<1>6. mu \in [D -> 0..(Len(a) + Len(b))] /\ Len(a) + Len(b) \in Nat
  BY <1>1, <1>5
<1> HIDE DEF mu
\* Where the calls of newer[] lead to.
<1>7. ASSUME NEW p \in D, NonDigit(CharAt(a, p[1])) \/ NonDigit(CharAt(b, p[2])),
             char_order(CharAt(a, p[1])) = char_order(CharAt(b, p[2]))
      PROVE  /\ <<p[1] + 1, p[2] + 1>> \in D /\ mu[<<p[1] + 1, p[2] + 1>>] < mu[p]
             /\ Greater(K[p[1]], L[p[2]]) <=> Greater(K[p[1] + 1], L[p[2] + 1])
  <2>1. /\ p[1] \in 1..Len(a) /\ p[2] \in 1..Len(b)
        /\ Greater(K[p[1]], L[p[2]]) <=> Greater(K[p[1] + 1], L[p[2] + 1])
    BY <1>2, <1>3, <1>4, <1>7, CharacterStep
  <2>2. <<p[1] + 1, p[2] + 1>> \in D
    BY <1>1, <2>1
  <2>3. mu[<<p[1] + 1, p[2] + 1>>] < mu[p]
    <3>1. mu[<<p[1] + 1, p[2] + 1>>]
            = (Len(a) + 1 - (p[1] + 1)) + (Len(b) + 1 - (p[2] + 1))
      BY <1>5, <2>2
    <3>2. mu[p] = (Len(a) + 1 - p[1]) + (Len(b) + 1 - p[2])
      BY <1>5
    <3>3. p[1] \in Int /\ p[2] \in Int
      BY <1>4
    <3> DEFINE q == <<p[1] + 1, p[2] + 1>>
    <3>4. mu[q] = (Len(a) + 1 - (p[1] + 1)) + (Len(b) + 1 - (p[2] + 1))
      BY <3>1
    <3> HIDE DEF D, q
    <3>5. \A m, n, i, j \in Int :
            (m + 1 - (i + 1)) + (n + 1 - (j + 1)) < (m + 1 - i) + (n + 1 - j)
      OBVIOUS
    <3>6. Len(a) \in Int /\ Len(b) \in Int
      BY <1>1
    <3>7. (Len(a) + 1 - (p[1] + 1)) + (Len(b) + 1 - (p[2] + 1))
            < (Len(a) + 1 - p[1]) + (Len(b) + 1 - p[2])
      BY <3>3, <3>5, <3>6
    <3>8. mu[q] < mu[p]
      BY <3>2, <3>4, <3>7
    <3> QED BY <3>8 DEF q
  <2> QED BY <2>1, <2>2, <2>3
<1>8. ASSUME NEW p \in D, ~NonDigit(CharAt(a, p[1])), ~NonDigit(CharAt(b, p[2])),
             NumberEnd(a, p[1]) <= Len(a) \/ NumberEnd(b, p[2]) <= Len(b)
      PROVE  /\ <<NumberEnd(a, p[1]), NumberEnd(b, p[2])>> \in D
             /\ mu[<<NumberEnd(a, p[1]), NumberEnd(b, p[2])>>] < mu[p]
  <2> DEFINE ea == NumberEnd(a, p[1])
             eb == NumberEnd(b, p[2])
  <2>1. ea \in p[1]..(Len(a) + 1) /\ (p[1] <= Len(a) => ea > p[1])
    BY <1>4, <1>8, NumberAt
  <2>2. eb \in p[2]..(Len(b) + 1) /\ (p[2] <= Len(b) => eb > p[2])
    BY <1>4, <1>8, NumberAt
  <2>3. ea <= Len(a) \/ eb <= Len(b)
    BY <1>8
  <2> HIDE DEF ea, eb
  <2>4. <<ea, eb>> \in D
    BY <1>1, <1>4, <2>1, <2>2
  <2>5. mu[<<ea, eb>>] = (Len(a) + 1 - ea) + (Len(b) + 1 - eb)
    BY <1>5, <2>4
  <2>6. mu[<<ea, eb>>] < mu[p]
    <3>1. mu[p] = (Len(a) + 1 - p[1]) + (Len(b) + 1 - p[2])
      BY <1>5
    <3>2. p[1] \in 1..(Len(a) + 1) /\ p[2] \in 1..(Len(b) + 1)
      BY <1>4
    <3>3. ea + eb > p[1] + p[2]
      BY <1>1, <2>1, <2>2, <2>3, <3>2
    <3>4. /\ ea \in Int /\ eb \in Int /\ p[1] \in Int /\ p[2] \in Int
          /\ Len(a) \in Int /\ Len(b) \in Int
      BY <1>1, <2>1, <2>2, <3>2
    <3> HIDE DEF D, mu
    <3>5. (Len(a) + 1 - ea) + (Len(b) + 1 - eb) < (Len(a) + 1 - p[1]) + (Len(b) + 1 - p[2])
      BY <3>3, <3>4
    <3> QED BY <2>5, <3>1, <3>5
  <2> QED BY <2>4, <2>6 DEF ea, eb
<1> HIDE DEF D
\* The value of newer[] at p depends on what it is at smaller measures.
<1>9. ASSUME NEW p \in D, NEW f, NEW g, \A q \in D : mu[q] < mu[p] => f[q] = g[q]
      PROVE  Body(f, p) = Body(g, p)
  <2>1. CASE NonDigit(CharAt(a, p[1])) \/ NonDigit(CharAt(b, p[2]))
    BY <1>7, <1>9, <2>1
  <2>2. CASE ~(NonDigit(CharAt(a, p[1])) \/ NonDigit(CharAt(b, p[2])))
    BY <1>8, <1>9, <2>2 DEF NumberEnd
  <2> QED BY <2>1, <2>2
<1>10. ASSUME NEW p \in D, NEW f \in [D -> BOOLEAN] PROVE Body(f, p) \in BOOLEAN
  <2>1. CASE NonDigit(CharAt(a, p[1])) \/ NonDigit(CharAt(b, p[2]))
    <3>1. CASE char_order(CharAt(a, p[1])) = char_order(CharAt(b, p[2]))
      <4>1. f[<<p[1] + 1, p[2] + 1>>] \in BOOLEAN
        BY <1>7, <2>1, <3>1
      <4>2. Body(f, p) = f[<<p[1] + 1, p[2] + 1>>]
        BY <2>1, <3>1
      <4> HIDE DEF Body
      <4> QED BY <4>1, <4>2
    <3>2. CASE char_order(CharAt(a, p[1])) # char_order(CharAt(b, p[2]))
      <4>1. Body(f, p) = (char_order(CharAt(a, p[1])) > char_order(CharAt(b, p[2])))
        BY <2>1, <3>2
      <4> HIDE DEF Body
      <4> QED BY <4>1
    <3> QED BY <3>1, <3>2
  <2>2. CASE ~(NonDigit(CharAt(a, p[1])) \/ NonDigit(CharAt(b, p[2])))
    <3> DEFINE na == SkipZeroes(a, p[1])
               nb == SkipZeroes(b, p[2])
               ea == SkipDigits(a, na)
               eb == SkipDigits(b, nb)
               Differ(k) == a[na + k] # b[nb + k]
    <3>1. \/ Body(f, p) = (ea - na > eb - nb)
          \/ Body(f, p) = \E k \in 0..(ea - na - 1) : /\ a[na + k] > b[nb + k]
                                                     /\ \A h \in 0..(k - 1) : ~Differ(h)
          \/ Body(f, p) = ((ea <= Len(a) \/ eb <= Len(b)) /\ f[<<ea, eb>>])
      BY <2>2
    <3> HIDE DEF Body, na, nb, ea, eb
    <3>2. CASE Body(f, p) = (ea - na > eb - nb)
      BY <3>2
    <3>3. CASE Body(f, p) = \E k \in 0..(ea - na - 1) :
                              /\ a[na + k] > b[nb + k]
                              /\ \A h \in 0..(k - 1) : ~Differ(h)
      BY <3>3
    <3>4. CASE Body(f, p) = ((ea <= Len(a) \/ eb <= Len(b)) /\ f[<<ea, eb>>])
      BY <3>4
    <3> QED BY <3>1, <3>2, <3>3, <3>4
  <2> QED BY <2>1, <2>2
<1>11. Recursion(D, BOOLEAN, mu, step)
  <2> HIDE DEF Body
  <2>1. step \in [D \X [D -> BOOLEAN] -> BOOLEAN]
    BY <1>10
  <2>2. ASSUME NEW p \in D, NEW f \in [D -> BOOLEAN], NEW g \in [D -> BOOLEAN],
               \A q \in D : mu[q] < mu[p] => f[q] = g[q]
        PROVE  step[<<p, f>>] = step[<<p, g>>]
    BY <1>9, <2>2
  <2> HIDE DEF step
  <2> QED BY <1>6, <2>1, <2>2 DEF Recursion
<1> DEFINE newer == CHOOSE f : f = [p \in D |-> Body(f, p)]
<1>12. newer = [p \in D |-> Body(newer, p)]
  <2>1. PICK f \in [D -> BOOLEAN] : \A p \in D : f[p] = step[<<p, f>>]
    <3> HIDE DEF step
    <3> QED BY <1>11, RecursiveFunction
  <2> HIDE DEF Body
  <2>2. f = [p \in D |-> Body(f, p)]
    BY <2>1
  <2> QED BY <2>2, Zenon
<1>13. newer_than(a, b) = newer[<<1, 1>>]
  BY Zenon DEF newer_than, D
<1> HIDE DEF newer
\* What is left of the versions compares as what is left of their keys.
<1> DEFINE T == {p \in D : newer[p] <=> Greater(K[p[1]], L[p[2]])}
<1>14. ASSUME NEW p \in D, \A q \in D : mu[q] < mu[p] => q \in T
       PROVE  Body(newer, p) <=> Greater(K[p[1]], L[p[2]])
  <2>1. CASE NonDigit(CharAt(a, p[1])) \/ NonDigit(CharAt(b, p[2]))
    <3>1. CASE char_order(CharAt(a, p[1])) # char_order(CharAt(b, p[2]))
      <4>1. Greater(K[p[1]], L[p[2]])
              <=> char_order(CharAt(a, p[1])) > char_order(CharAt(b, p[2]))
        BY <1>2, <1>3, <1>4, <2>1, <3>1, CharacterStep
      <4> QED BY <2>1, <3>1, <4>1
    <3>2. CASE char_order(CharAt(a, p[1])) = char_order(CharAt(b, p[2]))
      <4>1. newer[<<p[1] + 1, p[2] + 1>>] <=> Greater(K[p[1] + 1], L[p[2] + 1])
        BY <1>7, <1>14, <2>1, <3>2
      <4> QED BY <1>7, <2>1, <3>2, <4>1
    <3> QED BY <3>1, <3>2
  <2>2. CASE ~(NonDigit(CharAt(a, p[1])) \/ NonDigit(CharAt(b, p[2])))
    <3> DEFINE na == SkipZeroes(a, p[1])
               nb == SkipZeroes(b, p[2])
               ea == NumberEnd(a, p[1])
               eb == NumberEnd(b, p[2])
               m == Number(a, p[1], ea)
               n == Number(b, p[2], eb)
               Differ(k) == a[na + k] # b[nb + k]
    <3>1. /\ m \in Nat /\ n \in Nat
          /\ Greater(K[p[1]], L[p[2]]) <=> m > n \/ (m = n /\ Greater(K[ea], L[eb]))
      BY <1>2, <1>3, <1>4, <2>2, NumberStep
    <3>2. /\ ea - na # eb - nb => m # n /\ (m > n <=> ea - na > eb - nb)
          /\ ea - na = eb - nb /\ (\E k \in 0..(ea - na - 1) : Differ(k)) =>
               /\ m # n
               /\ m > n <=> \E k \in 0..(ea - na - 1) :
                              /\ a[na + k] > b[nb + k]
                              /\ \A h \in 0..(k - 1) : ~Differ(h)
          /\ ea - na = eb - nb /\ ~(\E k \in 0..(ea - na - 1) : Differ(k)) => m = n
      BY <1>4, <2>2, NumbersCompared
    <3>3. Body(newer, p) <=>
            IF ea - na # eb - nb THEN ea - na > eb - nb
            ELSE IF \E k \in 0..(ea - na - 1) : Differ(k)
            THEN \E k \in 0..(ea - na - 1) :
                   /\ a[na + k] > b[nb + k]
                   /\ \A h \in 0..(k - 1) : ~Differ(h)
            ELSE (ea <= Len(a) \/ eb <= Len(b)) /\ newer[<<ea, eb>>]
      BY <2>2 DEF NumberEnd
    <3>4. CASE ea - na # eb - nb
      <4>1. Body(newer, p) <=> ea - na > eb - nb
        BY <3>3, <3>4
      <4> HIDE DEF Body, m, n, ea, eb, na, nb
      <4> QED BY <3>1, <3>2, <3>4, <4>1
    <3>5. CASE ea - na = eb - nb /\ \E k \in 0..(ea - na - 1) : Differ(k)
      <4> HIDE DEF Body, m, n, ea, eb, na, nb
      <4> QED BY <3>1, <3>2, <3>3, <3>5
    <3>6. CASE ea - na = eb - nb /\ ~(\E k \in 0..(ea - na - 1) : Differ(k))
      <4>1. m = n
        BY <3>2, <3>6
      <4>2. Body(newer, p) <=> (ea <= Len(a) \/ eb <= Len(b)) /\ newer[<<ea, eb>>]
        <5> HIDE DEF Body, m, n, ea, eb, na, nb
        <5> QED BY <3>3, <3>6
      <4>3. CASE ea <= Len(a) \/ eb <= Len(b)
        <5>1. <<ea, eb>> \in D /\ <<ea, eb>> \in T
          BY <1>8, <1>14, <2>2, <4>3
        <5>2. newer[<<ea, eb>>] <=> Greater(K[ea], L[eb])
          BY <5>1
        <5> HIDE DEF Body, m, n, ea, eb, na, nb
        <5> QED BY <3>1, <4>1, <4>2, <4>3, <5>2
      <4>4. CASE ~(ea <= Len(a) \/ eb <= Len(b))
        <5>1. ea \in p[1]..(Len(a) + 1) /\ eb \in p[2]..(Len(b) + 1)
          BY <1>4, <2>2, NumberAt
        <5>2. ea = Len(a) + 1 /\ eb = Len(b) + 1
          <6> HIDE DEF ea, eb
          <6> QED BY <1>1, <1>4, <4>4, <5>1
        <5>3. K[ea] = <<>> /\ L[eb] = <<>>
          <6> HIDE DEF ea, eb
          <6> QED BY <1>2, <1>3, <5>2 DEF IsKey
        <5>4. ~Greater(<<>>, <<>>)
          BY DEF Greater
        <5>5. ~Greater(K[ea], L[eb])
          BY <5>3, <5>4
        <5> HIDE DEF Body, m, n, ea, eb, na, nb
        <5> QED BY <3>1, <4>1, <4>2, <4>4, <5>5
      <4> QED BY <4>3, <4>4
    <3> QED BY <3>4, <3>5, <3>6
  <2> QED BY <2>1, <2>2
<1>15. ASSUME NEW p \in D, \A q \in D : mu[q] < mu[p] => q \in T PROVE p \in T
  <2>1. Body(newer, p) <=> Greater(K[p[1]], L[p[2]])
    BY <1>14, <1>15
  <2> HIDE DEF Body
  <2> QED BY <1>12, <2>1
<1>16. \A p \in D : p \in T
  <2> HIDE DEF T
  <2> QED BY <1>6, <1>15, MeasureInduction
<1>17. <<1, 1>> \in D
  BY <1>1 DEF D
<1>18. newer[<<1, 1>>] <=> Greater(K[1], L[1])
  BY <1>16, <1>17
<1> QED BY <1>2, <1>3, <1>13, <1>18

-------------------------------------------------------------------------------
(* What the order is good for                                              *)

\* No key is greater than itself, and no two are greater than each other.
THEOREM GreaterAsymmetric ==
  ASSUME NEW k \in Keys, NEW l \in Keys, Greater(k, l)
  PROVE  ~Greater(l, k)
<1> SUFFICES ASSUME Greater(l, k) PROVE FALSE
  OBVIOUS
<1>1. PICK i \in 1..(Len(k) + Len(l)) :
        /\ KeyAt(k, i) > KeyAt(l, i)
        /\ \A h \in 1..(i - 1) : KeyAt(k, h) = KeyAt(l, h)
  BY DEF Greater
<1>2. PICK j \in 1..(Len(l) + Len(k)) :
        /\ KeyAt(l, j) > KeyAt(k, j)
        /\ \A h \in 1..(j - 1) : KeyAt(l, h) = KeyAt(k, h)
  BY DEF Greater
<1>3. i \in Nat /\ j \in Nat /\ i >= 1 /\ j >= 1
  BY <1>1, <1>2 DEF Keys
<1>4. /\ KeyAt(k, i) \in Int /\ KeyAt(l, i) \in Int
      /\ KeyAt(k, j) \in Int /\ KeyAt(l, j) \in Int
  BY <1>3, KeyAtInt
<1>5. CASE i < j
  BY <1>1, <1>2, <1>3, <1>4, <1>5
<1>6. CASE j < i
  BY <1>1, <1>2, <1>3, <1>4, <1>6
<1>7. CASE i = j
  BY <1>1, <1>2, <1>4, <1>7
<1> QED BY <1>3, <1>5, <1>6, <1>7

\* The order of keys is transitive.
THEOREM GreaterTransitive ==
  ASSUME NEW k \in Keys, NEW l \in Keys, NEW n \in Keys,
         Greater(k, l), Greater(l, n)
  PROVE  Greater(k, n)
<1>1. PICK i \in 1..(Len(k) + Len(l)) :
        /\ KeyAt(k, i) > KeyAt(l, i)
        /\ \A h \in 1..(i - 1) : KeyAt(k, h) = KeyAt(l, h)
  BY DEF Greater
<1>2. PICK j \in 1..(Len(l) + Len(n)) :
        /\ KeyAt(l, j) > KeyAt(n, j)
        /\ \A h \in 1..(j - 1) : KeyAt(l, h) = KeyAt(n, h)
  BY DEF Greater
<1>3. i \in Nat /\ j \in Nat /\ i >= 1 /\ j >= 1
  BY <1>1, <1>2 DEF Keys
<1>4. PICK p \in Int : p >= 1 /\ p <= i /\ p <= j /\ (p = i \/ p = j)
  <2>1. i <= j \/ j <= i
    BY <1>3
  <2> QED BY <1>3, <2>1
<1>5. KeyAt(k, p) \in Int /\ KeyAt(l, p) \in Int /\ KeyAt(n, p) \in Int
  BY <1>4, KeyAtInt
<1>6. KeyAt(k, p) >= KeyAt(l, p)
  BY <1>1, <1>3, <1>4, <1>5
<1>7. KeyAt(l, p) >= KeyAt(n, p)
  BY <1>2, <1>3, <1>4, <1>5
<1>8. KeyAt(k, p) > KeyAt(n, p)
  BY <1>1, <1>2, <1>4, <1>5, <1>6, <1>7
<1>9. \A h \in 1..(p - 1) : KeyAt(k, h) = KeyAt(n, h)
  BY <1>1, <1>2, <1>3, <1>4
<1>10. p \in 1..(Len(k) + Len(n))
  <2>1. \A q \in Int : /\ KeyAt(k, q) # 0 => q \in 1..Len(k)
                       /\ KeyAt(n, q) # 0 => q \in 1..Len(n)
    BY KeyAtInt
  <2>2. p \in 1..Len(k) \/ p \in 1..Len(n)
    BY <1>4, <1>5, <1>8, <2>1
  <2> QED BY <2>2 DEF Keys
<1> QED BY <1>8, <1>9, <1>10 DEF Greater

\* Two nodes do not upgrade to each other's firmware.
THEOREM NewerAsymmetric ==
  ASSUME NEW a \in CString, NEW b \in CString, newer_than(a, b)
  PROVE  ~newer_than(b, a)
<1>1. Key(a) \in Keys /\ Key(b) \in Keys
  BY KeyType
<1>2. Greater(Key(a), Key(b))
  BY NewerIsGreater
<1> QED BY <1>1, <1>2, GreaterAsymmetric, NewerIsGreater

\* A chain of upgrades, each to a version newer than the one before, never comes back.
THEOREM NewerTransitive ==
  ASSUME NEW a \in CString, NEW b \in CString, NEW c \in CString,
         newer_than(a, b), newer_than(b, c)
  PROVE  newer_than(a, c)
<1>1. Key(a) \in Keys /\ Key(b) \in Keys /\ Key(c) \in Keys
  BY KeyType
<1>2. Greater(Key(a), Key(b)) /\ Greater(Key(b), Key(c))
  BY NewerIsGreater
<1> QED BY <1>1, <1>2, GreaterTransitive, NewerIsGreater
===============================================================================
