--------------------------- MODULE Resources_proofs ---------------------------
(***************************************************************************)
(* Proofs about the local owners of resources and work, for any bounds and *)
(* any consumers, viewers and contents: the cache of bytes, the artifacts, *)
(* the files and jobs, the scope, the calls of an RPC client, the          *)
(* reconciler, the session of a transport and the flow of frames through a *)
(* callback; and of all of them together.                                  *)
(***************************************************************************)
EXTENDS MCResources, FiniteSetTheorems, SequenceTheorems, WellFoundedInduction, TLAPS

\* A set of natural numbers with a member has a least one.
LEMMA Least ==
  ASSUME NEW T \in SUBSET Nat, T # {}
  PROVE  \E x \in T : \A y \in T : x <= y
<1> DEFINE R == OpToRel(<, Nat)
<1>1. IsWellFoundedOn(R, Nat)
  BY NatLessThanWellFounded
<1>2. R = {ss \in Nat \X Nat : ss[1] < ss[2]}
  BY DEF OpToRel
<1>3. \A a, b \in Nat : a < b => <<a, b>> \in R
  BY <1>2
<1> HIDE DEF R
<1>4. PICK x \in T : \A y \in T : ~(<<y, x>> \in R)
  BY <1>1, WFMin
<1>5. \A y \in T : x <= y
  <2> TAKE y \in T
  <2>1. y \in Nat /\ x \in Nat
    OBVIOUS
  <2>2. ~(y < x)
    BY <1>3, <1>4, <2>1
  <2> QED BY <2>1, <2>2
<1> QED BY <1>5

\* A set that has 0 and is closed under the successor has every natural number.
LEMMA Induction ==
  ASSUME NEW S, 0 \in S, \A n \in Nat : n \in S => n + 1 \in S
  PROVE  Nat \subseteq S
<1> SUFFICES ASSUME Nat \ S # {} PROVE FALSE
  OBVIOUS
<1>1. PICK x \in Nat \ S : \A y \in Nat \ S : x <= y
  BY Least
<1>2. x # 0 /\ x - 1 \in Nat
  OBVIOUS
<1>3. x - 1 \in S
  BY <1>1, <1>2
<1>4. (x - 1) + 1 = x
  OBVIOUS
<1> QED BY <1>2, <1>3, <1>4

-----------------------------------------------------------------------------
(* The cache of artifact bytes *)

\* The sums over a sequence of contents, prefix by prefix.
LEMMA SumsOfStep ==
  ASSUME Cache!CacheAssumption, NEW s \in Seq(Hashes)
  PROVE  /\ Cache!SumsOf(s) \in [0..Len(s) -> Nat]
         /\ Cache!SumsOf(s)[0] = 0
         /\ \A n \in 1..Len(s) : Cache!SumsOf(s)[n] = Cache!SumsOf(s)[n - 1] + SizeOf[s[n]]
<1> DEFINE Adds(f, k) == f = [n \in 0..k |-> IF n = 0 THEN 0 ELSE f[n - 1] + SizeOf[s[n]]]
           Sums == {k \in Nat : k <= Len(s) => \E f : Adds(f, k) /\ f \in [0..k -> Nat]}
<1>0. Len(s) \in Nat /\ \A n \in 1..Len(s) : SizeOf[s[n]] \in Nat
  BY DEF Cache!CacheAssumption
<1> HIDE DEF Adds
<1>1. 0 \in Sums
  <2> DEFINE f == [n \in 0..0 |-> 0]
  <2>1. Adds(f, 0) /\ f \in [0..0 -> Nat]
    BY DEF Adds
  <2> QED BY <2>1
<1>2. ASSUME NEW k \in Nat, k \in Sums PROVE k + 1 \in Sums
  <2> SUFFICES ASSUME k + 1 <= Len(s) PROVE \E f : Adds(f, k + 1) /\ f \in [0..(k + 1) -> Nat]
    OBVIOUS
  <2>1. PICK f : Adds(f, k) /\ f \in [0..k -> Nat]
    BY <1>0, <1>2
  <2> DEFINE g == [n \in 0..(k + 1) |-> IF n = k + 1 THEN f[k] + SizeOf[s[k + 1]] ELSE f[n]]
  <2>2. SizeOf[s[k + 1]] \in Nat /\ f[k] \in Nat
    BY <1>0, <2>1
  <2>3. g \in [0..(k + 1) -> Nat]
    BY <2>1, <2>2
  <2>4. \A n \in 0..k : g[n] = f[n]
    OBVIOUS
  <2>5. \A n \in 0..k : f[n] = IF n = 0 THEN 0 ELSE f[n - 1] + SizeOf[s[n]]
    BY <2>1 DEF Adds
  <2>6. \A n \in 0..(k + 1) : g[n] = IF n = 0 THEN 0 ELSE g[n - 1] + SizeOf[s[n]]
    <3> TAKE n \in 0..(k + 1)
    <3>1. CASE n = k + 1
      BY <3>1
    <3>2. CASE n \in 1..k
      <4>1. n - 1 \in 0..k /\ n \in 0..k
        BY <3>2
      <4> QED BY <2>4, <2>5, <3>2, <4>1
    <3>3. CASE n = 0
      BY <2>4, <2>5, <3>3
    <3> QED BY <3>1, <3>2, <3>3
  <2> HIDE DEF g
  <2>7. Adds(g, k + 1)
    BY <2>3, <2>6 DEF Adds
  <2> QED BY <2>3, <2>7
<1>3. Len(s) \in Sums
  <2> HIDE DEF Sums
  <2> QED BY <1>0, <1>1, <1>2, Induction
<1>4. PICK f : Adds(f, Len(s)) /\ f \in [0..Len(s) -> Nat]
  BY <1>0, <1>3
<1>5. Adds(Cache!SumsOf(s), Len(s))
  BY <1>4 DEF Adds, Cache!SumsOf
<1> DEFINE S == Cache!SumsOf(s)
<1> HIDE DEF S
<1>6. \A n \in 0..Len(s) : S[n] = IF n = 0 THEN 0 ELSE S[n - 1] + SizeOf[s[n]]
  BY <1>5 DEF Adds, S
<1>7. S[0] = 0 /\ \A n \in 1..Len(s) : S[n] = S[n - 1] + SizeOf[s[n]]
  BY <1>0, <1>6
<1> DEFINE Natural == {k \in Nat : k <= Len(s) => S[k] \in Nat}
<1>8. ASSUME NEW k \in Nat, k \in Natural PROVE k + 1 \in Natural
  BY <1>0, <1>7, <1>8
<1>9. Nat \subseteq Natural
  <2>1. 0 \in Natural
    BY <1>7
  <2> HIDE DEF Natural
  <2> QED BY <1>8, <2>1, Induction
<1>10. DOMAIN S = 0..Len(s) /\ S = [n \in 0..Len(s) |-> S[n]]
  BY <1>5 DEF Adds, S
<1>11. \A n \in 0..Len(s) : S[n] \in Nat
  BY <1>0, <1>9
<1>12. S \in [0..Len(s) -> Nat]
  BY <1>10, <1>11
<1> QED BY <1>7, <1>12 DEF S

\* Equal segments at different places add up to the same.
LEMMA SegmentsAgree ==
  ASSUME Cache!CacheAssumption, NEW s \in Seq(Hashes), NEW u \in Seq(Hashes),
         NEW m \in Nat, NEW a \in m..Len(u), NEW n \in Nat, NEW b \in n..Len(s), a - m = b - n,
         \A j \in 1..(a - m) : u[m + j] = s[n + j]
  PROVE  Cache!SumsOf(u)[a] - Cache!SumsOf(u)[m] = Cache!SumsOf(s)[b] - Cache!SumsOf(s)[n]
<1> DEFINE k == a - m
           S == Cache!SumsOf(s)
           U == Cache!SumsOf(u)
           Same == {j \in Nat : j <= k => U[m + j] - U[m] = S[n + j] - S[n]}
<1>0. Len(s) \in Nat /\ Len(u) \in Nat /\ k \in Nat /\ a = m + k /\ b = n + k
  OBVIOUS
<1>1. /\ S \in [0..Len(s) -> Nat] /\ \A j \in 1..Len(s) : S[j] = S[j - 1] + SizeOf[s[j]]
      /\ U \in [0..Len(u) -> Nat] /\ \A j \in 1..Len(u) : U[j] = U[j - 1] + SizeOf[u[j]]
  BY SumsOfStep
<1> HIDE DEF S, U
<1>2. \A j \in 0..k : U[m + j] \in Nat /\ S[n + j] \in Nat
  <2> TAKE j \in 0..k
  <2>1. m + j \in 0..Len(u) /\ n + j \in 0..Len(s)
    BY <1>0
  <2> QED BY <1>1, <2>1
<1>3. 0 \in Same
  <2>1. m + 0 = m /\ n + 0 = n
    OBVIOUS
  <2>2. U[m] \in Nat /\ S[n] \in Nat
    BY <1>0, <1>2, <2>1
  <2> QED BY <2>1, <2>2
<1>4. ASSUME NEW j \in Nat, j \in Same PROVE j + 1 \in Same
  <2> SUFFICES ASSUME j + 1 <= k PROVE U[m + (j + 1)] - U[m] = S[n + (j + 1)] - S[n]
    OBVIOUS
  <2>1. U[m + j] - U[m] = S[n + j] - S[n]
    BY <1>0, <1>4
  <2>2. m + (j + 1) \in 1..Len(u) /\ n + (j + 1) \in 1..Len(s) /\ (j + 1) \in 1..k
    BY SMTT(30), <1>0
  <2>3. m + (j + 1) - 1 = m + j /\ n + (j + 1) - 1 = n + j
    OBVIOUS
  <2>4. u[m + (j + 1)] = s[n + (j + 1)]
    BY <2>2
  <2> DEFINE size == SizeOf[s[n + (j + 1)]]
  <2>5. U[m + (j + 1)] = U[m + j] + size /\ S[n + (j + 1)] = S[n + j] + size
    BY <1>1, <2>2, <2>3, <2>4
  <2>6. size \in Nat
    <3>1. s[n + (j + 1)] \in Hashes
      BY <2>2
    <3> QED BY <3>1 DEF Cache!CacheAssumption
  <2>7. U[m + j] \in Nat /\ S[n + j] \in Nat
    BY <1>0, <1>2
  <2>8. U[m + 0] \in Nat /\ S[n + 0] \in Nat /\ m + 0 = m /\ n + 0 = n
    BY <1>0, <1>2
  <2>9. U[m] \in Nat /\ S[n] \in Nat
    BY <2>8
  <2> HIDE DEF size, Same, k
  <2>10. (U[m + j] + size) - U[m] = (S[n + j] + size) - S[n]
    <3> DEFINE w == U[m + j]
               x == U[m]
               y == S[n + j]
               z == S[n]
    <3>1. w - x = y - z /\ w \in Nat /\ x \in Nat /\ y \in Nat /\ z \in Nat
      BY <2>1, <2>7, <2>9
    <3> HIDE DEF w, x, y, z
    <3>2. (w + size) - x = (y + size) - z
      BY <2>6, <3>1
    <3> QED BY <3>2 DEF w, x, y, z
  <2> QED BY <2>5, <2>10
<1>5. k \in Same
  <2> HIDE DEF Same
  <2> QED BY <1>0, <1>3, <1>4, Induction
<1>6. U[m + k] - U[m] = S[n + k] - S[n]
  BY <1>0, <1>5
<1> QED BY <1>0, <1>6 DEF S, U

\* Equal prefixes have equal sums.
LEMMA PrefixesAgree ==
  ASSUME Cache!CacheAssumption, NEW s \in Seq(Hashes), NEW u \in Seq(Hashes),
         NEW a \in 0..Len(u), a <= Len(s), \A j \in 1..a : u[j] = s[j]
  PROVE  Cache!SumsOf(u)[a] = Cache!SumsOf(s)[a]
<1> DEFINE S == Cache!SumsOf(s)
           U == Cache!SumsOf(u)
<1>1. S[0] = 0 /\ U[0] = 0 /\ S \in [0..Len(s) -> Nat] /\ U \in [0..Len(u) -> Nat]
  BY SumsOfStep
<1> HIDE DEF S, U
<1>2. a \in Nat /\ Len(s) \in Nat /\ Len(u) \in Nat
  OBVIOUS
<1>3. ASSUME NEW z \in Nat, z = 0 PROVE U[a] - U[z] = S[a] - S[z]
  <2>1. a \in z..Len(u) /\ a \in z..Len(s)
    BY <1>2, <1>3
  <2>2. \A j \in 1..(a - z) : u[z + j] = s[z + j]
    BY <1>2, <1>3
  <2> QED BY <2>1, <2>2, SegmentsAgree DEF S, U
<1>4. U[a] \in Nat /\ S[a] \in Nat
  BY <1>1, <1>2
<1>5. U[a] - 0 = S[a] - 0
  BY <1>1, <1>3
<1> QED BY <1>4, <1>5 DEF S, U

\* A content added to a sequence, and a content moved to its end.
LEMMA SumOfAppend ==
  ASSUME Cache!CacheAssumption, NEW s \in Seq(Hashes), NEW h \in Hashes
  PROVE  Cache!SumOf(Append(s, h)) = Cache!SumOf(s) + SizeOf[h]
<1> DEFINE u == Append(s, h)
<1>1. /\ u \in Seq(Hashes) /\ Len(s) \in Nat /\ Len(u) = Len(s) + 1 /\ u[Len(s) + 1] = h
      /\ \A j \in 1..Len(s) : u[j] = s[j]
  OBVIOUS
<1> DEFINE S == Cache!SumsOf(s)
           U == Cache!SumsOf(u)
<1> HIDE DEF u
<1>2. U[Len(s)] = S[Len(s)]
  BY <1>1, PrefixesAgree
<1>3. /\ S \in [0..Len(s) -> Nat] /\ S[0] = 0 /\ U \in [0..Len(u) -> Nat] /\ U[0] = 0
      /\ U[Len(s) + 1] = U[Len(s) + 1 - 1] + SizeOf[h]
  BY <1>1, SumsOfStep
<1> HIDE DEF S, U
<1>4. U[Len(u)] = S[Len(s)] + SizeOf[h]
  BY <1>1, <1>2, <1>3
<1> QED BY <1>4 DEF S, U, u, Cache!SumOf

\* A content that moves to the end leaves the sum as it is.
LEMMA SumOfTouched ==
  ASSUME Cache!CacheAssumption, cached \in Seq(Hashes), Cache!IsInjective(cached),
         NEW h \in Hashes, Cache!Holds(h)
  PROVE  /\ Cache!Touched(h) \in Seq(Hashes) /\ Cache!IsInjective(Cache!Touched(h))
         /\ Len(Cache!Touched(h)) = Len(cached) /\ Cache!ToSet(Cache!Touched(h)) = Cache!ToSet(cached)
         /\ Cache!SumOf(Cache!Touched(h)) = Cache!SumOf(cached)
<1> DEFINE i == CHOOSE j \in DOMAIN cached : cached[j] = h
           u == Cache!Touched(h)
           n == Len(cached)
<1>1. i \in 1..n /\ cached[i] = h /\ n \in Nat
  BY DEF Cache!Holds, Cache!ToSet
<1>2. u = Append(SubSeq(cached, 1, i - 1) \o SubSeq(cached, i + 1, n), h)
  BY DEF Cache!Touched, Cache!RemoveAt
<1> HIDE DEF i, u
<1>3. /\ SubSeq(cached, 1, i - 1) \in Seq(Hashes) /\ Len(SubSeq(cached, 1, i - 1)) = i - 1
      /\ SubSeq(cached, i + 1, n) \in Seq(Hashes) /\ Len(SubSeq(cached, i + 1, n)) = n - i
      /\ \A j \in 1..(i - 1) : SubSeq(cached, 1, i - 1)[j] = cached[j]
      /\ \A j \in 1..(n - i) : SubSeq(cached, i + 1, n)[j] = cached[i + j]
  BY <1>1
<1> DEFINE rest == SubSeq(cached, 1, i - 1) \o SubSeq(cached, i + 1, n)
<1>4. /\ rest \in Seq(Hashes) /\ Len(rest) = n - 1
      /\ \A j \in 1..(i - 1) : rest[j] = cached[j]
      /\ \A j \in i..(n - 1) : rest[j] = cached[j + 1]
  <2> HIDE DEF n
  <2>1. \A j \in i..(n - 1) : j - (i - 1) \in 1..(n - i) /\ i + (j - (i - 1)) = j + 1
    BY <1>1
  <2> QED BY <1>1, <1>3, <2>1
<1> HIDE DEF rest
<1>5. /\ u \in Seq(Hashes) /\ Len(u) = n /\ u[n] = h
      /\ \A j \in 1..(i - 1) : u[j] = cached[j]
      /\ \A j \in i..(n - 1) : u[j] = cached[j + 1]
  <2>1. u = Append(rest, h)
    BY <1>2 DEF rest
  <2> QED BY <1>1, <1>4, <2>1
<1> DEFINE from(j) == IF j < i THEN j ELSE IF j = n THEN i ELSE j + 1
<1>6. \A j \in 1..n : from(j) \in 1..n /\ u[j] = cached[from(j)]
  BY <1>1, <1>5
<1>7. \A j, k \in 1..n : from(j) = from(k) => j = k
  BY <1>1
<1>8. \A j \in 1..n : \E k \in 1..n : from(k) = j
  <2> TAKE j \in 1..n
  <2> DEFINE k == IF j < i THEN j ELSE IF j = i THEN n ELSE j - 1
  <2>1. k \in 1..n /\ from(k) = j
    BY <1>1
  <2> QED BY <2>1
<1> HIDE DEF from
<1>9. Cache!IsInjective(u)
  BY <1>5, <1>6, <1>7 DEF Cache!IsInjective
<1>10. Cache!ToSet(u) = Cache!ToSet(cached)
  <2>1. Cache!ToSet(u) \subseteq Cache!ToSet(cached)
    BY <1>5, <1>6 DEF Cache!ToSet
  <2>2. ASSUME NEW j \in 1..n PROVE cached[j] \in Cache!ToSet(u)
    <3>1. PICK k \in 1..n : from(k) = j
      BY <1>8
    <3> QED BY <1>5, <1>6, <3>1 DEF Cache!ToSet
  <2>3. DOMAIN cached = 1..n
    OBVIOUS
  <2> QED BY <2>1, <2>2, <2>3 DEF Cache!ToSet
<1> DEFINE S == Cache!SumsOf(cached)
           U == Cache!SumsOf(u)
<1>11. S \in [0..n -> Nat] /\ S[0] = 0 /\ S[i] = S[i - 1] + SizeOf[h]
  BY <1>1, SumsOfStep
<1>12. U \in [0..n -> Nat] /\ U[0] = 0 /\ U[n] = U[n - 1] + SizeOf[h]
  <2>1. n \in 1..Len(u)
    BY <1>1, <1>5
  <2> QED BY <1>5, <2>1, SumsOfStep
<1>13. U[i - 1] = S[i - 1]
  BY <1>1, <1>5, PrefixesAgree
<1>14. U[n - 1] - U[i - 1] = S[n] - S[i]
  <2>1. /\ i - 1 \in Nat /\ n - 1 \in (i - 1)..Len(u) /\ i \in Nat /\ n \in i..Len(cached)
        /\ (n - 1) - (i - 1) = n - i
    BY <1>1, <1>5
  <2>2. \A j \in 1..((n - 1) - (i - 1)) : u[(i - 1) + j] = cached[i + j]
    <3> TAKE j \in 1..((n - 1) - (i - 1))
    <3>1. (i - 1) + j \in i..(n - 1) /\ (i - 1) + j + 1 = i + j
      BY <1>1
    <3> QED BY <1>5, <3>1
  <2> HIDE DEF S, U, n
  <2> QED BY <1>5, <2>1, <2>2, SegmentsAgree DEF S, U
<1> HIDE DEF S, U, n
<1>15. U[n] = S[n]
  <2>2. {i - 1, i, n, n - 1} \subseteq 0..n
    BY <1>1
  <2>3. /\ U[i - 1] \in Nat /\ U[n - 1] \in Nat /\ U[n] \in Nat
        /\ S[i - 1] \in Nat /\ S[i] \in Nat /\ S[n] \in Nat
    BY <1>11, <1>12, <2>2
  <2>4. SizeOf[h] \in Nat
    BY DEF Cache!CacheAssumption
  <2> QED BY SMTT(30), <1>11, <1>12, <1>13, <1>14, <2>3, <2>4
<1>16. Cache!SumOf(u) = Cache!SumOf(cached)
  BY <1>5, <1>15 DEF Cache!SumOf, S, U, n
<1> QED BY <1>5, <1>9, <1>10, <1>16 DEF u, n

\* What an eviction leaves, and what goes with it.
LEMMA DroppedSuffices ==
  ASSUME Cache!CacheAssumption, NEW s \in Seq(Hashes), NEW total \in Nat
  PROVE  /\ Cache!Dropped(s, total) \in 0..Len(s)
         /\ Cache!Suffices(s, total, Cache!Dropped(s, total))
         /\ s # <<>> => Cache!Dropped(s, total) < Len(s)
<1> DEFINE n == Cache!Dropped(s, total)
           T == {m \in 0..Len(s) : Cache!Suffices(s, total, m)}
<1>1. Len(s) \in Nat
  OBVIOUS
<1>2. Cache!Suffices(s, total, Len(s)) /\ Cache!Suffices(s, total, Len(s) - 1)
  BY <1>1 DEF Cache!Suffices
<1>3. PICK x \in T : \A y \in T : x <= y
  <2>1. Len(s) \in T /\ T \subseteq Nat
    BY <1>1, <1>2
  <2> HIDE DEF T
  <2> QED BY <2>1, Least
<1>4. /\ n \in 0..Len(s) /\ Cache!Suffices(s, total, n)
      /\ \A m \in 0..(n - 1) : ~Cache!Suffices(s, total, m)
  <2>1. \A m \in 0..(x - 1) : ~Cache!Suffices(s, total, m)
    <3> SUFFICES ASSUME NEW m \in 0..(x - 1), Cache!Suffices(s, total, m) PROVE FALSE
      OBVIOUS
    <3>1. m \in T /\ m < x /\ x \in Nat
      BY <1>1, <1>3
    <3> QED BY <1>3, <3>1
  <2> QED BY <1>3, <2>1 DEF Cache!Dropped
<1> HIDE DEF n
<1>5. ASSUME s # <<>> PROVE n < Len(s)
  <2>1. Len(s) - 1 \in Nat
    BY <1>1, <1>5
  <2> QED BY <1>1, <1>2, <1>4, <2>1
<1> QED BY <1>4, <1>5 DEF n

\* What is cut off at the front is the difference of the sums.
LEMMA SumOfRest ==
  ASSUME Cache!CacheAssumption, NEW s \in Seq(Hashes), NEW n \in 0..Len(s)
  PROVE  LET u == SubSeq(s, n + 1, Len(s)) IN
         /\ u \in Seq(Hashes) /\ Len(u) = Len(s) - n /\ \A j \in 1..Len(u) : u[j] = s[n + j]
         /\ Cache!SumOf(u) = Cache!SumOf(s) - Cache!SumsOf(s)[n]
<1> DEFINE u == SubSeq(s, n + 1, Len(s))
           S == Cache!SumsOf(s)
           U == Cache!SumsOf(u)
<1>0. Len(s) \in Nat /\ n \in Nat
  OBVIOUS
<1>1. u \in Seq(Hashes) /\ Len(u) = Len(s) - n /\ \A j \in 1..Len(u) : u[j] = s[n + j]
  BY <1>0
<1> HIDE DEF u
<1>2. U \in [0..Len(u) -> Nat] /\ U[0] = 0 /\ S \in [0..Len(s) -> Nat]
  BY <1>1, SumsOfStep
<1> HIDE DEF S, U
<1>3. ASSUME NEW z \in Nat, z = 0 PROVE U[Len(u)] - U[z] = S[Len(s)] - S[n]
  <2>1. Len(u) \in z..Len(u) /\ Len(s) \in n..Len(s) /\ Len(u) - z = Len(s) - n
    BY <1>0, <1>1, <1>3
  <2>2. \A j \in 1..(Len(u) - z) : u[z + j] = s[n + j]
    BY <1>0, <1>1, <1>3
  <2> QED BY ZenonT(30), <1>0, <1>1, <2>1, <2>2, SegmentsAgree DEF S, U
<1>4. U[Len(u)] - U[0] = S[Len(s)] - S[n]
  BY <1>3
<1>5. U[Len(u)] \in Nat /\ S[Len(s)] \in Nat /\ S[n] \in Nat
  <2>1. Len(u) \in 0..Len(u) /\ Len(s) \in 0..Len(s)
    BY <1>0, <1>1
  <2> QED BY <1>2, <2>1
<1>6. U[Len(u)] = S[Len(s)] - S[n]
  BY <1>2, <1>4, <1>5
<1> QED BY <1>1, <1>6 DEF S, U, u, Cache!SumOf

Trip == [hash : Hashes, generation : Nat, state : {"away", "settled", "over"}]

\* A trip that is not over and of this generation is the one on record for its content,
\* and while it is away the content is not held.
CacheInv ==
    /\ cached \in Seq(Hashes) /\ totalBytes \in Nat /\ generation \in 0..MaxClears
    /\ inflight \in [Hashes -> 0..MaxTrips] /\ trips \in Seq(Trip) /\ Len(trips) <= MaxTrips
    /\ Cache!LedgerIsExact
    /\ \A h \in Hashes : inflight[h] # 0 =>
        /\ inflight[h] \in DOMAIN trips
        /\ trips[inflight[h]].hash = h /\ trips[inflight[h]].state # "over"
    /\ \A t \in DOMAIN trips :
        /\ trips[t].generation <= generation
        /\ trips[t].generation = generation /\ trips[t].state # "over" => inflight[trips[t].hash] = t
        /\ trips[t].generation = generation /\ trips[t].state = "away" => trips[t].hash \notin Cache!ToSet(cached)

\* The empty cache.
LEMMA CacheStarts ==
  ASSUME Cache!CacheAssumption, Cache!Init PROVE CacheInv
<1>1. <<>> \in Seq(Hashes) /\ <<>> \in Seq(Trip) /\ Len(<<>>) = 0
  OBVIOUS
<1>2. Cache!SumOf(<<>>) = 0
  BY <1>1, SumsOfStep DEF Cache!SumOf
<1>3. Cache!LedgerIsExact
  BY <1>1, <1>2 DEF Cache!Init, Cache!LedgerIsExact, Cache!IsInjective, Cache!CacheAssumption
<1> QED BY <1>1, <1>3 DEF Cache!Init, CacheInv, Cache!CacheAssumption

\* A trip goes from one state to the next; nothing else of it changes.
LEMMA TripMoves ==
  ASSUME trips \in Seq(Trip), NEW t \in DOMAIN trips, NEW state \in {"away", "settled", "over"},
         trips' = [trips EXCEPT ![t].state = state]
  PROVE  /\ trips' \in Seq(Trip) /\ DOMAIN trips' = DOMAIN trips /\ Len(trips') = Len(trips)
         /\ \A u \in DOMAIN trips :
                /\ trips'[u].hash = trips[u].hash /\ trips'[u].generation = trips[u].generation
                /\ trips'[u].state = IF u = t THEN state ELSE trips[u].state
<1>1. trips[t] \in Trip
  OBVIOUS
<1>2. [trips[t] EXCEPT !.state = state] \in Trip
  BY <1>1 DEF Trip
<1>3. trips' = [trips EXCEPT ![t] = [trips[t] EXCEPT !.state = state]]
  OBVIOUS
<1>4. trips' \in Seq(Trip) /\ DOMAIN trips' = DOMAIN trips /\ Len(trips') = Len(trips)
  BY <1>2, <1>3
<1>5. \A u \in DOMAIN trips : trips[u] \in Trip
  OBVIOUS
<1> QED BY <1>1, <1>2, <1>3, <1>4, <1>5 DEF Trip

\* A content that is read becomes the newest, or a trip for it begins.
LEMMA CacheGet ==
  ASSUME Cache!CacheAssumption, CacheInv, NEW h \in Hashes, Cache!Get(h) PROVE CacheInv'
<1>1. CASE Cache!Holds(h)
  <2>1. cached' = Cache!Touched(h) /\ UNCHANGED <<totalBytes, inflight, trips, generation>>
    BY <1>1 DEF Cache!Get
  <2>2. cached \in Seq(Hashes) /\ Cache!LedgerIsExact
    BY DEF CacheInv
  <2>3. /\ cached' \in Seq(Hashes) /\ Cache!IsInjective(cached') /\ Len(cached') = Len(cached)
        /\ Cache!ToSet(cached') = Cache!ToSet(cached) /\ Cache!SumOf(cached') = Cache!SumOf(cached)
    BY <1>1, <2>1, <2>2, SumOfTouched DEF Cache!LedgerIsExact
  <2>4. Cache!LedgerIsExact'
    BY <2>1, <2>2, <2>3 DEF Cache!LedgerIsExact
  <2> QED BY <2>1, <2>3, <2>4 DEF CacheInv
<1>2. CASE ~Cache!Holds(h)
  <2> DEFINE n == Len(trips) + 1
             trip == [hash |-> h, generation |-> generation, state |-> "away"]
  <2>1. /\ inflight[h] = 0 /\ Len(trips) < MaxTrips
        /\ trips' = Append(trips, trip)
        /\ inflight' = [inflight EXCEPT ![h] = n]
        /\ UNCHANGED <<cached, totalBytes, generation>>
    BY <1>2 DEF Cache!Get
  <2>2. trips \in Seq(Trip) /\ inflight \in [Hashes -> 0..MaxTrips] /\ generation \in Nat
    BY DEF CacheInv, Cache!CacheAssumption
  <2>3. trip \in Trip /\ trip.hash = h /\ trip.generation = generation /\ trip.state = "away"
    BY <2>2 DEF Trip
  <2> HIDE DEF trip
  <2>4. /\ trips' \in Seq(Trip) /\ Len(trips') = n /\ n \in Nat /\ DOMAIN trips = 1..(n - 1)
        /\ DOMAIN trips' = 1..n
        /\ trips'[n] = trip /\ \A t \in DOMAIN trips : trips'[t] = trips[t]
    BY <2>1, <2>2, <2>3
  <2>5. inflight' \in [Hashes -> 0..MaxTrips] /\ n \in 1..MaxTrips
    BY <2>1, <2>2, <2>4 DEF Cache!CacheAssumption
  <2>6. inflight'[h] = n /\ \A g \in Hashes \ {h} : inflight'[g] = inflight[g]
    BY <2>1, <2>2
  <2> HIDE DEF n
  <2>7. \A t \in DOMAIN trips' : t = n \/ t \in DOMAIN trips
    BY <2>4
  <2>8. n \in DOMAIN trips' /\ \A t \in DOMAIN trips : t \in DOMAIN trips' /\ t # n /\ t # 0
    BY <2>4, <2>5
  <2>9. \A t \in DOMAIN trips : trips[t].generation = generation /\ trips[t].state # "over" => trips[t].hash # h
    BY <2>1, <2>8 DEF CacheInv
  <2>10. \A g \in Hashes : inflight'[g] # 0 =>
            /\ inflight'[g] \in DOMAIN trips'
            /\ trips'[inflight'[g]].hash = g /\ trips'[inflight'[g]].state # "over"
    BY <2>3, <2>4, <2>6, <2>8 DEF CacheInv
  <2>11. \A t \in DOMAIN trips : trips[t].hash \in Hashes
    <3>1. \A t \in DOMAIN trips : trips[t] \in Trip
      BY <2>2
    <3> QED BY <3>1 DEF Trip
  <2>12. ASSUME NEW t \in DOMAIN trips'
         PROVE  /\ trips'[t].generation <= generation'
                /\ trips'[t].generation = generation' /\ trips'[t].state # "over"
                    => inflight'[trips'[t].hash] = t
                /\ trips'[t].generation = generation' /\ trips'[t].state = "away"
                    => trips'[t].hash \notin Cache!ToSet(cached')
    <3>1. CASE t = n
      BY <1>2, <2>1, <2>2, <2>3, <2>4, <2>6, <3>1 DEF Cache!Holds
    <3>2. CASE t \in DOMAIN trips
      <4>1. trips'[t] = trips[t]
        BY <2>4, <3>2
      <4> QED BY <2>1, <2>6, <2>9, <2>11, <3>2, <4>1 DEF CacheInv
    <3> QED BY <2>7, <3>1, <3>2
  <2>13. Cache!LedgerIsExact'
    BY <2>1 DEF CacheInv, Cache!LedgerIsExact
  <2>14. Len(trips') <= MaxTrips
    BY <2>4, <2>5
  <2> QED BY <2>1, <2>4, <2>5, <2>10, <2>12, <2>13, <2>14 DEF CacheInv
<1> QED BY <1>1, <1>2

\* A trip that comes back is cached, and the oldest make room for it.
LEMMA CacheArrives ==
  ASSUME Cache!CacheAssumption, CacheInv, NEW t \in DOMAIN trips, Cache!Arrives(t) PROVE CacheInv'
<1>0. trips \in Seq(Trip) /\ cached \in Seq(Hashes) /\ totalBytes \in Nat
  BY DEF CacheInv
<1>1. /\ trips[t].state = "away" /\ trips' = [trips EXCEPT ![t].state = "settled"]
      /\ UNCHANGED <<inflight, generation>>
  BY DEF Cache!Arrives
<1>2. /\ trips' \in Seq(Trip) /\ DOMAIN trips' = DOMAIN trips /\ Len(trips') = Len(trips)
      /\ \A u \in DOMAIN trips :
            /\ trips'[u].hash = trips[u].hash /\ trips'[u].generation = trips[u].generation
            /\ trips'[u].state = IF u = t THEN "settled" ELSE trips[u].state
  BY <1>0, <1>1, TripMoves
<1>3. trips[t].hash \in Hashes
  <2>1. trips[t] \in Trip
    BY <1>0
  <2> QED BY <2>1 DEF Trip
<1>4. CASE ~Cache!OfThisGeneration(t)
  <2>1. UNCHANGED <<cached, totalBytes>>
    BY <1>4 DEF Cache!Arrives
  <2>2. Cache!LedgerIsExact'
    BY <2>1 DEF CacheInv, Cache!LedgerIsExact
  <2> QED BY <1>1, <1>2, <2>1, <2>2 DEF CacheInv
<1>5. CASE Cache!OfThisGeneration(t)
  <2> DEFINE h == trips[t].hash
             held == Append(cached, h)
             total == totalBytes + SizeOf[h]
             n == Cache!Dropped(held, total)
  <2>1. h \notin Cache!ToSet(cached)
    BY <1>1, <1>5 DEF CacheInv, Cache!OfThisGeneration
  <2>2. /\ cached' = SubSeq(held, n + 1, Len(held))
        /\ totalBytes' = total - Cache!SumsOf(held)[n]
    BY <1>5, <2>1 DEF Cache!Arrives, Cache!Holds
  <2>3. SizeOf[h] \in Nat /\ total \in Nat
    BY <1>0, <1>3 DEF Cache!CacheAssumption
  <2>4. Cache!IsInjective(cached) /\ Cache!SumOf(cached) = totalBytes
    BY DEF CacheInv, Cache!LedgerIsExact
  <2>5. /\ held \in Seq(Hashes) /\ Len(held) = Len(cached) + 1 /\ Len(cached) \in Nat
        /\ held[Len(cached) + 1] = h /\ \A j \in 1..Len(cached) : held[j] = cached[j]
    BY <1>0, <1>3
  <2> HIDE DEF h, held
  <2>6. Cache!SumOf(held) = total
    BY <1>0, <1>3, <2>4, SumOfAppend DEF held, h
  <2>7. n \in 0..Len(held) /\ Cache!Suffices(held, total, n) /\ n < Len(held)
    <3>1. held # <<>>
      BY <2>5
    <3> HIDE DEF total, n
    <3> QED BY <2>3, <2>5, <3>1, DroppedSuffices DEF n
  <2> HIDE DEF n, total
  <2>8. /\ cached' \in Seq(Hashes) /\ Len(cached') = Len(held) - n
        /\ \A j \in 1..Len(cached') : cached'[j] = held[n + j]
        /\ Cache!SumOf(cached') = Cache!SumOf(held) - Cache!SumsOf(held)[n]
    BY <2>2, <2>5, <2>7, SumOfRest
  <2>9. totalBytes' \in Nat /\ Cache!SumOf(cached') = totalBytes'
    <3>1. Cache!SumsOf(cached') \in [0..Len(cached') -> Nat]
      BY <2>8, SumsOfStep
    <3>2. Len(cached') \in 0..Len(cached')
      BY <2>8
    <3> QED BY <2>2, <2>6, <2>8, <3>1, <3>2 DEF Cache!SumOf
  <2>10. Cache!IsInjective(cached')
    <3>1. \A j \in 1..Len(cached) : held[j] # h
      BY <1>0, <2>1, <2>5 DEF Cache!ToSet
    <3>2. \A j, k \in 1..Len(held) : held[j] = held[k] => j = k
      <4> SUFFICES ASSUME NEW j \in 1..Len(held), NEW k \in 1..Len(held), held[j] = held[k] PROVE j = k
        OBVIOUS
      <4>1. CASE j \in 1..Len(cached) /\ k \in 1..Len(cached)
        <5>1. j \in DOMAIN cached /\ k \in DOMAIN cached /\ cached[j] = cached[k]
          BY <1>0, <2>5, <4>1
        <5> QED BY <2>4, <5>1 DEF Cache!IsInjective
      <4>2. CASE j = Len(cached) + 1 /\ k \in 1..Len(cached)
        BY <2>5, <3>1, <4>2
      <4>3. CASE k = Len(cached) + 1 /\ j \in 1..Len(cached)
        BY <2>5, <3>1, <4>3
      <4> QED BY <2>5, <4>1, <4>2, <4>3
    <3>3. \A j \in 1..Len(cached') : n + j \in 1..Len(held)
      BY <2>5, <2>7, <2>8
    <3>4. DOMAIN cached' = 1..Len(cached')
      BY <2>8
    <3>5. \A j, k \in 1..Len(cached') : n + j = n + k => j = k
      BY <2>5, <2>7
    <3> QED BY <2>8, <3>2, <3>3, <3>4, <3>5 DEF Cache!IsInjective
  <2>11. totalBytes' <= MaxBytes \/ Len(cached') = 1
    <3>1. n >= Len(held) - 1 => Len(cached') = 1
      BY <2>5, <2>7, <2>8
    <3> QED BY <2>2, <2>7, <3>1 DEF Cache!Suffices
  <2>12. Cache!LedgerIsExact'
    BY <2>9, <2>10, <2>11 DEF Cache!LedgerIsExact
  <2>13. Cache!ToSet(cached') \subseteq Cache!ToSet(cached) \cup {h}
    <3> SUFFICES ASSUME NEW j \in DOMAIN cached' PROVE cached'[j] \in Cache!ToSet(cached) \cup {h}
      BY DEF Cache!ToSet
    <3>1. cached'[j] = held[n + j] /\ n + j \in 1..Len(held)
      BY <2>5, <2>7, <2>8
    <3>2. CASE n + j = Len(cached) + 1
      BY <2>5, <3>1, <3>2
    <3>3. CASE n + j \in 1..Len(cached)
      <4>1. n + j \in DOMAIN cached /\ cached'[j] = cached[n + j]
        BY <1>0, <2>5, <3>1, <3>3
      <4> QED BY <4>1 DEF Cache!ToSet
    <3> QED BY <2>5, <3>1, <3>2, <3>3
  <2>14. ASSUME NEW u \in DOMAIN trips, trips[u].generation = generation, trips[u].state = "away", u # t
         PROVE trips[u].hash # h
    BY <1>1, <1>5, <2>14 DEF CacheInv, Cache!OfThisGeneration, h
  <2>15. \A u \in DOMAIN trips' : trips'[u].generation = generation' /\ trips'[u].state = "away"
            => trips'[u].hash \notin Cache!ToSet(cached')
    <3> SUFFICES ASSUME NEW u \in DOMAIN trips', trips'[u].generation = generation',
                        trips'[u].state = "away"
                 PROVE trips'[u].hash \notin Cache!ToSet(cached')
      OBVIOUS
    <3>1. u # t /\ trips[u].generation = generation /\ trips[u].state = "away" /\ u \in DOMAIN trips
          /\ trips'[u].hash = trips[u].hash
      BY <1>1, <1>2
    <3>2. trips[u].hash \notin Cache!ToSet(cached)
      BY <3>1 DEF CacheInv
    <3> QED BY <2>13, <2>14, <3>1, <3>2
  <2> QED BY <1>1, <1>2, <2>8, <2>9, <2>12, <2>15 DEF CacheInv
<1> QED BY <1>4, <1>5

\* Every operation of the cache keeps its count and its trips.
LEMMA CacheNext ==
  ASSUME Cache!CacheAssumption, CacheInv, [Cache!Next]_cacheVars PROVE CacheInv'
<1>0. trips \in Seq(Trip) /\ inflight \in [Hashes -> 0..MaxTrips] /\ generation \in Nat
  BY DEF CacheInv, Cache!CacheAssumption
<1>1. ASSUME NEW t \in DOMAIN trips, Cache!TripFails(t) PROVE CacheInv'
  <2>1. /\ trips[t].state = "away" /\ trips' = [trips EXCEPT ![t].state = "settled"]
        /\ UNCHANGED <<cached, totalBytes, inflight, generation>>
    BY <1>1 DEF Cache!TripFails
  <2>2. /\ trips' \in Seq(Trip) /\ DOMAIN trips' = DOMAIN trips /\ Len(trips') = Len(trips)
        /\ \A u \in DOMAIN trips :
              /\ trips'[u].hash = trips[u].hash /\ trips'[u].generation = trips[u].generation
              /\ trips'[u].state = IF u = t THEN "settled" ELSE trips[u].state
    BY <1>0, <2>1, TripMoves
  <2>3. Cache!LedgerIsExact'
    BY <2>1 DEF CacheInv, Cache!LedgerIsExact
  <2> QED BY <2>1, <2>2, <2>3 DEF CacheInv
<1>2. ASSUME NEW t \in DOMAIN trips, Cache!ClearInflight(t) PROVE CacheInv'
  <2>1. /\ trips[t].state = "settled" /\ trips' = [trips EXCEPT ![t].state = "over"]
        /\ UNCHANGED <<cached, totalBytes, generation>>
    BY <1>2 DEF Cache!ClearInflight
  <2>2. /\ trips' \in Seq(Trip) /\ DOMAIN trips' = DOMAIN trips /\ Len(trips') = Len(trips)
        /\ \A u \in DOMAIN trips :
              /\ trips'[u].hash = trips[u].hash /\ trips'[u].generation = trips[u].generation
              /\ trips'[u].state = IF u = t THEN "over" ELSE trips[u].state
    BY <1>0, <2>1, TripMoves
  <2>3. \A u \in DOMAIN trips : trips[u].hash \in Hashes /\ u # 0
    <3>1. \A u \in DOMAIN trips : trips[u] \in Trip /\ u # 0
      BY <1>0
    <3> QED BY <3>1 DEF Trip
  <2>4. inflight' \in [Hashes -> 0..MaxTrips]
        /\ \A h \in Hashes : inflight'[h] = IF inflight[h] = t THEN 0 ELSE inflight[h]
    <3>1. \A h \in Hashes : inflight[h] = t => h = trips[t].hash
      BY <2>3 DEF CacheInv
    <3>2. CASE Cache!IsOnRecord(t)
      <4>1. inflight' = [inflight EXCEPT ![trips[t].hash] = 0] /\ inflight[trips[t].hash] = t
        BY <1>2, <3>2 DEF Cache!ClearInflight, Cache!IsOnRecord
      <4>2. 0 \in 0..MaxTrips
        BY DEF Cache!CacheAssumption
      <4> QED BY <1>0, <2>3, <3>1, <4>1, <4>2
    <3>3. CASE ~Cache!IsOnRecord(t)
      <4>1. inflight' = inflight /\ inflight[trips[t].hash] # t
        BY <1>2, <3>3 DEF Cache!ClearInflight, Cache!IsOnRecord
      <4> QED BY <1>0, <2>3, <3>1, <4>1
    <3> QED BY <3>2, <3>3
  <2>5. Cache!LedgerIsExact'
    BY <2>1 DEF CacheInv, Cache!LedgerIsExact
  <2>6. \A h \in Hashes : inflight'[h] # 0 =>
            /\ inflight'[h] \in DOMAIN trips'
            /\ trips'[inflight'[h]].hash = h /\ trips'[inflight'[h]].state # "over"
    BY <2>2, <2>4 DEF CacheInv
  <2>7. ASSUME NEW u \in DOMAIN trips'
        PROVE  /\ trips'[u].generation <= generation'
               /\ trips'[u].generation = generation' /\ trips'[u].state # "over"
                   => inflight'[trips'[u].hash] = u
               /\ trips'[u].generation = generation' /\ trips'[u].state = "away"
                   => trips'[u].hash \notin Cache!ToSet(cached')
    BY <2>1, <2>2, <2>3, <2>4 DEF CacheInv
  <2>8. Len(trips') <= MaxTrips
    BY <2>2 DEF CacheInv
  <2> QED BY <2>1, <2>2, <2>4, <2>5, <2>6, <2>7, <2>8 DEF CacheInv
<1>3. ASSUME Cache!Clear PROVE CacheInv'
  <2>1. /\ generation < MaxClears /\ generation' = generation + 1 /\ cached' = <<>> /\ totalBytes' = 0
        /\ inflight' = [h \in Hashes |-> 0] /\ UNCHANGED trips
    BY <1>3 DEF Cache!Clear
  <2>2. generation' \in 0..MaxClears
    BY <1>0, <2>1 DEF Cache!CacheAssumption
  <2>3. Cache!LedgerIsExact'
    <3>1. <<>> \in Seq(Hashes) /\ Len(<<>>) = 0
      OBVIOUS
    <3>2. Cache!SumOf(<<>>) = 0
      BY <3>1, SumsOfStep DEF Cache!SumOf
    <3> QED BY <2>1, <3>1, <3>2 DEF Cache!LedgerIsExact, Cache!IsInjective, Cache!CacheAssumption
  <2>4. \A t \in DOMAIN trips : trips[t].generation \in Nat /\ trips[t].generation < generation'
    <3>1. \A t \in DOMAIN trips : trips[t] \in Trip /\ trips[t].generation <= generation
      BY <1>0 DEF CacheInv
    <3> QED BY <1>0, <2>1, <3>1 DEF Trip
  <2>5. \A t \in DOMAIN trips' : trips'[t].generation <= generation' /\ trips'[t].generation # generation'
    BY <1>0, <2>1, <2>4
  <2>6. cached' \in Seq(Hashes) /\ totalBytes' \in Nat
        /\ inflight' \in [Hashes -> 0..MaxTrips] /\ \A h \in Hashes : inflight'[h] = 0
    BY <2>1 DEF Cache!CacheAssumption
  <2>7. trips' \in Seq(Trip) /\ Len(trips') <= MaxTrips
    BY <2>1 DEF CacheInv
  <2> QED BY <2>2, <2>3, <2>5, <2>6, <2>7 DEF CacheInv
<1>4. ASSUME UNCHANGED cacheVars PROVE CacheInv'
  BY <1>4 DEF cacheVars, CacheInv, Cache!LedgerIsExact
<1>5. CASE Cache!Next
  BY <1>1, <1>2, <1>3, <1>5, CacheGet, CacheArrives DEF Cache!Next
<1> QED BY <1>4, <1>5

\* What the invariant says of the properties that the runs check.
LEMMA CacheAgrees ==
  ASSUME CacheInv
  PROVE  Cache!TypeOK /\ Cache!LedgerIsExact /\ Cache!OneTrip /\ Cache!Settled
<1>1. Cache!TypeOK
  BY DEF CacheInv, Cache!TypeOK, Trip
<1>2. Cache!OneTrip
  <2> SUFFICES ASSUME NEW t \in DOMAIN trips, NEW u \in DOMAIN trips,
                      trips[t].hash = trips[u].hash, t # u,
                      trips[t].generation = generation, trips[u].generation = generation,
                      trips[t].state = "away", trips[u].state = "away"
               PROVE FALSE
    BY DEF Cache!OneTrip
  <2> QED BY DEF CacheInv
<1>3. Cache!Settled
  BY DEF CacheInv, Cache!Settled
<1> QED BY <1>1, <1>2, <1>3 DEF CacheInv

-----------------------------------------------------------------------------
(* The host of artifacts *)

Pass == [left : SUBSET Artifact!Artifacts, at : SUBSET Artifact!Artifacts,
         awaits : {0} \cup Artifact!Artifacts]
Removals == [artifact : Artifact!Artifacts, by : Reapers \cup {"caller"}]

ArtifactInv == Artifact!TypeOK /\ Artifact!BytesHaveTheirKey

\* The types of the host, with its passes and removals named.
LEMMA ArtifactTypes ==
  Artifact!TypeOK <=>
    /\ record \in [Artifact!Artifacts -> Artifact!States]
    /\ due \subseteq Artifact!Artifacts /\ keys \subseteq Artifact!Artifacts
    /\ keyless \subseteq Artifact!Artifacts /\ stored \subseteq Artifact!Artifacts
    /\ removing \subseteq Removals /\ reaping \in [Reapers -> Pass] /\ shut \in BOOLEAN
  BY DEF Artifact!TypeOK, Removals, Pass

\* The host without artifacts.
LEMMA ArtifactStarts ==
  ASSUME Artifact!Init PROVE ArtifactInv
<1>1. record \in [Artifact!Artifacts -> Artifact!States]
  BY DEF Artifact!Init, Artifact!States
<1>2. Artifact!NoPass \in Pass
  BY DEF Artifact!NoPass, Pass
<1>3. Artifact!TypeOK
  BY <1>1, <1>2, ArtifactTypes DEF Artifact!Init
<1> QED BY <1>3 DEF ArtifactInv, Artifact!Init, Artifact!BytesHaveTheirKey

\* An invalidation ends what is ready and nothing else.
LEMMA InvalidatedEnds ==
  ASSUME record \in [Artifact!Artifacts -> Artifact!States], NEW a \in Artifact!Artifacts,
         NEW state \in {"revoked", "expired"}
  PROVE  /\ Artifact!Invalidated(a, state) \in [Artifact!Artifacts -> Artifact!States]
         /\ \A b \in Artifact!Artifacts :
                /\ (Artifact!Invalidated(a, state)[b] # record[b]) => (record[b] = "ready")
                /\ (record[b] = "none") <=> (Artifact!Invalidated(a, state)[b] = "none")
<1>1. state \in Artifact!States /\ state # "none"
  BY DEF Artifact!States
<1> QED BY <1>1 DEF Artifact!Invalidated

\* What a removal that is under way is.
LEMMA RemovalType ==
  ASSUME NEW a \in Artifact!Artifacts, NEW state, NEW r \in Reapers \cup {"caller"}
  PROVE  Artifact!Removal(a, state, r) \subseteq Removals
  BY DEF Artifact!Removal, Removals

\* A pass that goes on is a pass.
LEMMA SettlesType ==
  ASSUME reaping \in [Reapers -> Pass], NEW r \in Reapers, NEW pass \in Pass
  PROVE  Artifact!Settles(r, pass) \in [Reapers -> Pass]
<1>1. Artifact!NoPass \in Pass
  BY DEF Artifact!NoPass, Pass
<1> QED BY <1>1 DEF Artifact!Settles

\* An artifact that is revoked or expired stays so.
EndsKept == \A a \in Artifact!Artifacts : record[a] \in {"revoked", "expired"} => record'[a] = record[a]

\* One more artifact of a pass: expired, or its bytes asked to be removed.
LEMMA ArtifactReaps ==
  ASSUME ArtifactInv, NEW r \in Reapers, Artifact!ReapNext(r)
  PROVE  ArtifactInv' /\ EndsKept
<1> DEFINE pass == reaping[r]
           a == CHOOSE x \in pass.left : \A y \in pass.left : x <= y
           state == IF record[a] = "revoked" THEN "revoked" ELSE "expired"
           rest == [pass EXCEPT !.left = @ \ {a}]
<1>1. /\ record \in [Artifact!Artifacts -> Artifact!States]
      /\ removing \subseteq Removals /\ reaping \in [Reapers -> Pass]
  BY ArtifactTypes DEF ArtifactInv
<1>2. /\ pass.left # {}
      /\ \/ /\ record' = Artifact!Invalidated(a, state)
            /\ removing' = removing \cup Artifact!Removal(a, state, r)
            /\ reaping' = IF Artifact!Removal(a, state, r) = {} THEN Artifact!Settles(r, rest)
                          ELSE [reaping EXCEPT ![r] = [rest EXCEPT !.awaits = a]]
         \/ reaping' = Artifact!Settles(r, rest) /\ UNCHANGED <<record, removing>>
      /\ UNCHANGED <<due, keys, keyless, stored, shut>>
  BY DEF Artifact!ReapNext
<1>3. pass \in Pass /\ pass.left \subseteq Artifact!Artifacts
  BY <1>1 DEF Pass
<1>4. a \in pass.left
  <2>1. pass.left \subseteq Nat
    BY <1>3 DEF Artifact!Artifacts
  <2>2. \E x \in pass.left : \A y \in pass.left : x <= y
    BY <1>2, <2>1, Least
  <2> QED BY <2>2
<1> HIDE DEF a
<1>5. a \in Artifact!Artifacts /\ state \in {"revoked", "expired"}
  BY <1>3, <1>4
<1> HIDE DEF pass, state
<1>6. rest \in Pass /\ [rest EXCEPT !.awaits = a] \in Pass
  BY <1>3, <1>5 DEF Pass
<1> HIDE DEF rest
<1>7. Artifact!Settles(r, rest) \in [Reapers -> Pass]
  BY <1>1, <1>6, SettlesType
<1>8. reaping' \in [Reapers -> Pass]
  BY <1>1, <1>2, <1>6, <1>7
<1>9. removing' \subseteq Removals
  BY <1>1, <1>2, <1>5, RemovalType
<1>10. /\ record' \in [Artifact!Artifacts -> Artifact!States]
       /\ \A b \in Artifact!Artifacts :
            (record'[b] # record[b] => record[b] = "ready") /\ (record[b] = "none" <=> record'[b] = "none")
  BY <1>1, <1>2, <1>5, InvalidatedEnds
<1>11. Artifact!TypeOK'
  BY <1>2, <1>8, <1>9, <1>10, ArtifactTypes DEF ArtifactInv, Artifact!TypeOK, Removals, Pass
<1>12. Artifact!BytesHaveTheirKey'
  <2>1. stored \subseteq Artifact!Artifacts
    BY ArtifactTypes DEF ArtifactInv
  <2> QED BY <1>2, <1>10, <2>1 DEF ArtifactInv, Artifact!BytesHaveTheirKey
<1>13. EndsKept
  BY <1>10 DEF EndsKept
<1> QED BY <1>11, <1>12, <1>13 DEF ArtifactInv

\* Every operation of the host keeps the keys with the bytes, and the ends.
LEMMA ArtifactNext ==
  ASSUME ArtifactInv, [Artifact!Next]_artifactVars
  PROVE  ArtifactInv' /\ EndsKept
<1>0. /\ record \in [Artifact!Artifacts -> Artifact!States]
      /\ due \subseteq Artifact!Artifacts /\ keys \subseteq Artifact!Artifacts
      /\ keyless \subseteq Artifact!Artifacts /\ stored \subseteq Artifact!Artifacts
      /\ removing \subseteq Removals /\ reaping \in [Reapers -> Pass] /\ shut \in BOOLEAN
      /\ Artifact!BytesHaveTheirKey
  BY ArtifactTypes DEF ArtifactInv
<1> DEFINE Typed ==
        /\ record' \in [Artifact!Artifacts -> Artifact!States]
        /\ due' \subseteq Artifact!Artifacts /\ keys' \subseteq Artifact!Artifacts
        /\ keyless' \subseteq Artifact!Artifacts /\ stored' \subseteq Artifact!Artifacts
        /\ removing' \subseteq Removals /\ reaping' \in [Reapers -> Pass] /\ shut' \in BOOLEAN
<1>t. Typed => Artifact!TypeOK'
  BY DEF Artifact!TypeOK, Removals, Pass
<1> HIDE DEF Typed
<1>1. ASSUME NEW a \in Artifact!Artifacts, Artifact!Register(a) PROVE ArtifactInv' /\ EndsKept
  <2>1. Typed
    BY <1>0, <1>1 DEF Artifact!Register, Artifact!States, Typed
  <2>2. Artifact!BytesHaveTheirKey' /\ EndsKept
    BY <1>0, <1>1 DEF Artifact!Register, Artifact!BytesHaveTheirKey, EndsKept
  <2> QED BY <1>t, <2>1, <2>2 DEF ArtifactInv
<1>2. ASSUME NEW a \in Artifact!Artifacts, Artifact!TimePasses(a) PROVE ArtifactInv' /\ EndsKept
  <2>1. Typed
    BY <1>0, <1>2 DEF Artifact!TimePasses, Typed
  <2>2. Artifact!BytesHaveTheirKey' /\ EndsKept
    BY <1>0, <1>2 DEF Artifact!TimePasses, Artifact!BytesHaveTheirKey, EndsKept
  <2> QED BY <1>t, <2>1, <2>2 DEF ArtifactInv
<1>3. ASSUME NEW a \in Artifact!Artifacts, Artifact!Revoke(a) \/ Artifact!OpenExpired(a)
      PROVE ArtifactInv' /\ EndsKept
  <2>1. PICK state \in {"revoked", "expired"} :
            /\ record' = Artifact!Invalidated(a, state)
            /\ removing' = removing \cup Artifact!Removal(a, state, "caller")
            /\ UNCHANGED <<due, keys, keyless, stored, reaping, shut>>
    BY <1>3 DEF Artifact!Revoke, Artifact!OpenExpired
  <2>2. removing' \subseteq Removals
    BY <1>0, <2>1, RemovalType
  <2>3. /\ record' \in [Artifact!Artifacts -> Artifact!States]
        /\ \A b \in Artifact!Artifacts :
             (record'[b] # record[b] => record[b] = "ready") /\ (record[b] = "none" <=> record'[b] = "none")
    BY <1>0, <2>1, InvalidatedEnds
  <2>4. Typed
    BY <1>0, <2>1, <2>2, <2>3 DEF Typed
  <2>5. Artifact!BytesHaveTheirKey' /\ EndsKept
    BY <1>0, <2>1, <2>3 DEF Artifact!BytesHaveTheirKey, EndsKept
  <2> QED BY <1>t, <2>4, <2>5 DEF ArtifactInv
<1>4. ASSUME NEW r \in Reapers, Artifact!ReapStarts(r) PROVE ArtifactInv' /\ EndsKept
  <2>1. [left |-> {a \in Artifact!Artifacts : record[a] # "none"}, at |-> due, awaits |-> 0] \in Pass
    BY <1>0 DEF Pass
  <2>2. Typed
    BY <1>0, <1>4, <2>1 DEF Artifact!ReapStarts, Typed
  <2>3. Artifact!BytesHaveTheirKey' /\ EndsKept
    BY <1>0, <1>4 DEF Artifact!ReapStarts, Artifact!BytesHaveTheirKey, EndsKept
  <2> QED BY <1>t, <2>2, <2>3 DEF ArtifactInv
<1>5. ASSUME NEW x \in removing, Artifact!Removed(x) PROVE ArtifactInv' /\ EndsKept
  <2>1. reaping' \in [Reapers -> Pass]
    <3>1. reaping' = IF x.by \in Reapers THEN Artifact!Settles(x.by, [reaping[x.by] EXCEPT !.awaits = 0])
                     ELSE reaping
      BY <1>5 DEF Artifact!Removed, Artifact!Continues
    <3>2. CASE x.by \in Reapers
      <4>1. [reaping[x.by] EXCEPT !.awaits = 0] \in Pass
        BY <1>0, <3>2 DEF Pass
      <4> QED BY <1>0, <3>1, <3>2, <4>1, SettlesType
    <3> QED BY <1>0, <3>1, <3>2
  <2>2. Typed
    BY <1>0, <1>5, <2>1 DEF Artifact!Removed, Artifact!KeysAfterRemoval, Typed
  <2>3. Artifact!BytesHaveTheirKey' /\ EndsKept
    BY <1>0, <1>5 DEF Artifact!Removed, Artifact!KeysAfterRemoval, Artifact!BytesHaveTheirKey, EndsKept
  <2> QED BY <1>t, <2>2, <2>3 DEF ArtifactInv
<1>6. ASSUME NEW x \in removing, Artifact!RemovalFails(x) PROVE ArtifactInv' /\ EndsKept
  <2>1. Artifact!NoPass \in Pass
    BY DEF Artifact!NoPass, Pass
  <2>2. Typed
    BY <1>0, <1>6, <2>1 DEF Artifact!RemovalFails, Typed
  <2>3. Artifact!BytesHaveTheirKey' /\ EndsKept
    BY <1>0, <1>6 DEF Artifact!RemovalFails, Artifact!BytesHaveTheirKey, EndsKept
  <2> QED BY <1>t, <2>2, <2>3 DEF ArtifactInv
<1>7. ASSUME Artifact!Close PROVE ArtifactInv' /\ EndsKept
  <2>1. Typed
    BY <1>0, <1>7 DEF Artifact!Close, Typed
  <2>2. Artifact!BytesHaveTheirKey' /\ EndsKept
    BY <1>7 DEF Artifact!Close, Artifact!BytesHaveTheirKey, EndsKept
  <2> QED BY <1>t, <2>1, <2>2 DEF ArtifactInv
<1>8. ASSUME UNCHANGED artifactVars PROVE ArtifactInv' /\ EndsKept
  <2>1. Typed
    BY <1>0, <1>8 DEF artifactVars, Typed
  <2>2. Artifact!BytesHaveTheirKey' /\ EndsKept
    BY <1>0, <1>8 DEF artifactVars, Artifact!BytesHaveTheirKey, EndsKept
  <2> QED BY <1>t, <2>1, <2>2 DEF ArtifactInv
<1>9. CASE Artifact!Next
  BY <1>1, <1>2, <1>3, <1>4, <1>5, <1>6, <1>7, <1>9, ArtifactReaps DEF Artifact!Next
<1> QED BY <1>8, <1>9

-----------------------------------------------------------------------------
(* The host of files and jobs *)

NoChange == [files |-> {}, jobs |-> {}]

FileTypes ==
    /\ policy \in BOOLEAN /\ stale \in BOOLEAN /\ hostClosed \in BOOLEAN /\ members \subseteq Viewers
    /\ files \in [DOMAIN files -> Files!File] /\ DOMAIN files \subseteq Files!FileIds
    /\ jobs \in [DOMAIN jobs -> Files!Job] /\ \E n \in 0..MaxJobs : DOMAIN jobs = 1..n
    /\ changed \in [files : SUBSET DOMAIN files, jobs : SUBSET DOMAIN jobs]
    /\ begun \in [DOMAIN begun -> Accounts] /\ DOMAIN begun \subseteq Files!FileIds \ DOMAIN files
    /\ ~hostClosed => \E n \in 0..MaxFiles : DOMAIN files \cup DOMAIN begun = 1..n
    /\ running \subseteq DOMAIN jobs /\ reports \in 0..MaxReports
    /\ DOMAIN views = Viewers

\* The storage is asked once at a time, by the confirmation that is admitted and about a file
\* that is not confirmed.
Confirming ==
    /\ confirmations \subseteq DOMAIN files
    /\ verifying \in [Files!FileIds -> Nat] /\ asked \in [Files!FileIds -> Nat]
    /\ \A f \in Files!FileIds :
        /\ verifying[f] + asked[f] <= 1
        /\ verifying[f] + asked[f] > 0 =>
            /\ f \in DOMAIN files /\ files[f].state = "uploading"
            /\ hostClosed \/ f \in confirmations

\* What runs is not over, unless it was cancelled.
RunningJobs == \A j \in running : jobs[j].state \in {"running", "cancelled"}

\* Without a policy a view differs from the projection only in what changed since the last drain.
OwnerAgrees(a) ==
    LET v == views[a] IN
    /\ v = [files |-> v.files, jobs |-> v.jobs]
    /\ v.files = [f \in DOMAIN v.files |-> v.files[f]] /\ v.jobs = [j \in DOMAIN v.jobs |-> v.jobs[j]]
    /\ \A f \in DOMAIN v.files : f \in DOMAIN files /\ files[f].owner = a
    /\ \A f \in DOMAIN files \ changed.files :
            files[f].owner = a => f \in DOMAIN v.files /\ v.files[f] = files[f]
    /\ \A j \in DOMAIN v.jobs : j \in DOMAIN jobs /\ files[jobs[j].file].owner = a
    /\ \A j \in DOMAIN jobs \ changed.jobs :
            files[jobs[j].file].owner = a => j \in DOMAIN v.jobs /\ v.jobs[j] = jobs[j]

ViewsHold ==
    \A a \in Viewers : views[a] # Files!Off =>
        IF policy THEN changed = NoChange /\ ~stale => views[a] = Files!Project(a)
        ELSE OwnerAgrees(a)

FileInv == FileTypes /\ Confirming /\ RunningJobs /\ Files!JobsHaveTheirFile /\ ViewsHold

\* What no step of the host does: the end of a job changes, or anything of a closed host.
FinalKept ==
    /\ \A j \in DOMAIN jobs : jobs[j].state \in Files!Finished => jobs'[j] = jobs[j]
    /\ hostClosed => files' = files /\ jobs' = jobs

\* The host without files and jobs.
LEMMA FilesStart ==
  ASSUME Files!FileJobAssumption, Files!Init PROVE FileInv
<1> USE DEF Files!Init
<1>1. FileTypes
  <2>1. files = <<>> /\ jobs = <<>> /\ DOMAIN files = {} /\ DOMAIN jobs = {} /\ DOMAIN begun = {}
    OBVIOUS
  <2>2. files \in [DOMAIN files -> Files!File] /\ jobs \in [DOMAIN jobs -> Files!Job]
        /\ begun \in [DOMAIN begun -> Accounts]
    BY <2>1
  <2>3. DOMAIN jobs = 1..0 /\ DOMAIN files \cup DOMAIN begun = 1..0
        /\ 0 \in 0..MaxJobs /\ 0 \in 0..MaxFiles /\ 0 \in 0..MaxReports
    BY <2>1 DEF Files!FileJobAssumption
  <2> QED BY <2>1, <2>2, <2>3 DEF FileTypes
<1>2. Confirming
  BY DEF Confirming
<1>3. RunningJobs /\ Files!JobsHaveTheirFile /\ ViewsHold
  BY DEF RunningJobs, Files!JobsHaveTheirFile, ViewsHold
<1> QED BY <1>1, <1>2, <1>3 DEF FileInv

\* The projection of an account, in terms of owners.
LEMMA OwnProjection ==
  ASSUME FileInv, ~policy, NEW a
  PROVE  Files!Project(a) =
            [files |-> [f \in {g \in DOMAIN files : files[g].owner = a} |-> files[f]],
             jobs |-> [j \in {k \in DOMAIN jobs : files[jobs[k].file].owner = a} |-> jobs[j]]]
<1> DEFINE fs == {f \in DOMAIN files : Files!readable(a, f)}
<1>1. fs = {g \in DOMAIN files : files[g].owner = a}
  BY DEF Files!readable
<1> HIDE DEF fs
<1>2. {k \in DOMAIN jobs : jobs[k].file \in fs} = {k \in DOMAIN jobs : files[jobs[k].file].owner = a}
  BY <1>1 DEF FileInv, Files!JobsHaveTheirFile
<1> QED BY <1>1, <1>2 DEF Files!Project, Files!Restrict, fs

\* A view that agrees, with nothing left to drain, is the projection; a new one agrees.
LEMMA AgreesIsProjection ==
  ASSUME FileInv, ~policy, NEW a \in Viewers, OwnerAgrees(a), changed = NoChange
  PROVE  views[a] = Files!Project(a)
<1> DEFINE v == views[a]
           fs == {g \in DOMAIN files : files[g].owner = a}
           js == {k \in DOMAIN jobs : files[jobs[k].file].owner = a}
<1>1. /\ v = [files |-> v.files, jobs |-> v.jobs]
      /\ v.files = [f \in DOMAIN v.files |-> v.files[f]] /\ v.jobs = [j \in DOMAIN v.jobs |-> v.jobs[j]]
  BY DEF OwnerAgrees
<1>2. DOMAIN v.files = fs /\ \A f \in fs : v.files[f] = files[f]
  BY DEF OwnerAgrees, NoChange
<1>3. DOMAIN v.jobs = js /\ \A j \in js : v.jobs[j] = jobs[j]
  BY DEF OwnerAgrees, NoChange
<1>4. v.files = [f \in fs |-> files[f]] /\ v.jobs = [j \in js |-> jobs[j]]
  BY <1>1, <1>2, <1>3
<1>5. Files!Project(a) = [files |-> [f \in fs |-> files[f]], jobs |-> [j \in js |-> jobs[j]]]
  BY OwnProjection
<1> QED BY <1>1, <1>4, <1>5

\* A full projection agrees with the store.
LEMMA ProjectionAgrees ==
  ASSUME FileInv, ~policy, NEW a \in Viewers, views'[a] = Files!Project(a),
         files' = files, jobs' = jobs, changed'.files \subseteq DOMAIN files
  PROVE  OwnerAgrees(a)'
<1> DEFINE fs == {g \in DOMAIN files : files[g].owner = a}
           js == {k \in DOMAIN jobs : files[jobs[k].file].owner = a}
           vf == [f \in fs |-> files[f]]
           vj == [j \in js |-> jobs[j]]
<1>1. views'[a] = [files |-> vf, jobs |-> vj]
  BY OwnProjection
<1>2. /\ DOMAIN vf = fs /\ \A f \in fs : vf[f] = files[f]
      /\ DOMAIN vj = js /\ \A j \in js : vj[j] = jobs[j]
      /\ vf = [f \in DOMAIN vf |-> vf[f]] /\ vj = [j \in DOMAIN vj |-> vj[j]]
  OBVIOUS
<1> HIDE DEF vf, vj
<1>3. views'[a].files = vf /\ views'[a].jobs = vj
  BY <1>1
<1> QED BY <1>1, <1>2, <1>3 DEF OwnerAgrees

\* A drain by the changed records alone comes to the projection.
LEMMA RefreshedIsProjection ==
  ASSUME FileInv, ~policy, NEW a \in Viewers, OwnerAgrees(a)
  PROVE  Files!Refreshed(a) = Files!Project(a)
<1> DEFINE v == views[a]
           fs == {g \in DOMAIN files : files[g].owner = a}
           js == {k \in DOMAIN jobs : files[jobs[k].file].owner = a}
           gs == {f \in DOMAIN v.files \cup changed.files : Files!readable(a, f)}
           ks == {j \in DOMAIN v.jobs \cup changed.jobs
                        \cup {k \in DOMAIN jobs : jobs[k].file \in gs \ DOMAIN v.files} :
                  jobs[j].file \in gs}
<1>0. changed.files \subseteq DOMAIN files /\ changed.jobs \subseteq DOMAIN jobs
  BY DEF FileInv, FileTypes
<1>1. gs = fs
  BY <1>0 DEF OwnerAgrees, Files!readable
<1>2. \A j \in DOMAIN jobs : jobs[j].file \in fs <=> j \in js
  BY DEF FileInv, Files!JobsHaveTheirFile
<1> HIDE DEF gs
<1>3. ks = js
  <2>1. ASSUME NEW j \in ks PROVE j \in js
    <3>1. jobs[j].file \in fs /\ j \in DOMAIN jobs
      BY <1>0, <1>1, <2>1 DEF OwnerAgrees
    <3> QED BY <1>2, <3>1
  <2>2. ASSUME NEW j \in js PROVE j \in ks
    <3>1. jobs[j].file \in gs /\ j \in DOMAIN jobs
      BY <1>1, <1>2, <2>2
    <3>2. j \in DOMAIN v.jobs \/ j \in changed.jobs
      BY <2>2, <3>1 DEF OwnerAgrees
    <3> QED BY <3>1, <3>2
  <2> QED BY <2>1, <2>2
<1>4. Files!Refreshed(a) =
        [files |-> [f \in gs |-> IF f \in changed.files THEN files[f] ELSE v.files[f]],
         jobs |-> [j \in ks |-> IF j \in DOMAIN v.jobs \ changed.jobs THEN v.jobs[j] ELSE jobs[j]]]
  BY DEF Files!Refreshed, gs
<1> HIDE DEF ks
<1>5. \A f \in fs : (IF f \in changed.files THEN files[f] ELSE v.files[f]) = files[f]
  BY DEF OwnerAgrees
<1>6. \A j \in js : (IF j \in DOMAIN v.jobs \ changed.jobs THEN v.jobs[j] ELSE jobs[j]) = jobs[j]
  BY DEF OwnerAgrees
<1>7. Files!Refreshed(a) = [files |-> [f \in fs |-> files[f]], jobs |-> [j \in js |-> jobs[j]]]
  BY <1>1, <1>3, <1>4, <1>5, <1>6
<1> QED BY <1>7, OwnProjection

\* What a write into the store leaves of it: no owner and no job's file changes, and what is
\* not marked as changed is as it was.
StoreGrows ==
    /\ DOMAIN files \subseteq DOMAIN files' /\ DOMAIN jobs \subseteq DOMAIN jobs'
    /\ \A f \in DOMAIN files : files'[f].owner = files[f].owner
    /\ \A j \in DOMAIN jobs : jobs'[j].file = jobs[j].file
    /\ \A f \in DOMAIN files' \ changed'.files : f \in DOMAIN files \ changed.files /\ files'[f] = files[f]
    /\ \A j \in DOMAIN jobs' \ changed'.jobs : j \in DOMAIN jobs \ changed.jobs /\ jobs'[j] = jobs[j]
    /\ changed' = NoChange => files' = files /\ jobs' = jobs /\ changed' = changed

\* What the store gains shows as a change until the next drain.
LEMMA ViewsKept ==
  ASSUME FileInv, StoreGrows, UNCHANGED <<policy, members, stale, views>>
  PROVE  ViewsHold'
<1> SUFFICES ASSUME NEW a \in Viewers, views[a] # Files!Off
             PROVE  IF policy THEN changed' = NoChange /\ ~stale => views[a] = Files!Project(a)'
                    ELSE OwnerAgrees(a)'
  BY DEF ViewsHold, Files!Off, NoChange
<1>1. CASE policy
  <2> SUFFICES ASSUME changed' = NoChange, ~stale PROVE views[a] = Files!Project(a)'
    BY <1>1
  <2>1. files' = files /\ jobs' = jobs /\ changed = NoChange
    BY DEF StoreGrows
  <2>2. views[a] = Files!Project(a)
    BY <1>1, <2>1 DEF FileInv, ViewsHold
  <2>3. Files!Project(a)' = Files!Project(a)
    BY <2>1 DEF Files!Project, Files!readable, Files!Restrict
  <2> QED BY <2>2, <2>3
<1>2. CASE ~policy
  <2>1. OwnerAgrees(a)
    BY <1>2 DEF FileInv, ViewsHold
  <2>2. \A j \in DOMAIN jobs : jobs[j].file \in DOMAIN files
    BY DEF FileInv, Files!JobsHaveTheirFile
  <2> DEFINE v == views[a]
  <2>3. views'[a] = v
    OBVIOUS
  <2>4. /\ v = [files |-> v.files, jobs |-> v.jobs]
        /\ v.files = [f \in DOMAIN v.files |-> v.files[f]] /\ v.jobs = [j \in DOMAIN v.jobs |-> v.jobs[j]]
    BY <2>1 DEF OwnerAgrees
  <2>5. \A f \in DOMAIN v.files : f \in DOMAIN files' /\ files'[f].owner = a
    BY <2>1 DEF OwnerAgrees, StoreGrows
  <2>6. \A f \in DOMAIN files' \ changed'.files :
            files'[f].owner = a => f \in DOMAIN v.files /\ v.files[f] = files'[f]
    BY <2>1 DEF OwnerAgrees, StoreGrows
  <2>7. \A j \in DOMAIN v.jobs : j \in DOMAIN jobs' /\ files'[jobs'[j].file].owner = a
    BY <2>1, <2>2 DEF OwnerAgrees, StoreGrows
  <2>8. \A j \in DOMAIN jobs' \ changed'.jobs :
            files'[jobs'[j].file].owner = a => j \in DOMAIN v.jobs /\ v.jobs[j] = jobs'[j]
    BY <2>1, <2>2 DEF OwnerAgrees, StoreGrows
  <2> HIDE DEF v
  <2>9. OwnerAgrees(a)'
    BY <2>3, <2>4, <2>5, <2>6, <2>7, <2>8 DEF OwnerAgrees
  <2> QED BY <1>2, <2>9
<1> QED BY <1>1, <1>2

\* A store that stays gains nothing.
LEMMA StoreStays ==
  ASSUME UNCHANGED <<files, jobs, changed>> PROVE StoreGrows
  BY DEF StoreGrows

\* A file is written whose owner stays; a job, whose file stays.
LEMMA FileIsSet ==
  ASSUME FileTypes, NEW f \in Files!FileIds, NEW file \in Files!File, Files!SetFile(f, file),
         f \in DOMAIN files => file.owner = files[f].owner
  PROVE  /\ files' \in [DOMAIN files' -> Files!File] /\ DOMAIN files' = DOMAIN files \cup {f}
         /\ DOMAIN files' \subseteq Files!FileIds
         /\ files'[f] = file /\ \A g \in DOMAIN files \ {f} : files'[g] = files[g]
         /\ jobs' = jobs /\ changed' \in [files : SUBSET DOMAIN files', jobs : SUBSET DOMAIN jobs']
         /\ StoreGrows
<1>1. files' = [g \in DOMAIN files \cup {f} |-> IF g = f THEN file ELSE files[g]] /\ jobs' = jobs
  BY DEF Files!SetFile, Files!Put
<1>2. changed' = [changed EXCEPT !.files = @ \cup {f}]
  BY DEF Files!SetFile
<1>3. changed \in [files : SUBSET DOMAIN files, jobs : SUBSET DOMAIN jobs]
  BY DEF FileTypes
<1>4. changed'.files = changed.files \cup {f} /\ changed'.jobs = changed.jobs
  BY <1>2, <1>3
<1>5. files' \in [DOMAIN files' -> Files!File] /\ DOMAIN files' \subseteq Files!FileIds
  BY <1>1 DEF FileTypes
<1>6. changed' \in [files : SUBSET DOMAIN files', jobs : SUBSET DOMAIN jobs']
  BY <1>1, <1>2, <1>3
<1>7. changed' # NoChange
  BY <1>4 DEF NoChange
<1> QED BY <1>1, <1>4, <1>5, <1>6, <1>7 DEF StoreGrows

\* A record that is written to a job.
LEMMA JobIsSet ==
  ASSUME FileTypes, NEW j, NEW job \in Files!Job, Files!SetJob(j, job),
         j \in DOMAIN jobs => job.file = jobs[j].file
  PROVE  /\ jobs' \in [DOMAIN jobs' -> Files!Job] /\ DOMAIN jobs' = DOMAIN jobs \cup {j}
         /\ jobs'[j] = job /\ \A k \in DOMAIN jobs \ {j} : jobs'[k] = jobs[k]
         /\ files' = files /\ changed' \in [files : SUBSET DOMAIN files', jobs : SUBSET DOMAIN jobs']
         /\ StoreGrows
<1>1. jobs' = [k \in DOMAIN jobs \cup {j} |-> IF k = j THEN job ELSE jobs[k]] /\ files' = files
  BY DEF Files!SetJob, Files!Put
<1>2. changed' = [changed EXCEPT !.jobs = @ \cup {j}]
  BY DEF Files!SetJob
<1>3. changed \in [files : SUBSET DOMAIN files, jobs : SUBSET DOMAIN jobs]
  BY DEF FileTypes
<1>4. changed'.jobs = changed.jobs \cup {j} /\ changed'.files = changed.files
  BY <1>2, <1>3
<1>5. jobs' \in [DOMAIN jobs' -> Files!Job]
  BY <1>1 DEF FileTypes
<1>6. changed' \in [files : SUBSET DOMAIN files', jobs : SUBSET DOMAIN jobs']
  BY <1>1, <1>2, <1>3
<1>7. changed' # NoChange
  BY <1>4 DEF NoChange
<1> QED BY <1>1, <1>4, <1>5, <1>6, <1>7 DEF StoreGrows

-----------------------------------------------------------------------------
(* Uploads *)

\* A new upload.
LEMMA StartsUpload ==
  ASSUME Files!FileJobAssumption, FileInv, NEW a \in Accounts, NEW f \in Files!FileIds,
         Files!StartUpload(a, f)
  PROVE  FileInv' /\ FinalKept
<1> USE DEF Files!StartUpload
<1>2. DOMAIN files \cup DOMAIN begun = 1..(f - 1) /\ f \in 1..MaxFiles /\ f \notin DOMAIN files \cup DOMAIN begun
  BY DEF Files!FileJobAssumption, Files!FileIds
<1>3. DOMAIN begun' = DOMAIN begun \cup {f} /\ begun' \in [DOMAIN begun' -> Accounts]
  BY DEF FileInv, FileTypes, Files!Put
<1>4. /\ DOMAIN begun' \subseteq Files!FileIds \ DOMAIN files
      /\ f \in 0..MaxFiles /\ DOMAIN files \cup DOMAIN begun' = 1..f
  <2>1. DOMAIN files \cup DOMAIN begun' = 1..(f - 1) \cup {f}
    BY <1>2, <1>3
  <2>2. f \in Nat /\ MaxFiles \in Nat
    BY DEF Files!FileJobAssumption, Files!FileIds
  <2>3. DOMAIN begun \subseteq Files!FileIds \ DOMAIN files
    BY DEF FileInv, FileTypes
  <2>4. 1..(f - 1) \cup {f} = 1..f
    BY <1>2, <2>2
  <2> QED BY <1>2, <1>3, <2>1, <2>2, <2>3, <2>4
<1>5. UNCHANGED <<policy, members, stale, files, jobs, changed, confirmations, verifying, asked,
                  running, reports, views, hostClosed>>
  BY DEF Files!policyVars, Files!storeVars, Files!confirmVars
<1>6. FileTypes'
  BY <1>3, <1>4, <1>5 DEF FileInv, FileTypes
<1>7. ViewsHold'
  BY <1>5, StoreStays, ViewsKept
<1>8. Confirming' /\ RunningJobs' /\ Files!JobsHaveTheirFile' /\ FinalKept
  BY <1>5 DEF FileInv, Confirming, RunningJobs, Files!JobsHaveTheirFile, FinalKept
<1> QED BY <1>6, <1>7, <1>8 DEF FileInv

\* The record of an upload whose slot was issued.
LEMMA BeginsUpload ==
  ASSUME Files!FileJobAssumption, FileInv, NEW f \in Files!FileIds, Files!UploadBegins(f)
  PROVE  FileInv' /\ FinalKept
<1>1. UNCHANGED <<policy, members, stale, confirmations, verifying, asked, running, reports, views, hostClosed>>
  BY DEF Files!UploadBegins, Files!policyVars, Files!confirmVars
<1>2. f \in DOMAIN begun /\ f \notin DOMAIN files /\ begun[f] \in Accounts
  BY DEF Files!UploadBegins, FileInv, FileTypes
<1>3. /\ DOMAIN begun' = DOMAIN begun \ {f} /\ begun' \in [DOMAIN begun' -> Accounts]
  BY DEF Files!UploadBegins, Files!Restrict, FileInv, FileTypes
<1>4. CASE hostClosed
  <2>1. UNCHANGED <<files, jobs, changed>>
    BY <1>4 DEF Files!UploadBegins, Files!storeVars
  <2>2. FileTypes'
    BY <1>1, <1>3, <1>4, <2>1 DEF FileInv, FileTypes
  <2>3. ViewsHold'
    BY <1>1, <2>1, StoreStays, ViewsKept
  <2>4. Confirming' /\ RunningJobs' /\ Files!JobsHaveTheirFile' /\ FinalKept
    BY <1>1, <2>1 DEF FileInv, Confirming, RunningJobs, Files!JobsHaveTheirFile, FinalKept
  <2> QED BY <2>2, <2>3, <2>4 DEF FileInv
<1>5. CASE ~hostClosed
  <2> DEFINE file == [owner |-> begun[f], state |-> "uploading"]
  <2>1. Files!SetFile(f, file) /\ file \in Files!File
    BY <1>2, <1>5 DEF Files!UploadBegins, Files!File
  <2> HIDE DEF file
  <2>2. /\ files' \in [DOMAIN files' -> Files!File] /\ DOMAIN files' = DOMAIN files \cup {f}
        /\ DOMAIN files' \subseteq Files!FileIds
        /\ files'[f] = file /\ \A g \in DOMAIN files \ {f} : files'[g] = files[g]
        /\ jobs' = jobs /\ changed' \in [files : SUBSET DOMAIN files', jobs : SUBSET DOMAIN jobs']
        /\ StoreGrows
    BY <1>2, <2>1, FileIsSet DEF FileInv
  <2>3. DOMAIN files' \cup DOMAIN begun' = DOMAIN files \cup DOMAIN begun
    BY <1>2, <1>3, <2>2
  <2>4. FileTypes'
    BY <1>1, <1>3, <2>2, <2>3 DEF FileInv, FileTypes
  <2>5. \A g \in DOMAIN files : files'[g] = files[g] /\ g \in DOMAIN files'
    BY <1>2, <2>2
  <2>6. Confirming' /\ RunningJobs' /\ Files!JobsHaveTheirFile' /\ FinalKept
    BY <1>1, <1>5, <2>2, <2>5 DEF FileInv, Confirming, RunningJobs, Files!JobsHaveTheirFile, FinalKept
  <2>7. ViewsHold'
    BY <1>1, <2>2, ViewsKept
  <2> QED BY <2>4, <2>6, <2>7 DEF FileInv
<1> QED BY <1>4, <1>5

\* What leaves the store alone keeps all but the confirmations.
LEMMA StoreKept ==
  ASSUME FileInv, Confirming',
         UNCHANGED <<policy, members, stale, files, jobs, changed, begun, running, reports, views, hostClosed>>
  PROVE  FileInv' /\ FinalKept
<1>1. FileTypes'
  BY DEF FileInv, FileTypes
<1>2. ViewsHold'
  BY StoreStays, ViewsKept
<1>3. RunningJobs' /\ Files!JobsHaveTheirFile' /\ FinalKept
  BY DEF FileInv, RunningJobs, Files!JobsHaveTheirFile, FinalKept
<1> QED BY <1>1, <1>2, <1>3 DEF FileInv

\* A confirmation asks the storage, or joins the one that does.
LEMMA Confirms ==
  ASSUME Files!FileJobAssumption, FileInv, NEW f \in Files!FileIds,
         \/ \E a \in Accounts : Files!ConfirmUpload(a, f)
         \/ Files!AsksStorage(f) \/ Files!Confirmed(f)
  PROVE  FileInv' /\ FinalKept
<1>0. UNCHANGED <<policy, members, stale, files, jobs, changed, begun, running, reports, views, hostClosed>>
  BY DEF Files!ConfirmUpload, Files!AsksStorage, Files!Confirmed, Files!policyVars, Files!storeVars
<1>1. /\ verifying \in [Files!FileIds -> Nat] /\ asked \in [Files!FileIds -> Nat]
      /\ confirmations \subseteq DOMAIN files /\ hostClosed \in BOOLEAN
  BY DEF FileInv, Confirming, FileTypes
<1>2. ASSUME NEW a \in Accounts, Files!ConfirmUpload(a, f) PROVE Confirming'
  <2>1. /\ ~hostClosed /\ f \in DOMAIN files /\ f \notin confirmations /\ files[f].state = "uploading"
        /\ confirmations' = confirmations \cup {f} /\ verifying' = [verifying EXCEPT ![f] = @ + 1]
        /\ asked' = asked
    BY <1>2 DEF Files!ConfirmUpload
  <2>2. verifying[f] = 0 /\ asked[f] = 0
    <3>1. ~(verifying[f] + asked[f] > 0) /\ verifying[f] \in Nat /\ asked[f] \in Nat
      BY <1>1, <2>1 DEF FileInv, Confirming
    <3> QED BY <3>1
  <2>3. verifying' \in [Files!FileIds -> Nat] /\ verifying'[f] = 1 /\ \A g \in Files!FileIds \ {f} : verifying'[g] = verifying[g]
    BY <1>1, <2>1, <2>2
  <2> QED BY <1>0, <1>1, <2>1, <2>2, <2>3 DEF FileInv, Confirming
<1>3. ASSUME Files!AsksStorage(f) PROVE Confirming'
  <2>1. /\ verifying[f] > 0 /\ verifying' = [verifying EXCEPT ![f] = @ - 1]
        /\ asked' = (IF hostClosed THEN asked ELSE [asked EXCEPT ![f] = @ + 1])
        /\ confirmations' = confirmations
    BY <1>3 DEF Files!AsksStorage
  <2>2. verifying[f] \in Nat /\ asked[f] \in Nat /\ verifying[f] + asked[f] <= 1
    BY <1>1 DEF FileInv, Confirming
  <2>3. verifying[f] = 1 /\ asked[f] = 0
    BY <2>1, <2>2
  <2>4. verifying' \in [Files!FileIds -> Nat] /\ verifying'[f] = 0 /\ \A g \in Files!FileIds \ {f} : verifying'[g] = verifying[g]
    BY <1>1, <2>1, <2>3
  <2>5. /\ asked' \in [Files!FileIds -> Nat] /\ asked'[f] \in {0, 1}
        /\ \A g \in Files!FileIds \ {f} : asked'[g] = asked[g]
    BY <1>1, <2>1, <2>3
  <2>6. f \in DOMAIN files /\ files[f].state = "uploading" /\ (hostClosed \/ f \in confirmations)
    BY <2>3 DEF FileInv, Confirming
  <2> QED BY <1>0, <1>1, <2>1, <2>4, <2>5, <2>6 DEF FileInv, Confirming
<1>4. ASSUME Files!Confirmed(f) PROVE Confirming'
  <2>1. /\ verifying[f] = 0 /\ asked[f] = 0 /\ confirmations' = confirmations \ {f}
        /\ verifying' = verifying /\ asked' = asked
    BY <1>4 DEF Files!Confirmed
  <2> QED BY <1>0, <1>1, <2>1 DEF FileInv, Confirming
<1> QED BY <1>0, <1>2, <1>3, <1>4, StoreKept

\* The answer of the storage, for the file as it is by then.
LEMMA AnswersOfStorage ==
  ASSUME Files!FileJobAssumption, FileInv, NEW f \in Files!FileIds, Files!StorageAnswers(f)
  PROVE  FileInv' /\ FinalKept
<1>1. /\ verifying \in [Files!FileIds -> Nat] /\ asked \in [Files!FileIds -> Nat]
      /\ confirmations \subseteq DOMAIN files /\ hostClosed \in BOOLEAN
  BY DEF FileInv, Confirming, FileTypes
<1>2. /\ asked[f] > 0 /\ asked' = [asked EXCEPT ![f] = @ - 1]
      /\ UNCHANGED <<policy, members, stale, begun, confirmations, verifying, running, reports, views, hostClosed>>
  BY DEF Files!StorageAnswers, Files!policyVars
<1>3. /\ verifying[f] = 0 /\ asked[f] = 1 /\ f \in DOMAIN files /\ files[f].state = "uploading"
  <2>1. verifying[f] \in Nat /\ asked[f] \in Nat /\ verifying[f] + asked[f] <= 1
    BY <1>1 DEF FileInv, Confirming
  <2>2. verifying[f] = 0 /\ asked[f] = 1
    BY <1>2, <2>1
  <2> QED BY <2>2 DEF FileInv, Confirming
<1>4. /\ asked' \in [Files!FileIds -> Nat] /\ asked'[f] = 0
      /\ \A g \in Files!FileIds \ {f} : asked'[g] = asked[g]
  BY <1>1, <1>2, <1>3
<1>5. CASE hostClosed
  <2>1. UNCHANGED <<files, jobs, changed>>
    BY <1>5 DEF Files!StorageAnswers, Files!storeVars
  <2>2. Confirming'
    BY <1>1, <1>2, <1>3, <1>4, <2>1 DEF FileInv, Confirming
  <2> QED BY <1>2, <2>1, <2>2, StoreKept
<1>6. CASE ~hostClosed
  <2>1. PICK s \in {"uploaded", "failed"} : Files!SetFile(f, [files[f] EXCEPT !.state = s])
    BY <1>6 DEF Files!StorageAnswers
  <2>2. files[f] \in Files!File
    BY <1>3 DEF FileInv, FileTypes
  <2> DEFINE file == [files[f] EXCEPT !.state = s]
  <2>3. file \in Files!File /\ file.owner = files[f].owner
    BY <2>2 DEF Files!File
  <2> HIDE DEF file
  <2>4. /\ files' \in [DOMAIN files' -> Files!File] /\ DOMAIN files' = DOMAIN files \cup {f}
        /\ DOMAIN files' \subseteq Files!FileIds
        /\ files'[f] = file /\ \A g \in DOMAIN files \ {f} : files'[g] = files[g]
        /\ jobs' = jobs /\ changed' \in [files : SUBSET DOMAIN files', jobs : SUBSET DOMAIN jobs']
        /\ StoreGrows
    BY <2>1, <2>3, FileIsSet DEF FileInv, file
  <2>5. DOMAIN files' = DOMAIN files
    BY <1>3, <2>4
  <2>6. FileTypes'
    BY <1>2, <2>4, <2>5 DEF FileInv, FileTypes
  <2>7. \A j \in DOMAIN jobs : jobs[j].file # f /\ jobs[j].file \in DOMAIN files
    BY <1>3 DEF FileInv, Files!JobsHaveTheirFile
  <2>8. Files!JobsHaveTheirFile' /\ RunningJobs' /\ FinalKept
    BY <1>2, <1>6, <2>4, <2>5, <2>7 DEF FileInv, Files!JobsHaveTheirFile, RunningJobs, FinalKept
  <2>9. Confirming'
    BY <1>1, <1>2, <1>3, <1>4, <2>4, <2>5 DEF FileInv, Confirming
  <2>10. ViewsHold'
    BY <1>2, <2>4, ViewsKept
  <2> QED BY <2>6, <2>8, <2>9, <2>10 DEF FileInv
<1> QED BY <1>5, <1>6

-----------------------------------------------------------------------------
(* Jobs *)

\* A job is written that is new or not over, its file uploaded.
LEMMA JobKept ==
  ASSUME FileInv, ~hostClosed, NEW j, NEW job \in Files!Job, Files!SetJob(j, job),
         \/ /\ DOMAIN jobs = 1..(j - 1) /\ j \in 1..MaxJobs
            /\ job.file \in DOMAIN files /\ files[job.file].state = "uploaded"
         \/ j \in DOMAIN jobs /\ job.file = jobs[j].file /\ jobs[j].state \notin Files!Finished,
         running' \in {running, running \cup {j}, running \ {j}},
         j \in running' => job.state \in {"running", "cancelled"},
         reports' \in 0..MaxReports,
         UNCHANGED <<policy, members, stale, begun, confirmations, verifying, asked, views, hostClosed>>
  PROVE  FileInv' /\ FinalKept
<1>1. j \in DOMAIN jobs \/ (j \notin DOMAIN jobs /\ DOMAIN jobs \cup {j} = 1..j /\ j \in 0..MaxJobs)
  <2>1. ASSUME DOMAIN jobs = 1..(j - 1), j \in 1..MaxJobs
        PROVE j \notin DOMAIN jobs /\ DOMAIN jobs \cup {j} = 1..j /\ j \in 0..MaxJobs
    BY <2>1
  <2> QED BY <2>1
<1>2. j \in DOMAIN jobs => job.file = jobs[j].file /\ jobs[j].state \notin Files!Finished
  OBVIOUS
<1>3. /\ jobs' \in [DOMAIN jobs' -> Files!Job] /\ DOMAIN jobs' = DOMAIN jobs \cup {j}
      /\ jobs'[j] = job /\ \A k \in DOMAIN jobs \ {j} : jobs'[k] = jobs[k]
      /\ files' = files /\ changed' \in [files : SUBSET DOMAIN files', jobs : SUBSET DOMAIN jobs']
      /\ StoreGrows
  BY <1>2, JobIsSet DEF FileInv
<1>4. \E n \in 0..MaxJobs : DOMAIN jobs' = 1..n
  <2>1. CASE j \in DOMAIN jobs
    <3>1. DOMAIN jobs' = DOMAIN jobs
      BY <1>3, <2>1
    <3> QED BY <3>1 DEF FileInv, FileTypes
  <2>2. CASE j \notin DOMAIN jobs
    BY <1>1, <1>3, <2>2
  <2> QED BY <2>1, <2>2
<1>5. running' \subseteq DOMAIN jobs'
  BY <1>3 DEF FileInv, FileTypes
<1>6. FileTypes'
  BY <1>3, <1>4, <1>5 DEF FileInv, FileTypes
<1>7. Confirming'
  BY <1>3 DEF FileInv, Confirming
<1>8. RunningJobs'
  <2> SUFFICES ASSUME NEW k \in running' PROVE jobs'[k].state \in {"running", "cancelled"}
    BY DEF RunningJobs
  <2>1. CASE k = j
    BY <1>3, <2>1
  <2>2. CASE k # j
    <3>1. k \in running /\ k \in DOMAIN jobs
      BY <2>2 DEF FileInv, FileTypes
    <3> QED BY <1>3, <2>2, <3>1 DEF FileInv, RunningJobs
  <2> QED BY <2>1, <2>2
<1>9. Files!JobsHaveTheirFile'
  <2>1. job.file \in DOMAIN files /\ files[job.file].state = "uploaded"
    BY DEF FileInv, Files!JobsHaveTheirFile
  <2> QED BY <1>3, <2>1 DEF FileInv, Files!JobsHaveTheirFile
<1>10. ViewsHold'
  BY <1>3, ViewsKept
<1>11. FinalKept
  <2>1. \A k \in DOMAIN jobs : jobs[k].state \in Files!Finished => k # j
    BY <1>2
  <2> QED BY <1>3, <2>1 DEF FinalKept
<1> QED BY <1>6, <1>7, <1>8, <1>9, <1>10, <1>11 DEF FileInv

\* The store stays, and fewer jobs run or more is reported.
LEMMA RunsKept ==
  ASSUME FileInv, running' \subseteq running, reports' \in 0..MaxReports,
         UNCHANGED <<policy, members, stale, files, jobs, changed, begun, confirmations, verifying, asked,
                     views, hostClosed>>
  PROVE  FileInv' /\ FinalKept
<1>1. FileTypes'
  BY DEF FileInv, FileTypes
<1>2. ViewsHold'
  BY StoreStays, ViewsKept
<1>3. Confirming' /\ RunningJobs' /\ Files!JobsHaveTheirFile' /\ FinalKept
  BY DEF FileInv, Confirming, RunningJobs, Files!JobsHaveTheirFile, FinalKept
<1> QED BY <1>1, <1>2, <1>3 DEF FileInv

\* The operations of a job.
LEMMA JobSteps ==
  ASSUME Files!FileJobAssumption, FileInv, NEW j \in Files!JobIds,
         \/ Files!ReportJob(j) \/ Files!RunEnds(j)
         \/ \E a \in Accounts : Files!CancelJob(a, j) \/ \E f \in Files!FileIds : Files!StartJob(a, f, j)
  PROVE  FileInv' /\ FinalKept
<1>0. /\ \A k \in DOMAIN jobs : jobs[k] \in Files!Job
      /\ reports \in 0..MaxReports /\ running \subseteq DOMAIN jobs /\ hostClosed \in BOOLEAN
      /\ MaxReports \in Nat /\ MaxJobs \in Nat
  BY DEF FileInv, FileTypes, Files!FileJobAssumption
<1> USE DEF Files!policyVars, Files!storeVars, Files!confirmVars
<1>1. ASSUME Files!ReportJob(j) PROVE FileInv' /\ FinalKept
  <2>1. /\ j \in DOMAIN jobs /\ reports' = reports + 1 /\ reports' \in 0..MaxReports
        /\ UNCHANGED <<policy, members, stale, begun, confirmations, verifying, asked, running, views, hostClosed>>
    BY <1>0, <1>1 DEF Files!ReportJob
  <2>2. CASE hostClosed \/ jobs[j].state \in Files!Finished
    <3>1. UNCHANGED <<files, jobs, changed>>
      BY <1>1, <2>2 DEF Files!ReportJob
    <3> QED BY <2>1, <3>1, RunsKept
  <2>3. CASE ~hostClosed /\ jobs[j].state \notin Files!Finished
    <3> DEFINE job == [jobs[j] EXCEPT !.progress = reports']
    <3>1. Files!SetJob(j, job)
      BY <1>1, <2>3 DEF Files!ReportJob
    <3>2. job \in Files!Job /\ job.file = jobs[j].file /\ job.state = jobs[j].state
      BY <1>0, <2>1 DEF Files!Job
    <3> HIDE DEF job
    <3>3. j \in running => job.state \in {"running", "cancelled"}
      BY <3>2 DEF FileInv, RunningJobs
    <3> QED BY <2>1, <2>3, <3>1, <3>2, <3>3, JobKept
  <2> QED BY <2>2, <2>3
<1>2. ASSUME Files!RunEnds(j) PROVE FileInv' /\ FinalKept
  <2>1. /\ j \in running /\ j \in DOMAIN jobs /\ running' = running \ {j} /\ reports' = reports
        /\ UNCHANGED <<policy, members, stale, begun, confirmations, verifying, asked, views, hostClosed>>
    BY <1>0, <1>2 DEF Files!RunEnds
  <2>2. CASE hostClosed \/ jobs[j].state = "cancelled"
    <3>1. UNCHANGED <<files, jobs, changed>>
      BY <1>2, <2>2 DEF Files!RunEnds
    <3> QED BY <1>0, <2>1, <3>1, RunsKept
  <2>3. CASE ~hostClosed /\ jobs[j].state # "cancelled"
    <3>1. PICK s \in {"ready", "failed"} : Files!SetJob(j, [jobs[j] EXCEPT !.state = s])
      BY <1>2, <2>3 DEF Files!RunEnds
    <3> DEFINE job == [jobs[j] EXCEPT !.state = s]
    <3>2. job \in Files!Job /\ job.file = jobs[j].file
      BY <1>0, <2>1 DEF Files!Job, Files!Finished
    <3>3. jobs[j].state \notin Files!Finished
      BY <2>1, <2>3 DEF FileInv, RunningJobs, Files!Finished
    <3> HIDE DEF job
    <3> QED BY <1>0, <2>1, <2>3, <3>1, <3>2, <3>3, JobKept DEF job
  <2> QED BY <2>2, <2>3
<1>3. ASSUME NEW a \in Accounts, Files!CancelJob(a, j) PROVE FileInv' /\ FinalKept
  <2> DEFINE job == [jobs[j] EXCEPT !.state = "cancelled"]
  <2>1. /\ ~hostClosed /\ j \in DOMAIN jobs /\ jobs[j].state \notin Files!Finished
        /\ Files!SetJob(j, job) /\ running' = running /\ reports' = reports
        /\ UNCHANGED <<policy, members, stale, begun, confirmations, verifying, asked, views, hostClosed>>
    BY <1>3 DEF Files!CancelJob
  <2>2. job \in Files!Job /\ job.file = jobs[j].file /\ job.state = "cancelled"
    BY <1>0, <2>1 DEF Files!Job, Files!Finished
  <2> HIDE DEF job
  <2> QED BY <1>0, <2>1, <2>2, JobKept
<1>4. ASSUME NEW a \in Accounts, NEW f \in Files!FileIds, Files!StartJob(a, f, j)
      PROVE FileInv' /\ FinalKept
  <2> DEFINE job == [file |-> f, state |-> "running", progress |-> 0]
  <2>1. /\ ~hostClosed /\ f \in DOMAIN files /\ files[f].state = "uploaded" /\ DOMAIN jobs = 1..(j - 1)
        /\ Files!SetJob(j, job) /\ running' = running \cup {j} /\ reports' = reports
        /\ UNCHANGED <<policy, members, stale, begun, confirmations, verifying, asked, views, hostClosed>>
    BY <1>4 DEF Files!StartJob
  <2>2. job \in Files!Job /\ job.file = f /\ job.state = "running"
    BY <1>0 DEF Files!Job
  <2>3. j \in 1..MaxJobs
    BY DEF Files!JobIds
  <2> HIDE DEF job
  <2> QED BY <1>0, <2>1, <2>2, <2>3, JobKept
<1> QED BY <1>1, <1>2, <1>3, <1>4

-----------------------------------------------------------------------------
(* Views *)

\* The views change, what they show does not.
LEMMA FilesKept ==
  ASSUME FileInv, DOMAIN views' = Viewers, members' \subseteq Viewers, stale' \in BOOLEAN, ViewsHold',
         changed' \in {changed, NoChange},
         UNCHANGED <<policy, files, jobs, begun, confirmations, verifying, asked, running, reports, hostClosed>>
  PROVE  FileInv' /\ FinalKept
<1>0. NoChange \in [files : SUBSET DOMAIN files, jobs : SUBSET DOMAIN jobs]
  BY DEF NoChange
<1>1. FileTypes'
  BY <1>0 DEF FileInv, FileTypes
<1>2. Confirming' /\ RunningJobs' /\ Files!JobsHaveTheirFile' /\ FinalKept
  BY DEF FileInv, Confirming, RunningJobs, Files!JobsHaveTheirFile, FinalKept
<1> QED BY <1>1, <1>2 DEF FileInv

\* A view is set to the projection of the store, or taken away, and the others are kept.
LEMMA ViewsSet ==
  ASSUME FileInv, DOMAIN views' = Viewers,
         \A a \in Viewers : views'[a] \in {views[a], Files!Off, Files!Project(a)},
         UNCHANGED <<policy, members, stale, files, jobs, changed>>
  PROVE  ViewsHold'
<1> SUFFICES ASSUME NEW a \in Viewers, views'[a] # Files!Off
             PROVE  IF policy THEN changed = NoChange /\ ~stale => views'[a] = Files!Project(a)
                    ELSE OwnerAgrees(a)'
  <2>1. \A a \in Viewers : Files!Project(a)' = Files!Project(a)
    BY DEF Files!Project, Files!readable, Files!Restrict
  <2> QED BY <2>1 DEF ViewsHold, Files!Off, NoChange
<1>1. CASE views'[a] = views[a]
  <2>1. CASE policy
    BY <1>1, <2>1 DEF FileInv, ViewsHold
  <2>2. CASE ~policy
    <3>1. OwnerAgrees(a)
      BY <1>1, <2>2 DEF FileInv, ViewsHold
    <3>2. OwnerAgrees(a)'
      BY <1>1, <3>1, ZenonT(60) DEF OwnerAgrees
    <3> QED BY <2>2, <3>2
  <2> QED BY <2>1, <2>2
<1>2. CASE views'[a] = Files!Project(a)
  <2>1. changed'.files \subseteq DOMAIN files
    BY DEF FileInv, FileTypes
  <2> QED BY <1>2, <2>1, ProjectionAgrees
<1> QED BY <1>1, <1>2

\* The operations of a view.
LEMMA ViewSteps ==
  ASSUME Files!FileJobAssumption, FileInv, NEW a \in Viewers,
         Files!Connect(a) \/ Files!Leave(a) \/ Files!MembersChange(a)
  PROVE  FileInv' /\ FinalKept
<1> USE DEF Files!policyVars, Files!storeVars, Files!confirmVars
<1>0. DOMAIN views = Viewers /\ members \subseteq Viewers /\ stale \in BOOLEAN
  BY DEF FileInv, FileTypes
<1>1. CASE Files!Connect(a) \/ Files!Leave(a)
  <2>1. /\ DOMAIN views' = Viewers
        /\ \A b \in Viewers : views'[b] \in {views[b], Files!Off, Files!Project(b)}
        /\ UNCHANGED <<policy, members, stale, files, jobs, changed, begun, confirmations, verifying, asked,
                       running, reports, hostClosed>>
    BY <1>0, <1>1 DEF Files!Connect, Files!Leave
  <2>2. ViewsHold'
    BY <2>1, ViewsSet
  <2> QED BY <1>0, <2>1, <2>2, FilesKept
<1>2. CASE Files!MembersChange(a)
  <2>1. /\ policy /\ stale' = TRUE /\ members' = (members \cup {a}) \ (members \cap {a})
        /\ UNCHANGED <<policy, files, jobs, changed, begun, confirmations, verifying, asked, running, reports,
                       views, hostClosed>>
    BY <1>2 DEF Files!MembersChange
  <2>2. ViewsHold'
    BY <2>1 DEF ViewsHold, Files!Off, NoChange
  <2> QED BY <1>0, <2>1, <2>2, FilesKept
<1> QED BY <1>1, <1>2

\* The drain of the changes into the views.
LEMMA Refreshes ==
  ASSUME Files!FileJobAssumption, FileInv, Files!Refresh
  PROVE  FileInv' /\ FinalKept
<1>1. /\ views' = [a \in Viewers |-> IF views[a] = Files!Off THEN Files!Off
                                     ELSE IF policy THEN Files!Project(a) ELSE Files!Refreshed(a)]
      /\ changed' = NoChange /\ stale' = FALSE
      /\ UNCHANGED <<policy, members, files, jobs, begun, confirmations, verifying, asked, running, reports,
                     hostClosed>>
  BY DEF Files!Refresh, Files!confirmVars, NoChange
<1>2. DOMAIN views' = Viewers /\ members' \subseteq Viewers /\ stale' \in BOOLEAN
  BY <1>1 DEF FileInv, FileTypes
<1>3. ViewsHold'
  <2> SUFFICES ASSUME NEW a \in Viewers, views'[a] # Files!Off
               PROVE  IF policy THEN views'[a] = Files!Project(a) ELSE OwnerAgrees(a)'
    <3>1. \A a \in Viewers : Files!Project(a)' = Files!Project(a)
      BY <1>1 DEF Files!Project, Files!readable, Files!Restrict
    <3> QED BY <1>1, <3>1 DEF ViewsHold, Files!Off, NoChange
  <2>1. views[a] # Files!Off /\ views'[a] = IF policy THEN Files!Project(a) ELSE Files!Refreshed(a)
    BY <1>1
  <2>2. CASE ~policy
    <3>1. OwnerAgrees(a)
      BY <2>1, <2>2 DEF FileInv, ViewsHold
    <3>2. views'[a] = Files!Project(a)
      BY <2>1, <2>2, <3>1, RefreshedIsProjection
    <3>3. changed'.files \subseteq DOMAIN files
      BY <1>1 DEF NoChange
    <3>4. OwnerAgrees(a)'
      BY <1>1, <2>2, <3>2, <3>3, ProjectionAgrees
    <3> QED BY <2>2, <3>4
  <2> QED BY <2>1, <2>2
<1> QED BY <1>1, <1>2, <1>3, FilesKept

\* The close of the host.
LEMMA HostCloses ==
  ASSUME Files!FileJobAssumption, FileInv, Files!Close
  PROVE  FileInv' /\ FinalKept
<1>1. /\ ~hostClosed /\ hostClosed' = TRUE /\ views' = [a \in Viewers |-> Files!Off] /\ confirmations' = {}
      /\ UNCHANGED <<policy, members, stale, files, jobs, changed, begun, verifying, asked, running, reports>>
  BY DEF Files!Close, Files!policyVars, Files!storeVars
<1>2. ViewsHold'
  BY <1>1 DEF ViewsHold, Files!Off
<1>3. FileTypes'
  BY <1>1 DEF FileInv, FileTypes
<1>4. Confirming' /\ RunningJobs' /\ Files!JobsHaveTheirFile' /\ FinalKept
  BY <1>1 DEF FileInv, Confirming, RunningJobs, Files!JobsHaveTheirFile, FinalKept
<1> QED BY <1>2, <1>3, <1>4 DEF FileInv

\* Every operation of the host keeps its records, its views and what is final.
LEMMA FilesNext ==
  ASSUME Files!FileJobAssumption, FileInv, [Files!Next]_fileVars
  PROVE  FileInv' /\ FinalKept
<1>1. CASE UNCHANGED fileVars
  <2>1. ViewsHold'
    BY <1>1, StoreStays, ViewsKept DEF fileVars
  <2>2. /\ DOMAIN views' = Viewers /\ members' \subseteq Viewers /\ stale' \in BOOLEAN
        /\ UNCHANGED <<policy, files, jobs, changed, begun, confirmations, verifying, asked, running, reports,
                       hostClosed>>
    BY <1>1 DEF fileVars, FileInv, FileTypes
  <2> QED BY <2>1, <2>2, FilesKept
<1>2. CASE Files!Next
  BY <1>2, StartsUpload, BeginsUpload, Confirms, AnswersOfStorage, JobSteps, ViewSteps, Refreshes, HostCloses
     DEF Files!Next
<1> QED BY <1>1, <1>2

\* What follows for files, jobs and views.
LEMMA FilesProperties ==
  ASSUME Files!FileJobAssumption, FileInv
  PROVE  Files!TypeOK /\ Files!JobsHaveTheirFile /\ Files!ViewsAgree
<1>1. Files!TypeOK
  <2>1. \A f \in DOMAIN files : files[f] \in Files!File
    BY DEF FileInv, FileTypes
  <2>2. \A j \in DOMAIN jobs : jobs[j] \in Files!Job
    BY DEF FileInv, FileTypes
  <2>3. DOMAIN jobs \subseteq Files!JobIds
    <3>1. PICK n \in 0..MaxJobs : DOMAIN jobs = 1..n
      BY DEF FileInv, FileTypes
    <3> QED BY <3>1 DEF Files!JobIds, Files!FileJobAssumption
  <2> QED BY <2>1, <2>2, <2>3 DEF FileInv, FileTypes, Confirming, Files!TypeOK
<1>2. Files!ViewsAgree
  BY AgreesIsProjection DEF FileInv, ViewsHold, NoChange, Files!ViewsAgree
<1> QED BY <1>1, <1>2 DEF FileInv

-----------------------------------------------------------------------------
(* The scope *)

\* What somebody holds: admitted while the scope was open, handed out, and not given up.
Held(e) == e.at = "open" /\ ~e.early /\ e.caller \in {"none", "given"}

ScopeTypes ==
    /\ entries \in Seq(Scope!Entry) /\ batch \subseteq DOMAIN entries
    /\ phase \in {"open", "aborting", "finishing", "settled"} /\ failures \in BOOLEAN
    /\ result \in {"none", "resolved", "rejected"}
    /\ waiter \in {"none", "waits", "timedOut", "told"}

\* An entry by itself, in a phase of the scope.
EntryHolds(e, p) ==
    /\ e.end # "in" => e.released
    /\ e.end = "disposing" => e.value = "open"
    /\ e.end # "gone" => e.left \in 1..2
    /\ p = "open" /\ e.caller = "waits" => ~e.released
    /\ p \in {"open", "aborting"} /\ Held(e) => ~e.released
    /\ p = "settled" /\ e.at # "settled" => e.end = "gone"

\* While finish is under way every entry of the open scope that is left is in the batch, and
\* what is held is released after everything later is gone.
ScopeInv ==
    /\ ScopeTypes
    /\ \A i \in DOMAIN entries :
        /\ EntryHolds(entries[i], phase)
        /\ phase = "finishing" /\ entries[i].at = "open" /\ entries[i].end # "gone" => i \in batch
        /\ Held(entries[i]) /\ entries[i].released => Scope!LaterAreGone(i)

\* What a step does not do: hand out a resource of a closing scope, or dispose out of order.
DisposalKept ==
    /\ \A i \in DOMAIN entries :
        (entries[i].caller = "waits" /\ entries'[i].caller = "given") => phase' = "open" /\ ~entries'[i].released
    /\ \A i \in DOMAIN entries :
        (phase # "open" /\ Scope!Starts(i) /\ Held(entries[i])) => Scope!LaterAreGone(i)

\* The scope without entries.
LEMMA ScopeStarts ==
  ASSUME Scope!Init PROVE ScopeInv
<1>1. entries = <<>> /\ entries \in Seq(Scope!Entry) /\ DOMAIN entries = {}
  BY DEF Scope!Init
<1> QED BY <1>1 DEF Scope!Init, ScopeInv, ScopeTypes

\* A new entry at the end.
LEMMA EntryAdmitted ==
  ASSUME ScopeInv, NEW e \in Scope!Entry, entries' = Append(entries, e), EntryHolds(e, phase),
         e.at = phase, e.end = "in", ~Held(e) \/ ~e.released,
         UNCHANGED <<phase, batch, failures, result, waiter>>
  PROVE  ScopeInv' /\ DisposalKept
<1> DEFINE n == Len(entries) + 1
<1>0. entries \in Seq(Scope!Entry)
  BY DEF ScopeInv, ScopeTypes
<1>1. /\ entries' \in Seq(Scope!Entry) /\ Len(entries') = n /\ n \in Nat /\ DOMAIN entries = 1..(n - 1)
      /\ DOMAIN entries' = 1..n /\ entries'[n] = e /\ \A i \in DOMAIN entries : entries'[i] = entries[i]
  BY <1>0
<1> HIDE DEF n
<1>2. \A i \in DOMAIN entries' : i \in DOMAIN entries \/ i = n
  BY <1>1
<1>3. DOMAIN entries \subseteq DOMAIN entries' /\ n \notin DOMAIN entries
  BY <1>1
<1>4. ScopeTypes'
  BY <1>1, <1>3 DEF ScopeInv, ScopeTypes
<1>5. \A i \in DOMAIN entries : entries[i].at = "open" /\ phase # "open" => (Scope!LaterAreGone(i) => Scope!LaterAreGone(i)')
  BY <1>1, <1>2 DEF Scope!LaterAreGone
<1>6. ASSUME NEW i \in DOMAIN entries'
      PROVE  /\ EntryHolds(entries'[i], phase')
             /\ phase' = "finishing" /\ entries'[i].at = "open" /\ entries'[i].end # "gone" => i \in batch'
             /\ Held(entries'[i]) /\ entries'[i].released => Scope!LaterAreGone(i)'
  <2>1. CASE i = n
    <3>1. EntryHolds(entries'[i], phase')
      BY <1>1, <2>1 DEF EntryHolds
    <3> QED BY <1>1, <2>1, <3>1
  <2>2. CASE i \in DOMAIN entries
    <3>1. EntryHolds(entries'[i], phase')
      BY <1>1, <2>2 DEF ScopeInv, EntryHolds
    <3>2. Held(entries[i]) /\ entries[i].released => phase # "open" /\ entries[i].at = "open"
      BY <2>2 DEF ScopeInv, EntryHolds, Held
    <3> QED BY <1>1, <1>5, <2>2, <3>1, <3>2 DEF ScopeInv
  <2> QED BY <1>2, <2>1, <2>2
<1>7. DisposalKept
  BY <1>1 DEF DisposalKept, Scope!Starts
<1> QED BY <1>4, <1>6, <1>7 DEF ScopeInv

\* One entry changes, and neither where it was admitted nor the scope: it may be released when
\* nobody holds it, and does not come back.
LEMMA EntryMoves ==
  ASSUME ScopeInv, NEW i \in DOMAIN entries, NEW e \in Scope!Entry,
         entries' = [entries EXCEPT ![i] = e], EntryHolds(e, phase), e.at = entries[i].at,
         entries[i].end = "gone" => e.end = "gone",
         Held(e) /\ e.released => Held(entries[i]) /\ entries[i].released,
         entries[i].caller = "waits" /\ e.caller = "given" => phase = "open" /\ ~e.released,
         entries[i].end = "in" /\ e.end = "disposing" => entries[i].released,
         failures' \in BOOLEAN, UNCHANGED <<phase, batch, result, waiter>>
  PROVE  ScopeInv' /\ DisposalKept
<1>0. entries \in Seq(Scope!Entry)
  BY DEF ScopeInv, ScopeTypes
<1>1. /\ entries' \in Seq(Scope!Entry) /\ DOMAIN entries' = DOMAIN entries /\ Len(entries') = Len(entries)
      /\ entries'[i] = e /\ \A j \in DOMAIN entries \ {i} : entries'[j] = entries[j]
  BY <1>0
<1>2. ScopeTypes'
  BY <1>1 DEF ScopeInv, ScopeTypes
<1>3. \A j \in DOMAIN entries : entries'[j].at = entries[j].at /\ (entries[j].end = "gone" => entries'[j].end = "gone")
  BY <1>1
<1>4. \A j \in DOMAIN entries : Scope!LaterAreGone(j) => Scope!LaterAreGone(j)'
  <2>1. \A j \in DOMAIN entries : (j + 1)..Len(entries) \subseteq DOMAIN entries
    BY <1>0
  <2> QED BY <1>1, <1>3, <2>1 DEF Scope!LaterAreGone
<1>5. ASSUME NEW j \in DOMAIN entries'
      PROVE  /\ EntryHolds(entries'[j], phase')
             /\ phase' = "finishing" /\ entries'[j].at = "open" /\ entries'[j].end # "gone" => j \in batch'
             /\ Held(entries'[j]) /\ entries'[j].released => Scope!LaterAreGone(j)'
  <2>1. EntryHolds(entries'[j], phase')
    BY <1>1 DEF ScopeInv, EntryHolds
  <2>2. Held(entries'[j]) /\ entries'[j].released => Held(entries[j]) /\ entries[j].released
    BY <1>1
  <2> QED BY <1>1, <1>3, <1>4, <2>1, <2>2 DEF ScopeInv
<1>6. DisposalKept
  <2>1. ASSUME NEW j \in DOMAIN entries, entries[j].caller = "waits", entries'[j].caller = "given"
        PROVE phase' = "open" /\ ~entries'[j].released
    BY <1>1, <2>1
  <2>2. ASSUME NEW j \in DOMAIN entries, Scope!Starts(j), Held(entries[j])
        PROVE Scope!LaterAreGone(j)
    <3>1. j = i /\ entries[j].released
      BY <1>1, <2>2 DEF Scope!Starts
    <3> QED BY <2>2, <3>1 DEF ScopeInv
  <2> QED BY <2>1, <2>2 DEF DisposalKept
<1> QED BY <1>2, <1>5, <1>6 DEF ScopeInv

\* The last of some entries, when there are any.
LEMMA LastIsLast ==
  ASSUME entries \in Seq(Scope!Entry), NEW b \in SUBSET DOMAIN entries, b # {}
  PROVE  Scope!LastOf(b) \in b /\ \A j \in b : j <= Scope!LastOf(b)
<1> DEFINE T == {Len(entries) - j : j \in b}
<1>1. T \subseteq Nat /\ T # {} /\ Len(entries) \in Nat /\ b \subseteq Nat
  OBVIOUS
<1>2. PICK x \in T : \A y \in T : x <= y
  BY <1>1, Least
<1>3. PICK i \in b : x = Len(entries) - i
  OBVIOUS
<1>4. \A j \in b : Len(entries) - i <= Len(entries) - j
  BY <1>2, <1>3
<1>5. \A j \in b : j <= i
  BY <1>1, <1>4
<1> QED BY <1>5 DEF Scope!LastOf

\* The close takes the next entry, or settles.
LEMMA ScopeGoesOn ==
  ASSUME ScopeInv, phase \in {"aborting", "finishing"}, NEW b \in SUBSET DOMAIN entries, Scope!GoOn(b),
         \A i \in DOMAIN entries : entries[i].end # "gone" /\ (entries[i].at = "open" \/ b = {}) => i \in b
  PROVE  ScopeInv' /\ DisposalKept
<1>0. entries \in Seq(Scope!Entry)
  BY DEF ScopeInv, ScopeTypes
<1>1. CASE b = {}
  <2>1. /\ phase' = "settled" /\ batch' = {} /\ entries' = entries
        /\ result' \in {"resolved", "rejected"} /\ UNCHANGED <<failures, waiter>>
    BY <1>1 DEF Scope!GoOn
  <2>2. \A i \in DOMAIN entries : entries[i].end = "gone"
    BY <1>1
  <2>3. ScopeTypes'
    BY <2>1 DEF ScopeInv, ScopeTypes
  <2>4. \A i \in DOMAIN entries : Scope!LaterAreGone(i)'
    <3>1. \A i \in DOMAIN entries : (i + 1)..Len(entries) \subseteq DOMAIN entries
      BY <1>0
    <3> QED BY <2>1, <2>2, <3>1 DEF Scope!LaterAreGone
  <2>5. \A i \in DOMAIN entries : EntryHolds(entries[i], phase')
    BY <2>1, <2>2 DEF ScopeInv, EntryHolds
  <2>6. DisposalKept
    BY <2>1, <2>2 DEF DisposalKept, Scope!Starts
  <2> QED BY <2>1, <2>3, <2>4, <2>5, <2>6 DEF ScopeInv
<1>2. CASE b # {}
  <2> DEFINE n == Scope!LastOf(b)
  <2>1. n \in b /\ \A j \in b : j <= n
    BY <1>0, <1>2, LastIsLast
  <2>2. /\ phase' = "finishing" /\ batch' = b /\ entries' = [entries EXCEPT ![n].released = TRUE]
        /\ result' = result /\ UNCHANGED <<failures, waiter>>
    BY <1>2 DEF Scope!GoOn, Scope!Released
  <2> HIDE DEF n
  <2> DEFINE e == [entries[n] EXCEPT !.released = TRUE]
  <2>3. entries[n] \in Scope!Entry /\ n \in DOMAIN entries
    BY <1>0, <2>1
  <2>4. /\ e \in Scope!Entry /\ e.released /\ e.at = entries[n].at /\ e.end = entries[n].end
        /\ e.value = entries[n].value /\ e.left = entries[n].left
        /\ e.caller = entries[n].caller /\ e.early = entries[n].early
    BY <2>3 DEF Scope!Entry
  <2>5. entries' = [entries EXCEPT ![n] = e]
    BY <2>2
  <2> HIDE DEF e
  <2>6. /\ entries' \in Seq(Scope!Entry) /\ DOMAIN entries' = DOMAIN entries /\ Len(entries') = Len(entries)
        /\ entries'[n] = e /\ \A j \in DOMAIN entries \ {n} : entries'[j] = entries[j]
    BY <1>0, <2>3, <2>4, <2>5
  <2>7. ScopeTypes'
    BY <2>2, <2>6 DEF ScopeInv, ScopeTypes
  <2>8. \A j \in DOMAIN entries : (j + 1)..Len(entries) \subseteq DOMAIN entries
    BY <1>0
  <2>9. \A j \in DOMAIN entries : entries'[j].at = entries[j].at /\ entries'[j].end = entries[j].end
            /\ entries'[j].caller = entries[j].caller
    BY <2>4, <2>6
  <2>10. \A j \in DOMAIN entries : Scope!LaterAreGone(j) => Scope!LaterAreGone(j)'
    BY <2>6, <2>8, <2>9 DEF Scope!LaterAreGone
  <2>11. Scope!LaterAreGone(n)'
    <3> SUFFICES ASSUME NEW j \in (n + 1)..Len(entries), entries[j].at = "open" PROVE entries[j].end = "gone"
      BY <2>3, <2>6, <2>8, <2>9 DEF Scope!LaterAreGone
    <3>1. j \in DOMAIN entries /\ ~(j <= n)
      BY <1>0, <2>3
    <3> QED BY <2>1, <3>1
  <2>12. ASSUME NEW j \in DOMAIN entries'
         PROVE  /\ EntryHolds(entries'[j], phase')
                /\ phase' = "finishing" /\ entries'[j].at = "open" /\ entries'[j].end # "gone" => j \in batch'
                /\ Held(entries'[j]) /\ entries'[j].released => Scope!LaterAreGone(j)'
    <3>1. EntryHolds(entries'[j], phase')
      <4>1. EntryHolds(entries[j], phase)
        BY <2>6 DEF ScopeInv
      <4> QED BY <2>2, <2>4, <2>6, <4>1 DEF EntryHolds
    <3>2. j # n => (Held(entries'[j]) /\ entries'[j].released => Scope!LaterAreGone(j)')
      BY <2>6, <2>10 DEF ScopeInv
    <3> QED BY <2>2, <2>6, <2>9, <2>11, <3>1, <3>2
  <2>13. DisposalKept
    BY <2>9 DEF DisposalKept, Scope!Starts
  <2> QED BY <2>7, <2>12, <2>13 DEF ScopeInv
<1> QED BY <1>1, <1>2

\* What is acquired or owned.
LEMMA ScopeAdmits ==
  ASSUME ScopeInv, Scope!Acquire \/ \E n \in {1, 2} : Scope!Own(n)
  PROVE  ScopeInv' /\ DisposalKept
<1>0. phase \in {"open", "aborting", "finishing", "settled"}
  BY DEF ScopeInv, ScopeTypes
<1>1. CASE Scope!Acquire
  <2> DEFINE e == [at |-> phase, value |-> "reserved", released |-> FALSE, early |-> FALSE,
                   end |-> "in", left |-> 1, caller |-> "waits"]
  <2>1. /\ e \in Scope!Entry /\ EntryHolds(e, phase) /\ e.at = phase /\ e.end = "in"
        /\ entries' = Append(entries, e) /\ ~e.released
        /\ UNCHANGED <<phase, batch, failures, result, waiter>>
    BY <1>0, <1>1 DEF Scope!Acquire, Scope!aborted, Scope!Entry, EntryHolds, Held
  <2> HIDE DEF e
  <2> QED BY <2>1, EntryAdmitted
<1>2. ASSUME NEW k \in {1, 2}, Scope!Own(k) PROVE ScopeInv' /\ DisposalKept
  <2> DEFINE r == Scope!aborted
             e == [at |-> phase, value |-> "open", released |-> r, early |-> FALSE,
                   end |-> "in", left |-> k, caller |-> "none"]
  <2>1. entries' = Append(entries, e) /\ UNCHANGED <<phase, batch, failures, result, waiter>>
    BY <1>2 DEF Scope!Own
  <2>2. r \in BOOLEAN /\ (r <=> phase # "open")
    BY DEF Scope!aborted
  <2> HIDE DEF r
  <2>3. /\ e \in Scope!Entry /\ e.at = phase /\ e.end = "in" /\ (e.released <=> r) /\ e.left = k
        /\ e.caller = "none"
    BY <1>0, <2>2 DEF Scope!Entry
  <2> HIDE DEF e
  <2>4. EntryHolds(e, phase) /\ (~Held(e) \/ ~e.released)
    BY <1>0, <2>2, <2>3 DEF EntryHolds, Held
  <2> QED BY <2>1, <2>3, <2>4, EntryAdmitted
<1> QED BY <1>1, <1>2

\* What happens to one entry.
LEMMA ScopeEntryMoves ==
  ASSUME ScopeInv, NEW i \in DOMAIN entries,
         \/ Scope!Opens(i) \/ Scope!OpenEnds(i) \/ Scope!Continues(i) \/ Scope!ReleaseEarly(i)
         \/ Scope!Dispose(i) \/ \E fails \in BOOLEAN : Scope!Disposed(i, fails)
  PROVE  ScopeInv' /\ DisposalKept
<1> DEFINE x == entries[i]
<1>0. /\ entries \in Seq(Scope!Entry) /\ x \in Scope!Entry /\ EntryHolds(x, phase)
      /\ phase \in {"open", "aborting", "finishing", "settled"} /\ failures \in BOOLEAN
  BY DEF ScopeInv, ScopeTypes
<1>1. CASE Scope!Opens(i)
  <2> DEFINE e == [x EXCEPT !.value = IF phase # "open" THEN "failed" ELSE "opening"]
  <2>1. /\ entries' = [entries EXCEPT ![i] = e] /\ x.value = "reserved"
        /\ UNCHANGED <<phase, batch, failures, result, waiter>>
    BY <1>1 DEF Scope!Opens, Scope!aborted
  <2>2. /\ e \in Scope!Entry /\ e.at = x.at /\ e.end = x.end /\ e.released = x.released
        /\ e.caller = x.caller /\ e.early = x.early /\ e.left = x.left
    BY <1>0 DEF Scope!Entry
  <2> HIDE DEF e
  <2>3. EntryHolds(e, phase) /\ (Held(e) <=> Held(x)) /\ x.end # "disposing"
    BY <1>0, <2>1, <2>2 DEF EntryHolds, Held, Scope!Entry
  <2> QED BY <1>0, <2>1, <2>2, <2>3, EntryMoves
<1>2. CASE Scope!OpenEnds(i)
  <2>1. PICK v \in {"open", "failed"} : entries' = [entries EXCEPT ![i].value = v]
    BY <1>2 DEF Scope!OpenEnds
  <2> DEFINE e == [x EXCEPT !.value = v]
  <2>2. /\ entries' = [entries EXCEPT ![i] = e] /\ x.value = "opening"
        /\ UNCHANGED <<phase, batch, failures, result, waiter>>
    BY <1>2, <2>1 DEF Scope!OpenEnds
  <2>3. /\ e \in Scope!Entry /\ e.at = x.at /\ e.end = x.end /\ e.released = x.released
        /\ e.caller = x.caller /\ e.early = x.early /\ e.left = x.left
    BY <1>0 DEF Scope!Entry
  <2> HIDE DEF e
  <2>4. EntryHolds(e, phase) /\ (Held(e) <=> Held(x)) /\ x.end # "disposing"
    BY <1>0, <2>2, <2>3 DEF EntryHolds, Held, Scope!Entry
  <2> QED BY <1>0, <2>2, <2>3, <2>4, EntryMoves
<1>3. CASE Scope!Continues(i)
  <2>1. /\ x.caller = "waits" /\ phase # "aborting"
        /\ UNCHANGED <<phase, batch, failures, result, waiter>>
    BY <1>3 DEF Scope!Continues
  <2>2. CASE x.value = "open" /\ phase = "open"
    <3> DEFINE e == [x EXCEPT !.caller = "given"]
    <3>1. entries' = [entries EXCEPT ![i] = e]
      BY <1>3, <2>2 DEF Scope!Continues, Scope!aborted
    <3>2. /\ e \in Scope!Entry /\ e.at = x.at /\ e.end = x.end /\ e.released = x.released
          /\ e.caller = "given" /\ e.early = x.early /\ e.left = x.left /\ e.value = x.value
      BY <1>0 DEF Scope!Entry
    <3> HIDE DEF e
    <3>3. EntryHolds(e, phase) /\ ~e.released
      BY <1>0, <2>1, <2>2, <3>2 DEF EntryHolds, Held, Scope!Entry
    <3> QED BY <1>0, <2>1, <2>2, <3>1, <3>2, <3>3, EntryMoves
  <2>3. CASE ~(x.value = "open" /\ phase = "open")
    <3> DEFINE e == [x EXCEPT !.caller = "refused", !.released = TRUE]
    <3>1. entries' = [entries EXCEPT ![i] = e]
      BY <1>0, <1>3, <2>3 DEF Scope!Continues, Scope!aborted, Scope!Released
    <3>2. /\ e \in Scope!Entry /\ e.at = x.at /\ e.end = x.end /\ e.released
          /\ e.caller = "refused" /\ e.early = x.early /\ e.left = x.left /\ e.value = x.value
      BY <1>0 DEF Scope!Entry
    <3> HIDE DEF e
    <3>3. EntryHolds(e, phase) /\ ~Held(e)
      BY <1>0, <2>1, <3>2 DEF EntryHolds, Held, Scope!Entry
    <3> QED BY <1>0, <2>1, <3>1, <3>2, <3>3, EntryMoves
  <2> QED BY <2>2, <2>3
<1>4. CASE Scope!ReleaseEarly(i)
  <2> DEFINE e == [x EXCEPT !.early = TRUE, !.released = TRUE]
  <2>1. /\ entries' = [entries EXCEPT ![i] = e] /\ x.caller = "none"
        /\ UNCHANGED <<phase, batch, failures, result, waiter>>
    BY <1>0, <1>4 DEF Scope!ReleaseEarly, Scope!Released
  <2>2. /\ e \in Scope!Entry /\ e.at = x.at /\ e.end = x.end /\ e.released /\ e.early
        /\ e.caller = x.caller /\ e.left = x.left /\ e.value = x.value
    BY <1>0 DEF Scope!Entry
  <2> HIDE DEF e
  <2>3. EntryHolds(e, phase) /\ ~Held(e)
    BY <1>0, <2>1, <2>2 DEF EntryHolds, Held, Scope!Entry
  <2> QED BY <1>0, <2>1, <2>2, <2>3, EntryMoves
<1>5. CASE Scope!Dispose(i)
  <2> DEFINE e == [x EXCEPT !.end = IF x.value = "open" THEN "disposing" ELSE "gone"]
  <2>1. /\ entries' = [entries EXCEPT ![i] = e] /\ x.released /\ x.end = "in"
        /\ UNCHANGED <<phase, batch, failures, result, waiter>>
    BY <1>5 DEF Scope!Dispose
  <2>2. /\ e \in Scope!Entry /\ e.at = x.at /\ e.end = (IF x.value = "open" THEN "disposing" ELSE "gone")
        /\ e.released = x.released /\ e.early = x.early
        /\ e.caller = x.caller /\ e.left = x.left /\ e.value = x.value
    BY <1>0 DEF Scope!Entry
  <2> HIDE DEF e
  <2>3. EntryHolds(e, phase) /\ (Held(e) <=> Held(x))
    BY <1>0, <2>1, <2>2 DEF EntryHolds, Held, Scope!Entry
  <2> QED BY <1>0, <2>1, <2>2, <2>3, EntryMoves
<1>6. ASSUME NEW fails \in BOOLEAN, Scope!Disposed(i, fails) PROVE ScopeInv' /\ DisposalKept
  <2> DEFINE e == [x EXCEPT !.left = x.left - 1, !.end = IF x.left > 1 THEN x.end ELSE "gone"]
  <2>1. /\ entries' = [entries EXCEPT ![i] = e] /\ x.end = "disposing"
        /\ failures' = (failures \/ fails) /\ UNCHANGED <<phase, batch, result, waiter>>
    BY <1>0, <1>6 DEF Scope!Disposed
  <2>2. x.left \in 1..2
    BY <1>0, <2>1 DEF EntryHolds
  <2>3. /\ e \in Scope!Entry /\ e.at = x.at /\ e.end = (IF x.left > 1 THEN "disposing" ELSE "gone")
        /\ e.released = x.released /\ e.early = x.early /\ e.left = x.left - 1
        /\ e.caller = x.caller /\ e.value = x.value
    <3>1. x.left - 1 \in 0..2 /\ (IF x.left > 1 THEN x.end ELSE "gone") \in {"disposing", "gone"}
      BY <2>1, <2>2
    <3>2. e \in Scope!Entry
      BY <1>0, <3>1 DEF Scope!Entry
    <3> QED BY <1>0, <2>1, <3>2 DEF Scope!Entry
  <2> HIDE DEF e
  <2>4. EntryHolds(e, phase) /\ (Held(e) <=> Held(x))
    BY <1>0, <2>1, <2>2, <2>3 DEF EntryHolds, Held, Scope!Entry
  <2>5. failures' \in BOOLEAN
    BY <1>0, <2>1
  <2> QED BY <1>0, <2>1, <2>3, <2>4, <2>5, EntryMoves
<1> QED BY <1>1, <1>2, <1>3, <1>4, <1>5, <1>6

\* The scope begins to close.
LEMMA ScopeCloses ==
  ASSUME ScopeInv, Scope!Close
  PROVE  ScopeInv' /\ DisposalKept
<1>1. /\ phase = "open" /\ phase' = "aborting" /\ waiter' = "waits"
      /\ UNCHANGED <<entries, batch, failures, result>>
  BY DEF Scope!Close, Scope!aborted
<1>2. ScopeTypes'
  BY <1>1 DEF ScopeInv, ScopeTypes
<1>3. ASSUME NEW i \in DOMAIN entries'
      PROVE  /\ EntryHolds(entries'[i], phase')
             /\ phase' = "finishing" /\ entries'[i].at = "open" /\ entries'[i].end # "gone" => i \in batch'
             /\ Held(entries'[i]) /\ entries'[i].released => Scope!LaterAreGone(i)'
  <2>1. EntryHolds(entries[i], phase) /\ entries'[i] = entries[i]
    BY <1>1 DEF ScopeInv
  <2>2. EntryHolds(entries'[i], phase')
    BY <1>1, <2>1 DEF EntryHolds
  <2>3. Held(entries[i]) => ~entries[i].released
    BY <1>1, <2>1 DEF EntryHolds
  <2> QED BY <1>1, <2>1, <2>2, <2>3
<1>4. DisposalKept
  BY <1>1 DEF DisposalKept, Scope!Starts
<1> QED BY <1>2, <1>3, <1>4 DEF ScopeInv

\* The deadline of the waiter, or nothing.
LEMMA ScopeWaits ==
  ASSUME ScopeInv, Scope!TimesOut \/ Scope!Told \/ UNCHANGED scopeVars
  PROVE  ScopeInv' /\ DisposalKept
<1>1. waiter' \in {waiter, "timedOut", "told"} /\ UNCHANGED <<entries, phase, batch, failures, result>>
  BY DEF Scope!TimesOut, Scope!Told, scopeVars
<1>2. ScopeTypes'
  BY <1>1 DEF ScopeInv, ScopeTypes
<1>3. \A i \in DOMAIN entries : Scope!LaterAreGone(i)' <=> Scope!LaterAreGone(i)
  BY <1>1 DEF Scope!LaterAreGone
<1>4. DisposalKept
  BY <1>1 DEF DisposalKept, Scope!Starts
<1> QED BY <1>1, <1>2, <1>3, <1>4 DEF ScopeInv, EntryHolds

\* Every step of a scope.
LEMMA ScopeNext ==
  ASSUME ScopeInv, [Scope!Next]_scopeVars
  PROVE  ScopeInv' /\ DisposalKept
<1>0. /\ entries \in Seq(Scope!Entry) /\ batch \subseteq DOMAIN entries
      /\ Scope!Remaining(entries) \subseteq DOMAIN entries
      /\ \A i \in DOMAIN entries : entries[i].end # "gone" => i \in Scope!Remaining(entries)
  <2>1. entries \in Seq(Scope!Entry) /\ batch \subseteq DOMAIN entries
    BY DEF ScopeInv, ScopeTypes
  <2>2. \A i \in DOMAIN entries : entries[i] \in Scope!Entry
    BY <2>1
  <2>3. \A i \in DOMAIN entries : entries[i].end \in {"in", "disposing", "gone"}
    BY <2>2 DEF Scope!Entry
  <2> QED BY <2>1, <2>3 DEF Scope!Remaining
<1>1. CASE Scope!FinishStarts
  BY <1>0, <1>1, ScopeGoesOn DEF Scope!FinishStarts
<1>2. CASE Scope!Advance
  <2> DEFINE b == IF Scope!RestOfBatch # {} THEN Scope!RestOfBatch ELSE Scope!Remaining(entries)
  <2>1. phase = "finishing" /\ Scope!LastOf(batch) \notin Scope!Remaining(entries) /\ Scope!GoOn(b)
    BY <1>2 DEF Scope!Advance
  <2>2. b \subseteq DOMAIN entries
    BY <1>0 DEF Scope!RestOfBatch
  <2>3. ASSUME NEW i \in DOMAIN entries, entries[i].end # "gone", entries[i].at = "open" \/ b = {}
        PROVE  i \in b
    <3>1. i \in Scope!Remaining(entries)
      BY <1>0, <2>3
    <3>2. CASE Scope!RestOfBatch = {}
      BY <3>1, <3>2
    <3>3. CASE Scope!RestOfBatch # {}
      <4>1. i \in batch
        BY <2>1, <2>3, <3>3 DEF ScopeInv
      <4> QED BY <2>1, <3>1, <3>3, <4>1 DEF Scope!RestOfBatch
    <3> QED BY <3>2, <3>3
  <2> HIDE DEF b
  <2> QED BY <2>1, <2>2, <2>3, ScopeGoesOn
<1>3. CASE Scope!Acquire \/ \E n \in {1, 2} : Scope!Own(n)
  BY <1>3, ScopeAdmits
<1>4. CASE \E i \in DOMAIN entries :
        \/ Scope!Opens(i) \/ Scope!OpenEnds(i) \/ Scope!Continues(i) \/ Scope!ReleaseEarly(i) \/ Scope!Dispose(i)
        \/ \E fails \in BOOLEAN : Scope!Disposed(i, fails)
  BY <1>4, ScopeEntryMoves
<1>5. CASE Scope!Close
  BY <1>5, ScopeCloses
<1>6. CASE Scope!TimesOut \/ Scope!Told \/ UNCHANGED scopeVars
  BY <1>6, ScopeWaits
<1> QED BY <1>1, <1>2, <1>3, <1>4, <1>5, <1>6 DEF Scope!Next

\* What a scope promises of its states.
LEMMA ScopeProperties ==
  ASSUME ScopeInv PROVE Scope!TypeOK /\ Scope!SettledMeansGone
BY DEF ScopeInv, ScopeTypes, EntryHolds, Scope!TypeOK, Scope!SettledMeansGone

-----------------------------------------------------------------------------
(* The calls *)

CallMsg == [kind : {"call"}, call : Nat, id : Nat, cb : Nat, listen : BOOLEAN]
StopMsg == [kind : {"remove"}, cbs : SUBSET Nat]
Packets == [kind : {"resp", "end"}, call : Nat, id : Nat]
Serving == [call : Nat, id : Nat, cb : Nat, listen : BOOLEAN, due : BOOLEAN]
Subscription ==
    [live : BOOLEAN, recoverable : BOOLEAN, consumers : SUBSET Consumers, attempt : Nat, cb : Nat]

PoolHolds(p) ==
    /\ p \in [free : Seq(Nat), top : Nat]
    /\ p.free \in Seq(1..p.top)
    /\ Rpc!IsInjective(p.free)

\* The ids that were issued and not given back.
Taken(p) == 1..p.top \ Rpc!ToSet(p.free)

RpcTypes ==
    /\ requests \subseteq [call : Nat, id : Nat, cb : Nat] /\ callbacks \subseteq [call : Nat, id : Nat]
    /\ settled \in Seq(Int) /\ sub \in Subscription /\ connected \in BOOLEAN /\ replaced \in BOOLEAN
    /\ toServer \in Seq(CallMsg \cup StopMsg) /\ toClient \in Seq(Packets) /\ served \subseteq Serving

\* The ids: free, of a request, of a callback or of a cancelled one, and of one of these only.
IdsHeld ==
    /\ PoolHolds(pool)
    /\ \A p \in requests : p.id \in Taken(pool) /\ p.cb \in 0..pool.top
    /\ \A c \in callbacks : c.id \in Taken(pool)
    /\ zombies \subseteq Taken(pool)
    /\ \A p, q \in requests : p.id = q.id => p = q
    /\ \A c, d \in callbacks : c.id = d.id => c = d
    /\ \A p \in requests : p.id \notin zombies
    /\ \A c \in callbacks : c.id \notin zombies
    /\ \A p \in requests, c \in callbacks : p.id # c.id

\* The calls, and those the messages are about.
CallsHeld ==
    /\ \A p \in requests : p.call \in 1..Len(settled)
    /\ \A c \in callbacks : c.call \in 1..Len(settled)
    /\ \A n \in 1..Len(settled) : settled[n] \in {-1, 0} \cup 1..Len(settled)
    /\ \A n \in 1..Len(settled) : settled[n] = 0 => \E p \in requests : p.call = n
    /\ \A k \in DOMAIN toServer : toServer[k].kind = "call" => toServer[k].call \in 1..Len(settled)
    /\ \A k \in DOMAIN toClient : toClient[k].call \in 1..Len(settled)
    /\ \A s \in served : s.call \in 1..Len(settled)

SubHeld ==
    /\ sub.attempt \in 0..Len(settled)
    /\ ~connected => sub.attempt = 0
    /\ sub.live => sub.consumers # {}
    /\ sub.live /\ connected => sub.attempt # 0 /\ settled[sub.attempt] # -1
    /\ sub.live /\ ~connected => sub.recoverable

\* Until a client is disposed of: an id that a message or the server gives as that of a call
\* is not free and nobody else's, and no two of them give the same one.
IsOf(c, x, pl, rs, cs) ==
    /\ x \in Taken(pl)
    /\ \A p \in rs : p.id = x => p.call = c
    /\ \A b \in cs : b.id # x

Asks(m) == m.kind = "call" /\ m.id # 0
Answers(m) == m.kind = "resp"

AnswersFit ==
    /\ zombies = {}
    /\ \A k \in DOMAIN toServer : Asks(toServer[k]) => IsOf(toServer[k].call, toServer[k].id, pool, requests, callbacks)
    /\ \A s \in served : s.id # 0 => IsOf(s.call, s.id, pool, requests, callbacks)
    /\ \A k \in DOMAIN toClient : Answers(toClient[k]) => IsOf(toClient[k].call, toClient[k].id, pool, requests, callbacks)
    /\ \A k, l \in DOMAIN toServer :
        Asks(toServer[k]) /\ Asks(toServer[l]) /\ toServer[k].id = toServer[l].id => k = l
    /\ \A s, t \in served : s.id # 0 /\ s.id = t.id => s = t
    /\ \A k, l \in DOMAIN toClient :
        Answers(toClient[k]) /\ Answers(toClient[l]) /\ toClient[k].id = toClient[l].id => k = l
    /\ \A k \in DOMAIN toServer, s \in served : Asks(toServer[k]) => toServer[k].id # s.id
    /\ \A k \in DOMAIN toClient, s \in served : Answers(toClient[k]) => toClient[k].id # s.id
    /\ \A k \in DOMAIN toServer, l \in DOMAIN toClient :
        Asks(toServer[k]) /\ Answers(toClient[l]) => toServer[k].id # toClient[l].id
    /\ \A n \in 1..Len(settled) : settled[n] \in {-1, 0, n}

RpcInv == RpcTypes /\ IdsHeld /\ CallsHeld /\ SubHeld /\ (~replaced => AnswersFit)

\* What issuing an id does to the pool.
LEMMA IdIssued ==
  ASSUME NEW p, PoolHolds(p)
  PROVE  /\ PoolHolds(Rpc!Issue(p)) /\ Rpc!Issue(p).top >= p.top
         /\ Rpc!NextId(p) \in Taken(Rpc!Issue(p)) \ Taken(p)
         /\ Taken(p) \subseteq Taken(Rpc!Issue(p))
<1> DEFINE f == p.free  t == p.top
<1>0. f \in Seq(1..t) /\ t \in Nat /\ Rpc!IsInjective(f) /\ p \in [free : Seq(Nat), top : Nat]
  BY DEF PoolHolds
<1>1. CASE f = <<>>
  <2>1. Rpc!NextId(p) = t + 1 /\ Rpc!Issue(p) = [p EXCEPT !.top = t + 1]
    BY <1>1 DEF Rpc!NextId, Rpc!Issue
  <2>2. /\ Rpc!Issue(p) \in [free : Seq(Nat), top : Nat] /\ Rpc!Issue(p).top = t + 1
        /\ Rpc!Issue(p).free = <<>> /\ <<>> \in Seq(1..(t + 1))
    BY <1>0, <1>1, <2>1
  <2>3. Rpc!ToSet(<<>>) = {}
    BY DEF Rpc!ToSet
  <2> QED BY <1>0, <1>1, <2>1, <2>2, <2>3 DEF Taken, PoolHolds, Rpc!IsInjective
<1>2. CASE f # <<>>
  <2> DEFINE n == Len(f)  g == SubSeq(f, 1, n - 1)
  <2>1. Rpc!NextId(p) = f[n] /\ Rpc!Issue(p) = [p EXCEPT !.free = g]
    BY <1>2 DEF Rpc!NextId, Rpc!Issue, Rpc!Front, Rpc!Last
  <2>2. /\ n \in Nat \ {0} /\ DOMAIN f = 1..n /\ g \in Seq(1..t) /\ DOMAIN g = 1..(n - 1)
        /\ \A k \in 1..(n - 1) : g[k] = f[k]
    BY <1>0, <1>2
  <2>3. Seq(1..t) \subseteq Seq(Nat)
    BY <1>0
  <2>4. /\ Rpc!Issue(p) \in [free : Seq(Nat), top : Nat] /\ Rpc!Issue(p).top = t /\ Rpc!Issue(p).free = g
    BY <1>0, <2>1, <2>2, <2>3
  <2> HIDE DEF n, g
  <2>5. f[n] \in 1..t /\ n \in DOMAIN f
    BY <1>0, <2>2
  <2>6. \A k \in DOMAIN g : k \in DOMAIN f /\ k # n
    BY <2>2
  <2>7. Rpc!ToSet(g) \subseteq Rpc!ToSet(f)
    BY <2>2, <2>6 DEF Rpc!ToSet
  <2>8. f[n] \notin Rpc!ToSet(g) /\ f[n] \in Rpc!ToSet(f)
    BY <1>0, <2>2, <2>5, <2>6 DEF Rpc!ToSet, Rpc!IsInjective
  <2>9. Rpc!IsInjective(g)
    BY <1>0, <2>2, <2>6 DEF Rpc!IsInjective
  <2> QED BY <1>0, <2>1, <2>2, <2>4, <2>5, <2>7, <2>8, <2>9 DEF Taken, PoolHolds
<1> QED BY <1>1, <1>2

\* What giving one back does.
LEMMA IdReleased ==
  ASSUME NEW p, PoolHolds(p), NEW x \in Nat
  PROVE  /\ PoolHolds(Rpc!Release(p, x)) /\ Rpc!Release(p, x).top = p.top
         /\ Taken(p) \ {x} \subseteq Taken(Rpc!Release(p, x))
<1> DEFINE f == p.free  t == p.top
<1>0. f \in Seq(1..t) /\ t \in Nat /\ Rpc!IsInjective(f) /\ p \in [free : Seq(Nat), top : Nat]
  BY DEF PoolHolds
<1>1. CASE x \in 1..t /\ x \notin Rpc!ToSet(f)
  <2> DEFINE n == Len(f) + 1  g == Append(f, x)
  <2>1. Rpc!Release(p, x) = [p EXCEPT !.free = g]
    BY <1>1 DEF Rpc!Release
  <2>2. /\ n \in Nat \ {0} /\ DOMAIN f = 1..(n - 1) /\ g \in Seq(1..t) /\ DOMAIN g = 1..n
        /\ g[n] = x /\ \A k \in 1..(n - 1) : g[k] = f[k]
    BY <1>0, <1>1
  <2>3. Seq(1..t) \subseteq Seq(Nat)
    BY <1>0
  <2>4. /\ Rpc!Release(p, x) \in [free : Seq(Nat), top : Nat] /\ Rpc!Release(p, x).top = t
        /\ Rpc!Release(p, x).free = g
    BY <1>0, <2>1, <2>2, <2>3
  <2> HIDE DEF n, g
  <2>5. \A k \in DOMAIN g : k = n \/ (k # n /\ k \in DOMAIN f)
    BY <2>2
  <2>6. \A k \in DOMAIN f : f[k] # x
    BY <1>1 DEF Rpc!ToSet
  <2>7. Rpc!ToSet(g) \subseteq Rpc!ToSet(f) \cup {x}
    BY <2>2, <2>5 DEF Rpc!ToSet
  <2>8. Rpc!IsInjective(g)
    BY <1>0, <2>2, <2>5, <2>6 DEF Rpc!IsInjective
  <2> QED BY <1>0, <2>2, <2>4, <2>7, <2>8 DEF Taken, PoolHolds
<1>2. CASE ~(x \in 1..t /\ x \notin Rpc!ToSet(f))
  BY <1>0, <1>2 DEF Taken, Rpc!Release
<1> QED BY <1>1, <1>2

\* The client without calls.
LEMMA CallsStart ==
  ASSUME Rpc!Init PROVE RpcInv
<1>1. /\ pool = [free |-> <<>>, top |-> 0] /\ requests = {} /\ callbacks = {} /\ zombies = {}
      /\ settled = <<>> /\ connected = TRUE /\ replaced = FALSE
      /\ toServer = <<>> /\ toClient = <<>> /\ served = {}
      /\ sub = [live |-> FALSE, recoverable |-> FALSE, consumers |-> {}, attempt |-> 0, cb |-> 0]
  BY DEF Rpc!Init, Rpc!NoSub
<1>2. /\ <<>> \in Seq(Int) /\ <<>> \in Seq(Nat) /\ <<>> \in Seq(1..0) /\ <<>> \in Seq(CallMsg \cup StopMsg)
      /\ <<>> \in Seq(Packets) /\ DOMAIN <<>> = {} /\ Len(<<>>) = 0 /\ 1..0 = {}
  OBVIOUS
<1>3. RpcTypes
  BY <1>1, <1>2 DEF RpcTypes, Subscription
<1>4. IdsHeld
  BY <1>1, <1>2 DEF IdsHeld, PoolHolds, Rpc!IsInjective
<1>5. CallsHeld
  BY <1>1, <1>2 DEF CallsHeld
<1>6. SubHeld
  BY <1>1, <1>2 DEF SubHeld
<1>7. AnswersFit
  BY <1>1, <1>2 DEF AnswersFit
<1> QED BY <1>3, <1>4, <1>5, <1>6, <1>7 DEF RpcInv

\* A call goes out, of the client or of its subscription.
LEMMA CallGoesOut ==
  ASSUME RpcInv, NEW listen \in BOOLEAN, NEW withCallback \in BOOLEAN, NEW wait \in BOOLEAN,
         Rpc!SendCall(listen, withCallback, wait), UNCHANGED <<zombies, replaced, toClient, served>>,
         sub' \in Subscription, connected' \in BOOLEAN
  PROVE  /\ RpcTypes' /\ IdsHeld' /\ CallsHeld' /\ (~replaced' => AnswersFit')
         /\ Len(settled') = Len(settled) + 1 /\ settled'[Len(settled) + 1] # -1
         /\ \A n \in 1..Len(settled) : settled'[n] = settled[n]
<1> DEFINE cb    == IF withCallback THEN Rpc!NextId(pool) ELSE 0
           after == IF withCallback THEN Rpc!Issue(pool) ELSE pool
           id    == IF wait THEN Rpc!NextId(after) ELSE 0
           call  == Len(settled) + 1
           m     == [kind |-> "call", call |-> call, id |-> id, cb |-> cb, listen |-> listen]
           last  == Len(toServer) + 1
<1>0. RpcTypes /\ IdsHeld /\ CallsHeld /\ (~replaced => AnswersFit)
  BY DEF RpcInv
<1>1. /\ PoolHolds(after) /\ after.top >= pool.top /\ Taken(pool) \subseteq Taken(after)
      /\ withCallback => cb \in Taken(after) \ Taken(pool)
  BY <1>0, IdIssued DEF IdsHeld, PoolHolds
<1>2. pool' = IF wait THEN Rpc!Issue(after) ELSE after
  BY DEF Rpc!SendCall, Rpc!Made
<1>3. /\ PoolHolds(pool') /\ pool'.top >= after.top /\ Taken(after) \subseteq Taken(pool')
      /\ wait => id \in Taken(pool') \ Taken(after)
  <2> HIDE DEF after
  <2> QED BY <1>1, <1>2, IdIssued DEF PoolHolds
<1>4. /\ callbacks' = (IF withCallback THEN callbacks \cup {[call |-> call, id |-> cb]} ELSE callbacks)
      /\ requests' = (IF wait THEN requests \cup {[call |-> call, id |-> id, cb |-> cb]} ELSE requests)
      /\ settled' = Append(settled, IF wait THEN 0 ELSE call)
      /\ toServer' = Append(toServer, m)
  BY DEF Rpc!SendCall, Rpc!Made
<1>5. ~withCallback => cb = 0
  OBVIOUS
<1>6. ~wait => id = 0
  OBVIOUS
<1>7. pool.top \in Nat /\ after.top \in Nat /\ pool'.top \in Nat
  BY <1>0, <1>1, <1>3 DEF IdsHeld, PoolHolds
<1>8. cb \in 0..pool'.top /\ id \in 0..pool'.top
  <2> HIDE DEF cb, id, after
  <2>1. withCallback => cb \in 1..after.top
    BY <1>1 DEF Taken
  <2>2. wait => id \in 1..pool'.top
    BY <1>3 DEF Taken
  <2> QED BY <1>3, <1>5, <1>6, <1>7, <2>1, <2>2
<1> HIDE DEF cb, id, after
<1>9. /\ settled \in Seq(Int) /\ toServer \in Seq(CallMsg \cup StopMsg) /\ Len(settled) \in Nat
      /\ Len(toServer) \in Nat
  BY <1>0 DEF RpcTypes
<1>10. m \in CallMsg /\ m.kind = "call" /\ m.call = call /\ m.id = id
  BY <1>7, <1>8, <1>9 DEF CallMsg
<1> HIDE DEF m
<1>11. /\ settled' \in Seq(Int) /\ Len(settled') = call /\ settled'[call] = (IF wait THEN 0 ELSE call)
       /\ \A n \in 1..Len(settled) : settled'[n] = settled[n]
  BY <1>4, <1>9
<1>12. /\ toServer' \in Seq(CallMsg \cup StopMsg) /\ Len(toServer') = last /\ toServer'[last] = m
       /\ DOMAIN toServer = 1..Len(toServer) /\ DOMAIN toServer' = 1..last
       /\ \A k \in 1..Len(toServer) : toServer'[k] = toServer[k]
  BY <1>4, <1>9, <1>10
<1>13. \A n \in 1..Len(settled') : n = call \/ n \in 1..Len(settled)
  BY <1>9, <1>11
<1>14. \A k \in DOMAIN toServer' : k = last \/ (k # last /\ k \in DOMAIN toServer)
  BY <1>9, <1>12
<1>15. 1..Len(settled) \subseteq 1..Len(settled') /\ call \in 1..Len(settled') /\ call \notin 1..Len(settled)
  BY <1>9, <1>11
<1> HIDE DEF last
<1>16. RpcTypes'
  <2>1. requests' \subseteq [call : Nat, id : Nat, cb : Nat]
    BY <1>0, <1>4, <1>7, <1>8, <1>9 DEF RpcTypes
  <2>2. callbacks' \subseteq [call : Nat, id : Nat]
    BY <1>0, <1>4, <1>7, <1>8, <1>9 DEF RpcTypes
  <2> QED BY <1>0, <1>11, <1>12, <2>1, <2>2 DEF RpcTypes
<1>17. \A p \in requests' : p \in requests \/ (wait /\ p.call = call /\ p.id = id /\ p.cb = cb)
  BY <1>4
<1>18. \A c \in callbacks' : c \in callbacks \/ (withCallback /\ c.call = call /\ c.id = cb)
  BY <1>4
<1>19. requests \subseteq requests' /\ (wait => \E p \in requests' : p.call = call)
  <2>1. wait => [call |-> call, id |-> id, cb |-> cb] \in requests'
    BY <1>4
  <2>2. [call |-> call, id |-> id, cb |-> cb].call = call
    OBVIOUS
  <2> QED BY <1>4, <2>1, <2>2
<1>20. \A p, q \in requests' : p \notin requests /\ q \notin requests => p = q
  BY <1>4
<1>21. \A c, d \in callbacks' : c \notin callbacks /\ d \notin callbacks => c = d
  BY <1>4
<1> HIDE DEF call
<1>22. IdsHeld'
  <2>1. \A p \in requests' : p.id \in Taken(pool') /\ p.cb \in 0..pool'.top
    BY <1>0, <1>1, <1>3, <1>7, <1>8, <1>17 DEF IdsHeld
  <2>2. \A c \in callbacks' : c.id \in Taken(pool')
    BY <1>0, <1>1, <1>3, <1>18 DEF IdsHeld
  <2>3. zombies' \subseteq Taken(pool')
    BY <1>0, <1>1, <1>3 DEF IdsHeld
  <2>4. \A p, q \in requests' : p.id = q.id => p = q
    BY <1>0, <1>1, <1>3, <1>17, <1>20 DEF IdsHeld
  <2>5. \A c, d \in callbacks' : c.id = d.id => c = d
    BY <1>0, <1>1, <1>3, <1>18, <1>21 DEF IdsHeld
  <2>6. \A p \in requests' : p.id \notin zombies'
    BY <1>0, <1>1, <1>3, <1>17 DEF IdsHeld
  <2>7. \A c \in callbacks' : c.id \notin zombies'
    BY <1>0, <1>1, <1>3, <1>18 DEF IdsHeld
  <2>8. \A p \in requests', c \in callbacks' : p.id # c.id
    BY <1>0, <1>1, <1>3, <1>17, <1>18 DEF IdsHeld
  <2> QED BY <1>3, <2>1, <2>2, <2>3, <2>4, <2>5, <2>6, <2>7, <2>8 DEF IdsHeld
<1>23. CallsHeld'
  <2>1. \A n \in 1..Len(settled') : settled'[n] \in {-1, 0} \cup 1..Len(settled')
    BY <1>0, <1>11, <1>13, <1>15 DEF CallsHeld
  <2>2. \A n \in 1..Len(settled') : settled'[n] = 0 => \E p \in requests' : p.call = n
    <3>1. ASSUME NEW n \in 1..Len(settled'), settled'[n] = 0 PROVE \E p \in requests' : p.call = n
      <4>1. CASE n = call
        <5>1. wait
          BY <1>9, <1>11, <3>1, <4>1 DEF call
        <5> QED BY <1>19, <4>1, <5>1
      <4>2. CASE n \in 1..Len(settled)
        BY <1>0, <1>11, <1>19, <3>1, <4>2 DEF CallsHeld
      <4> QED BY <1>13, <4>1, <4>2
    <3> QED BY <3>1
  <2>3. \A k \in DOMAIN toServer' : toServer'[k].kind = "call" => toServer'[k].call \in 1..Len(settled')
    BY <1>0, <1>10, <1>12, <1>14, <1>15 DEF CallsHeld
  <2>4. \A p \in requests' : p.call \in 1..Len(settled')
    BY <1>0, <1>15, <1>17 DEF CallsHeld
  <2>5. \A c \in callbacks' : c.call \in 1..Len(settled')
    BY <1>0, <1>15, <1>18 DEF CallsHeld
  <2>6. /\ \A k \in DOMAIN toClient' : toClient'[k].call \in 1..Len(settled')
        /\ \A s \in served' : s.call \in 1..Len(settled')
    BY <1>0, <1>15 DEF CallsHeld
  <2> QED BY <2>1, <2>2, <2>3, <2>4, <2>5, <2>6 DEF CallsHeld
<1>24. ASSUME ~replaced PROVE AnswersFit'
  <2>0. AnswersFit
    BY <1>0, <1>24
  <2>1. ASSUME NEW c, NEW x, IsOf(c, x, pool, requests, callbacks)
        PROVE IsOf(c, x, pool', requests', callbacks') /\ x # id
    BY <1>1, <1>3, <1>6, <1>17, <1>18, <2>1 DEF IsOf, Taken
  <2>2. wait => IsOf(call, id, pool', requests', callbacks')
    BY <1>0, <1>1, <1>3, <1>17, <1>18 DEF IsOf, IdsHeld
  <2>3. Asks(m) => wait
    BY <1>6, <1>10 DEF Asks
  <2>4. \A k \in DOMAIN toServer' : Asks(toServer'[k]) =>
            IsOf(toServer'[k].call, toServer'[k].id, pool', requests', callbacks')
    BY <1>10, <1>12, <1>14, <2>0, <2>1, <2>2, <2>3 DEF AnswersFit
  <2>5. \A k, l \in DOMAIN toServer' :
            Asks(toServer'[k]) /\ Asks(toServer'[l]) /\ toServer'[k].id = toServer'[l].id => k = l
    BY <1>10, <1>12, <1>14, <2>0, <2>1 DEF AnswersFit
  <2>6. \A k \in DOMAIN toServer', s \in served' : Asks(toServer'[k]) => toServer'[k].id # s.id
    <3>1. Asks(m) => \A s \in served : m.id # s.id
      BY <1>10, <2>0, <2>1 DEF AnswersFit, Asks
    <3> QED BY <1>12, <1>14, <2>0, <3>1 DEF AnswersFit
  <2>7. \A k \in DOMAIN toServer', l \in DOMAIN toClient' :
            Asks(toServer'[k]) /\ Answers(toClient'[l]) => toServer'[k].id # toClient'[l].id
    <3>1. \A l \in DOMAIN toClient : Asks(m) /\ Answers(toClient[l]) => m.id # toClient[l].id
      BY <1>10, <2>0, <2>1 DEF AnswersFit
    <3> QED BY <1>12, <1>14, <2>0, <3>1 DEF AnswersFit
  <2>8. \A n \in 1..Len(settled') : settled'[n] \in {-1, 0, n}
    BY <1>11, <1>13, <2>0 DEF AnswersFit
  <2>9. zombies' = {}
    BY <2>0 DEF AnswersFit
  <2>10. /\ \A s \in served' : s.id # 0 => IsOf(s.call, s.id, pool', requests', callbacks')
         /\ \A k \in DOMAIN toClient' : Answers(toClient'[k]) =>
                IsOf(toClient'[k].call, toClient'[k].id, pool', requests', callbacks')
    BY <2>0, <2>1 DEF AnswersFit
  <2>11. /\ \A s, t \in served' : s.id # 0 /\ s.id = t.id => s = t
         /\ \A k, l \in DOMAIN toClient' :
                Answers(toClient'[k]) /\ Answers(toClient'[l]) /\ toClient'[k].id = toClient'[l].id => k = l
         /\ \A k \in DOMAIN toClient', s \in served' : Answers(toClient'[k]) => toClient'[k].id # s.id
    BY <2>0 DEF AnswersFit
  <2> QED BY <2>4, <2>5, <2>6, <2>7, <2>8, <2>9, <2>10, <2>11 DEF AnswersFit
<1>25. Len(settled') = Len(settled) + 1 /\ settled'[Len(settled) + 1] # -1
  BY <1>9, <1>11 DEF call
<1> QED BY <1>11, <1>16, <1>22, <1>23, <1>24, <1>25

\* The subscription is stopped or changes, and no call goes out.
LEMMA StopGoesOut ==
  ASSUME RpcInv, toServer' = toServer \/ toServer' = Append(toServer, Rpc!StopMessage),
         UNCHANGED <<pool, requests, callbacks, zombies, settled, replaced, toClient, served>>,
         sub' \in Subscription, connected' \in BOOLEAN
  PROVE  RpcTypes' /\ IdsHeld' /\ CallsHeld' /\ (~replaced' => AnswersFit')
<1>0. RpcTypes /\ IdsHeld /\ CallsHeld /\ (~replaced => AnswersFit)
  BY DEF RpcInv
<1>1. toServer \in Seq(CallMsg \cup StopMsg) /\ sub.cb \in Nat
  BY <1>0 DEF RpcTypes, RpcInv, Subscription
<1>2. Rpc!StopMessage \in StopMsg /\ Rpc!StopMessage.kind # "call"
  BY <1>1 DEF Rpc!StopMessage, StopMsg
<1>3. /\ toServer' \in Seq(CallMsg \cup StopMsg)
      /\ \A k \in DOMAIN toServer' : toServer'[k].kind = "call" => k \in DOMAIN toServer /\ toServer'[k] = toServer[k]
  <2>1. CASE toServer' = toServer
    BY <1>1, <2>1
  <2>2. CASE toServer' = Append(toServer, Rpc!StopMessage)
    <3>1. /\ toServer' \in Seq(CallMsg \cup StopMsg) /\ DOMAIN toServer = 1..Len(toServer)
          /\ DOMAIN toServer' = 1..(Len(toServer) + 1) /\ toServer'[Len(toServer) + 1] = Rpc!StopMessage
          /\ \A k \in 1..Len(toServer) : toServer'[k] = toServer[k]
      BY <1>1, <1>2, <2>2
    <3>2. \A k \in DOMAIN toServer' : k = Len(toServer) + 1 \/ k \in DOMAIN toServer
      BY <1>1, <3>1
    <3> QED BY <1>2, <3>1, <3>2
  <2> QED BY <2>1, <2>2
<1>4. RpcTypes'
  BY <1>0, <1>3 DEF RpcTypes
<1>5. IdsHeld'
  BY <1>0 DEF IdsHeld
<1>6. CallsHeld'
  BY <1>0, <1>3 DEF CallsHeld
<1>7. ~replaced => AnswersFit'
  BY <1>0, <1>3 DEF AnswersFit, Asks
<1> QED BY <1>4, <1>5, <1>6, <1>7

\* A physical call for the subscription s, unless it has one.
LEMMA AttemptStarts ==
  ASSUME RpcInv, NEW s \in Subscription, Rpc!StartAttempt(s), connected' = TRUE,
         UNCHANGED <<zombies, replaced, toClient, served>>,
         s.attempt \in 0..Len(settled), s.live => s.consumers # {},
         s.live /\ s.attempt # 0 => settled[s.attempt] # -1
  PROVE  RpcInv'
<1>0. Len(settled) \in Nat /\ pool.top \in Nat /\ Rpc!NextId(pool) \in Nat
  <2>1. PoolHolds(pool) /\ pool.top \in Nat /\ Len(settled) \in Nat
    BY DEF RpcInv, RpcTypes, IdsHeld, PoolHolds
  <2>2. Rpc!NextId(pool) \in 1..Rpc!Issue(pool).top /\ Rpc!Issue(pool).top \in Nat
    BY <2>1, IdIssued DEF Taken, PoolHolds
  <2> QED BY <2>1, <2>2
<1>1. CASE s.attempt = 0
  <2> DEFINE t == [s EXCEPT !.attempt = Len(settled) + 1, !.cb = Rpc!NextId(pool)]
  <2>1. sub' = t /\ Rpc!SendCall(TRUE, TRUE, TRUE)
    BY <1>1 DEF Rpc!StartAttempt, Rpc!Made
  <2>2. t \in Subscription /\ t.attempt = Len(settled) + 1 /\ t.consumers = s.consumers /\ t.live = s.live
    <3> DEFINE n == Len(settled) + 1  x == Rpc!NextId(pool)
    <3>1. n \in Nat /\ x \in Nat
      BY <1>0
    <3> HIDE DEF n, x
    <3>2. [s EXCEPT !.attempt = n, !.cb = x] \in Subscription
      BY <3>1 DEF Subscription
    <3> QED BY <3>2 DEF Subscription, n, x
  <2> HIDE DEF t
  <2>3. /\ RpcTypes' /\ IdsHeld' /\ CallsHeld' /\ (~replaced' => AnswersFit')
        /\ Len(settled') = Len(settled) + 1 /\ settled'[Len(settled) + 1] # -1
    BY <2>1, <2>2, CallGoesOut
  <2>4. SubHeld'
    BY <1>0, <2>1, <2>2, <2>3 DEF SubHeld
  <2> QED BY <2>3, <2>4 DEF RpcInv
<1>2. CASE s.attempt # 0
  <2>1. sub' = s /\ UNCHANGED <<pool, requests, callbacks, settled, toServer>>
    BY <1>2 DEF Rpc!StartAttempt
  <2>2. RpcTypes' /\ IdsHeld' /\ CallsHeld' /\ (~replaced' => AnswersFit')
    BY <2>1, StopGoesOut
  <2>3. SubHeld'
    BY <1>2, <2>1 DEF SubHeld
  <2> QED BY <2>2, <2>3 DEF RpcInv
<1> QED BY <1>1, <1>2

\* A subscription without consumers.
LEMMA NoSubscription ==
  Rpc!NoSub \in Subscription /\ ~Rpc!NoSub.live /\ Rpc!NoSub.attempt = 0 /\ ~Rpc!NoSub.recoverable
BY DEF Rpc!NoSub, Subscription

\* Calls and subscriptions are made, stopped and resumed.
LEMMA SubscriptionMoves ==
  ASSUME RpcInv,
         \/ \E withCallback, wait \in BOOLEAN : Rpc!Call(withCallback, wait)
         \/ \E c \in Consumers : Rpc!Subscribe(c) \/ Rpc!Unsubscribe(c)
         \/ Rpc!AttemptEnds \/ Rpc!Connect
  PROVE  RpcInv'
<1>0. /\ sub \in Subscription /\ connected \in BOOLEAN /\ SubHeld /\ Len(settled) \in Nat
  BY DEF RpcInv, RpcTypes
<1>1. ASSUME NEW withCallback \in BOOLEAN, NEW wait \in BOOLEAN, Rpc!Call(withCallback, wait)
      PROVE  RpcInv'
  <2>1. /\ Rpc!SendCall(FALSE, withCallback, wait) /\ UNCHANGED <<zombies, sub, connected, replaced, toClient, served>>
    BY <1>1 DEF Rpc!Call
  <2>2. /\ RpcTypes' /\ IdsHeld' /\ CallsHeld' /\ (~replaced' => AnswersFit')
        /\ Len(settled') = Len(settled) + 1
        /\ \A n \in 1..Len(settled) : settled'[n] = settled[n]
    BY <1>0, <2>1, CallGoesOut
  <2>3. SubHeld'
    BY <1>0, <2>1, <2>2 DEF SubHeld, Subscription
  <2> QED BY <2>2, <2>3 DEF RpcInv
<1>2. ASSUME NEW c \in Consumers, Rpc!Subscribe(c)
      PROVE  RpcInv'
  <2>1. connected' = TRUE /\ connected /\ UNCHANGED <<zombies, replaced, toClient, served>>
    BY <1>0, <1>2 DEF Rpc!Subscribe
  <2>2. CASE sub.live
    <3> DEFINE s == [sub EXCEPT !.consumers = sub.consumers \cup {c}]
    <3>1. Rpc!StartAttempt(s)
      BY <1>2, <2>2 DEF Rpc!Subscribe
    <3>2. s \in Subscription /\ s.attempt = sub.attempt /\ s.consumers # {} /\ s.live = sub.live
      BY <1>0 DEF Subscription
    <3> HIDE DEF s
    <3> QED BY <1>0, <2>1, <2>2, <3>1, <3>2, AttemptStarts DEF SubHeld
  <2>3. CASE ~sub.live
    <3>1. PICK declared \in BOOLEAN : Rpc!StartAttempt([Rpc!NoSub EXCEPT !.live = TRUE, !.recoverable = declared,
                                             !.consumers = {c}])
      BY <1>2, <2>3 DEF Rpc!Subscribe
    <3> DEFINE s == [Rpc!NoSub EXCEPT !.live = TRUE, !.recoverable = declared, !.consumers = {c}]
    <3>2. s \in Subscription /\ s.attempt = 0 /\ s.consumers # {}
      BY NoSubscription DEF Subscription
    <3>3. Rpc!StartAttempt(s)
      BY <3>1
    <3> HIDE DEF s
    <3> QED BY <1>0, <2>1, <3>2, <3>3, AttemptStarts
  <2> QED BY <2>2, <2>3
<1>3. ASSUME NEW c \in Consumers, Rpc!Unsubscribe(c)
      PROVE  RpcInv'
  <2>1. UNCHANGED <<pool, requests, callbacks, zombies, settled, connected, replaced, toClient, served>>
    BY <1>3 DEF Rpc!Unsubscribe
  <2>2. toServer' = toServer \/ toServer' = Append(toServer, Rpc!StopMessage)
    BY <1>3 DEF Rpc!Unsubscribe
  <2>3. sub' \in Subscription /\ SubHeld'
    <3>1. CASE sub.consumers # {c}
      <4> DEFINE s == [sub EXCEPT !.consumers = sub.consumers \ {c}]
      <4>1. sub' = s /\ c \in sub.consumers
        BY <1>3, <3>1 DEF Rpc!Unsubscribe
      <4>2. /\ s \in Subscription /\ s.attempt = sub.attempt /\ s.live = sub.live
            /\ s.recoverable = sub.recoverable /\ s.consumers # {}
        BY <1>0, <3>1, <4>1 DEF Subscription
      <4> HIDE DEF s
      <4> QED BY <1>0, <2>1, <4>1, <4>2 DEF SubHeld
    <3>2. CASE sub.consumers = {c}
      <4>1. sub' = Rpc!NoSub
        BY <1>3, <3>2 DEF Rpc!Unsubscribe
      <4> QED BY <1>0, <2>1, <4>1, NoSubscription DEF SubHeld
    <3> QED BY <3>1, <3>2
  <2> QED BY <1>0, <2>1, <2>2, <2>3, StopGoesOut DEF RpcInv
<1>4. CASE Rpc!AttemptEnds
  <2>1. /\ sub' = Rpc!NoSub
        /\ UNCHANGED <<pool, requests, callbacks, zombies, settled, connected, replaced, toServer, toClient, served>>
    BY <1>4 DEF Rpc!AttemptEnds
  <2>2. SubHeld'
    BY <1>0, <2>1, NoSubscription DEF SubHeld
  <2> QED BY <1>0, <2>1, <2>2, NoSubscription, StopGoesOut DEF RpcInv
<1>5. CASE Rpc!Connect
  <2>1. ~connected /\ connected' = TRUE /\ UNCHANGED <<zombies, replaced, toClient, served>>
    BY <1>5 DEF Rpc!Connect
  <2>2. CASE Rpc!StartAttempt(sub)
    BY <1>0, <2>1, <2>2, AttemptStarts DEF SubHeld
  <2>3. CASE sub' = Rpc!NoSub /\ UNCHANGED <<pool, requests, callbacks, settled, toServer>>
    <3>1. SubHeld'
      BY <1>0, <2>1, <2>3, NoSubscription DEF SubHeld
    <3> QED BY <2>1, <2>3, <3>1, NoSubscription, StopGoesOut DEF RpcInv
  <2> QED BY <1>5, <2>2, <2>3 DEF Rpc!Connect
<1> QED BY <1>1, <1>2, <1>3, <1>4, <1>5

\* A packet is taken from the wire.
LEMMA PacketTaken ==
  ASSUME RpcInv, NEW k \in {"resp", "end"}, Rpc!Received(k)
  PROVE  /\ Rpc!Packet \in Packets /\ Rpc!Packet.kind = k /\ Rpc!Packet = toClient[1]
         /\ Rpc!Packet.call \in 1..Len(settled) /\ 1 \in DOMAIN toClient
         /\ toClient' \in Seq(Packets)
         /\ \A j \in DOMAIN toClient' : j + 1 \in DOMAIN toClient /\ toClient'[j] = toClient[j + 1] /\ j + 1 # 1
         /\ DOMAIN toClient' \subseteq Nat
         /\ UNCHANGED <<sub, connected, replaced, toServer, served>>
<1>1. toClient \in Seq(Packets) /\ toClient # <<>> /\ toClient' = Tail(toClient)
  BY DEF RpcInv, RpcTypes, Rpc!Received
<1>2. /\ Rpc!Packet = toClient[1] /\ Rpc!Packet \in Packets /\ 1 \in DOMAIN toClient
      /\ toClient' \in Seq(Packets)
      /\ DOMAIN toClient' = 1..(Len(toClient) - 1) /\ DOMAIN toClient = 1..Len(toClient) /\ Len(toClient) \in Nat
      /\ \A j \in 1..(Len(toClient) - 1) : toClient'[j] = toClient[j + 1]
  BY <1>1 DEF Rpc!Packet
<1>3. \A j \in DOMAIN toClient' : j + 1 \in DOMAIN toClient /\ j + 1 # 1 /\ j \in Nat
  BY <1>2
<1>4. Rpc!Packet.call \in 1..Len(settled)
  BY <1>2 DEF RpcInv, CallsHeld
<1> QED BY <1>2, <1>3, <1>4 DEF Rpc!Received

\* What is on the wire when a packet was taken, and what nobody is answered by any more.
LEMMA FitAfterPacket ==
  ASSUME RpcInv, NEW k \in {"resp", "end"}, Rpc!Received(k), ~replaced, zombies' = {},
         \A c, x : /\ IsOf(c, x, pool, requests, callbacks)
                   /\ k = "resp" => x # Rpc!Packet.id
                   => IsOf(c, x, pool', requests', callbacks'),
         \A n \in 1..Len(settled') : settled'[n] \in {-1, 0, n}
  PROVE  AnswersFit'
<1>0. AnswersFit
  BY DEF RpcInv
<1>1. /\ Rpc!Packet \in Packets /\ Rpc!Packet.kind = k /\ Rpc!Packet = toClient[1] /\ 1 \in DOMAIN toClient
      /\ \A j \in DOMAIN toClient' : j + 1 \in DOMAIN toClient /\ toClient'[j] = toClient[j + 1] /\ j + 1 # 1
      /\ DOMAIN toClient' \subseteq Nat /\ UNCHANGED <<toServer, served>>
  BY PacketTaken
<1>2. k = "resp" => Answers(toClient[1])
  BY <1>1 DEF Answers
<1>3. \A j \in DOMAIN toServer : Asks(toServer[j]) => (k = "resp" => toServer[j].id # Rpc!Packet.id)
  BY <1>0, <1>1, <1>2 DEF AnswersFit
<1>4. \A s \in served : k = "resp" => s.id # Rpc!Packet.id
  BY <1>0, <1>1, <1>2 DEF AnswersFit
<1>5. \A j \in DOMAIN toClient' : Answers(toClient'[j]) => (k = "resp" => toClient'[j].id # Rpc!Packet.id)
  BY <1>0, <1>1, <1>2 DEF AnswersFit
<1>6. \A j \in DOMAIN toServer : Asks(toServer[j]) =>
          IsOf(toServer[j].call, toServer[j].id, pool', requests', callbacks')
  BY <1>0, <1>3 DEF AnswersFit
<1>7. \A s \in served : s.id # 0 => IsOf(s.call, s.id, pool', requests', callbacks')
  BY <1>0, <1>4 DEF AnswersFit
<1>8. \A j \in DOMAIN toClient' : Answers(toClient'[j]) =>
          IsOf(toClient'[j].call, toClient'[j].id, pool', requests', callbacks')
  BY <1>0, <1>1, <1>5 DEF AnswersFit
<1>9. \A i, j \in DOMAIN toClient' :
          Answers(toClient'[i]) /\ Answers(toClient'[j]) /\ toClient'[i].id = toClient'[j].id => i = j
  <2> SUFFICES ASSUME NEW i \in DOMAIN toClient', NEW j \in DOMAIN toClient', Answers(toClient'[i]),
                      Answers(toClient'[j]), toClient'[i].id = toClient'[j].id
               PROVE i = j
    OBVIOUS
  <2>1. i + 1 = j + 1
    BY <1>0, <1>1 DEF AnswersFit
  <2> QED BY <1>1, <2>1
<1> QED BY <1>0, <1>1, <1>6, <1>7, <1>8, <1>9 DEF AnswersFit

\* A response settles the call of its request.
LEMMA ResponseArrives ==
  ASSUME RpcInv, Rpc!Answered
  PROVE  RpcInv'
<1>0. RpcTypes /\ IdsHeld /\ CallsHeld /\ SubHeld /\ PoolHolds(pool)
  BY DEF RpcInv, IdsHeld
<1>1. PICK p \in requests : /\ p.id = Rpc!Packet.id /\ requests' = requests \ {p}
                            /\ settled' = [settled EXCEPT ![p.call] = Rpc!Packet.call]
                            /\ callbacks' = {c \in callbacks : c.id # p.cb}
                            /\ pool' = LET freed == Rpc!Release(pool, p.id)
                                       IN  IF p.cb \in Rpc!Ids(callbacks) THEN Rpc!Release(freed, p.cb) ELSE freed
  BY DEF Rpc!Answered
<1>2. Rpc!Received("resp") /\ zombies' = zombies
  BY DEF Rpc!Answered
<1>3. /\ Rpc!Packet \in Packets /\ Rpc!Packet.kind = "resp" /\ Rpc!Packet = toClient[1] /\ 1 \in DOMAIN toClient
      /\ Rpc!Packet.call \in 1..Len(settled)
      /\ toClient' \in Seq(Packets)
      /\ \A j \in DOMAIN toClient' : j + 1 \in DOMAIN toClient /\ toClient'[j] = toClient[j + 1]
      /\ UNCHANGED <<sub, connected, replaced, toServer, served>>
  BY <1>2, PacketTaken
<1> DEFINE freed == Rpc!Release(pool, p.id)
           left  == {c \in callbacks : c.id # p.cb}
<1>4. p.id \in Nat /\ p.cb \in Nat /\ p.call \in 1..Len(settled) /\ settled \in Seq(Int)
  BY <1>0 DEF RpcTypes, CallsHeld
<1>5. PoolHolds(freed) /\ freed.top = pool.top /\ Taken(pool) \ {p.id} \subseteq Taken(freed)
  BY <1>0, <1>4, IdReleased
<1>6. PoolHolds(pool') /\ pool'.top = pool.top
      /\ \A x \in Taken(pool) : x # p.id /\ (x # p.cb \/ p.cb \notin Rpc!Ids(callbacks)) => x \in Taken(pool')
  <2> HIDE DEF freed
  <2>1. CASE p.cb \in Rpc!Ids(callbacks)
    <3>1. pool' = Rpc!Release(freed, p.cb)
      BY <1>1, <2>1 DEF freed
    <3>2. PoolHolds(pool') /\ pool'.top = freed.top /\ Taken(freed) \ {p.cb} \subseteq Taken(pool')
      BY <1>4, <1>5, <3>1, IdReleased
    <3> QED BY <1>5, <2>1, <3>2
  <2>2. CASE p.cb \notin Rpc!Ids(callbacks)
    <3>1. pool' = freed
      BY <1>1, <2>2 DEF freed
    <3> QED BY <1>5, <3>1
  <2> QED BY <2>1, <2>2
<1> HIDE DEF freed
<1>7. /\ settled' \in Seq(Int) /\ Len(settled') = Len(settled) /\ Len(settled) \in Nat
      /\ settled'[p.call] = Rpc!Packet.call /\ \A n \in 1..Len(settled) : n # p.call => settled'[n] = settled[n]
  BY <1>1, <1>3, <1>4
<1>8. \A c \in callbacks' : c \in callbacks /\ c.id # p.cb
  BY <1>1
<1>9. \A q \in requests' : q \in requests /\ q # p
  BY <1>1
<1>10. \A c \in callbacks : c.id \in Rpc!Ids(callbacks)
  BY DEF Rpc!Ids
<1>11. \A x \in Rpc!Ids(callbacks) : \E c \in callbacks : c.id = x
  BY DEF Rpc!Ids
<1>12. RpcTypes'
  BY <1>0, <1>3, <1>7, <1>8, <1>9 DEF RpcTypes
<1>13. IdsHeld'
  <2>1. \A q \in requests' : q.id \in Taken(pool') /\ q.cb \in 0..pool'.top
    BY <1>0, <1>6, <1>9, <1>11 DEF IdsHeld
  <2>2. \A c \in callbacks' : c.id \in Taken(pool')
    BY <1>0, <1>6, <1>8 DEF IdsHeld
  <2>3. zombies' \subseteq Taken(pool')
    BY <1>0, <1>2, <1>6, <1>11 DEF IdsHeld
  <2> QED BY <1>0, <1>2, <1>6, <1>8, <1>9, <2>1, <2>2, <2>3 DEF IdsHeld
<1>14. CallsHeld'
  <2>1. \A n \in 1..Len(settled') : settled'[n] = 0 => \E q \in requests' : q.call = n
    <3> SUFFICES ASSUME NEW n \in 1..Len(settled), settled'[n] = 0 PROVE \E q \in requests' : q.call = n
      BY <1>7
    <3>1. n # p.call
      BY <1>3, <1>7
    <3>2. PICK q \in requests : q.call = n
      BY <1>0, <1>7, <3>1 DEF CallsHeld
    <3> QED BY <1>1, <3>1, <3>2
  <2>2. \A n \in 1..Len(settled') : settled'[n] \in {-1, 0} \cup 1..Len(settled')
    BY <1>0, <1>3, <1>7 DEF CallsHeld
  <2> QED BY <1>0, <1>3, <1>7, <1>8, <1>9, <2>1, <2>2 DEF CallsHeld
<1>15. SubHeld'
  <2>1. Rpc!Packet.call # -1
    BY <1>3
  <2>2. \A n \in 1..Len(settled) : settled[n] # -1 => settled'[n] # -1
    BY <1>7, <2>1
  <2>3. sub.attempt # 0 => sub.attempt \in 1..Len(settled)
    BY <1>0, <1>7 DEF SubHeld
  <2> QED BY <1>0, <1>3, <1>7, <2>2, <2>3 DEF SubHeld
<1>16. ASSUME ~replaced PROVE AnswersFit'
  <2>1. AnswersFit
    BY <1>16 DEF RpcInv
  <2>2. IsOf(Rpc!Packet.call, Rpc!Packet.id, pool, requests, callbacks)
    BY <1>3, <2>1 DEF AnswersFit, Answers
  <2>3. Rpc!Packet.call = p.call
    BY <1>1, <2>2 DEF IsOf
  <2>4. \A n \in 1..Len(settled') : settled'[n] \in {-1, 0, n}
    BY <1>7, <2>1, <2>3 DEF AnswersFit
  <2>5. \A c, x : IsOf(c, x, pool, requests, callbacks) /\ x # Rpc!Packet.id => IsOf(c, x, pool', requests', callbacks')
    BY <1>1, <1>6, <1>8, <1>9, <1>11 DEF IsOf
  <2>6. zombies' = {}
    BY <1>2, <2>1 DEF AnswersFit
  <2> QED BY <1>2, <1>16, <2>4, <2>5, <2>6, FitAfterPacket
<1> QED BY <1>3, <1>12, <1>13, <1>14, <1>15, <1>16 DEF RpcInv

\* A response nobody waits for, or the end of a callback.
LEMMA EndArrives ==
  ASSUME RpcInv, Rpc!AnswersZombie \/ Rpc!CallbackEnds
  PROVE  RpcInv'
<1>0. RpcTypes /\ IdsHeld /\ CallsHeld /\ SubHeld /\ PoolHolds(pool)
  BY DEF RpcInv, IdsHeld
<1> DEFINE x == Rpc!Packet.id
<1>1. PICK k \in {"resp", "end"} : Rpc!Received(k) /\ UNCHANGED <<requests, settled>>
  BY DEF Rpc!AnswersZombie, Rpc!CallbackEnds
<1>2. /\ Rpc!Packet \in Packets /\ toClient' \in Seq(Packets)
      /\ \A j \in DOMAIN toClient' : j + 1 \in DOMAIN toClient /\ toClient'[j] = toClient[j + 1]
      /\ UNCHANGED <<sub, connected, replaced, toServer, served>>
  BY <1>1, PacketTaken
<1>3. x \in Nat /\ PoolHolds(Rpc!Release(pool, x)) /\ Rpc!Release(pool, x).top = pool.top
      /\ Taken(pool) \ {x} \subseteq Taken(Rpc!Release(pool, x))
  <2>1. x \in Nat
    BY <1>2 DEF Packets
  <2> QED BY <1>0, <2>1, IdReleased
<1> HIDE DEF x
<1>4. /\ callbacks' \subseteq callbacks /\ zombies' \subseteq zombies
      /\ \/ pool' = pool
         \/ /\ pool' = Rpc!Release(pool, x) /\ x \in zombies /\ x \notin zombies' /\ callbacks' = callbacks
         \/ /\ pool' = Rpc!Release(pool, x) /\ x \in Rpc!Ids(callbacks)
            /\ zombies' = zombies /\ callbacks' = {c \in callbacks : c.id # x}
  <2>1. CASE Rpc!AnswersZombie
    BY <2>1 DEF Rpc!AnswersZombie, x
  <2>2. CASE Rpc!CallbackEnds
    <3>1. callbacks' = {c \in callbacks : c.id # x}
      BY <2>2 DEF Rpc!CallbackEnds, x
    <3>2. CASE x \in Rpc!Ids(callbacks)
      BY <2>2, <3>1, <3>2 DEF Rpc!CallbackEnds, x
    <3>3. CASE x \notin Rpc!Ids(callbacks)
      <4>1. callbacks' = callbacks
        BY <3>1, <3>3 DEF Rpc!Ids
      <4>2. /\ zombies' = zombies \ {x}
            /\ pool' = IF x \in zombies THEN Rpc!Release(pool, x) ELSE pool
        BY <2>2, <3>3 DEF Rpc!CallbackEnds, x
      <4> QED BY <4>1, <4>2
    <3> QED BY <3>2, <3>3
  <2> QED BY <2>1, <2>2
<1>5. \A y \in Rpc!Ids(callbacks) : \E c \in callbacks : c.id = y
  BY DEF Rpc!Ids
<1>6. RpcTypes'
  BY <1>0, <1>1, <1>2, <1>4 DEF RpcTypes
<1>7. IdsHeld'
  <2>1. PoolHolds(pool') /\ pool'.top = pool.top
    BY <1>0, <1>3, <1>4
  <2>2. \A p \in requests' : p.id \in Taken(pool')
    BY <1>0, <1>1, <1>3, <1>4, <1>5 DEF IdsHeld
  <2>3. \A c \in callbacks' : c.id \in Taken(pool')
    BY <1>0, <1>3, <1>4, <1>5 DEF IdsHeld
  <2>4. zombies' \subseteq Taken(pool')
    BY <1>0, <1>3, <1>4, <1>5 DEF IdsHeld
  <2> QED BY <1>0, <1>1, <1>4, <2>1, <2>2, <2>3, <2>4 DEF IdsHeld
<1>8. CallsHeld'
  BY <1>0, <1>1, <1>2, <1>4 DEF CallsHeld
<1>9. SubHeld'
  BY <1>0, <1>1, <1>2 DEF SubHeld
<1>10. ASSUME ~replaced PROVE AnswersFit'
  <2>1. AnswersFit
    BY <1>10 DEF RpcInv
  <2>2. zombies = {} /\ zombies' = {} /\ \A n \in 1..Len(settled') : settled'[n] \in {-1, 0, n}
    BY <1>1, <1>4, <2>1 DEF AnswersFit
  <2>3. \A c, y : IsOf(c, y, pool, requests, callbacks) => IsOf(c, y, pool', requests', callbacks')
    BY <1>1, <1>3, <1>4, <1>5, <2>2 DEF IsOf
  <2> QED BY <1>1, <1>10, <2>2, <2>3, FitAfterPacket
<1> QED BY <1>2, <1>6, <1>7, <1>8, <1>9, <1>10 DEF RpcInv

\* What changes on the server only: every call it keeps comes from one it kept, or from the
\* message it takes, and what it sends is of the call that it then lets go.
LEMMA ServerMoves ==
  ASSUME RpcInv, UNCHANGED <<pool, requests, callbacks, zombies, settled, sub, connected, replaced>>,
         toServer' \in Seq(CallMsg \cup StopMsg), toClient' \in Seq(Packets), served' \subseteq Serving,
         \A k \in DOMAIN toServer' : toServer'[k].kind = "call" => toServer'[k].call \in 1..Len(settled),
         \A k \in DOMAIN toClient' : toClient'[k].call \in 1..Len(settled),
         \A s \in served' : s.call \in 1..Len(settled),
         AnswersFit => AnswersFit'
  PROVE  RpcInv'
<1>1. RpcTypes /\ IdsHeld /\ CallsHeld /\ SubHeld /\ (~replaced => AnswersFit)
  BY DEF RpcInv
<1>2. RpcTypes'
  BY <1>1 DEF RpcTypes
<1>3. IdsHeld'
  BY <1>1 DEF IdsHeld
<1>4. CallsHeld'
  BY <1>1 DEF CallsHeld
<1>5. SubHeld'
  BY <1>1 DEF SubHeld
<1> QED BY <1>1, <1>2, <1>3, <1>4, <1>5 DEF RpcInv

\* The server takes a message.
LEMMA MessageServed ==
  ASSUME RpcInv, Rpc!Serve
  PROVE  RpcInv'
<1> DEFINE m == Head(toServer)
           new == [call |-> m.call, id |-> m.id, cb |-> m.cb, listen |-> m.listen, due |-> ~m.listen]
<1>1. /\ toServer \in Seq(CallMsg \cup StopMsg) /\ toServer # <<>> /\ toServer' = Tail(toServer)
      /\ served \subseteq Serving /\ CallsHeld
      /\ UNCHANGED <<pool, requests, callbacks, zombies, settled, sub, connected, replaced, toClient>>
  BY DEF RpcInv, RpcTypes, Rpc!Serve
<1>2. /\ m \in CallMsg \cup StopMsg /\ m = toServer[1] /\ 1 \in DOMAIN toServer
      /\ toServer' \in Seq(CallMsg \cup StopMsg)
      /\ DOMAIN toServer' = 1..(Len(toServer) - 1) /\ DOMAIN toServer = 1..Len(toServer) /\ Len(toServer) \in Nat
      /\ \A j \in 1..(Len(toServer) - 1) : toServer'[j] = toServer[j + 1]
  BY <1>1
<1>3. /\ \A j \in DOMAIN toServer' : j + 1 \in DOMAIN toServer /\ j + 1 # 1 /\ toServer'[j] = toServer[j + 1]
      /\ DOMAIN toServer' \subseteq Int
  BY <1>2
<1>4. served' = IF m.kind = "call" THEN served \cup {new}
                ELSE {IF s \in Rpc!Stopped(m.cbs) THEN [s EXCEPT !.due = TRUE] ELSE s : s \in served}
  BY DEF Rpc!Serve
<1> HIDE DEF m
<1>5. m.kind = "call" => m \in CallMsg /\ m.call \in 1..Len(settled)
  BY <1>1, <1>2 DEF StopMsg, CallsHeld
<1>6. /\ \A k \in DOMAIN toServer' : toServer'[k].kind = "call" => toServer'[k].call \in 1..Len(settled)
      /\ \A k \in DOMAIN toClient' : toClient'[k].call \in 1..Len(settled)
  BY <1>1, <1>3 DEF CallsHeld
<1>7. ASSUME AnswersFit
      PROVE  \A i, j \in DOMAIN toServer' :
                Asks(toServer'[i]) /\ Asks(toServer'[j]) /\ toServer'[i].id = toServer'[j].id => i = j
  <2> SUFFICES ASSUME NEW i \in DOMAIN toServer', NEW j \in DOMAIN toServer', Asks(toServer'[i]),
                      Asks(toServer'[j]), toServer'[i].id = toServer'[j].id
               PROVE  i = j
    OBVIOUS
  <2>1. i + 1 = j + 1
    BY <1>3, <1>7 DEF AnswersFit
  <2> QED BY <1>3, <2>1
<1>8. CASE m.kind = "call"
  <2>0. /\ new.call = m.call /\ new.id = m.id
    OBVIOUS
  <2>1. served' = served \cup {new} /\ new \in Serving
    <3>1. (~m.listen) \in BOOLEAN
      BY <1>5, <1>8 DEF CallMsg
    <3>2. new \in Serving
      BY <1>5, <1>8, <3>1 DEF CallMsg, Serving
    <3> QED BY <1>4, <1>8, <3>2
  <2> HIDE DEF new
  <2>2. served' \subseteq Serving /\ \A s \in served' : s \in served \/ s = new
    BY <1>1, <2>1
  <2>3. \A s \in served' : s.call \in 1..Len(settled)
    BY <1>1, <1>5, <1>8, <2>0, <2>2 DEF CallsHeld
  <2>4. ASSUME AnswersFit PROVE AnswersFit'
    <3>1. new.id # 0 => Asks(toServer[1])
      BY <1>2, <1>8, <2>0 DEF Asks
    <3>2. new.id # 0 => IsOf(new.call, new.id, pool, requests, callbacks)
      BY <1>2, <2>0, <2>4, <3>1 DEF AnswersFit
    <3>3. \A s \in served : new.id # 0 => s.id # new.id
      BY <1>2, <2>0, <2>4, <3>1 DEF AnswersFit
    <3>4. \A k \in DOMAIN toClient : Answers(toClient[k]) => toClient[k].id # new.id
      <4>1. ASSUME NEW k \in DOMAIN toClient, Answers(toClient[k]) PROVE toClient[k].id # new.id
        <5>1. CASE new.id # 0
          BY <1>2, <2>0, <2>4, <3>1, <4>1, <5>1 DEF AnswersFit
        <5>2. CASE new.id = 0
          BY <2>4, <4>1, <5>2 DEF AnswersFit, IsOf, Taken
        <5> QED BY <5>1, <5>2
      <4> QED BY <4>1
    <3>5. \A k \in DOMAIN toServer' : Asks(toServer'[k]) => toServer'[k].id # new.id
      BY <1>2, <1>3, <2>0, <2>4, <3>1 DEF AnswersFit, Asks
    <3>6. \A s, t \in served' : s.id # 0 /\ s.id = t.id => s = t
      BY <2>2, <2>4, <3>3 DEF AnswersFit
    <3>7. \A s \in served' : s.id # 0 => IsOf(s.call, s.id, pool', requests', callbacks')
      BY <1>1, <2>2, <2>4, <3>2 DEF AnswersFit
    <3>8. \A k \in DOMAIN toServer' : Asks(toServer'[k]) =>
              IsOf(toServer'[k].call, toServer'[k].id, pool', requests', callbacks')
      BY <1>1, <1>3, <2>4 DEF AnswersFit
    <3>9. \A k \in DOMAIN toServer', s \in served' : Asks(toServer'[k]) => toServer'[k].id # s.id
      BY <1>3, <2>2, <2>4, <3>5 DEF AnswersFit
    <3>10. \A k \in DOMAIN toClient', s \in served' : Answers(toClient'[k]) => toClient'[k].id # s.id
      BY <1>1, <2>2, <2>4, <3>4 DEF AnswersFit
    <3>11. \A k \in DOMAIN toServer', l \in DOMAIN toClient' :
              Asks(toServer'[k]) /\ Answers(toClient'[l]) => toServer'[k].id # toClient'[l].id
      BY <1>1, <1>3, <2>4 DEF AnswersFit
    <3>12. /\ zombies' = {}
           /\ \A k \in DOMAIN toClient' : Answers(toClient'[k]) =>
                IsOf(toClient'[k].call, toClient'[k].id, pool', requests', callbacks')
           /\ \A k, l \in DOMAIN toClient' :
                Answers(toClient'[k]) /\ Answers(toClient'[l]) /\ toClient'[k].id = toClient'[l].id => k = l
           /\ \A n \in 1..Len(settled') : settled'[n] \in {-1, 0, n}
      BY <1>1, <2>4 DEF AnswersFit
    <3> QED BY <1>7, <2>4, <3>6, <3>7, <3>8, <3>9, <3>10, <3>11, <3>12 DEF AnswersFit
  <2> QED BY <1>1, <1>2, <1>6, <2>2, <2>3, <2>4, ServerMoves DEF RpcInv, RpcTypes
<1>9. CASE m.kind # "call"
  <2> DEFINE owed(s) == IF s \in Rpc!Stopped(m.cbs) THEN [s EXCEPT !.due = TRUE] ELSE s
  <2>1. served' = {owed(s) : s \in served}
    BY <1>4, <1>9
  <2>2. \A s \in served : owed(s) \in Serving /\ owed(s).call = s.call /\ owed(s).id = s.id
    BY <1>1 DEF Serving
  <2> HIDE DEF owed
  <2>3. \A t \in served' : \E s \in served : t = owed(s) /\ t \in Serving /\ t.call = s.call /\ t.id = s.id
    BY <2>1, <2>2
  <2>4. \A s \in served' : s.call \in 1..Len(settled)
    BY <1>1, <2>3 DEF CallsHeld
  <2>5. ASSUME AnswersFit PROVE AnswersFit'
    <3>1. \A s, t \in served' : s.id # 0 /\ s.id = t.id => s = t
      BY <2>3, <2>5 DEF AnswersFit
    <3>2. \A s \in served' : s.id # 0 => IsOf(s.call, s.id, pool', requests', callbacks')
      BY <1>1, <2>3, <2>5 DEF AnswersFit
    <3>3. \A k \in DOMAIN toServer' : Asks(toServer'[k]) =>
              IsOf(toServer'[k].call, toServer'[k].id, pool', requests', callbacks')
      BY <1>1, <1>3, <2>5 DEF AnswersFit
    <3>4. \A k \in DOMAIN toServer', s \in served' : Asks(toServer'[k]) => toServer'[k].id # s.id
      BY <1>3, <2>3, <2>5 DEF AnswersFit
    <3>5. \A k \in DOMAIN toClient', s \in served' : Answers(toClient'[k]) => toClient'[k].id # s.id
      BY <1>1, <2>3, <2>5 DEF AnswersFit
    <3>6. \A k \in DOMAIN toServer', l \in DOMAIN toClient' :
              Asks(toServer'[k]) /\ Answers(toClient'[l]) => toServer'[k].id # toClient'[l].id
      BY <1>1, <1>3, <2>5 DEF AnswersFit
    <3>7. /\ zombies' = {}
          /\ \A k \in DOMAIN toClient' : Answers(toClient'[k]) =>
                IsOf(toClient'[k].call, toClient'[k].id, pool', requests', callbacks')
          /\ \A k, l \in DOMAIN toClient' :
                Answers(toClient'[k]) /\ Answers(toClient'[l]) /\ toClient'[k].id = toClient'[l].id => k = l
          /\ \A n \in 1..Len(settled') : settled'[n] \in {-1, 0, n}
      BY <1>1, <2>5 DEF AnswersFit
    <3> QED BY <1>7, <2>5, <3>1, <3>2, <3>3, <3>4, <3>5, <3>6, <3>7 DEF AnswersFit
  <2>6. served' \subseteq Serving
    BY <2>3
  <2> QED BY <1>1, <1>2, <1>6, <2>4, <2>5, <2>6, ServerMoves DEF RpcInv, RpcTypes
<1> QED BY <1>8, <1>9

\* The server ends, answers or closes what it serves as s; t is what is left of it.
LEMMA ServedMoves ==
  ASSUME RpcInv, UNCHANGED <<pool, requests, callbacks, zombies, settled, sub, connected, replaced, toServer>>,
         NEW s \in served, NEW t \in Serving, t.call = s.call, t.id \in {0, s.id},
         served' \subseteq (served \ {s}) \cup {t},
         toClient' # toClient =>
            \E m \in Packets : /\ toClient' = Append(toClient, m) /\ m.call = s.call
                               /\ Answers(m) => m.id = s.id /\ s.id # 0 /\ t.id = 0
  PROVE  RpcInv'
<1>0. /\ toClient \in Seq(Packets) /\ toServer \in Seq(CallMsg \cup StopMsg) /\ served \subseteq Serving /\ CallsHeld
  BY DEF RpcInv, RpcTypes
<1>1. /\ served' \subseteq Serving /\ \A u \in served' : (u \in served /\ u # s) \/ u = t
      /\ \A u \in served' : u.call \in 1..Len(settled)
  BY <1>0 DEF CallsHeld
<1>2. CASE toClient' = toClient
  <2>1. ASSUME AnswersFit PROVE AnswersFit'
    <3>1. \A u, v \in served' : u.id # 0 /\ u.id = v.id => u = v
      BY <1>1, <2>1 DEF AnswersFit
    <3>2. \A u \in served' : u.id # 0 => IsOf(u.call, u.id, pool', requests', callbacks')
      BY <1>1, <2>1 DEF AnswersFit
    <3>3. \A k \in DOMAIN toServer', u \in served' : Asks(toServer'[k]) => toServer'[k].id # u.id
      BY <1>1, <2>1 DEF AnswersFit, Asks
    <3>4. \A k \in DOMAIN toClient : Answers(toClient[k]) => toClient[k].id # t.id
      BY <2>1 DEF AnswersFit, IsOf, Taken
    <3>5. \A k \in DOMAIN toClient', u \in served' : Answers(toClient'[k]) => toClient'[k].id # u.id
      BY <1>1, <1>2, <2>1, <3>4 DEF AnswersFit
    <3> QED BY <1>2, <2>1, <3>1, <3>2, <3>3, <3>5 DEF AnswersFit
  <2> QED BY <1>0, <1>1, <1>2, <2>1, ServerMoves DEF CallsHeld
<1>3. CASE toClient' # toClient
  <2>1. PICK m \in Packets : /\ toClient' = Append(toClient, m) /\ m.call = s.call
                             /\ Answers(m) => m.id = s.id /\ s.id # 0 /\ t.id = 0
    BY <1>3
  <2> DEFINE n == Len(toClient) + 1
  <2>2. /\ toClient' \in Seq(Packets) /\ DOMAIN toClient = 1..(n - 1) /\ DOMAIN toClient' = 1..n /\ n \in Nat
        /\ toClient'[n] = m /\ \A k \in 1..(n - 1) : toClient'[k] = toClient[k]
    BY <1>0, <2>1
  <2> HIDE DEF n
  <2>3. \A k \in DOMAIN toClient' : k = n \/ (k # n /\ k \in DOMAIN toClient)
    BY <2>2
  <2>4. \A k \in DOMAIN toClient' : toClient'[k].call \in 1..Len(settled)
    BY <1>0, <2>1, <2>2, <2>3 DEF CallsHeld
  <2>5. ASSUME AnswersFit PROVE AnswersFit'
    <3>1. \A u, v \in served' : u.id # 0 /\ u.id = v.id => u = v
      BY <1>1, <2>5 DEF AnswersFit
    <3>2. \A u \in served' : u.id # 0 => IsOf(u.call, u.id, pool', requests', callbacks')
      BY <1>1, <2>5 DEF AnswersFit
    <3>3. \A k \in DOMAIN toServer', u \in served' : Asks(toServer'[k]) => toServer'[k].id # u.id
      BY <1>1, <2>5 DEF AnswersFit, Asks
    <3>4. \A k \in DOMAIN toClient : Answers(toClient[k]) => toClient[k].id # t.id
      BY <2>5 DEF AnswersFit, IsOf, Taken
    <3>5. Answers(m) => \A u \in served' : u.id # m.id
      BY <1>1, <2>1, <2>5 DEF AnswersFit
    <3>6. \A k \in DOMAIN toClient', u \in served' : Answers(toClient'[k]) => toClient'[k].id # u.id
      BY <1>1, <2>2, <2>3, <2>5, <3>4, <3>5 DEF AnswersFit
    <3>7. Answers(m) => IsOf(m.call, m.id, pool, requests, callbacks)
      BY <2>1, <2>5 DEF AnswersFit
    <3>8. \A k \in DOMAIN toClient' : Answers(toClient'[k]) =>
              IsOf(toClient'[k].call, toClient'[k].id, pool', requests', callbacks')
      BY <2>2, <2>3, <2>5, <3>7 DEF AnswersFit
    <3>9. Answers(m) => \A k \in DOMAIN toClient : Answers(toClient[k]) => toClient[k].id # m.id
      BY <2>1, <2>5 DEF AnswersFit
    <3>10. \A k, l \in DOMAIN toClient' :
              Answers(toClient'[k]) /\ Answers(toClient'[l]) /\ toClient'[k].id = toClient'[l].id => k = l
      BY <2>2, <2>3, <2>5, <3>9 DEF AnswersFit
    <3>11. Answers(m) => \A k \in DOMAIN toServer : Asks(toServer[k]) => toServer[k].id # m.id
      BY <2>1, <2>5 DEF AnswersFit
    <3>12. \A k \in DOMAIN toServer', l \in DOMAIN toClient' :
              Asks(toServer'[k]) /\ Answers(toClient'[l]) => toServer'[k].id # toClient'[l].id
      BY <2>2, <2>3, <2>5, <3>11 DEF AnswersFit
    <3> QED BY <2>5, <3>1, <3>2, <3>3, <3>6, <3>8, <3>10, <3>12 DEF AnswersFit
  <2> QED BY <1>0, <1>1, <2>2, <2>4, <2>5, ServerMoves DEF CallsHeld
<1> QED BY <1>2, <1>3

\* What the server does with a call that it serves.
LEMMA ServedEnds ==
  ASSUME RpcInv, NEW s \in served, Rpc!EndCallback(s) \/ Rpc!Respond(s) \/ Rpc!SourceCloses(s)
  PROVE  RpcInv'
<1>0. s \in Serving
  BY DEF RpcInv, RpcTypes
<1>1. CASE Rpc!EndCallback(s)
  <2> DEFINE t == [s EXCEPT !.cb = 0, !.due = TRUE]  m == [kind |-> "end", call |-> s.call, id |-> s.cb]
  <2>1. t \in Serving /\ t.call = s.call /\ t.id = s.id
    BY <1>0 DEF Serving
  <2>2. m \in Packets /\ m.call = s.call /\ ~Answers(m)
    BY <1>0 DEF Serving, Packets, Answers
  <2>3. /\ served' = (served \ {s}) \cup (IF s.id = 0 THEN {} ELSE {t}) /\ toClient' = Append(toClient, m)
        /\ UNCHANGED <<pool, requests, callbacks, zombies, settled, sub, connected, replaced, toServer>>
    BY <1>1 DEF Rpc!EndCallback, Rpc!Send
  <2>4. served' \subseteq (served \ {s}) \cup {t}
    BY <2>3
  <2> HIDE DEF t, m
  <2> QED BY <2>1, <2>2, <2>3, <2>4, ServedMoves
<1>2. CASE Rpc!Respond(s)
  <2> DEFINE t == [s EXCEPT !.id = 0]  m == [kind |-> "resp", call |-> s.call, id |-> s.id]
  <2>1. t \in Serving /\ t.call = s.call /\ t.id = 0
    BY <1>0 DEF Serving
  <2>2. m \in Packets /\ m.call = s.call /\ m.id = s.id
    BY <1>0 DEF Serving, Packets
  <2>3. /\ served' = (served \ {s}) \cup (IF s.cb = 0 \/ s.listen THEN {} ELSE {t})
        /\ toClient' = Append(toClient, m) /\ s.id # 0
        /\ UNCHANGED <<pool, requests, callbacks, zombies, settled, sub, connected, replaced, toServer>>
    BY <1>2 DEF Rpc!Respond, Rpc!Send
  <2>4. served' \subseteq (served \ {s}) \cup {t}
    BY <2>3
  <2> HIDE DEF t, m
  <2> QED BY <2>1, <2>2, <2>3, <2>4, ServedMoves
<1>3. CASE Rpc!SourceCloses(s)
  <2> DEFINE t == [s EXCEPT !.due = TRUE]
  <2>1. t \in Serving /\ t.call = s.call /\ t.id = s.id
    BY <1>0 DEF Serving
  <2>2. /\ served' = (served \ {s}) \cup {t}
        /\ UNCHANGED <<pool, requests, callbacks, zombies, settled, sub, connected, replaced, toServer, toClient>>
    BY <1>3 DEF Rpc!SourceCloses
  <2> HIDE DEF t
  <2> QED BY <2>1, <2>2, ServedMoves
<1> QED BY <1>1, <1>2, <1>3

\* The open calls are given up.
LEMMA OpenCallsGivenUp ==
  ASSUME RpcInv, settled' = Rpc!GivenUp
  PROVE  /\ settled' \in Seq(Int) /\ Len(settled') = Len(settled) /\ Len(settled) \in Nat
         /\ \A n \in 1..Len(settled) : settled'[n] = IF settled[n] = 0 THEN -1 ELSE settled[n]
<1>1. settled \in Seq(Int) /\ Len(settled) \in Nat /\ DOMAIN settled = 1..Len(settled)
  BY DEF RpcInv, RpcTypes
<1>2. settled' = [n \in 1..Len(settled) |-> IF settled[n] = 0 THEN -1 ELSE settled[n]]
  BY <1>1 DEF Rpc!GivenUp
<1>3. \A n \in 1..Len(settled) : settled'[n] = (IF settled[n] = 0 THEN -1 ELSE settled[n]) /\ settled'[n] \in Int
  BY <1>1, <1>2
<1>4. \E k \in Nat : DOMAIN settled' = 1..k
  BY <1>1, <1>2
<1>5. settled' \in Seq(Int)
  BY <1>1, <1>2, <1>3
<1>6. Len(settled') = Len(settled)
  BY <1>1, <1>2, <1>5
<1> QED BY <1>1, <1>3, <1>5, <1>6

\* The transport drops, or the client is disposed of.
LEMMA CallsAreGivenUp ==
  ASSUME RpcInv, Rpc!Disconnect \/ Rpc!Dispose
  PROVE  RpcInv'
<1>0. /\ RpcTypes /\ IdsHeld /\ CallsHeld /\ SubHeld /\ (~replaced => AnswersFit)
      /\ sub \in Subscription /\ toClient \in Seq(Packets)
  BY DEF RpcInv, RpcTypes
<1>1. /\ settled' \in Seq(Int) /\ Len(settled') = Len(settled) /\ Len(settled) \in Nat
      /\ \A n \in 1..Len(settled) : settled'[n] = IF settled[n] = 0 THEN -1 ELSE settled[n]
  <2>1. settled' = Rpc!GivenUp
    BY DEF Rpc!Disconnect, Rpc!Dispose
  <2> QED BY <2>1, OpenCallsGivenUp
<1>2. requests' = {} /\ callbacks' = {} /\ pool' = pool
  BY DEF Rpc!Disconnect, Rpc!Dispose
<1>3. \A n \in 1..Len(settled') : settled'[n] \in {-1, 0} \cup 1..Len(settled') /\ settled'[n] # 0
  BY <1>0, <1>1 DEF CallsHeld
<1>4. CASE Rpc!Disconnect
  <2>1. /\ connected' = FALSE /\ toServer' = <<>> /\ served' = {} /\ toClient' \in {<<>>, toClient}
        /\ UNCHANGED <<zombies, replaced>>
        /\ sub' = IF sub.recoverable THEN [sub EXCEPT !.attempt = 0] ELSE Rpc!NoSub
    BY <1>4 DEF Rpc!Disconnect
  <2>2. <<>> \in Seq(CallMsg \cup StopMsg) /\ <<>> \in Seq(Packets) /\ DOMAIN <<>> = {}
    OBVIOUS
  <2>3. /\ toClient' \in Seq(Packets)
        /\ \A k \in DOMAIN toClient' : k \in DOMAIN toClient /\ toClient'[k] = toClient[k]
    BY <1>0, <2>1, <2>2
  <2>4. sub' \in Subscription /\ SubHeld'
    <3>1. CASE sub.recoverable
      <4> DEFINE s == [sub EXCEPT !.attempt = 0]
      <4>1. sub' = s
        BY <2>1, <3>1
      <4>2. s \in Subscription /\ s.attempt = 0 /\ s.consumers = sub.consumers /\ s.live = sub.live /\ s.recoverable
        BY <1>0, <3>1 DEF Subscription
      <4> HIDE DEF s
      <4>3. /\ sub' \in Subscription /\ sub'.attempt = 0 /\ sub'.live = sub.live /\ sub'.consumers = sub.consumers
            /\ sub'.recoverable
        BY <4>1, <4>2
      <4>4. sub.live => sub.consumers # {}
        BY <1>0 DEF SubHeld
      <4>5. 0 \in 0..Len(settled') /\ ~connected'
        BY <1>1, <2>1
      <4> QED BY <4>3, <4>4, <4>5 DEF SubHeld
    <3>2. CASE ~sub.recoverable
      BY <1>0, <1>1, <2>1, <3>2, NoSubscription DEF SubHeld
    <3> QED BY <3>1, <3>2
  <2>5. RpcTypes'
    BY <1>0, <1>1, <1>2, <2>1, <2>2, <2>3, <2>4 DEF RpcTypes
  <2>6. IdsHeld'
    BY <1>0, <1>2, <2>1 DEF IdsHeld
  <2>7. CallsHeld'
    BY <1>0, <1>1, <1>2, <1>3, <2>1, <2>2, <2>3 DEF CallsHeld
  <2>8. ASSUME ~replaced PROVE AnswersFit'
    <3>1. \A c, x : IsOf(c, x, pool, requests, callbacks) => IsOf(c, x, pool', requests', callbacks')
      BY <1>2 DEF IsOf
    <3>2. \A n \in 1..Len(settled') : settled'[n] \in {-1, 0, n}
      BY <1>0, <1>1, <2>8 DEF AnswersFit
    <3> QED BY <1>0, <2>1, <2>2, <2>3, <2>8, <3>1, <3>2 DEF AnswersFit
  <2> QED BY <2>1, <2>4, <2>5, <2>6, <2>7, <2>8 DEF RpcInv
<1>5. CASE Rpc!Dispose
  <2>1. /\ replaced' = TRUE /\ sub' = Rpc!NoSub /\ UNCHANGED <<connected, toClient, served>>
        /\ toServer' = toServer \/ toServer' = Append(toServer, Rpc!StopMessage)
        /\ zombies' = zombies \cup Rpc!Ids(requests) \cup Rpc!Ids(callbacks)
    BY <1>5 DEF Rpc!Dispose
  <2>2. Rpc!StopMessage \in StopMsg /\ Rpc!StopMessage.kind # "call" /\ toServer \in Seq(CallMsg \cup StopMsg)
    BY <1>0 DEF Rpc!StopMessage, StopMsg, Subscription, RpcTypes
  <2>3. /\ toServer' \in Seq(CallMsg \cup StopMsg)
        /\ \A k \in DOMAIN toServer' : toServer'[k].kind = "call" => k \in DOMAIN toServer /\ toServer'[k] = toServer[k]
    <3>1. CASE toServer' = toServer
      BY <2>2, <3>1
    <3>2. CASE toServer' = Append(toServer, Rpc!StopMessage)
      <4>1. /\ toServer' \in Seq(CallMsg \cup StopMsg) /\ DOMAIN toServer = 1..Len(toServer)
            /\ DOMAIN toServer' = 1..(Len(toServer) + 1) /\ toServer'[Len(toServer) + 1] = Rpc!StopMessage
            /\ \A k \in 1..Len(toServer) : toServer'[k] = toServer[k]
        BY <2>2, <3>2
      <4>2. \A k \in DOMAIN toServer' : k = Len(toServer) + 1 \/ k \in DOMAIN toServer
        BY <2>2, <4>1
      <4> QED BY <2>2, <4>1, <4>2
    <3> QED BY <2>1, <3>1, <3>2
  <2>4. sub' \in Subscription /\ SubHeld'
    BY <1>0, <1>1, <2>1, NoSubscription DEF SubHeld
  <2>5. RpcTypes'
    BY <1>0, <1>1, <1>2, <2>1, <2>3, <2>4 DEF RpcTypes
  <2>6. zombies' \subseteq Taken(pool')
    BY <1>0, <1>2, <2>1 DEF IdsHeld, Rpc!Ids
  <2>7. IdsHeld'
    BY <1>0, <1>2, <2>6 DEF IdsHeld
  <2>8. CallsHeld'
    BY <1>0, <1>1, <1>2, <1>3, <2>1, <2>3 DEF CallsHeld
  <2> QED BY <2>1, <2>4, <2>5, <2>7, <2>8 DEF RpcInv
<1> QED BY <1>4, <1>5

\* Every step of the calls.
LEMMA CallsNext ==
  ASSUME RpcInv, [Rpc!Next]_rpcVars
  PROVE  RpcInv'
<1>1. CASE \/ \E withCallback, wait \in BOOLEAN : Rpc!Call(withCallback, wait)
           \/ \E c \in Consumers : Rpc!Subscribe(c) \/ Rpc!Unsubscribe(c)
           \/ Rpc!AttemptEnds \/ Rpc!Connect
  BY <1>1, SubscriptionMoves
<1>2. CASE Rpc!Answered
  BY <1>2, ResponseArrives
<1>3. CASE Rpc!AnswersZombie \/ Rpc!CallbackEnds
  BY <1>3, EndArrives
<1>4. CASE Rpc!Serve
  BY <1>4, MessageServed
<1>5. CASE \E s \in served : Rpc!EndCallback(s) \/ Rpc!Respond(s) \/ Rpc!SourceCloses(s)
  BY <1>5, ServedEnds
<1>6. CASE Rpc!Disconnect \/ Rpc!Dispose
  BY <1>6, CallsAreGivenUp
<1>7. CASE UNCHANGED rpcVars
  BY <1>7 DEF rpcVars, RpcInv, RpcTypes, IdsHeld, CallsHeld, SubHeld, AnswersFit
<1> QED BY <1>1, <1>2, <1>3, <1>4, <1>5, <1>6, <1>7 DEF Rpc!Next

\* What the calls promise of their states.
LEMMA CallsProperties ==
  ASSUME RpcInv
  PROVE  Rpc!TypeOK /\ Rpc!IdsHaveOneOwner /\ Rpc!AnsweredByItsOwn /\ Rpc!ListenersAreFed
<1>0. /\ RpcTypes /\ IdsHeld /\ CallsHeld /\ SubHeld /\ (~replaced => AnswersFit)
      /\ settled \in Seq(Int) /\ DOMAIN settled = 1..Len(settled) /\ Len(settled) \in Nat
      /\ sub \in Subscription /\ connected \in BOOLEAN
      /\ PoolHolds(pool)
  BY DEF RpcInv, RpcTypes, IdsHeld
<1>1. Rpc!TypeOK
  BY <1>0 DEF Rpc!TypeOK, IdsHeld, CallsHeld, SubHeld, PoolHolds, Taken, Subscription
<1>2. Rpc!IdsHaveOneOwner
  <2>1. \A x \in Rpc!Ids(requests) : x \in Taken(pool) /\ x \notin zombies
    BY <1>0 DEF IdsHeld, Rpc!Ids
  <2>2. \A x \in Rpc!Ids(callbacks) : x \in Taken(pool) /\ x \notin zombies
    BY <1>0 DEF IdsHeld, Rpc!Ids
  <2>3. Rpc!Ids(requests) \cap Rpc!Ids(callbacks) = {}
    BY <1>0 DEF IdsHeld, Rpc!Ids
  <2>4. zombies \subseteq Taken(pool)
    BY <1>0 DEF IdsHeld
  <2>5. Taken(pool) \cap Rpc!ToSet(pool.free) = {}
    BY DEF Taken
  <2>6. Rpc!ToSet(pool.free) \cap (Rpc!Ids(requests) \cup Rpc!Ids(callbacks) \cup zombies) = {}
    BY <2>1, <2>2, <2>4, <2>5
  <2>7. zombies \cap (Rpc!Ids(requests) \cup Rpc!Ids(callbacks)) = {}
    BY <2>1, <2>2
  <2> QED BY <1>0, <2>3, <2>6, <2>7 DEF Rpc!IdsHaveOneOwner, IdsHeld, PoolHolds
<1>3. Rpc!AnsweredByItsOwn
  BY <1>0 DEF Rpc!AnsweredByItsOwn, AnswersFit
<1>4. Rpc!ListenersAreFed
  BY <1>0 DEF Rpc!ListenersAreFed, SubHeld, CallsHeld
<1> QED BY <1>1, <1>2, <1>3, <1>4

-----------------------------------------------------------------------------
(* The reconciler *)

\* What NothingUnheard rests on: while anything is pending a drain is scheduled for it.
HeardInv ==
    /\ TypeOK
    /\ NothingUnheard
    /\ pending => scheduled

LEMMA HeardInit == Init => HeardInv
<1> SUFFICES ASSUME Init PROVE HeardInv
  OBVIOUS
<1>1. pending = FALSE /\ scheduled = FALSE /\ news = 0 /\ seen = 0 /\ excused = 0 /\ waiting = 0
        /\ drain = "none" /\ timers = {} /\ closed = "no"
  BY DEF Init
<1>2. {pending, scheduled} \subseteq BOOLEAN /\ ~pending /\ ~scheduled
  BY <1>1
<1>3. TypeOK
  BY <1>1, <1>2 DEF TypeOK, aborted, idle
<1> QED BY <1>1, <1>2, <1>3 DEF HeardInv, NothingUnheard

\* A request: nothing when closed, otherwise pending and one drain scheduled.
LEMMA RequestKeeps ==
  ASSUME HeardInv, Request,
         news' \in Nat, news' >= news, UNCHANGED <<seen, excused, drain, closed>>,
         timers' \subseteq timers
  PROVE  HeardInv'
<1>1. CASE aborted
  <2>1. timers' = {} /\ ~pending' /\ UNCHANGED <<pending, scheduled, waiting>>
    BY <1>1 DEF HeardInv, TypeOK, Request
  <2> QED BY <1>1, <2>1 DEF HeardInv, TypeOK, NothingUnheard, aborted, idle
<1>2. CASE ~aborted
  <2>1. pending' /\ scheduled' /\ waiting' = waiting + (IF scheduled THEN 0 ELSE 1)
    BY <1>2 DEF Request
  <2>2. pending' \in BOOLEAN /\ scheduled' \in BOOLEAN
    BY <1>2 DEF Request
  <2>3. waiting' \in Nat /\ waiting' + (IF drain' \in {"starting", "running"} THEN 1 ELSE 0) = 1
    BY <2>1 DEF HeardInv, TypeOK
  <2>4. CASE idle'
    <3>1. drain' = "none" /\ waiting' = 0
      BY <2>4 DEF idle
    <3> QED BY <2>3, <3>1
  <2>5. CASE ~idle'
    <3>1. closed' # "settled" /\ ~aborted'
      BY <1>2 DEF aborted
    <3>2. TypeOK'
      BY <2>1, <2>2, <2>3, <3>1 DEF HeardInv, TypeOK
    <3> QED BY <2>1, <2>5, <3>2 DEF HeardInv, NothingUnheard
  <2> QED BY <2>4, <2>5
<1> QED BY <1>1, <1>2

\* The end of a drain, given that what it leaves unheard is pending, timed or excused.
LEMMA FinallyKeeps ==
  ASSUME HeardInv, NEW p \in BOOLEAN, Finally(p), p => ~aborted,
         drain \in {"starting", "running"}, timers' \subseteq Keys, aborted => timers' = {},
         UNCHANGED <<news, closed>>, excused' \in 0..news,
         ~aborted /\ news > seen /\ news > excused' => p \/ timers' # {}
  PROVE  HeardInv'
<1>1. waiting = 0 /\ scheduled
  BY DEF HeardInv, TypeOK
<1>2. waiting' = (IF p THEN 1 ELSE 0) /\ (scheduled' <=> p) /\ pending' = p /\ drain' = "ending"
  BY <1>1 DEF Finally
<1>3. scheduled' \in BOOLEAN
  BY DEF Finally
<1>4. closed # "settled" /\ seen' = seen
  BY DEF HeardInv, TypeOK, idle, Finally
<1>5. (aborted' <=> aborted) /\ (aborted => ~p)
  BY DEF aborted
<1>6. {pending', scheduled'} \subseteq BOOLEAN
  BY <1>2, <1>3
<1>7. waiting' \in Nat /\ waiting' = (IF scheduled' THEN 1 ELSE 0)
  BY <1>2
<1>8. TypeOK'
  BY <1>2, <1>4, <1>5, <1>6, <1>7 DEF HeardInv, TypeOK
<1>9. idle' => ~pending'
  BY <1>2 DEF idle
<1>10. (~aborted' /\ news' > seen' /\ news' > excused') => pending' \/ timers' # {}
  <2>1. CASE excused' = news
    BY <2>1 DEF HeardInv, TypeOK
  <2>2. CASE ~aborted /\ news > seen /\ news > excused' => p \/ timers' # {}
    BY <1>2, <1>4, <1>5, <2>2
  <2> QED BY <2>2
<1> QED BY <1>2, <1>8, <1>9, <1>10 DEF HeardInv, NothingUnheard

LEMMA LoopKeeps ==
  ASSUME HeardInv, Loop, drain \in {"starting", "running"}, UNCHANGED <<news, excused, closed>>
  PROVE  HeardInv'
<1>1. CASE pending /\ ~aborted
  <2>1. /\ drain' = "running" /\ pending' = FALSE /\ timers' = {} /\ seen' = news
        /\ UNCHANGED <<news, excused, closed, scheduled, waiting>>
    BY <1>1 DEF Loop
  <2>2. ~pending' /\ {pending', scheduled'} \subseteq BOOLEAN
    BY <2>1 DEF HeardInv, TypeOK
  <2>3. closed' # "settled" /\ (aborted' <=> aborted)
    BY <2>1 DEF HeardInv, TypeOK, aborted, idle
  <2>4. TypeOK'
    BY <2>1, <2>2, <2>3 DEF HeardInv, TypeOK
  <2>5. NothingUnheard'
    BY <2>1, <2>2 DEF HeardInv, TypeOK, NothingUnheard
  <2> QED BY <2>2, <2>4, <2>5 DEF HeardInv
<1>2. CASE ~(pending /\ ~aborted)
  <2>1. Finally(pending) /\ timers' = timers
    BY <1>2 DEF Loop
  <2>2. pending = FALSE
    BY <1>2 DEF HeardInv, TypeOK
  <2>3. Finally(FALSE)
    BY <2>1, <2>2
  <2> QED BY <1>2, <2>1, <2>2, <2>3, FinallyKeeps DEF HeardInv, TypeOK, NothingUnheard
<1> QED BY <1>1, <1>2

LEMMA HeardNext == HeardInv /\ [Next]_vars => HeardInv'
<1> SUFFICES ASSUME HeardInv, [Next]_vars PROVE HeardInv'
  OBVIOUS
<1>1. CASE Notify
  BY <1>1, RequestKeeps DEF Notify, HeardInv, TypeOK
<1>2. CASE Start
  BY <1>2 DEF Start, HeardInv, TypeOK, NothingUnheard, aborted, idle
<1>3. CASE Read
  BY <1>3, LoopKeeps DEF Read
<1>4. CASE PassEnds
  <2>1. CASE timers # {}
    <3>1. Finally(FALSE) /\ UNCHANGED <<timers, news, excused, closed>> /\ drain = "running"
      BY <1>4, <2>1 DEF PassEnds
    <3> QED BY <2>1, <3>1, FinallyKeeps DEF HeardInv, TypeOK
  <2>2. CASE timers = {}
    BY <1>4, <2>2, LoopKeeps DEF PassEnds
  <2> QED BY <2>1, <2>2
<1>5. CASE PassFails
  <2>1. drain = "running" /\ excused' = news /\ UNCHANGED <<news, closed>>
    BY <1>5 DEF PassFails
  <2>2. excused' \in 0..news /\ ~(news > excused') /\ (aborted => timers = {}) /\ timers \subseteq Keys
    BY <2>1 DEF HeardInv, TypeOK
  <2>3. CASE Finally(FALSE) /\ UNCHANGED timers
    BY <2>1, <2>2, <2>3, FinallyKeeps
  <2>4. CASE ~aborted /\ Finally(TRUE) /\ UNCHANGED timers
    BY <2>1, <2>2, <2>4, FinallyKeeps
  <2>5. CASE ~aborted /\ Finally(FALSE) /\ \E k \in Keys : timers' = timers \cup {k}
    BY <2>1, <2>2, <2>5, FinallyKeeps
  <2> QED BY <1>5, <2>3, <2>4, <2>5 DEF PassFails
<1>6. CASE TaskEnds
  BY <1>6 DEF TaskEnds, HeardInv, TypeOK, NothingUnheard, aborted, idle
<1>7. CASE Close
  BY <1>7 DEF Close, HeardInv, TypeOK, NothingUnheard, aborted, idle
<1>8. CASE Settle
  BY <1>8 DEF Settle, HeardInv, TypeOK, NothingUnheard, aborted, idle
<1>9. CASE \E k \in Keys : Retry(k)
  BY <1>9 DEF Retry, HeardInv, TypeOK, NothingUnheard, aborted, idle
<1>10. CASE \E k \in Keys : CancelRetry(k)
  BY <1>10 DEF CancelRetry, HeardInv, TypeOK, NothingUnheard, aborted, idle
<1>11. CASE \E k \in Keys : Wake(k)
  BY <1>11, RequestKeeps DEF Wake, HeardInv, TypeOK
<1>12. CASE UNCHANGED vars
  BY <1>12 DEF vars, HeardInv, TypeOK, NothingUnheard, aborted, idle
<1> QED BY <1>1, <1>2, <1>3, <1>4, <1>5, <1>6, <1>7, <1>8, <1>9, <1>10, <1>11, <1>12 DEF Next

\* No notification is forgotten and idle() waits for everything requested, however
\* notifications, retries, failures and the close fall into a pass (reconciler.ts:60-120).
THEOREM NothingStaysUnheard == Spec => []NothingUnheard
<1>1. HeardInv => NothingUnheard
  BY DEF HeardInv
<1> QED BY <1>1, HeardInit, HeardNext, PTL DEF Spec

\* A drain is scheduled exactly when one waits or runs, never two, and nothing is left
\* after a settled close (reconciler.ts:44-120).
THEOREM OneDrainAtATime == Spec => []TypeOK
<1>1. HeardInv => TypeOK
  BY DEF HeardInv
<1> QED BY <1>1, HeardInit, HeardNext, PTL DEF Spec

-----------------------------------------------------------------------------
(* The session *)

Signature == [account : Owners \cup {Session!NoOwner}, allowed : BOOLEAN]
Factory == {"asked", "opening", "given", "none"}
Entry == [owner : Signature, listed : BOOLEAN, exposed : BOOLEAN, factory : Factory,
          ready : {"waiting", "exposed", "failed"}, completion : {"no", "waiting", "done", "failed"},
          disposal : {"no", "asked", "closing", "closed", "failed"}, releases : Nat]

\* The types, and what one entry is by itself: exactly an active entry is listed, only a
\* listed one is exposed, and the handle is released once, after the close and after it was given.
Sound(r) ==
    /\ r \in Entry
    /\ r.listed <=> r.completion = "no"
    /\ r.exposed => r.listed /\ r.factory = "given"
    /\ r.disposal # "no" => r.factory = "given"
    /\ r.releases = IF r.disposal \in {"no", "asked"} THEN 0 ELSE 1

\* An entry that is listed was opened under the signature of now, which had the rights.
Current(r, s) == r.listed => r.owner = s /\ s.allowed

SessionInv ==
    /\ who \in Owners \cup {Session!NoOwner} /\ expired \in BOOLEAN /\ terminal \in BOOLEAN
    /\ signature \in Signature
    /\ resources \in Seq(Entry)
    /\ \A i \in DOMAIN resources :
        /\ Sound(resources[i]) /\ Current(resources[i], signature)
        /\ terminal => ~resources[i].listed

LEMMA SessionInit == Session!Init => SessionInv
<1> SUFFICES ASSUME Session!Init PROVE SessionInv
  OBVIOUS
<1>1. FALSE \in BOOLEAN
  OBVIOUS
<1>2. Session!Nothing \in Signature
  BY <1>1 DEF Session!Nothing, Signature
<1>3. who = Session!NoOwner /\ expired = FALSE /\ terminal = FALSE /\ signature = Session!Nothing /\ resources = <<>>
  BY DEF Session!Init
<1>4. resources \in Seq(Entry) /\ DOMAIN resources = {}
  BY <1>3
<1> QED BY <1>1, <1>2, <1>3, <1>4 DEF SessionInv

LEMMA ShutIsSound ==
  ASSUME NEW r, Sound(r)
  PROVE  /\ Sound(Session!Shut(r)) /\ ~Session!Shut(r).listed /\ ~Session!Active(Session!Shut(r)) /\ Session!Shut(r).ready = r.ready
         /\ Session!Shut(r).factory = r.factory
<1>1. CASE r.completion # "no"
  BY <1>1 DEF Session!Shut, Sound, Session!Active
<1>2. CASE r.completion = "no"
  <2> DEFINE d == IF r.factory = "given" /\ r.disposal = "no" THEN "asked" ELSE r.disposal
  <2>1. FALSE \in BOOLEAN
    OBVIOUS
  <2>2. Session!Shut(r) = [r EXCEPT !.listed = FALSE, !.exposed = FALSE, !.completion = "waiting",
                            !.disposal = d]
    BY <1>2 DEF Session!Shut, Sound, Entry
  <2>3. d \in {"no", "asked", "closing", "closed", "failed"}
    BY DEF Sound, Entry
  <2>4. Session!Shut(r) \in Entry
    BY <2>1, <2>2, <2>3 DEF Sound, Entry
  <2>5. /\ ~Session!Shut(r).listed /\ ~Session!Shut(r).exposed /\ Session!Shut(r).completion = "waiting"
        /\ Session!Shut(r).disposal = d /\ Session!Shut(r).factory = r.factory /\ Session!Shut(r).releases = r.releases
        /\ Session!Shut(r).ready = r.ready
    BY <2>2 DEF Sound, Entry
  <2> QED BY <2>4, <2>5 DEF Sound, Session!Active
<1> QED BY <1>1, <1>2

\* Closing some of the entries keeps them all sound.
LEMMA ShutAtIsSound ==
  ASSUME NEW rs \in Seq(Entry), \A i \in DOMAIN rs : Sound(rs[i]), NEW S
  PROVE  /\ Session!ShutAt(rs, S) \in Seq(Entry) /\ DOMAIN Session!ShutAt(rs, S) = DOMAIN rs
         /\ \A i \in DOMAIN rs :
              /\ Sound(Session!ShutAt(rs, S)[i])
              /\ Session!ShutAt(rs, S)[i] = rs[i] \/ ~Session!ShutAt(rs, S)[i].listed
              /\ i \in S => ~Session!ShutAt(rs, S)[i].listed
              /\ Session!ShutAt(rs, S)[i].ready = rs[i].ready /\ Session!ShutAt(rs, S)[i].factory = rs[i].factory
<1>1. Session!ShutAt(rs, S) = [i \in DOMAIN rs |-> IF i \in S THEN Session!Shut(rs[i]) ELSE rs[i]]
  BY DEF Session!ShutAt
<1>2. \A i \in DOMAIN rs :
        /\ Sound(Session!ShutAt(rs, S)[i])
        /\ Session!ShutAt(rs, S)[i] = rs[i] \/ ~Session!ShutAt(rs, S)[i].listed
        /\ i \in S => ~Session!ShutAt(rs, S)[i].listed
        /\ Session!ShutAt(rs, S)[i].ready = rs[i].ready /\ Session!ShutAt(rs, S)[i].factory = rs[i].factory
  BY <1>1, ShutIsSound
<1>3. DOMAIN Session!ShutAt(rs, S) = DOMAIN rs
  BY <1>1
<1>4. \A i \in 1..Len(rs) : Session!ShutAt(rs, S)[i] \in Entry
  BY <1>2 DEF Sound
<1>5. Session!ShutAt(rs, S) \in Seq(Entry)
  <2>1. Len(rs) \in Nat /\ DOMAIN rs = 1..Len(rs)
    OBVIOUS
  <2>2. Session!ShutAt(rs, S) \in [1..Len(rs) -> Entry]
    BY <1>1, <1>4, <2>1
  <2> QED BY <2>1, <2>2, SeqDef
<1> QED BY <1>2, <1>3, <1>5

\* After a refresh whatever is listed was opened under the new signature.
LEMMA RefreshedIsCurrent ==
  ASSUME SessionInv, NEW w \in Owners \cup {Session!NoOwner}, NEW e \in BOOLEAN
  PROVE  LET f == Session!Refreshed(w, e, resources, rights) IN
         /\ f.who \in Owners \cup {Session!NoOwner} /\ f.signature \in Signature
         /\ f.resources \in Seq(Entry) /\ DOMAIN f.resources = DOMAIN resources
         /\ \A i \in DOMAIN resources :
              /\ Sound(f.resources[i]) /\ Current(f.resources[i], f.signature)
              /\ f.resources[i] = resources[i] \/ ~f.resources[i].listed
              /\ f.resources[i].ready = resources[i].ready
              /\ f.resources[i].factory = resources[i].factory
<1> DEFINE now == IF e THEN Session!NoOwner ELSE w
           next == Session!SignatureOf(now, rights)
           rs == IF next = signature THEN resources ELSE Session!ShutAt(resources, Session!Listed(resources))
           f == Session!Refreshed(w, e, resources, rights)
<1>1. f = [who |-> now, signature |-> next, resources |-> rs]
  BY DEF Session!Refreshed
<1>2. now \in Owners \cup {Session!NoOwner}
  OBVIOUS
<1>3. next \in Signature
  <2>1. (now \in rights) \in BOOLEAN
    OBVIOUS
  <2> QED BY <1>2, <2>1 DEF Session!SignatureOf, Signature
<1>4. \A i \in DOMAIN resources : Sound(resources[i]) /\ Current(resources[i], signature)
  BY DEF SessionInv
<1>5. resources \in Seq(Entry)
  BY DEF SessionInv
<1> HIDE DEF next, now, f
<1>6. /\ rs \in Seq(Entry) /\ DOMAIN rs = DOMAIN resources
      /\ \A i \in DOMAIN resources :
            /\ Sound(rs[i]) /\ Current(rs[i], next)
            /\ rs[i] = resources[i] \/ ~rs[i].listed
            /\ rs[i].ready = resources[i].ready /\ rs[i].factory = resources[i].factory
  <2>1. CASE next = signature
    BY <1>4, <1>5, <2>1
  <2>2. CASE next # signature
    <3>1. rs = Session!ShutAt(resources, Session!Listed(resources))
      BY <2>2
    <3>2. \A i \in DOMAIN resources : ~Session!ShutAt(resources, Session!Listed(resources))[i].listed
      BY <1>4, <1>5, ShutAtIsSound DEF Session!Listed
    <3> QED BY <1>4, <1>5, <3>1, <3>2, ShutAtIsSound DEF Current
  <2> QED BY <2>1, <2>2
<1> HIDE DEF rs
<1>7. f.who = now /\ f.signature = next /\ f.resources = rs
  BY <1>1
<1> QED BY <1>2, <1>3, <1>6, <1>7 DEF f

LEMMA RefreshKeeps ==
  ASSUME SessionInv, ~terminal, UNCHANGED terminal,
         NEW w \in Owners \cup {Session!NoOwner}, NEW e \in BOOLEAN, Session!Refresh(w, e, resources)
  PROVE  SessionInv'
<1> DEFINE f == Session!Refreshed(w, e, resources, rights)
<1>1. who' = f.who /\ signature' = f.signature /\ resources' = f.resources
      /\ expired' = (e /\ f.who # Session!NoOwner)
  BY DEF Session!Refresh
<1>2. expired' \in BOOLEAN
  BY <1>1
<1>3. /\ f.who \in Owners \cup {Session!NoOwner} /\ f.signature \in Signature
      /\ f.resources \in Seq(Entry) /\ DOMAIN f.resources = DOMAIN resources
      /\ \A i \in DOMAIN resources : Sound(f.resources[i]) /\ Current(f.resources[i], f.signature)
  BY RefreshedIsCurrent
<1> HIDE DEF f
<1> QED BY <1>1, <1>2, <1>3 DEF SessionInv

\* A step of one entry that lists nothing.
LEMMA StepKeeps ==
  ASSUME SessionInv, NEW i \in DOMAIN resources, NEW r, Session!Step(i, r), Sound(r),
         r.listed => resources[i].listed, r.owner = resources[i].owner
  PROVE  SessionInv'
<1>1. resources' = [resources EXCEPT ![i] = r] /\ UNCHANGED <<who, expired, signature, terminal>>
  BY DEF Session!Step
<1>2. r \in Entry /\ resources \in Seq(Entry)
  BY DEF Sound, SessionInv
<1>3. resources' \in Seq(Entry) /\ DOMAIN resources' = DOMAIN resources
  BY <1>1, <1>2
<1>4. \A j \in DOMAIN resources :
        /\ Sound(resources'[j]) /\ Current(resources'[j], signature)
        /\ terminal => ~resources'[j].listed
  BY <1>1, <1>2 DEF SessionInv, Current
<1> QED BY <1>1, <1>3, <1>4 DEF SessionInv

\* Closing entries under the signature there is.
LEMMA ShutKeeps ==
  ASSUME SessionInv, NEW S, resources' = Session!ShutAt(resources, S), UNCHANGED <<who, expired, signature>>,
         terminal' \in BOOLEAN, terminal' = terminal \/ S = Session!Listed(resources)
  PROVE  SessionInv'
<1>1. resources \in Seq(Entry) /\ \A i \in DOMAIN resources : Sound(resources[i])
  BY DEF SessionInv
<1>2. resources' \in Seq(Entry) /\ DOMAIN resources' = DOMAIN resources
  BY <1>1, ShutAtIsSound
<1>3. \A i \in DOMAIN resources :
        /\ Sound(resources'[i])
        /\ resources'[i] = resources[i] \/ ~resources'[i].listed
        /\ i \in S => ~resources'[i].listed
  BY <1>1, ShutAtIsSound
<1>4. \A i \in DOMAIN resources : Current(resources'[i], signature)
  BY <1>3 DEF SessionInv, Current
<1>5. \A i \in DOMAIN resources : terminal' => ~resources'[i].listed
  BY <1>3 DEF SessionInv, Session!Listed
<1> QED BY <1>2, <1>3, <1>4, <1>5 DEF SessionInv

LEMMA OpenKeeps == ASSUME SessionInv, Session!Open PROVE SessionInv'
<1> DEFINE f == Session!Refreshed(who, expired, resources, rights)
           r == Session!NewResource(f.signature)
<1>1. /\ ~terminal /\ UNCHANGED terminal /\ f.signature.allowed /\ who' = f.who
      /\ signature' = f.signature
      /\ expired' = (expired /\ f.who # Session!NoOwner) /\ resources' = Append(f.resources, r)
  BY DEF Session!Open
<1>2. expired' \in BOOLEAN
  BY <1>1
<1>3. /\ f.who \in Owners \cup {Session!NoOwner} /\ f.signature \in Signature
      /\ f.resources \in Seq(Entry) /\ DOMAIN f.resources = DOMAIN resources
      /\ \A i \in DOMAIN resources : Sound(f.resources[i]) /\ Current(f.resources[i], f.signature)
  BY RefreshedIsCurrent DEF SessionInv
<1>4. Sound(r) /\ Current(r, f.signature)
  <2> HIDE DEF f
  <2>1. TRUE \in BOOLEAN /\ FALSE \in BOOLEAN
    OBVIOUS
  <2>2. r \in Entry
    BY <1>3, <2>1 DEF Session!NewResource, Entry, Factory
  <2> QED BY <1>1, <2>2 DEF Session!NewResource, Sound, Current
<1> HIDE DEF f, r
<1>5. r \in Entry
  BY <1>4 DEF Sound
<1>6. /\ resources' \in Seq(Entry)
      /\ \A i \in DOMAIN resources' : resources'[i] = r \/
            (i \in DOMAIN f.resources /\ resources'[i] = f.resources[i])
  BY <1>1, <1>3, <1>5
<1>7. \A i \in DOMAIN resources' : Sound(resources'[i]) /\ Current(resources'[i], f.signature)
  BY <1>3, <1>4, <1>6
<1> QED BY <1>1, <1>2, <1>3, <1>6, <1>7 DEF SessionInv

LEMMA ExposeKeeps == ASSUME SessionInv, NEW i \in DOMAIN resources, Session!Expose(i) PROVE SessionInv'
<1> DEFINE f == IF terminal THEN [who |-> who, signature |-> signature, resources |-> resources]
                ELSE Session!Refreshed(who, expired, resources, rights)
           mine == f.resources[i]
           r == IF Session!Active(mine) THEN [mine EXCEPT !.ready = "exposed", !.exposed = TRUE]
                ELSE [mine EXCEPT !.ready = "failed"]
<1>1. /\ resources[i].factory = "given" /\ who' = f.who /\ signature' = f.signature
      /\ expired' = (expired /\ f.who # Session!NoOwner) /\ UNCHANGED terminal
      /\ resources' = [f.resources EXCEPT ![i] = r]
  BY DEF Session!Expose
<1>2. expired' \in BOOLEAN
  BY <1>1
<1>3. /\ f.who \in Owners \cup {Session!NoOwner} /\ f.signature \in Signature
      /\ f.resources \in Seq(Entry) /\ DOMAIN f.resources = DOMAIN resources
      /\ \A j \in DOMAIN resources :
            /\ Sound(f.resources[j]) /\ Current(f.resources[j], f.signature)
            /\ terminal => ~f.resources[j].listed
            /\ f.resources[j].factory = resources[j].factory
  <2>1. CASE terminal
    BY <2>1 DEF SessionInv
  <2>2. CASE ~terminal
    <3>1. f = Session!Refreshed(who, expired, resources, rights)
      BY <2>2
    <3> HIDE DEF f
    <3> QED BY <2>2, <3>1, RefreshedIsCurrent DEF SessionInv
  <2> QED BY <2>1, <2>2
<1> HIDE DEF f
<1>4. mine \in Entry /\ Sound(mine) /\ mine.factory = "given" /\ Current(mine, f.signature)
      /\ (terminal => ~mine.listed)
  BY <1>1, <1>3 DEF Sound
<1> HIDE DEF mine
<1>5. Sound(r) /\ Current(r, f.signature) /\ (r.listed <=> mine.listed)
  <2>1. CASE Session!Active(mine)
    <3>1. TRUE \in BOOLEAN /\ r = [mine EXCEPT !.ready = "exposed", !.exposed = TRUE]
      BY <2>1
    <3>2. r \in Entry
      BY <1>4, <3>1 DEF Entry
    <3> QED BY <1>4, <2>1, <3>1, <3>2 DEF Sound, Current, Session!Active, Entry
  <2>2. CASE ~Session!Active(mine)
    <3>1. r = [mine EXCEPT !.ready = "failed"]
      BY <2>2
    <3>2. r \in Entry
      BY <1>4, <3>1 DEF Entry
    <3>3. /\ (r.listed <=> mine.listed) /\ (r.exposed <=> mine.exposed) /\ r.factory = mine.factory
          /\ r.completion = mine.completion /\ r.disposal = mine.disposal
          /\ r.releases = mine.releases /\ r.owner = mine.owner
      BY <1>4, <3>1 DEF Entry
    <3>4. Sound(r)
      BY <1>4, <3>2, <3>3 DEF Sound
    <3> QED BY <1>4, <3>3, <3>4 DEF Current
  <2> QED BY <2>1, <2>2
<1> HIDE DEF r
<1>6. r \in Entry
  BY <1>5 DEF Sound
<1>7. resources' \in Seq(Entry) /\ DOMAIN resources' = DOMAIN resources
  BY <1>1, <1>3, <1>6
<1>8. \A j \in DOMAIN resources' :
        /\ Sound(resources'[j]) /\ Current(resources'[j], f.signature)
        /\ terminal => ~resources'[j].listed
  BY <1>1, <1>3, <1>4, <1>5, <1>7
<1> QED BY <1>1, <1>2, <1>3, <1>7, <1>8 DEF SessionInv

\* A step that moves one entry on, inside its types and outside its listing.
LEMMA ResourceKeeps ==
  ASSUME SessionInv, NEW i \in DOMAIN resources, Session!Resource(i)
  PROVE  SessionInv'
<1> DEFINE r == resources[i]
<1>1. Sound(r) /\ r \in Entry
  BY DEF SessionInv, Sound
<1>2. CASE Session!CloseOne(i)
  <2>1. resources' = Session!ShutAt(resources, {i}) /\ UNCHANGED <<who, expired, signature, terminal>>
    BY <1>2 DEF Session!CloseOne
  <2>2. terminal' \in BOOLEAN
    BY <2>1 DEF SessionInv
  <2> QED BY <2>1, <2>2, ShutKeeps
<1>3. CASE Session!Expose(i)
  BY <1>3, ExposeKeeps
<1>4. CASE Session!Allocates(i)
  <2> DEFINE n == [r EXCEPT !.factory = IF Session!Active(r) THEN "opening" ELSE "none"]
  <2>1. Session!Step(i, n) /\ r.factory = "asked"
    BY <1>4 DEF Session!Allocates
  <2>2. Sound(n) /\ n.listed = r.listed /\ n.owner = r.owner
    BY <1>1, <2>1 DEF Sound, Entry, Factory
  <2> HIDE DEF n
  <2> QED BY <2>1, <2>2, StepKeeps
<1>5. CASE Session!OpenRejects(i)
  <2> DEFINE n == [r EXCEPT !.factory = "none"]
  <2>1. Session!Step(i, n) /\ r.factory = "opening"
    BY <1>5 DEF Session!OpenRejects
  <2>2. Sound(n) /\ n.listed = r.listed /\ n.owner = r.owner
    BY <1>1, <2>1 DEF Sound, Entry, Factory
  <2> HIDE DEF n
  <2> QED BY <2>1, <2>2, StepKeeps
<1>6. CASE Session!OpenReturns(i)
  <2> DEFINE n == [r EXCEPT !.factory = "given",
                !.disposal = IF ~Session!Active(r) /\ @ = "no" THEN "asked" ELSE @]
  <2>1. Session!Step(i, n) /\ r.factory = "opening"
    BY <1>6 DEF Session!OpenReturns
  <2>2. Sound(n) /\ n.listed = r.listed /\ n.owner = r.owner
    BY <1>1, <2>1 DEF Sound, Entry, Factory
  <2> HIDE DEF n
  <2> QED BY <2>1, <2>2, StepKeeps
<1>7. CASE Session!ReadyFails(i)
  <2> DEFINE s == Session!Shut(r)
             n == [s EXCEPT !.ready = "failed"]
  <2>1. Session!Step(i, n)
    BY <1>7 DEF Session!ReadyFails
  <2>2. Sound(s) /\ ~s.listed
    BY <1>1, ShutIsSound
  <2>3. s.owner = r.owner
    BY <1>1 DEF Session!Shut, Sound, Entry
  <2> HIDE DEF s
  <2>4. Sound(n) /\ n.listed = s.listed /\ n.owner = s.owner
    BY <2>2 DEF Sound, Entry
  <2> HIDE DEF n
  <2> QED BY <2>1, <2>2, <2>3, <2>4, StepKeeps
<1>8. CASE Session!Releases(i)
  <2> DEFINE n == [r EXCEPT !.disposal = "closing", !.releases = @ + 1]
  <2>1. Session!Step(i, n) /\ r.disposal = "asked"
    BY <1>8 DEF Session!Releases
  <2>2. n \in Entry
    <3>1. r.releases + 1 \in Nat
      BY <1>1 DEF Entry
    <3> QED BY <1>1, <3>1 DEF Entry
  <2>3. /\ (n.listed <=> r.listed) /\ (n.exposed <=> r.exposed) /\ n.factory = r.factory
        /\ n.completion = r.completion /\ n.disposal = "closing" /\ n.releases = r.releases + 1
        /\ n.owner = r.owner
    BY <1>1 DEF Entry
  <2>4. Sound(n)
    BY <1>1, <2>1, <2>2, <2>3 DEF Sound
  <2> HIDE DEF n
  <2> QED BY <2>1, <2>3, <2>4, StepKeeps
<1>9. CASE \E end \in {"closed", "failed"} : Session!Released(i, end)
  <2>1. PICK end \in {"closed", "failed"} : Session!Released(i, end)
    BY <1>9
  <2> DEFINE n == [r EXCEPT !.disposal = end]
  <2>2. Session!Step(i, n) /\ r.disposal = "closing"
    BY <2>1 DEF Session!Released
  <2>3. Sound(n) /\ n.listed = r.listed /\ n.owner = r.owner
    BY <1>1, <2>2 DEF Sound, Entry
  <2> HIDE DEF n
  <2> QED BY <2>2, <2>3, StepKeeps
<1>10. CASE Session!Completes(i) \/ Session!CompletionTimesOut(i)
  <2>1. PICK end \in {"done", "failed"} :
          Session!Step(i, [r EXCEPT !.completion = end]) /\ r.completion = "waiting"
    BY <1>10 DEF Session!Completes, Session!CompletionTimesOut
  <2> DEFINE n == [r EXCEPT !.completion = end]
  <2>2. Sound(n) /\ n.listed = r.listed /\ n.owner = r.owner
    BY <1>1, <2>1 DEF Sound, Entry
  <2> HIDE DEF n
  <2> QED BY <2>1, <2>2, StepKeeps DEF n
<1> QED BY <1>2, <1>3, <1>4, <1>5, <1>6, <1>7, <1>8, <1>9, <1>10 DEF Session!Resource

LEMMA SessionNext == SessionInv /\ [Session!Next]_sessionVars => SessionInv'
<1> SUFFICES ASSUME SessionInv, [Session!Next]_sessionVars PROVE SessionInv'
  OBVIOUS
<1>1. CASE \E a \in Owners : Session!Update(a)
  <2>1. PICK a \in Owners : Session!Update(a)
    BY <1>1
  <2>2. a \in Owners \cup {Session!NoOwner} /\ FALSE \in BOOLEAN
    OBVIOUS
  <2> QED BY <2>1, <2>2, RefreshKeeps DEF Session!Update
<1>2. CASE \E a \in Owners : Session!RightsChange(a)
  BY <1>2 DEF Session!RightsChange, SessionInv
<1>3. CASE Session!Suspend
  <2>1. Session!NoOwner \in Owners \cup {Session!NoOwner} /\ FALSE \in BOOLEAN
    OBVIOUS
  <2>2. CASE terminal
    BY <1>3, <2>2 DEF Session!Suspend, SessionInv
  <2>3. CASE ~terminal
    BY <1>3, <2>1, <2>3, RefreshKeeps DEF Session!Suspend
  <2> QED BY <2>2, <2>3
<1>4. CASE Session!Expires
  <2>1. expired' \in BOOLEAN
    BY <1>4 DEF Session!Expires
  <2> QED BY <1>4, <2>1 DEF Session!Expires, SessionInv
<1>5. CASE Session!Refreshes
  <2>1. who \in Owners \cup {Session!NoOwner} /\ expired \in BOOLEAN
    BY DEF SessionInv
  <2> QED BY <1>5, <2>1, RefreshKeeps DEF Session!Refreshes
<1>6. CASE Session!Open
  BY <1>6, OpenKeeps
<1>7. CASE Session!Close
  <2>1. terminal' \in BOOLEAN
    BY <1>7 DEF Session!Close
  <2> QED BY <1>7, <2>1, ShutKeeps DEF Session!Close
<1>8. CASE Session!Closed
  BY <1>8 DEF Session!Closed, SessionInv
<1>9. CASE \E i \in DOMAIN resources : Session!Resource(i)
  BY <1>9, ResourceKeeps
<1>10. CASE UNCHANGED sessionVars
  BY <1>10 DEF sessionVars, SessionInv
<1> QED BY <1>1, <1>2, <1>3, <1>4, <1>5, <1>6, <1>7, <1>8, <1>9, <1>10 DEF Session!Next

LEMMA SessionInvHolds == Session!Spec => []SessionInv
<1>1. SessionInv /\ [Session!Next]_Session!vars => SessionInv'
  BY SessionNext DEF sessionVars, Session!vars
<1> QED BY <1>1, SessionInit, PTL DEF Session!Spec

\* Only a listed resource is reachable, and no handle is closed twice
\* (resource-session.ts:80-129, resource-budget.ts).
THEOREM HandlesAreReleasedOnce == Session!Spec => []Session!TypeOK
<1>1. SessionInv => Session!TypeOK
  BY DEF SessionInv, Session!TypeOK, Sound, Session!Active
<1> QED BY <1>1, SessionInvHolds, PTL

-----------------------------------------------------------------------------
(* The close of the session *)

\* What an entry keeps: how its close ended, that nothing was opened, that its handle is
\* closed; and its close is done only for one of the two latter.
Later(r, s) ==
    /\ r.completion \in {"done", "failed"} => s.completion = r.completion
    /\ r.factory = "none" => s.factory = "none"
    /\ r.disposal = "closed" => s.disposal = "closed"
    /\ s.completion = "done" => r.completion = "done" \/ s.factory = "none" \/ s.disposal = "closed"

\* A close of an entry is a later state of it.
LEMMA ShutIsLater == ASSUME NEW r, Sound(r) PROVE Later(r, Session!Shut(r))
<1>1. CASE r.completion # "no"
  BY <1>1 DEF Session!Shut, Later
<1>2. CASE r.completion = "no"
  <2> DEFINE d == IF r.factory = "given" /\ r.disposal = "no" THEN "asked" ELSE r.disposal
  <2>1. Session!Shut(r) = [r EXCEPT !.listed = FALSE, !.exposed = FALSE, !.completion = "waiting", !.disposal = d]
    BY <1>2 DEF Session!Shut, Sound, Entry
  <2>2. Session!Shut(r).completion = "waiting" /\ Session!Shut(r).factory = r.factory /\ Session!Shut(r).disposal = d
    BY <2>1 DEF Sound, Entry
  <2> QED BY <1>2, <2>2 DEF Later
<1> QED BY <1>1, <1>2

\* Closing some of the entries takes each to a later state.
LEMMA ShutAtIsLater ==
  ASSUME SessionInv, NEW S, NEW i \in DOMAIN resources
  PROVE  DOMAIN Session!ShutAt(resources, S) = DOMAIN resources /\ Later(resources[i], Session!ShutAt(resources, S)[i])
<1>1. Sound(resources[i])
  BY DEF SessionInv
<1>2. Later(resources[i], resources[i]) /\ Later(resources[i], Session!Shut(resources[i]))
  BY <1>1, ShutIsLater DEF Later
<1> QED BY <1>2 DEF Session!ShutAt

\* So does a refresh.
LEMMA RefreshedIsLater ==
  ASSUME SessionInv, NEW w, NEW e
  PROVE  LET f == Session!Refreshed(w, e, resources, rights) IN
         DOMAIN f.resources = DOMAIN resources /\ \A i \in DOMAIN resources : Later(resources[i], f.resources[i])
<1> DEFINE f == Session!Refreshed(w, e, resources, rights)
<1>1. f.resources \in {resources, Session!ShutAt(resources, Session!Listed(resources))}
  BY DEF Session!Refreshed
<1>2. DOMAIN Session!ShutAt(resources, Session!Listed(resources)) = DOMAIN resources
  BY DEF Session!ShutAt
<1> HIDE DEF f
<1> QED BY <1>1, <1>2, ShutAtIsLater DEF Later, f

\* Every step takes every entry to a later state, and only an open session gets new ones.
Moves ==
    /\ DOMAIN resources \subseteq DOMAIN resources'
    /\ \A i \in DOMAIN resources : Later(resources[i], resources'[i])
    /\ \A i \in DOMAIN resources' : i \in DOMAIN resources \/ (resources'[i].completion = "no" /\ ~terminal)

\* Entries that stay have moved.
LEMMA SameMoves == ASSUME UNCHANGED resources PROVE Moves
BY DEF Moves, Later

\* A step of one entry.
LEMMA StepMoves ==
  ASSUME SessionInv, NEW i \in DOMAIN resources, NEW r, Session!Step(i, r), Later(resources[i], r)
  PROVE  Moves
<1>1. DOMAIN resources' = DOMAIN resources /\ \A j \in DOMAIN resources :
        resources'[j] = IF j = i THEN r ELSE resources[j]
  BY DEF Session!Step, SessionInv
<1>2. \A j \in DOMAIN resources : Later(resources[j], resources[j])
  BY DEF Later
<1> QED BY <1>1, <1>2 DEF Moves

\* Every operation of one entry takes it to a later state.
LEMMA ResourceMoves ==
  ASSUME SessionInv, NEW i \in DOMAIN resources, Session!Resource(i)
  PROVE  Moves
<1> DEFINE r == resources[i]
<1>1. Sound(r) /\ r \in Entry
  BY DEF SessionInv, Sound
<1>2. CASE Session!CloseOne(i)
  BY <1>2, ShutAtIsLater DEF Session!CloseOne, Moves
<1>3. CASE Session!Expose(i)
  <2> DEFINE f == IF terminal THEN [who |-> who, signature |-> signature, resources |-> resources]
                  ELSE Session!Refreshed(who, expired, resources, rights)
             mine == f.resources[i]
             n == IF Session!Active(mine) THEN [mine EXCEPT !.ready = "exposed", !.exposed = TRUE]
                  ELSE [mine EXCEPT !.ready = "failed"]
  <2>1. resources' = [f.resources EXCEPT ![i] = n]
    BY <1>3 DEF Session!Expose
  <2>2. DOMAIN f.resources = DOMAIN resources /\ \A j \in DOMAIN resources : Later(resources[j], f.resources[j])
    <3>1. CASE terminal
      BY <3>1 DEF Later
    <3>2. CASE ~terminal
      <4>1. f = Session!Refreshed(who, expired, resources, rights)
        BY <3>2
      <4> HIDE DEF f
      <4> QED BY <4>1, RefreshedIsLater
    <3> QED BY <3>1, <3>2
  <2>3. mine \in Entry
    <3>1. CASE terminal
      BY <1>1, <3>1
    <3>2. CASE ~terminal
      <4>1. f = Session!Refreshed(who, expired, resources, rights)
        BY <3>2
      <4> HIDE DEF f
      <4>2. who \in Owners \cup {Session!NoOwner} /\ expired \in BOOLEAN
        BY DEF SessionInv
      <4> QED BY <4>1, <4>2, RefreshedIsCurrent DEF Sound
    <3> QED BY <3>1, <3>2
  <2> HIDE DEF f
  <2>4. Later(r, mine)
    BY <2>2
  <2> HIDE DEF mine
  <2>5. n.completion = mine.completion /\ n.factory = mine.factory /\ n.disposal = mine.disposal
    BY <2>3 DEF Entry
  <2>6. Later(r, n)
    BY <2>4, <2>5 DEF Later
  <2> HIDE DEF n
  <2>7. DOMAIN resources' = DOMAIN resources /\ \A j \in DOMAIN resources :
          resources'[j] = IF j = i THEN n ELSE f.resources[j]
    BY <2>1, <2>2
  <2> QED BY <2>2, <2>6, <2>7 DEF Moves
<1>4. CASE Session!Allocates(i)
  <2> DEFINE n == [r EXCEPT !.factory = IF Session!Active(r) THEN "opening" ELSE "none"]
  <2>1. Session!Step(i, n) /\ r.factory = "asked"
    BY <1>4 DEF Session!Allocates
  <2>2. Later(r, n)
    BY <1>1, <2>1 DEF Later, Entry
  <2> HIDE DEF n
  <2> QED BY <2>1, <2>2, StepMoves
<1>5. CASE Session!OpenRejects(i)
  <2> DEFINE n == [r EXCEPT !.factory = "none"]
  <2>1. Session!Step(i, n)
    BY <1>5 DEF Session!OpenRejects
  <2>2. Later(r, n)
    BY <1>1 DEF Later, Entry
  <2> HIDE DEF n
  <2> QED BY <2>1, <2>2, StepMoves
<1>6. CASE Session!OpenReturns(i)
  <2> DEFINE d == IF ~Session!Active(r) /\ r.disposal = "no" THEN "asked" ELSE r.disposal
             n == [r EXCEPT !.factory = "given", !.disposal = d]
  <2>1. Session!Step(i, n) /\ r.factory = "opening"
    BY <1>1, <1>6 DEF Session!OpenReturns, Entry
  <2>2. n.factory = "given" /\ n.disposal = d /\ n.completion = r.completion
    BY <1>1 DEF Entry
  <2>3. Later(r, n)
    BY <2>1, <2>2 DEF Later
  <2> HIDE DEF n
  <2> QED BY <2>1, <2>3, StepMoves
<1>7. CASE Session!ReadyFails(i)
  <2> DEFINE s == Session!Shut(r)
             n == [s EXCEPT !.ready = "failed"]
  <2>1. Session!Step(i, n)
    BY <1>7 DEF Session!ReadyFails
  <2>2. Later(r, s) /\ s \in Entry
    BY <1>1, ShutIsLater, ShutIsSound DEF Sound
  <2> HIDE DEF s
  <2>3. Later(r, n)
    BY <2>2 DEF Later, Entry
  <2> HIDE DEF n
  <2> QED BY <2>1, <2>3, StepMoves
<1>8. CASE Session!Releases(i)
  <2> DEFINE n == [r EXCEPT !.disposal = "closing", !.releases = @ + 1]
  <2>1. Session!Step(i, n) /\ r.disposal = "asked"
    BY <1>8 DEF Session!Releases
  <2>2. n.disposal = "closing" /\ n.factory = r.factory /\ n.completion = r.completion
    BY <1>1 DEF Entry
  <2>3. Later(r, n)
    BY <2>1, <2>2 DEF Later
  <2> HIDE DEF n
  <2> QED BY <2>1, <2>3, StepMoves
<1>9. CASE \E end \in {"closed", "failed"} : Session!Released(i, end)
  <2>1. PICK end \in {"closed", "failed"} : Session!Released(i, end)
    BY <1>9
  <2> DEFINE n == [r EXCEPT !.disposal = end]
  <2>2. Session!Step(i, n) /\ r.disposal = "closing"
    BY <2>1 DEF Session!Released
  <2>3. Later(r, n)
    BY <1>1, <2>2 DEF Later, Entry
  <2> HIDE DEF n
  <2> QED BY <2>2, <2>3, StepMoves
<1>10. CASE Session!Completes(i) \/ Session!CompletionTimesOut(i)
  <2>1. PICK end \in {"done", "failed"} :
          /\ Session!Step(i, [r EXCEPT !.completion = end]) /\ r.completion = "waiting"
          /\ end = "done" => r.factory = "none" \/ r.disposal = "closed"
    BY <1>10 DEF Session!Completes, Session!CompletionTimesOut
  <2> DEFINE n == [r EXCEPT !.completion = end]
  <2>2. n.completion = end /\ n.factory = r.factory /\ n.disposal = r.disposal
    BY <1>1 DEF Entry
  <2>3. Later(r, n)
    BY <2>1, <2>2 DEF Later
  <2>4. Session!Step(i, n)
    BY <2>1
  <2> HIDE DEF n
  <2> QED BY <2>3, <2>4, StepMoves
<1> QED BY <1>2, <1>3, <1>4, <1>5, <1>6, <1>7, <1>8, <1>9, <1>10 DEF Session!Resource

\* Every operation of the session takes every entry to a later state.
LEMMA NextMoves == ASSUME SessionInv, [Session!Next]_sessionVars PROVE Moves
<1>1. CASE \E a \in Owners : Session!Update(a) \/ Session!RightsChange(a)
  BY <1>1, RefreshedIsLater, SameMoves DEF Session!Update, Session!RightsChange, Session!Refresh, Moves
<1>2. CASE Session!Suspend \/ Session!Refreshes
  BY <1>2, RefreshedIsLater, SameMoves DEF Session!Suspend, Session!Refreshes, Session!Refresh, Moves
<1>3. CASE Session!Expires \/ Session!Closed \/ UNCHANGED sessionVars
  BY <1>3, SameMoves DEF Session!Expires, Session!Closed, sessionVars
<1>4. CASE Session!Close
  <2>1. resources' = Session!ShutAt(resources, Session!Listed(resources)) /\ DOMAIN resources' = DOMAIN resources
    BY <1>4 DEF Session!Close, Session!ShutAt
  <2>2. \A i \in DOMAIN resources : Later(resources[i], Session!ShutAt(resources, Session!Listed(resources))[i])
    BY ShutAtIsLater
  <2> QED BY <2>1, <2>2 DEF Moves
<1>5. CASE Session!Open
  <2> DEFINE f == Session!Refreshed(who, expired, resources, rights)
             n == Session!NewResource(f.signature)
  <2>1. ~terminal /\ resources' = Append(f.resources, n)
    BY <1>5 DEF Session!Open
  <2>2. DOMAIN f.resources = DOMAIN resources /\ \A i \in DOMAIN resources : Later(resources[i], f.resources[i])
    BY RefreshedIsLater
  <2>3. n.completion = "no"
    BY DEF Session!NewResource
  <2>4. f.resources \in Seq(Entry)
    <3>1. who \in Owners \cup {Session!NoOwner} /\ expired \in BOOLEAN
      BY DEF SessionInv
    <3> QED BY <3>1, RefreshedIsCurrent
  <2> HIDE DEF f, n
  <2>5. /\ DOMAIN f.resources \subseteq DOMAIN resources'
        /\ \A i \in DOMAIN f.resources : resources'[i] = f.resources[i]
        /\ \A i \in DOMAIN resources' : i \in DOMAIN f.resources \/ resources'[i] = n
    BY <2>1, <2>4
  <2> QED BY <2>1, <2>2, <2>3, <2>5 DEF Moves
<1>6. CASE \E i \in DOMAIN resources : Session!Resource(i)
  BY <1>6, ResourceMoves
<1> QED BY <1>1, <1>2, <1>3, <1>4, <1>5, <1>6 DEF Session!Next

\* A close that is done has nothing left behind it, and the close of the session leaves out
\* only what had ended before.
CloseInv ==
    /\ \A i \in DOMAIN resources :
        resources[i].completion = "done" => resources[i].factory = "none" \/ resources[i].disposal = "closed"
    /\ closing # "no" => terminal
    /\ closing = "waiting" =>
        \A i \in DOMAIN resources : i \in awaited \/ resources[i].completion \in {"done", "failed"}
    /\ closing = "resolved" =>
        \A i \in DOMAIN resources :
            resources[i].completion = "done" \/ (resources[i].completion = "failed" /\ i \notin awaited)

\* Every step keeps what the close of the session rests on.
LEMMA CloseNext == ASSUME SessionInv, CloseInv, [Session!Next]_sessionVars PROVE CloseInv'
<1>0. Moves /\ SessionInv'
  BY NextMoves, SessionNext
<1>1. \A i \in DOMAIN resources' :
        resources'[i].completion = "done" => resources'[i].factory = "none" \/ resources'[i].disposal = "closed"
  BY <1>0 DEF Moves, Later, CloseInv
<1>2. CASE Session!Close
  <2>1. closing' = "waiting" /\ terminal' /\ awaited' = Session!Waiting(resources')
    BY <1>2 DEF Session!Close
  <2>2. \A i \in DOMAIN resources' : resources'[i].completion \in {"waiting", "done", "failed"}
    BY <1>0, <2>1 DEF SessionInv, Sound, Entry
  <2> QED BY <1>1, <2>1, <2>2 DEF CloseInv, Session!Waiting
<1>3. CASE Session!Closed
  <2>1. /\ closing = "waiting" /\ awaited \cap Session!Waiting(resources) = {}
        /\ closing' = IF \E i \in awaited : resources[i].completion = "failed" THEN "rejected" ELSE "resolved"
        /\ UNCHANGED <<resources, terminal, awaited>>
    BY <1>3 DEF Session!Closed
  <2>2. terminal' /\ closing' # "waiting"
    BY <2>1 DEF CloseInv
  <2>3. ASSUME closing' = "resolved", NEW i \in DOMAIN resources
        PROVE  resources[i].completion = "done" \/ (resources[i].completion = "failed" /\ i \notin awaited)
    <3>1. resources[i].completion \in {"waiting", "done", "failed"}
      BY <2>1 DEF CloseInv, SessionInv, Sound, Entry
    <3>2. i \in awaited => resources[i].completion # "waiting" /\ resources[i].completion # "failed"
      BY <2>1, <2>3 DEF Session!Waiting
    <3>3. i \notin awaited => resources[i].completion \in {"done", "failed"}
      BY <2>1 DEF CloseInv
    <3> QED BY <3>1, <3>2, <3>3
  <2> QED BY <1>1, <2>1, <2>2, <2>3 DEF CloseInv
<1>4. CASE UNCHANGED <<closing, awaited, terminal>>
  <2>1. closing # "no" => DOMAIN resources' = DOMAIN resources
    BY <1>0 DEF Moves, CloseInv
  <2> QED BY <1>0, <1>1, <1>4, <2>1 DEF CloseInv, Moves, Later
<1>5. [Session!Next]_sessionVars => Session!Close \/ Session!Closed \/ UNCHANGED <<closing, awaited, terminal>>
  BY DEF Session!Next, Session!Resource, sessionVars, Session!Update, Session!RightsChange, Session!Suspend, Session!Expires, Session!Refreshes, Session!Open, Session!CloseOne,
         Session!Allocates, Session!OpenRejects, Session!OpenReturns, Session!Expose, Session!ReadyFails, Session!Releases, Session!Released, Session!Completes,
         Session!CompletionTimesOut, Session!Step
<1> QED BY <1>2, <1>3, <1>4, <1>5

\* No close at the start.
LEMMA CloseInit == ASSUME Session!Init PROVE CloseInv
BY DEF Session!Init, CloseInv

\* What a clean close means.
LEMMA CloseProperties == ASSUME CloseInv PROVE Session!SettledMeansGone
BY DEF CloseInv, Session!SettledMeansGone

\* What follows for the resources of a session.
LEMMA SessionProperties ==
  ASSUME SessionInv, CloseInv
  PROVE  Session!TypeOK /\ Session!ListedAreCurrent /\ Session!SettledMeansGone
<1>1. Session!SettledMeansGone
  BY CloseProperties
<1>2. Session!ListedAreCurrent
  BY DEF Session!ListedAreCurrent, Session!Listed, SessionInv, Current
<1>3. Session!TypeOK
  BY DEF Session!TypeOK, Session!Active, SessionInv, Sound
<1> QED BY <1>1, <1>2, <1>3

-----------------------------------------------------------------------------
(* The flow *)

\* The types that the argument needs.
FlowTypes ==
    /\ flow \in [opened : BOOLEAN, negotiated : BOOLEAN, sent : Nat, acked : Nat,
                 draining : BOOLEAN, closed : BOOLEAN, waiting : 0..Pushers]
    /\ acks \in Seq(Nat)
    /\ stream.delivered \in Nat /\ stream \in [declared : BOOLEAN, queue : Nat, busy : BOOLEAN,
                                               delivered : Nat, acked : Nat]

\* An open window exceeds its credit by the pushes that wait, a closed one by as many as
\* ever waited.
CreditHeld ==
    flow.negotiated =>
        /\ flow.sent - flow.acked <= Window + Pushers - 1
        /\ ~flow.closed => flow.sent - flow.acked <= Window + flow.waiting - 1

\* Nothing is counted before the flow is opened.
Uncounted == ~flow.opened => flow.sent = 0

\* Neither what the server has taken note of nor what is on its way is more than the
\* consumer has finished with.
Honest ==
    /\ flow.acked <= stream.delivered /\ flow.acked <= flow.sent
    /\ \A i \in 1..Len(acks) : acks[i] <= stream.delivered

FlowInv == FlowTypes /\ CreditHeld /\ Uncounted /\ Honest

LEMMA FlowInit == ASSUME Flow!FlowAssumption PROVE Flow!Init => FlowInv
  BY DEF Flow!FlowAssumption, Flow!Init, FlowInv, FlowTypes, CreditHeld, Uncounted, Honest, Flow!NoStream

\* What leaves the credit alone and opens nothing keeps it.
LEMMA CloseKeeps ==
  ASSUME Flow!FlowAssumption, FlowInv, flow' = Flow!CloseFlow(flow), UNCHANGED <<acks, stream>>
  PROVE  FlowInv'
<1>1. CASE ~flow.opened
  BY <1>1 DEF Flow!CloseFlow, FlowInv, FlowTypes, CreditHeld, Uncounted, Honest
<1>2. CASE flow.opened
  <2>1. flow' = [flow EXCEPT !.closed = TRUE, !.waiting = 0]
    BY <1>2 DEF Flow!CloseFlow
  <2>2. FlowTypes'
    <3>1. 0 \in 0..Pushers /\ TRUE \in BOOLEAN
      BY DEF Flow!FlowAssumption
    <3> QED BY <2>1, <3>1 DEF FlowInv, FlowTypes
  <2>3. flow'.closed /\ (flow'.opened <=> flow.opened) /\ flow'.sent = flow.sent /\ flow'.acked = flow.acked
        /\ (flow'.negotiated <=> flow.negotiated)
    BY <2>1 DEF FlowInv, FlowTypes
  <2> QED BY <2>2, <2>3 DEF FlowInv, FlowTypes, CreditHeld, Uncounted, Honest
<1> QED BY <1>1, <1>2

\* The gate moves the mark of the transport only.
LEMMA GateKeeps ==
  ASSUME NEW f \in [opened : BOOLEAN, negotiated : BOOLEAN, sent : Nat, acked : Nat,
                    draining : BOOLEAN, closed : BOOLEAN, waiting : 0..Pushers], NEW w
  PROVE  /\ Flow!Gate(f, w) \in [opened : BOOLEAN, negotiated : BOOLEAN, sent : Nat, acked : Nat,
                            draining : BOOLEAN, closed : BOOLEAN, waiting : 0..Pushers]
         /\ Flow!Gate(f, w).sent = f.sent /\ Flow!Gate(f, w).acked = f.acked
         /\ Flow!Gate(f, w).waiting = f.waiting
         /\ (Flow!Gate(f, w).closed <=> f.closed) /\ (Flow!Gate(f, w).negotiated <=> f.negotiated)
         /\ (Flow!Gate(f, w).opened <=> f.opened)
<1>1. CASE Flow!CreditBlocked(f)
  BY <1>1 DEF Flow!Gate
<1>2. CASE ~Flow!CreditBlocked(f)
  <2>1. Flow!WatermarkBlocked(f, w) \in BOOLEAN
    BY DEF Flow!WatermarkBlocked
  <2>2. Flow!Gate(f, w) = [f EXCEPT !.draining = Flow!WatermarkBlocked(f, w)]
    BY <1>2 DEF Flow!Gate
  <2> QED BY <2>1, <2>2
<1> QED BY <1>1, <1>2

\* A wake lets the pushes go only when the credit allows a frame.
LEMMA WakeKeeps ==
  ASSUME Flow!FlowAssumption,
         NEW f \in [opened : BOOLEAN, negotiated : BOOLEAN, sent : Nat, acked : Nat,
                    draining : BOOLEAN, closed : BOOLEAN, waiting : 0..Pushers]
  PROVE  /\ Flow!Wake(f) \in [opened : BOOLEAN, negotiated : BOOLEAN, sent : Nat, acked : Nat,
                         draining : BOOLEAN, closed : BOOLEAN, waiting : 0..Pushers]
         /\ Flow!Wake(f).sent = f.sent /\ Flow!Wake(f).acked = f.acked
         /\ (Flow!Wake(f).closed <=> f.closed) /\ (Flow!Wake(f).negotiated <=> f.negotiated)
         /\ (Flow!Wake(f).opened <=> f.opened)
         /\ \/ Flow!Wake(f).waiting = f.waiting
            \/ Flow!Wake(f).waiting = 0 /\ ~Flow!CreditBlocked(f)
<1>1. CASE f.waiting = 0
  BY <1>1 DEF Flow!Wake
<1>2. CASE f.waiting # 0 /\ Flow!Blocked(f, wire)
  BY <1>2, GateKeeps DEF Flow!Wake
<1>3. CASE f.waiting # 0 /\ ~Flow!Blocked(f, wire)
  <2>1. Flow!Wake(f) = [Flow!Gate(f, wire) EXCEPT !.waiting = 0] /\ ~Flow!CreditBlocked(f)
    BY <1>3 DEF Flow!Wake, Flow!Blocked
  <2>2. 0 \in 0..Pushers
    BY DEF Flow!FlowAssumption
  <2> QED BY <2>1, <2>2, GateKeeps
<1> QED BY <1>1, <1>2, <1>3

\* A wake of the flow itself, with as much or more acknowledged.
LEMMA WokenKeeps ==
  ASSUME Flow!FlowAssumption, FlowInv, UNCHANGED stream, acks' \in Seq(Nat),
         \A i \in 1..Len(acks') : acks'[i] <= stream.delivered,
         NEW a \in Nat, flow.acked <= a, a <= stream.delivered, a <= flow.sent,
         flow' = Flow!Wake([flow EXCEPT !.acked = a])
  PROVE  FlowInv'
<1> DEFINE f == [flow EXCEPT !.acked = a]
<1>1. /\ f \in [opened : BOOLEAN, negotiated : BOOLEAN, sent : Nat, acked : Nat,
                draining : BOOLEAN, closed : BOOLEAN, waiting : 0..Pushers]
      /\ f.sent = flow.sent /\ f.acked = a /\ f.waiting = flow.waiting
      /\ (f.closed <=> flow.closed) /\ (f.negotiated <=> flow.negotiated)
      /\ (f.opened <=> flow.opened)
  BY DEF FlowInv, FlowTypes
<1>2. flow' = Flow!Wake(f)
  OBVIOUS
<1> HIDE DEF f
<1>3. FlowTypes'
  BY <1>1, <1>2, WakeKeeps DEF FlowInv, FlowTypes
<1>4. flow'.sent = flow.sent /\ flow'.acked = a
  BY <1>1, <1>2, WakeKeeps
<1>5. flow'.closed => flow.closed
  BY <1>1, <1>2, WakeKeeps
<1>6. flow.closed => flow'.closed
  BY <1>1, <1>2, WakeKeeps
<1>7. flow'.negotiated => flow.negotiated
  BY <1>1, <1>2, WakeKeeps
<1>8. flow.opened => flow'.opened
  BY <1>1, <1>2, WakeKeeps
<1>9. flow'.waiting = flow.waiting \/ (flow'.waiting = 0 /\ ~Flow!CreditBlocked(f))
  <2>1. f \in [opened : BOOLEAN, negotiated : BOOLEAN, sent : Nat, acked : Nat,
               draining : BOOLEAN, closed : BOOLEAN, waiting : 0..Pushers]
    BY <1>1
  <2>2. Flow!Wake(f).waiting = f.waiting \/ (Flow!Wake(f).waiting = 0 /\ ~Flow!CreditBlocked(f))
    BY <2>1, WakeKeeps
  <2> QED BY <1>1, <1>2, <2>2
<1>10. flow.negotiated /\ ~Flow!CreditBlocked(f) => flow.sent - a <= Window - 1
  BY <1>1 DEF Flow!CreditBlocked, FlowInv, FlowTypes, Flow!FlowAssumption
<1>11. flow.sent - a <= flow.sent - flow.acked
  BY DEF FlowInv, FlowTypes
<1>12. CreditHeld'
  <2> SUFFICES ASSUME flow'.negotiated
               PROVE  /\ flow.sent - a <= Window + Pushers - 1
                      /\ ~flow'.closed => flow.sent - a <= Window + flow'.waiting - 1
    BY <1>4 DEF CreditHeld
  <2>1. CASE flow'.waiting = flow.waiting
    <3>1. flow.sent - flow.acked <= Window + Pushers - 1
      BY <1>7 DEF FlowInv, CreditHeld
    <3>2. ~flow'.closed => flow.sent - flow.acked <= Window + flow.waiting - 1
      BY <1>6, <1>7 DEF FlowInv, CreditHeld
    <3>3. flow.sent - a \in Int /\ flow.sent - flow.acked \in Int /\ flow.waiting \in Int
      BY DEF FlowInv, FlowTypes
    <3>4. Window \in Int /\ Pushers \in Int
      BY DEF Flow!FlowAssumption
    <3> QED BY <1>11, <2>1, <3>1, <3>2, <3>3, <3>4
  <2>2. CASE flow'.waiting = 0 /\ ~Flow!CreditBlocked(f)
    <3>1. flow.sent - a <= Window - 1
      BY <1>7, <1>10, <2>2
    <3>2. flow.sent - a \in Int
      BY DEF FlowInv, FlowTypes
    <3> QED BY <2>2, <3>1, <3>2 DEF Flow!FlowAssumption
  <2> QED BY <1>9, <2>1, <2>2
<1>13. Uncounted'
  BY <1>4, <1>8 DEF FlowInv, Uncounted
<1>14. Honest'
  BY <1>4 DEF Honest
<1> QED BY <1>3, <1>12, <1>13, <1>14 DEF FlowInv

LEMMA FlowPush == ASSUME Flow!FlowAssumption, FlowInv, Flow!Push PROVE FlowInv'
<1> DEFINE f == [flow EXCEPT !.sent = @ + 1]
<1>1. /\ f \in [opened : BOOLEAN, negotiated : BOOLEAN, sent : Nat, acked : Nat,
                draining : BOOLEAN, closed : BOOLEAN, waiting : 0..Pushers]
      /\ f.sent = flow.sent + 1 /\ f.acked = flow.acked /\ f.waiting = flow.waiting
      /\ (f.closed <=> flow.closed) /\ (f.negotiated <=> flow.negotiated)
      /\ (f.opened <=> flow.opened)
  BY DEF FlowInv, FlowTypes
<1>2. flow' = IF Flow!Blocked(f, wire') THEN [Flow!Gate(f, wire') EXCEPT !.waiting = @ + 1] ELSE Flow!Gate(f, wire')
  BY DEF Flow!Push
<1>3. UNCHANGED <<acks, stream>> /\ flow.opened /\ ~flow.closed /\ flow.waiting < Pushers
  BY DEF Flow!Push, Flow!clientVars
<1> HIDE DEF f
<1>4. CASE Flow!Blocked(f, wire')
  <2>1. flow' = [Flow!Gate(f, wire') EXCEPT !.waiting = @ + 1]
    BY <1>2, <1>4
  <2>2. flow.waiting + 1 \in 0..Pushers
    BY <1>3 DEF FlowInv, FlowTypes, Flow!FlowAssumption
  <2>3. Flow!Gate(f, wire').waiting = flow.waiting
    BY <1>1, GateKeeps
  <2>4. FlowTypes'
    <3> DEFINE g == Flow!Gate(f, wire')
    <3>1. g \in [opened : BOOLEAN, negotiated : BOOLEAN, sent : Nat, acked : Nat,
                 draining : BOOLEAN, closed : BOOLEAN, waiting : 0..Pushers]
      BY <1>1, GateKeeps
    <3>2. flow' = [g EXCEPT !.waiting = flow.waiting + 1]
      BY <2>1, <2>3, <3>1
    <3> HIDE DEF g
    <3> QED BY <1>3, <2>2, <3>1, <3>2 DEF FlowInv, FlowTypes
  <2>5. flow'.sent = flow.sent + 1 /\ flow'.acked = flow.acked /\ flow'.waiting = flow.waiting + 1
        /\ (flow'.negotiated <=> flow.negotiated)
    BY <1>1, <2>1, <2>3, GateKeeps
  <2>6. CreditHeld'
    <3> SUFFICES ASSUME flow'.negotiated
                 PROVE  /\ flow'.sent - flow'.acked <= Window + Pushers - 1
                        /\ flow'.sent - flow'.acked <= Window + flow'.waiting - 1
      BY DEF CreditHeld
    <3>1. flow.sent - flow.acked <= Window + flow.waiting - 1
      BY <1>3, <2>5 DEF FlowInv, CreditHeld
    <3>2. flow.sent \in Int /\ flow.acked \in Int /\ flow.waiting \in Int
      BY DEF FlowInv, FlowTypes
    <3>3. Window \in Int /\ Pushers \in Int
      BY DEF Flow!FlowAssumption
    <3>4. flow.waiting + 1 <= Pushers
      BY <2>2, <3>2, <3>3
    <3> QED BY <2>5, <3>1, <3>2, <3>3, <3>4
  <2>7. Uncounted' /\ Honest'
    <3>1. flow'.opened
      BY <1>1, <1>3, <2>1, GateKeeps
    <3> QED BY <1>3, <2>5, <3>1 DEF FlowInv, FlowTypes, Uncounted, Honest
  <2> QED BY <2>4, <2>6, <2>7 DEF FlowInv
<1>5. CASE ~Flow!Blocked(f, wire')
  <2>1. flow' = Flow!Gate(f, wire') /\ ~Flow!CreditBlocked(f)
    BY <1>2, <1>5 DEF Flow!Blocked
  <2>2. FlowTypes'
    BY <1>1, <1>3, <2>1, GateKeeps DEF FlowInv, FlowTypes
  <2>3. flow'.sent = flow.sent + 1 /\ flow'.acked = flow.acked /\ flow'.waiting = flow.waiting
        /\ (flow'.negotiated <=> flow.negotiated)
    BY <1>1, <2>1, GateKeeps
  <2>4. flow.negotiated => flow.sent + 1 - flow.acked <= Window - 1
    BY <1>1, <2>1 DEF Flow!CreditBlocked, FlowInv, FlowTypes, Flow!FlowAssumption
  <2>5. CreditHeld'
    BY SMTT(30), <2>3, <2>4 DEF FlowInv, FlowTypes, CreditHeld, Flow!FlowAssumption
  <2>6. Uncounted' /\ Honest'
    <3>1. flow'.opened
      BY <1>1, <1>3, <2>1, GateKeeps
    <3> QED BY <1>3, <2>3, <3>1 DEF FlowInv, FlowTypes, Uncounted, Honest
  <2> QED BY <2>2, <2>5, <2>6 DEF FlowInv
<1> QED BY <1>4, <1>5

LEMMA FlowAck == ASSUME Flow!FlowAssumption, FlowInv, Flow!AckArrives PROVE FlowInv'
<1>1. UNCHANGED stream /\ acks # <<>> /\ acks' = Tail(acks)
  BY DEF Flow!AckArrives, Flow!clientVars
<1>2. acks' \in Seq(Nat) /\ Head(acks) \in Nat /\ Head(acks) <= stream.delivered
      /\ Len(acks') = Len(acks) - 1 /\ \A i \in 1..Len(acks') : acks'[i] = acks[i + 1]
  BY <1>1 DEF FlowInv, FlowTypes, Honest
<1>3. \A i \in 1..Len(acks') : acks'[i] <= stream.delivered
  <2> SUFFICES ASSUME NEW i \in 1..Len(acks') PROVE acks'[i] <= stream.delivered
    OBVIOUS
  <2>1. i + 1 \in 1..Len(acks) /\ acks'[i] = acks[i + 1]
    BY <1>2 DEF FlowInv, FlowTypes
  <2> QED BY <2>1 DEF FlowInv, Honest
<1>4. CASE flow' = flow
  BY <1>1, <1>2, <1>3, <1>4 DEF FlowInv, FlowTypes, CreditHeld, Uncounted, Honest
<1>5. CASE flow' # flow
  <2> DEFINE a == IF Head(acks) < flow.sent THEN Head(acks) ELSE flow.sent
  <2>1. flow' = Flow!Wake([flow EXCEPT !.acked = a]) /\ flow.acked < Head(acks)
    BY <1>2, <1>5 DEF Flow!AckArrives, FlowInv, FlowTypes
  <2>2. a \in Nat /\ flow.acked <= a /\ a <= stream.delivered /\ a <= flow.sent
    BY <1>2, <2>1 DEF FlowInv, FlowTypes, Honest
  <2> HIDE DEF a
  <2> QED BY <1>1, <1>2, <1>3, <2>1, <2>2, WokenKeeps
<1> QED BY <1>4, <1>5

\* A frame that the consumer has finished with may be acknowledged.
LEMMA FinishedKeeps ==
  ASSUME FlowInv, Flow!Finished(stream), UNCHANGED flow
  PROVE  FlowInv'
<1>1. Flow!AckDue(stream) \in BOOLEAN /\ (stream.declared /\ stream.queue > 0) \in BOOLEAN
  BY DEF Flow!AckDue
<1>2. stream'.delivered = stream.delivered + 1 /\ stream.delivered \in Nat
  BY DEF Flow!Finished, FlowInv, FlowTypes
<1>3. acks' \in Seq(Nat)
  BY <1>2 DEF Flow!Finished, FlowInv, FlowTypes
<1>4. \A i \in 1..Len(acks') : acks'[i] <= stream'.delivered
  <2>1. CASE acks' = acks
    BY <1>2, <2>1 DEF FlowInv, FlowTypes, Honest
  <2>2. CASE acks' = Append(acks, stream.delivered + 1)
    BY <1>2, <2>2 DEF FlowInv, FlowTypes, Honest
  <2> QED BY <2>1, <2>2 DEF Flow!Finished
<1>5. stream' \in [declared : BOOLEAN, queue : Nat, busy : BOOLEAN, delivered : Nat, acked : Nat]
  <2>1. (IF Flow!AckDue(stream) THEN stream.delivered + 1 ELSE stream.acked) \in Nat
    BY DEF FlowInv, FlowTypes
  <2>2. (IF stream.declared /\ stream.queue > 0 THEN stream.queue - 1 ELSE 0) \in Nat
    BY DEF FlowInv, FlowTypes
  <2> DEFINE k == IF Flow!AckDue(stream) THEN stream.delivered + 1 ELSE stream.acked
             q == IF stream.declared /\ stream.queue > 0 THEN stream.queue - 1 ELSE 0
             b == stream.declared /\ stream.queue > 0
  <2>3. stream' = [stream EXCEPT !.delivered = stream.delivered + 1, !.acked = k, !.queue = q, !.busy = b]
    BY DEF Flow!Finished, FlowInv, FlowTypes
  <2>4. k \in Nat /\ q \in Nat
    BY <2>1, <2>2
  <2>5. b \in BOOLEAN
    BY <1>1
  <2> HIDE DEF k, q, b
  <2>6. stream.delivered + 1 \in Nat
    BY <1>2
  <2> QED BY <2>3, <2>4, <2>5, <2>6 DEF FlowInv, FlowTypes
<1> QED BY <1>2, <1>3, <1>4, <1>5 DEF FlowInv, FlowTypes, CreditHeld, Uncounted, Honest

\* What the client does with its queue and its declaration does not touch its count.
LEMMA QueueKeeps ==
  ASSUME FlowInv, UNCHANGED <<flow, acks>>, NEW d \in BOOLEAN, NEW q \in Nat, NEW b \in BOOLEAN,
         stream' = [stream EXCEPT !.declared = d, !.queue = q, !.busy = b]
  PROVE  FlowInv'
<1>1. stream'.delivered = stream.delivered /\ stream' \in
        [declared : BOOLEAN, queue : Nat, busy : BOOLEAN, delivered : Nat, acked : Nat]
  BY DEF FlowInv, FlowTypes
<1> QED BY <1>1 DEF FlowInv, FlowTypes, CreditHeld, Uncounted, Honest

LEMMA DropKeeps ==
  ASSUME FlowInv, UNCHANGED <<flow, acks>>, stream' = Flow!DropStream
  PROVE  FlowInv'
<1>1. stream'.delivered = stream.delivered /\ stream' \in
        [declared : BOOLEAN, queue : Nat, busy : BOOLEAN, delivered : Nat, acked : Nat]
  <2>1. FALSE \in BOOLEAN /\ 0 \in Nat
    OBVIOUS
  <2> QED BY <2>1 DEF Flow!DropStream, FlowInv, FlowTypes
<1> QED BY <1>1 DEF FlowInv, FlowTypes, CreditHeld, Uncounted, Honest

LEMMA SameKeeps == ASSUME FlowInv, UNCHANGED <<flow, acks, stream>> PROVE FlowInv'
  BY DEF FlowInv, FlowTypes, CreditHeld, Uncounted, Honest

LEMMA FlowNext == ASSUME Flow!FlowAssumption PROVE FlowInv /\ [Flow!Next]_flowVars => FlowInv'
<1> SUFFICES ASSUME FlowInv, [Flow!Next]_flowVars PROVE FlowInv'
  OBVIOUS
<1>1. CASE Flow!Plain
  BY <1>1, SameKeeps DEF Flow!Plain, Flow!clientVars
<1>2. CASE \E negotiated \in BOOLEAN : Flow!OpenFlow(negotiated)
  <2>1. PICK n \in BOOLEAN : Flow!OpenFlow(n)
    BY <1>2
  <2>2. flow' = [flow EXCEPT !.opened = TRUE, !.negotiated = n] /\ UNCHANGED <<acks, stream>>
        /\ ~flow.opened
    BY <2>1 DEF Flow!OpenFlow, Flow!clientVars
  <2>3. TRUE \in BOOLEAN
    OBVIOUS
  <2>4. FlowTypes'
    BY <2>2, <2>3 DEF FlowInv, FlowTypes
  <2>5. flow'.sent = 0 /\ flow'.acked = 0 /\ flow'.waiting = flow.waiting /\ flow'.opened
    BY <2>2 DEF FlowInv, FlowTypes, Uncounted, Honest
  <2>6. CreditHeld'
    BY <2>4, <2>5 DEF FlowTypes, CreditHeld, Flow!FlowAssumption
  <2> QED BY <2>2, <2>4, <2>5, <2>6 DEF FlowInv, FlowTypes, Uncounted, Honest
<1>3. CASE Flow!Push
  BY <1>3, FlowPush
<1>4. CASE Flow!EndStream
  BY <1>4, CloseKeeps DEF Flow!EndStream, Flow!clientVars
<1>5. CASE Flow!Return
  BY <1>5, CloseKeeps DEF Flow!Return, Flow!clientVars
<1>6. CASE Flow!AckArrives
  BY <1>6, FlowAck
<1>7. CASE Flow!Poll
  <2>1. UNCHANGED <<acks, stream>>
    BY <1>7 DEF Flow!Poll, Flow!clientVars
  <2>2. CASE up
    <3>1. flow' = Flow!Wake([flow EXCEPT !.acked = flow.acked])
      BY <1>7, <2>2 DEF Flow!Poll, FlowInv, FlowTypes
    <3>2. flow.acked \in Nat /\ flow.acked <= stream.delivered /\ flow.acked <= flow.sent
      BY DEF FlowInv, FlowTypes, Honest
    <3>3. acks' \in Seq(Nat) /\ \A i \in 1..Len(acks') : acks'[i] <= stream.delivered
      BY <2>1 DEF FlowInv, FlowTypes, Honest
    <3> QED BY <2>1, <3>1, <3>2, <3>3, WokenKeeps
  <2>3. CASE ~up
    BY <1>7, <2>1, <2>3, CloseKeeps DEF Flow!Poll
  <2> QED BY <2>2, <2>3
<1>8. CASE Flow!Detach
  BY <1>8, CloseKeeps DEF Flow!Detach, Flow!clientVars
<1>9. CASE Flow!Declared
  <2>1. UNCHANGED <<flow, acks>>
    BY <1>9 DEF Flow!Declared, Flow!Received, Flow!serverVars
  <2>2. CASE registered
    <3>1. stream' = [stream EXCEPT !.declared = TRUE, !.queue = stream.queue, !.busy = stream.busy]
      BY <1>9, <2>2 DEF Flow!Declared, FlowInv, FlowTypes
    <3>2. TRUE \in BOOLEAN /\ stream.queue \in Nat /\ stream.busy \in BOOLEAN
      BY DEF FlowInv, FlowTypes
    <3> QED BY <2>1, <3>1, <3>2, QueueKeeps
  <2>3. CASE ~registered
    BY <1>9, <2>1, <2>3, SameKeeps DEF Flow!Declared
  <2> QED BY <2>2, <2>3
<1>10. CASE Flow!Frame
  <2>1. UNCHANGED flow
    BY <1>10 DEF Flow!Frame, Flow!Received, Flow!serverVars
  <2>2. CASE UNCHANGED <<stream, acks>>
    BY <2>1, <2>2, SameKeeps
  <2>3. CASE Flow!Finished(stream)
    BY <2>1, <2>3, FinishedKeeps
  <2>4. CASE stream' = [stream EXCEPT !.queue = @ + 1] /\ UNCHANGED acks
    <3>1. stream'.delivered = stream.delivered /\ stream' \in
            [declared : BOOLEAN, queue : Nat, busy : BOOLEAN, delivered : Nat, acked : Nat]
      <4>1. stream.queue + 1 \in Nat /\ stream' = [stream EXCEPT !.queue = stream.queue + 1]
        BY <2>4 DEF FlowInv, FlowTypes
      <4> QED BY <4>1 DEF FlowInv, FlowTypes
    <3> QED BY <2>1, <2>4, <3>1 DEF FlowInv, FlowTypes, CreditHeld, Uncounted, Honest
  <2>5. CASE stream' = [stream EXCEPT !.busy = TRUE] /\ UNCHANGED acks
    <3>1. TRUE \in BOOLEAN
      OBVIOUS
    <3>2. stream'.delivered = stream.delivered /\ stream' \in
            [declared : BOOLEAN, queue : Nat, busy : BOOLEAN, delivered : Nat, acked : Nat]
      BY <2>5, <3>1 DEF FlowInv, FlowTypes
    <3> QED BY <2>1, <2>5, <3>2 DEF FlowInv, FlowTypes, CreditHeld, Uncounted, Honest
  <2> QED BY <1>10, <2>2, <2>3, <2>4, <2>5 DEF Flow!Frame
<1>11. CASE Flow!ConsumerSettles
  BY <1>11, FinishedKeeps DEF Flow!ConsumerSettles, Flow!serverVars
<1>12. CASE Flow!CallbackEnds
  BY <1>12, DropKeeps DEF Flow!CallbackEnds, Flow!Received, Flow!serverVars
<1>13. CASE Flow!Response
  BY <1>13, DropKeeps, SameKeeps DEF Flow!Response, Flow!Answered, Flow!Received, Flow!serverVars
<1>14. CASE Flow!Resume
  BY <1>14, DropKeeps DEF Flow!Resume, Flow!Answered, Flow!serverVars
<1>15. CASE Flow!Disconnect
  <2>1. acks' = <<>> /\ UNCHANGED <<flow, stream>>
    BY <1>15 DEF Flow!Disconnect, Flow!serverVars
  <2> QED BY <2>1 DEF FlowInv, FlowTypes, CreditHeld, Uncounted, Honest
<1>16. CASE UNCHANGED flowVars
  BY <1>16, SameKeeps DEF flowVars
<1> QED BY <1>1, <1>2, <1>3, <1>4, <1>5, <1>6, <1>7, <1>8, <1>9, <1>10, <1>11, <1>12, <1>13,
           <1>14, <1>15, <1>16 DEF Flow!Next

-----------------------------------------------------------------------------
(* The frames and the response *)

PacketKinds == {"frame", "flow", "end", "resp"}

\* The types that are left, and what a closed flow and the client's count have in common.
FlowKept ==
    /\ method \in {"runs", "returned"} /\ frames \in 0..MaxFrames /\ wire \in Seq(PacketKinds)
    /\ response \in {"awaited", "deferred", "answered", "givenUp"} /\ handed \in Nat
    /\ flow.closed => flow.waiting = 0
    /\ stream.acked <= stream.delivered

\* The types that are left, at the start.
LEMMA KeptInit == ASSUME Flow!FlowAssumption, Flow!Init PROVE FlowKept
<1>1. <<>> \in Seq(PacketKinds) /\ 0 \in 0..MaxFrames
  BY DEF Flow!FlowAssumption
<1> QED BY <1>1 DEF Flow!Init, FlowKept, Flow!NoStream

\* What is sent and what is received is of the kinds.
LEMMA KindsStay ==
  ASSUME wire \in Seq(PacketKinds)
  PROVE  /\ \A k \in PacketKinds : Flow!Sent(k) \in Seq(PacketKinds)
         /\ \A k \in PacketKinds : Flow!Received(k) => wire' \in Seq(PacketKinds)
<1>1. \A k \in PacketKinds : Append(wire, k) \in Seq(PacketKinds)
  OBVIOUS
<1>2. wire # <<>> => Tail(wire) \in Seq(PacketKinds)
  OBVIOUS
<1> QED BY <1>1, <1>2 DEF Flow!Sent, Flow!Received

\* A frame that is finished with is counted before it is acknowledged.
LEMMA FinishedCounts ==
  ASSUME FlowInv, Flow!Finished(stream), stream.acked <= stream.delivered
  PROVE  stream'.acked <= stream'.delivered
<1> DEFINE k == IF Flow!AckDue(stream) THEN stream.delivered + 1 ELSE stream.acked
<1>1. stream'.acked = k /\ stream'.delivered = stream.delivered + 1
  BY DEF Flow!Finished, FlowInv, FlowTypes
<1>2. stream.acked \in Nat /\ stream.delivered \in Nat
  BY DEF FlowInv, FlowTypes
<1> QED BY <1>1, <1>2

\* Every step keeps them.
LEMMA KeptNext == ASSUME Flow!FlowAssumption, FlowInv, FlowKept, [Flow!Next]_flowVars PROVE FlowKept'
<1>0. /\ wire \in Seq(PacketKinds) /\ handed \in Nat /\ frames \in 0..MaxFrames /\ MaxFrames \in Nat
      /\ flow \in [opened : BOOLEAN, negotiated : BOOLEAN, sent : Nat, acked : Nat,
                   draining : BOOLEAN, closed : BOOLEAN, waiting : 0..Pushers]
      /\ stream \in [declared : BOOLEAN, queue : Nat, busy : BOOLEAN, delivered : Nat, acked : Nat]
      /\ "frame" \in PacketKinds /\ "flow" \in PacketKinds /\ "end" \in PacketKinds /\ "resp" \in PacketKinds
  BY DEF Flow!FlowAssumption, FlowInv, FlowTypes, FlowKept, PacketKinds
<1>1. \A f \in {flow} : Flow!CloseFlow(f).closed => Flow!CloseFlow(f).waiting = 0
  BY <1>0 DEF Flow!CloseFlow, FlowKept
<1>2. ASSUME NEW a \in Nat PROVE LET f == [flow EXCEPT !.acked = a] IN Flow!Wake(f).closed => Flow!Wake(f).waiting = 0
  <2> DEFINE f == [flow EXCEPT !.acked = a]
  <2>1. /\ f \in [opened : BOOLEAN, negotiated : BOOLEAN, sent : Nat, acked : Nat,
                  draining : BOOLEAN, closed : BOOLEAN, waiting : 0..Pushers]
        /\ f.closed = flow.closed /\ f.waiting = flow.waiting
    BY <1>0
  <2> HIDE DEF f
  <2>2. Flow!Wake(f).closed = f.closed /\ Flow!Wake(f).waiting \in {0, f.waiting}
    BY <2>1, GateKeeps DEF Flow!Wake
  <2> QED BY <2>1, <2>2 DEF FlowKept, f
<1>3. CASE Flow!Plain
  BY <1>0, <1>3, KindsStay DEF Flow!Plain, Flow!clientVars, FlowKept
<1>4. CASE \E n \in BOOLEAN : Flow!OpenFlow(n)
  <2>1. PICK n \in BOOLEAN : Flow!OpenFlow(n)
    BY <1>4
  <2>2. flow' = [flow EXCEPT !.opened = TRUE, !.negotiated = n] /\ wire' \in Seq(PacketKinds)
        /\ UNCHANGED <<method, frames, Flow!clientVars>>
    BY <1>0, <2>1, KindsStay DEF Flow!OpenFlow
  <2>3. flow'.closed = flow.closed /\ flow'.waiting = flow.waiting
    BY <1>0, <2>2
  <2> QED BY <2>2, <2>3 DEF Flow!clientVars, FlowKept
<1>5. CASE Flow!Push
  <2>1. /\ ~flow.closed /\ frames' = frames + 1 /\ frames < MaxFrames /\ wire' = Flow!Sent("frame")
        /\ UNCHANGED <<method, Flow!clientVars>>
    BY <1>5 DEF Flow!Push
  <2> DEFINE f == [flow EXCEPT !.sent = @ + 1]
  <2>2. flow' = IF Flow!Blocked(f, wire') THEN [Flow!Gate(f, wire') EXCEPT !.waiting = @ + 1] ELSE Flow!Gate(f, wire')
    BY <1>5 DEF Flow!Push
  <2>3. /\ f \in [opened : BOOLEAN, negotiated : BOOLEAN, sent : Nat, acked : Nat,
                  draining : BOOLEAN, closed : BOOLEAN, waiting : 0..Pushers]
        /\ f.closed = flow.closed
    BY <1>0
  <2> HIDE DEF f
  <2>4. ~Flow!Gate(f, wire').closed /\ Flow!Gate(f, wire') \in
            [opened : BOOLEAN, negotiated : BOOLEAN, sent : Nat, acked : Nat,
             draining : BOOLEAN, closed : BOOLEAN, waiting : 0..Pushers]
    BY <2>1, <2>3, GateKeeps
  <2>5. ~flow'.closed
    BY <2>2, <2>4
  <2> QED BY <1>0, <2>1, <2>5, KindsStay DEF Flow!clientVars, FlowKept
<1>6. CASE Flow!EndStream
  BY <1>0, <1>1, <1>6, KindsStay DEF Flow!EndStream, Flow!clientVars, FlowKept
<1>7. CASE Flow!Return
  BY <1>0, <1>1, <1>7, KindsStay DEF Flow!Return, Flow!clientVars, FlowKept
<1>8. CASE Flow!AckArrives
  <2>1. UNCHANGED <<method, frames, wire, Flow!clientVars>> /\ Head(acks) \in Nat
    BY <1>8 DEF Flow!AckArrives, FlowInv, FlowTypes
  <2>2. CASE flow' = flow
    BY <2>1, <2>2 DEF Flow!clientVars, FlowKept
  <2>3. CASE flow' # flow
    <3> DEFINE a == IF Head(acks) < flow.sent THEN Head(acks) ELSE flow.sent
    <3>1. flow' = Flow!Wake([flow EXCEPT !.acked = a])
      BY <1>8, <2>3 DEF Flow!AckArrives
    <3>2. a \in Nat
      BY <1>0, <2>1
    <3> HIDE DEF a
    <3>3. flow'.closed => flow'.waiting = 0
      BY <1>2, <3>1, <3>2
    <3> QED BY <2>1, <3>3 DEF Flow!clientVars, FlowKept
  <2> QED BY <2>2, <2>3
<1>9. CASE Flow!Poll
  <2>1. UNCHANGED <<method, frames, wire, Flow!clientVars>> /\ flow' \in {Flow!Wake(flow), Flow!CloseFlow(flow)}
    BY <1>9 DEF Flow!Poll
  <2>2. Flow!Wake(flow).closed => Flow!Wake(flow).waiting = 0
    <3>1. flow = [flow EXCEPT !.acked = flow.acked] /\ flow.acked \in Nat
      BY <1>0
    <3> QED BY <1>2, <3>1
  <2>3. flow'.closed => flow'.waiting = 0
    BY <1>1, <2>1, <2>2
  <2> QED BY <2>1, <2>3 DEF Flow!clientVars, FlowKept
<1>10. CASE Flow!Detach
  BY <1>1, <1>10 DEF Flow!Detach, Flow!clientVars, FlowKept
<1>11. CASE Flow!Declared
  <2>1. stream'.acked = stream.acked /\ stream'.delivered = stream.delivered
    BY <1>0, <1>11 DEF Flow!Declared
  <2> QED BY <1>0, <1>11, <2>1, KindsStay DEF Flow!Declared, Flow!Received, Flow!serverVars, FlowKept
<1>12. CASE Flow!Frame
  <2>1. UNCHANGED <<Flow!serverVars, response>> /\ wire' \in Seq(PacketKinds) /\ handed' \in Nat
    <3>1. UNCHANGED <<Flow!serverVars, response>> /\ handed' \in {handed, handed + 1}
      BY <1>12 DEF Flow!Frame, Flow!Received
    <3>2. wire' \in Seq(PacketKinds)
      BY <1>0, <1>12, KindsStay DEF Flow!Frame
    <3> QED BY <1>0, <3>1, <3>2
  <2>2. stream'.acked <= stream'.delivered
    <3>1. CASE Flow!Finished(stream)
      BY <3>1, FinishedCounts DEF FlowKept
    <3>2. CASE stream' = stream
      BY <3>2 DEF FlowKept
    <3>3. CASE stream' = [stream EXCEPT !.queue = stream.queue + 1] \/ stream' = [stream EXCEPT !.busy = TRUE]
      <4>1. stream'.acked = stream.acked /\ stream'.delivered = stream.delivered
        BY <1>0, <3>3
      <4> QED BY <4>1 DEF FlowKept
    <3> QED BY <1>12, <3>1, <3>2, <3>3 DEF Flow!Frame
  <2> QED BY <2>1, <2>2 DEF Flow!serverVars, FlowKept
<1>13. CASE Flow!ConsumerSettles
  BY <1>0, <1>13, FinishedCounts DEF Flow!ConsumerSettles, Flow!serverVars, FlowKept
<1>14. CASE Flow!CallbackEnds
  <2>1. stream'.acked = stream.acked /\ stream'.delivered = stream.delivered
    BY <1>0, <1>14 DEF Flow!CallbackEnds, Flow!DropStream
  <2> QED BY <1>0, <1>14, <2>1, KindsStay DEF Flow!CallbackEnds, Flow!Received, Flow!serverVars, FlowKept
<1>15. CASE Flow!Response \/ Flow!Resume
  <2>1. stream' \in {stream, Flow!DropStream}
    BY <1>15 DEF Flow!Response, Flow!Resume, Flow!Answered
  <2>2. stream'.acked = stream.acked /\ stream'.delivered = stream.delivered
    BY <1>0, <2>1 DEF Flow!DropStream
  <2>3. /\ response' \in {"awaited", "deferred", "answered", "givenUp"} /\ handed' = handed
        /\ UNCHANGED Flow!serverVars
    BY <1>15 DEF Flow!Response, Flow!Resume, Flow!Answered, Flow!Received, FlowKept
  <2>4. wire' \in Seq(PacketKinds)
    BY <1>0, <1>15, KindsStay DEF Flow!Response, Flow!Resume
  <2> QED BY <2>2, <2>3, <2>4 DEF Flow!serverVars, FlowKept
<1>16. CASE Flow!Disconnect
  <2>1. <<>> \in Seq(PacketKinds)
    OBVIOUS
  <2> QED BY <1>16, <2>1 DEF Flow!Disconnect, Flow!serverVars, FlowKept
<1>17. CASE UNCHANGED flowVars
  BY <1>17 DEF flowVars, FlowKept
<1> QED BY <1>3, <1>4, <1>5, <1>6, <1>7, <1>8, <1>9, <1>10, <1>11, <1>12, <1>13, <1>14, <1>15, <1>16, <1>17
        DEF Flow!Next

\* How many frames are on the wire, when it carries at most one declaration and one response.
OnWire(w, k) == \E i \in DOMAIN w : w[i] = k
FramesOut(w) == Len(w) - (IF OnWire(w, "flow") THEN 1 ELSE 0) - (IF OnWire(w, "resp") THEN 1 ELSE 0)

\* One declaration, of an opened flow, the response last, and no end.
WireHolds(w, f, m) ==
    /\ \A i \in DOMAIN w : w[i] # "end"
    /\ \A i, j \in DOMAIN w : w[i] = "flow" /\ w[j] = "flow" => i = j
    /\ \A i \in DOMAIN w : w[i] = "flow" => f.opened
    /\ \A i \in DOMAIN w : w[i] = "resp" => i = Len(w) /\ m = "returned"

\* A packet behind a wire that has no response yet.
LEMMA WireGrows ==
  ASSUME NEW w \in Seq(PacketKinds), NEW f, NEW g, NEW m, WireHolds(w, f, "runs"),
         NEW k \in {"frame", "flow", "resp"}, k = "flow" => ~f.opened /\ g.opened,
         f.opened => g.opened, k = "resp" => m = "returned"
  PROVE  /\ WireHolds(Append(w, k), g, m)
         /\ FramesOut(Append(w, k)) = FramesOut(w) + (IF k = "frame" THEN 1 ELSE 0)
<1> DEFINE v == Append(w, k)
<1>1. /\ Len(v) = Len(w) + 1 /\ v[Len(w) + 1] = k /\ Len(w) \in Nat /\ DOMAIN w = 1..Len(w)
      /\ DOMAIN v = 1..(Len(w) + 1) /\ \A i \in 1..Len(w) : v[i] = w[i]
  OBVIOUS
<1> HIDE DEF v
<1>2. \A i \in DOMAIN v : i = Len(w) + 1 \/ i \in DOMAIN w
  BY <1>1
<1>3. Len(w) + 1 \in DOMAIN v /\ DOMAIN w \subseteq DOMAIN v
  BY <1>1
<1>4. \A i \in DOMAIN w : w[i] # "resp" /\ (k = "flow" => w[i] # "flow")
  BY DEF WireHolds
<1>5. WireHolds(v, g, m)
  BY <1>1, <1>2, <1>4 DEF WireHolds
<1>6. /\ OnWire(v, "flow") <=> OnWire(w, "flow") \/ k = "flow"
      /\ OnWire(v, "resp") <=> k = "resp"
      /\ ~OnWire(w, "resp") /\ (k = "flow" => ~OnWire(w, "flow"))
  BY <1>1, <1>2, <1>3, <1>4 DEF OnWire
<1>7. FramesOut(v) = FramesOut(w) + (IF k = "frame" THEN 1 ELSE 0)
  <2> DEFINE a == IF OnWire(v, "flow") THEN 1 ELSE 0  b == IF OnWire(w, "flow") THEN 1 ELSE 0
             c == IF OnWire(v, "resp") THEN 1 ELSE 0  d == IF OnWire(w, "resp") THEN 1 ELSE 0
  <2>1. FramesOut(v) = Len(v) - a - c /\ FramesOut(w) = Len(w) - b - d
    BY DEF FramesOut
  <2>2. a \in Nat /\ b \in Nat /\ c \in Nat /\ d \in Nat
    OBVIOUS
  <2>3. CASE k = "frame"
    <3>1. d = 0 /\ c = 0 /\ a = b
      BY <1>6, <2>3
    <3>2. (IF k = "frame" THEN 1 ELSE 0) = 1
      BY <2>3
    <3> HIDE DEF a, b, c, d
    <3> QED BY <1>1, <2>1, <2>2, <3>1, <3>2
  <2>4. CASE k = "flow"
    <3>1. d = 0 /\ c = 0 /\ b = 0 /\ a = 1
      BY <1>6, <2>4
    <3> HIDE DEF a, b, c, d
    <3>2. FramesOut(v) = FramesOut(w) /\ FramesOut(w) \in Int
      BY <1>1, <2>1, <2>2, <3>1
    <3> QED BY <2>4, <3>2
  <2>5. CASE k = "resp"
    <3>1. d = 0 /\ c = 1 /\ a = b
      BY <1>6, <2>5
    <3> HIDE DEF a, b, c, d
    <3>2. FramesOut(v) = FramesOut(w) /\ FramesOut(w) \in Int
      BY <1>1, <2>1, <2>2, <3>1
    <3> QED BY <2>5, <3>2
  <2> QED BY <2>3, <2>4, <2>5
<1> QED BY <1>5, <1>7 DEF v

\* The packet at the head of the wire is taken.
LEMMA WireTaken ==
  ASSUME NEW w \in Seq(PacketKinds), w # <<>>, NEW f, NEW m, WireHolds(w, f, m)
  PROVE  /\ WireHolds(Tail(w), f, m) /\ Head(w) # "end"
         /\ FramesOut(Tail(w)) = FramesOut(w) - (IF Head(w) = "frame" THEN 1 ELSE 0)
         /\ Head(w) = "resp" => Tail(w) = <<>> /\ m = "returned" /\ FramesOut(w) = 0
<1> DEFINE v == Tail(w)
<1>1. /\ v \in Seq(PacketKinds) /\ Len(w) \in Nat /\ Len(w) >= 1 /\ Len(v) = Len(w) - 1 /\ DOMAIN w = 1..Len(w)
      /\ DOMAIN v = 1..(Len(w) - 1) /\ \A i \in 1..(Len(w) - 1) : v[i] = w[i + 1]
      /\ Head(w) = w[1] /\ w[1] \in PacketKinds
  OBVIOUS
<1> HIDE DEF v
<1>2. \A i \in DOMAIN v : i + 1 \in DOMAIN w /\ i + 1 # 1 /\ v[i] = w[i + 1] /\ i \in Int
  BY <1>1
<1>3. \A i \in DOMAIN w : i = 1 \/ (i - 1 \in DOMAIN v /\ v[i - 1] = w[i])
  <2> SUFFICES ASSUME NEW i \in DOMAIN w, i # 1 PROVE i - 1 \in DOMAIN v /\ v[i - 1] = w[i]
    OBVIOUS
  <2>1. i - 1 \in 1..(Len(w) - 1) /\ (i - 1) + 1 = i
    BY <1>1
  <2> QED BY <1>1, <2>1
<1>4. 1 \in DOMAIN w
  BY <1>1
<1>5. WireHolds(v, f, m)
  <2>1. \A i, j \in DOMAIN v : v[i] = "flow" /\ v[j] = "flow" => i = j
    <3> SUFFICES ASSUME NEW i \in DOMAIN v, NEW j \in DOMAIN v, v[i] = "flow", v[j] = "flow" PROVE i = j
      OBVIOUS
    <3>1. i + 1 = j + 1
      BY <1>2 DEF WireHolds
    <3> QED BY <1>2, <3>1
  <2>2. \A i \in DOMAIN v : v[i] = "resp" => i = Len(v) /\ m = "returned"
    <3> SUFFICES ASSUME NEW i \in DOMAIN v, v[i] = "resp" PROVE i = Len(v) /\ m = "returned"
      OBVIOUS
    <3>1. i + 1 = Len(w) /\ m = "returned"
      BY <1>2 DEF WireHolds
    <3> QED BY <1>1, <1>2, <3>1
  <2> QED BY <1>2, <2>1, <2>2 DEF WireHolds
<1>6. w[1] = "resp" => Len(w) = 1 /\ m = "returned"
  BY <1>4 DEF WireHolds
<1>7. /\ OnWire(w, "flow") <=> OnWire(v, "flow") \/ w[1] = "flow"
      /\ OnWire(w, "resp") <=> OnWire(v, "resp") \/ w[1] = "resp"
  BY <1>2, <1>3, <1>4 DEF OnWire
<1>8. /\ w[1] = "flow" => ~OnWire(v, "flow")
      /\ w[1] = "resp" => ~OnWire(v, "resp") /\ ~OnWire(w, "flow")
  <2>1. w[1] = "flow" => ~OnWire(v, "flow")
    BY <1>2, <1>4 DEF OnWire, WireHolds
  <2>2. w[1] = "resp" => DOMAIN v = {} /\ DOMAIN w = {1}
    BY <1>1, <1>6
  <2> QED BY <2>1, <2>2 DEF OnWire
<1>9. FramesOut(v) = FramesOut(w) - (IF w[1] = "frame" THEN 1 ELSE 0)
  <2> DEFINE a == IF OnWire(w, "flow") THEN 1 ELSE 0  b == IF OnWire(v, "flow") THEN 1 ELSE 0
             c == IF OnWire(w, "resp") THEN 1 ELSE 0  d == IF OnWire(v, "resp") THEN 1 ELSE 0
  <2>1. FramesOut(w) = Len(w) - a - c /\ FramesOut(v) = Len(v) - b - d
    BY DEF FramesOut
  <2>2. a \in Nat /\ b \in Nat /\ c \in Nat /\ d \in Nat
    OBVIOUS
  <2>3. CASE w[1] = "frame"
    <3>1. a = b /\ c = d
      BY <1>7, <2>3
    <3>2. (IF w[1] = "frame" THEN 1 ELSE 0) = 1
      BY <2>3
    <3> HIDE DEF a, b, c, d
    <3> QED BY <1>1, <2>1, <2>2, <3>1, <3>2
  <2>4. CASE w[1] = "flow"
    <3>1. a = 1 /\ b = 0 /\ c = d
      BY <1>7, <1>8, <2>4
    <3>2. (IF w[1] = "frame" THEN 1 ELSE 0) = 0
      BY <2>4
    <3> HIDE DEF a, b, c, d
    <3> QED BY <1>1, <2>1, <2>2, <3>1, <3>2
  <2>5. CASE w[1] = "resp"
    <3>1. a = b /\ c = 1 /\ d = 0
      BY <1>7, <1>8, <2>5
    <3>2. (IF w[1] = "frame" THEN 1 ELSE 0) = 0
      BY <2>5
    <3> HIDE DEF a, b, c, d
    <3> QED BY <1>1, <2>1, <2>2, <3>1, <3>2
  <2>6. w[1] \in {"frame", "flow", "resp"}
    BY <1>1, <1>4 DEF PacketKinds, WireHolds
  <2> QED BY <2>3, <2>4, <2>5, <2>6
<1>10. w[1] = "resp" => v = <<>> /\ m = "returned" /\ FramesOut(w) = 0
  BY <1>1, <1>6, <1>7, <1>8 DEF FramesOut
<1>11. Head(w) # "end"
  BY <1>1, <1>4 DEF WireHolds
<1> QED BY <1>1, <1>5, <1>9, <1>10, <1>11 DEF v

\* Until the method ends the callback itself: what it has sent is finished with, with the
\* consumer, or on the wire; and nothing is behind the response.
FramesHeld ==
    ~ended =>
        /\ WireHolds(wire, flow, method)
        /\ response \in {"awaited", "deferred"} =>
            /\ up /\ registered
            /\ stream.busy => stream.declared /\ slow
            /\ ~stream.busy => stream.queue = 0 /\ handed + FramesOut(wire) = frames
            /\ stream.busy => handed + stream.queue + 1 + FramesOut(wire) = frames
        /\ response \in {"deferred", "answered"} => method = "returned" /\ wire = <<>>
        /\ response = "answered" => handed = frames /\ ~stream.busy

ServedInv == FlowInv /\ FlowKept /\ FramesHeld

\* The empty wire.
LEMMA NoneInFlight == FramesOut(<<>>) = 0 /\ \A f, m : WireHolds(<<>>, f, m)
BY DEF FramesOut, OnWire, WireHolds

\* Nothing is sent at the start.
LEMMA FramesInit == ASSUME Flow!Init PROVE FramesHeld
<1>1. /\ wire = <<>> /\ response = "awaited" /\ method = "runs" /\ up /\ registered
      /\ handed = 0 /\ frames = 0 /\ flow.opened = FALSE /\ stream.busy = FALSE /\ stream.queue = 0
  BY DEF Flow!Init, Flow!NoStream
<1>2. WireHolds(wire, flow, method)
  BY <1>1, NoneInFlight
<1>3. handed + FramesOut(wire) = frames
  BY <1>1, NoneInFlight
<1> QED BY <1>1, <1>2, <1>3 DEF FramesHeld

\* The server's own steps.
LEMMA ServerKeepsFrames ==
  ASSUME ServedInv, ~ended', \/ Flow!Plain \/ (\E n \in BOOLEAN : Flow!OpenFlow(n)) \/ Flow!Push \/ Flow!EndStream \/ Flow!Return
                             \/ Flow!AckArrives \/ Flow!Poll \/ Flow!Detach
  PROVE  FramesHeld'
<1>0. /\ wire \in Seq(PacketKinds) /\ frames \in Nat /\ handed \in Nat /\ flow.opened \in BOOLEAN
      /\ flow \in [opened : BOOLEAN, negotiated : BOOLEAN, sent : Nat, acked : Nat,
                   draining : BOOLEAN, closed : BOOLEAN, waiting : 0..Pushers]
      /\ stream.queue \in Nat
  BY DEF ServedInv, FlowInv, FlowTypes, FlowKept
<1>1. ~ended /\ FramesHeld /\ UNCHANGED <<ended, Flow!clientVars, up>>
  <2>1. \/ Flow!EndStream
        \/ UNCHANGED <<ended, Flow!clientVars, up>>
    BY DEF Flow!Plain, Flow!OpenFlow, Flow!Push, Flow!Return, Flow!AckArrives, Flow!Poll, Flow!Detach
  <2>2. ~Flow!EndStream
    BY DEF Flow!EndStream
  <2> QED BY <2>1, <2>2 DEF ServedInv
<1>2. FramesOut(wire) \in Int
  BY <1>0 DEF FramesOut
<1>3. ASSUME UNCHANGED <<method, frames, wire>>, flow'.opened \in BOOLEAN, flow.opened => flow'.opened
      PROVE  FramesHeld'
  BY <1>1, <1>3 DEF FramesHeld, WireHolds, Flow!clientVars
<1>4. \A g, m : WireHolds(wire, flow, "runs") /\ (flow.opened => g.opened) => WireHolds(wire, g, m)
  BY DEF WireHolds
<1>5. ASSUME method = "runs", NEW k \in {"frame", "flow", "resp"}, wire' = Flow!Sent(k) \/ (wire' = wire /\ k = "flow"),
             k = "flow" => ~flow.opened, frames' = frames + (IF k = "frame" THEN 1 ELSE 0),
             method' = (IF k = "resp" THEN "returned" ELSE "runs"), flow'.opened \in BOOLEAN,
             flow.opened \/ k = "flow" => flow'.opened
      PROVE  FramesHeld'
  <2>1. /\ WireHolds(wire, flow, "runs") /\ response \in {"awaited", "givenUp"} /\ response' = response
        /\ k = "resp" => method' = "returned"
    BY <1>1, <1>5 DEF FramesHeld, ServedInv, FlowKept, Flow!clientVars
  <2>2. CASE wire' = wire
    <3>1. WireHolds(wire', flow', method')
      BY <1>4, <1>5, <2>1, <2>2
    <3>2. response \in {"awaited", "deferred"} => up
      BY <1>1 DEF FramesHeld
    <3>3. CASE k = "flow"
      BY <1>0, <1>1, <1>5, <2>1, <2>2, <3>1, <3>3 DEF FramesHeld, Flow!clientVars
    <3>4. CASE k # "flow"
      <4>1. ~up
        <5>1. wire' = Flow!Sent(k)
          BY <1>5, <3>4
        <5>2. Len(Append(wire, k)) # Len(wire)
          BY <1>0
        <5> QED BY <2>2, <5>1, <5>2 DEF Flow!Sent
      <4>2. response' = "givenUp"
        BY <2>1, <3>2, <4>1
      <4> QED BY <3>1, <4>2 DEF FramesHeld
    <3> QED BY <3>3, <3>4
  <2>3. CASE wire' # wire
    <3>1. wire' = Append(wire, k)
      BY <1>5, <2>3 DEF Flow!Sent
    <3>2. /\ WireHolds(wire', flow', method')
          /\ FramesOut(wire') = FramesOut(wire) + (IF k = "frame" THEN 1 ELSE 0)
      <4>1. wire \in Seq(PacketKinds) /\ WireHolds(wire, flow, "runs")
        BY <1>0, <2>1
      <4>2. /\ k = "flow" => ~flow.opened /\ flow'.opened
            /\ flow.opened => flow'.opened
            /\ k = "resp" => method' = "returned"
        BY <1>5, <2>1
      <4> QED BY <3>1, <4>1, <4>2, WireGrows
    <3>3. CASE response = "givenUp"
      BY <2>1, <3>2, <3>3 DEF FramesHeld
    <3>4. CASE response = "awaited"
      <4> DEFINE n == IF k = "frame" THEN 1 ELSE 0
                 m == FramesOut(wire)  m2 == FramesOut(wire')
      <4>1. n \in Nat /\ m \in Int /\ m2 = m + n /\ frames' = frames + n
        BY <1>2, <1>5, <3>2
      <4>2. /\ up /\ registered /\ (stream.busy => stream.declared /\ slow)
            /\ (~stream.busy => stream.queue = 0 /\ handed + m = frames)
            /\ (stream.busy => handed + stream.queue + 1 + m = frames)
        BY <1>1, <3>4 DEF FramesHeld
      <4> HIDE DEF n, m, m2
      <4>3. /\ (~stream.busy => handed + m2 = frames')
            /\ (stream.busy => handed + stream.queue + 1 + m2 = frames')
        <5> DEFINE u == stream.queue
        <5>1. u \in Nat /\ handed \in Nat /\ frames \in Nat
          BY <1>0
        <5>2. CASE stream.busy
          <6>1. handed + u + 1 + m = frames
            BY <4>2, <5>2
          <6> HIDE DEF u
          <6>2. handed + u + 1 + m2 = frames'
            BY <4>1, <5>1, <6>1
          <6> QED BY <5>2, <6>2 DEF u
        <5>3. CASE ~stream.busy
          <6>1. handed + m = frames
            BY <4>2, <5>3
          <6>2. handed + m2 = frames'
            BY <4>1, <5>1, <6>1
          <6> QED BY <5>3, <6>2
        <5> QED BY <5>2, <5>3
      <4>4. UNCHANGED <<stream, registered, handed, slow, response, up>>
        BY <1>1 DEF Flow!clientVars
      <4> QED BY <3>2, <3>4, <4>2, <4>3, <4>4 DEF FramesHeld, m2
    <3> QED BY <2>1, <3>3, <3>4
  <2> QED BY <2>2, <2>3
<1>6. CASE Flow!Plain
  <2>1. /\ method = "runs" /\ wire' = Flow!Sent("frame") /\ frames' = frames + 1 /\ method' = method /\ flow' = flow
    BY <1>6 DEF Flow!Plain
  <2> QED BY <1>0, <1>5, <2>1
<1>7. CASE \E n \in BOOLEAN : Flow!OpenFlow(n)
  <2>1. PICK n \in BOOLEAN : Flow!OpenFlow(n)
    BY <1>7
  <2>0. frames + 0 = frames
    BY <1>0
  <2>2. /\ method = "runs" /\ method' = method /\ frames' = frames + 0 /\ ~flow.opened
        /\ wire' = Flow!Sent("flow") \/ wire' = wire
        /\ flow' = [flow EXCEPT !.opened = TRUE, !.negotiated = n]
    BY <2>0, <2>1 DEF Flow!OpenFlow
  <2>3. flow'.opened = TRUE
    BY <1>0, <2>2
  <2> QED BY <1>5, <2>2, <2>3
<1>8. CASE Flow!Push
  <2> DEFINE f == [flow EXCEPT !.sent = @ + 1]
  <2>1. /\ method = "runs" /\ wire' = Flow!Sent("frame") /\ frames' = frames + 1 /\ method' = method
        /\ flow' = IF Flow!Blocked(f, wire') THEN [Flow!Gate(f, wire') EXCEPT !.waiting = @ + 1] ELSE Flow!Gate(f, wire')
    BY <1>8 DEF Flow!Push
  <2>2. /\ f \in [opened : BOOLEAN, negotiated : BOOLEAN, sent : Nat, acked : Nat,
                  draining : BOOLEAN, closed : BOOLEAN, waiting : 0..Pushers]
        /\ f.opened = flow.opened
    BY <1>0
  <2> HIDE DEF f
  <2>3. (Flow!Gate(f, wire').opened <=> flow.opened) /\ Flow!Gate(f, wire') \in
            [opened : BOOLEAN, negotiated : BOOLEAN, sent : Nat, acked : Nat,
             draining : BOOLEAN, closed : BOOLEAN, waiting : 0..Pushers]
    BY <2>2, GateKeeps
  <2>4. (flow'.opened <=> flow.opened) /\ flow'.opened \in BOOLEAN
    BY <2>1, <2>3
  <2> QED BY <1>5, <2>1, <2>4
<1>9. CASE Flow!EndStream
  BY <1>1, <1>9 DEF Flow!EndStream
<1>10. \A f \in {flow} : Flow!CloseFlow(f).opened = f.opened
  BY <1>0 DEF Flow!CloseFlow
<1>11. CASE Flow!Return
  <2>1. /\ method = "runs" /\ wire' = Flow!Sent("resp") /\ frames' = frames + 0 /\ method' = "returned"
        /\ flow' = Flow!CloseFlow(flow)
    BY <1>0, <1>11 DEF Flow!Return
  <2>2. flow'.opened = flow.opened
    BY <1>10, <2>1
  <2> QED BY <1>0, <1>5, <2>1, <2>2
<1>12. CASE Flow!Poll \/ Flow!Detach \/ Flow!AckArrives
  <2>1. UNCHANGED <<method, frames, wire>>
    BY <1>12 DEF Flow!Poll, Flow!Detach, Flow!AckArrives
  <2>2. (flow'.opened <=> flow.opened) /\ flow'.opened \in BOOLEAN
    <3>1. ASSUME NEW a \in Nat PROVE LET f == [flow EXCEPT !.acked = a] IN
              (Flow!Wake(f).opened <=> flow.opened) /\ Flow!Wake(f).opened \in BOOLEAN
      <4> DEFINE f == [flow EXCEPT !.acked = a]
      <4>1. /\ f \in [opened : BOOLEAN, negotiated : BOOLEAN, sent : Nat, acked : Nat,
                      draining : BOOLEAN, closed : BOOLEAN, waiting : 0..Pushers]
            /\ f.opened = flow.opened
        BY <1>0
      <4> HIDE DEF f
      <4>2. /\ Flow!Gate(f, wire) \in [opened : BOOLEAN, negotiated : BOOLEAN, sent : Nat, acked : Nat,
                                  draining : BOOLEAN, closed : BOOLEAN, waiting : 0..Pushers]
            /\ (Flow!Gate(f, wire).opened <=> f.opened)
        BY <4>1, GateKeeps
      <4>3. (Flow!Wake(f).opened <=> f.opened) /\ Flow!Wake(f).opened \in BOOLEAN
        BY <4>1, <4>2 DEF Flow!Wake
      <4> QED BY <4>1, <4>3 DEF f
    <3>2. flow = [flow EXCEPT !.acked = flow.acked] /\ flow.acked \in Nat
      BY <1>0
    <3>3. (Flow!Wake(flow).opened <=> flow.opened) /\ Flow!Wake(flow).opened \in BOOLEAN
      BY <3>1, <3>2
    <3>4. CASE Flow!Poll \/ Flow!Detach
      <4>1. flow' \in {Flow!Wake(flow), Flow!CloseFlow(flow)}
        BY <3>4 DEF Flow!Poll, Flow!Detach
      <4> QED BY <1>0, <1>10, <3>3, <4>1
    <3>5. CASE Flow!AckArrives
      <4> DEFINE a == IF Head(acks) < flow.sent THEN Head(acks) ELSE flow.sent
      <4>1. flow' \in {flow, Flow!Wake([flow EXCEPT !.acked = a])} /\ Head(acks) \in Nat
        BY <3>5 DEF Flow!AckArrives, ServedInv, FlowInv, FlowTypes
      <4>2. a \in Nat
        BY <1>0, <4>1
      <4> HIDE DEF a
      <4> QED BY <1>0, <3>1, <4>1, <4>2
    <3> QED BY <1>12, <3>4, <3>5
  <2> QED BY <1>3, <2>1, <2>2
<1> QED BY <1>6, <1>7, <1>8, <1>9, <1>11, <1>12

\* The client's steps.
LEMMA ClientKeepsFrames ==
  ASSUME ServedInv, ~ended', \/ Flow!Declared \/ Flow!Frame \/ Flow!ConsumerSettles \/ Flow!CallbackEnds \/ Flow!Response \/ Flow!Resume
                             \/ Flow!Disconnect
  PROVE  FramesHeld'
<1>0. /\ wire \in Seq(PacketKinds) /\ frames \in Nat /\ handed \in Nat
      /\ stream \in [declared : BOOLEAN, queue : Nat, busy : BOOLEAN, delivered : Nat, acked : Nat]
      /\ response \in {"awaited", "deferred", "answered", "givenUp"}
  BY DEF ServedInv, FlowInv, FlowTypes, FlowKept
<1>1. ~ended /\ FramesHeld /\ UNCHANGED <<flow, method, frames, ended>>
  BY DEF ServedInv, Flow!Declared, Flow!Frame, Flow!ConsumerSettles, Flow!CallbackEnds, Flow!Response, Flow!Resume, Flow!Disconnect, Flow!Received, Flow!serverVars
<1>2. FramesOut(wire) \in Int
  BY <1>0 DEF FramesOut
<1>3. /\ WireHolds(wire, flow, method)
      /\ response \in {"deferred", "answered"} => method = "returned" /\ wire = <<>>
  BY <1>1 DEF FramesHeld
<1>4. ASSUME response \in {"awaited", "deferred"}
      PROVE  /\ up /\ registered
             /\ stream.busy => stream.declared /\ slow
             /\ ~stream.busy => stream.queue = 0 /\ handed + FramesOut(wire) = frames
             /\ stream.busy => handed + stream.queue + 1 + FramesOut(wire) = frames
  BY <1>1, <1>4 DEF FramesHeld
<1>5. ASSUME NEW k, Flow!Received(k)
      PROVE  /\ WireHolds(wire', flow', method') /\ response \in {"awaited", "givenUp"} /\ Head(wire) = k /\ k # "end"
             /\ FramesOut(wire') = FramesOut(wire) - (IF k = "frame" THEN 1 ELSE 0)
             /\ k = "resp" => wire' = <<>> /\ method = "returned" /\ FramesOut(wire) = 0
             /\ UNCHANGED <<slow, up>>
  BY <1>0, <1>1, <1>3, <1>5, WireTaken DEF Flow!Received
<1>6. CASE Flow!Declared
  <2>1. /\ Flow!Received("flow") /\ UNCHANGED <<registered, handed, response>>
        /\ stream' = IF registered THEN [stream EXCEPT !.declared = TRUE] ELSE stream
    BY <1>6 DEF Flow!Declared
  <2>2. /\ WireHolds(wire', flow', method') /\ response \in {"awaited", "givenUp"}
        /\ UNCHANGED <<slow, up>> /\ FramesOut(wire') = FramesOut(wire) - 0
    BY <1>5, <2>1
  <2>3. /\ FramesOut(wire') = FramesOut(wire) /\ stream'.busy = stream.busy /\ stream'.queue = stream.queue
        /\ stream.declared => stream'.declared
    BY <1>0, <1>2, <2>1, <2>2
  <2> QED BY <1>1, <1>4, <2>1, <2>2, <2>3 DEF FramesHeld
<1>7. CASE Flow!Frame
  <2>1. Flow!Received("frame") /\ UNCHANGED <<registered, response>>
    BY <1>7 DEF Flow!Frame
  <2>2. /\ WireHolds(wire', flow', method') /\ response \in {"awaited", "givenUp"}
        /\ UNCHANGED <<slow, up>> /\ FramesOut(wire') = FramesOut(wire) - 1
    BY <1>5, <2>1
  <2>3. CASE response = "givenUp"
    BY <2>1, <2>2, <2>3 DEF FramesHeld
  <2>4. CASE response = "awaited"
    <3> DEFINE m == FramesOut(wire)  m2 == FramesOut(wire')  q == stream.queue
    <3>1. m \in Int /\ m2 = m - 1 /\ q \in Nat
      BY <1>0, <1>2, <2>2
    <3>2. CASE ~stream.declared \/ ~slow
      <4>1. ~stream.busy /\ q = 0 /\ handed + m = frames /\ handed' = handed + 1
        BY <1>4, <1>7, <2>4, <3>2 DEF Flow!Frame
      <4>2. stream'.queue = 0 /\ stream'.busy = FALSE
        <5>1. CASE UNCHANGED stream
          BY <1>0, <4>1, <5>1
        <5>2. CASE Flow!Finished(stream)
          <6> DEFINE t == IF stream.declared /\ q > 0 THEN q - 1 ELSE 0  b == stream.declared /\ q > 0
          <6>1. stream'.queue = t /\ stream'.busy = b
            BY <1>0, <5>2 DEF Flow!Finished
          <6>2. t = 0 /\ b = FALSE
            BY <4>1
          <6> QED BY <6>1, <6>2
        <5> QED BY <1>4, <1>7, <2>4, <3>2, <5>1, <5>2 DEF Flow!Frame
      <4> HIDE DEF m, m2
      <4>3. handed' + m2 = frames
        BY <1>0, <3>1, <4>1
      <4> QED BY <1>1, <1>4, <2>1, <2>2, <2>4, <4>2, <4>3 DEF FramesHeld, m2
    <3>3. CASE stream.declared /\ slow /\ stream.busy
      <4>1. stream' = [stream EXCEPT !.queue = stream.queue + 1] /\ handed' = handed
        BY <1>4, <1>7, <2>4, <3>3 DEF Flow!Frame
      <4>2. stream'.busy = TRUE /\ stream'.declared = TRUE /\ stream'.queue = q + 1
        BY <1>0, <3>3, <4>1
      <4>3. handed + q + 1 + m = frames
        BY <1>4, <2>4, <3>3
      <4> HIDE DEF m, m2, q
      <4>4. handed + (q + 1) + 1 + m2 = frames
        BY <1>0, <3>1, <4>3
      <4> QED BY <1>1, <1>4, <2>1, <2>2, <2>4, <3>3, <4>1, <4>2, <4>4 DEF FramesHeld, m2
    <3>4. CASE stream.declared /\ slow /\ ~stream.busy
      <4>1. stream' = [stream EXCEPT !.busy = TRUE] /\ handed' = handed
        BY <1>4, <1>7, <2>4, <3>4 DEF Flow!Frame
      <4>2. stream'.busy = TRUE /\ stream'.declared = TRUE /\ stream'.queue = 0
        BY <1>0, <1>4, <2>4, <3>4, <4>1
      <4>3. handed + m = frames
        BY <1>4, <2>4, <3>4
      <4> HIDE DEF m, m2, q
      <4>4. handed + 0 + 1 + m2 = frames
        BY <1>0, <3>1, <4>3
      <4> QED BY <1>1, <1>4, <2>1, <2>2, <2>4, <3>4, <4>1, <4>2, <4>4 DEF FramesHeld, m2
    <3> QED BY <1>0, <3>2, <3>3, <3>4
  <2> QED BY <2>2, <2>3, <2>4
<1>8. CASE Flow!ConsumerSettles
  <2>1. stream.busy /\ Flow!Finished(stream) /\ handed' = handed + 1 /\ UNCHANGED <<wire, registered, slow, response, up>>
    BY <1>8 DEF Flow!ConsumerSettles
  <2>2. CASE response = "answered"
    BY <1>1, <2>1, <2>2 DEF FramesHeld
  <2>3. CASE response = "givenUp"
    BY <1>1, <1>3, <2>1, <2>3 DEF FramesHeld
  <2>4. CASE response \in {"awaited", "deferred"}
    <3> DEFINE m == FramesOut(wire)  q == stream.queue
    <3>1. m \in Int /\ q \in Nat /\ handed + q + 1 + m = frames /\ stream.declared /\ slow
      BY <1>0, <1>2, <1>4, <2>1, <2>4
    <3>2. FramesOut(wire') = m
      BY <2>1
    <3>3. CASE q = 0
      <4>1. stream'.queue = 0 /\ stream'.busy = FALSE
        <5> DEFINE t == IF stream.declared /\ q > 0 THEN q - 1 ELSE 0  b == stream.declared /\ q > 0
        <5>1. stream'.queue = t /\ stream'.busy = b
          BY <1>0, <2>1 DEF Flow!Finished
        <5>2. t = 0 /\ b = FALSE
          BY <3>3
        <5> QED BY <5>1, <5>2
      <4> HIDE DEF m, q
      <4>2. handed' + m = frames
        BY <1>0, <2>1, <3>1, <3>3
      <4> QED BY <1>1, <1>3, <1>4, <2>1, <2>4, <3>2, <4>1, <4>2 DEF FramesHeld
    <3>4. CASE q # 0
      <4>1. stream'.queue = q - 1 /\ stream'.busy = TRUE /\ stream'.declared = TRUE
        <5> DEFINE t == IF stream.declared /\ q > 0 THEN q - 1 ELSE 0  b == stream.declared /\ q > 0
        <5>1. stream'.queue = t /\ stream'.busy = b /\ stream'.declared = stream.declared
          BY <1>0, <2>1 DEF Flow!Finished
        <5>2. t = q - 1 /\ b = TRUE /\ stream.declared = TRUE
          BY <1>0, <3>1, <3>4
        <5> QED BY <5>1, <5>2
      <4> HIDE DEF m, q
      <4>2. handed' + (q - 1) + 1 + m = frames
        BY <1>0, <2>1, <3>1, <3>4
      <4> QED BY <1>1, <1>3, <1>4, <2>1, <2>4, <3>1, <3>2, <4>1, <4>2 DEF FramesHeld
    <3> QED BY <3>3, <3>4
  <2> QED BY <1>0, <2>2, <2>3, <2>4
<1>9. CASE Flow!CallbackEnds
  BY <1>5, <1>9 DEF Flow!CallbackEnds
<1>10. Flow!DropStream.busy = stream.busy
  BY <1>0 DEF Flow!DropStream
<1>11. CASE Flow!Response
  <2>1. Flow!Received("resp")
    BY <1>11 DEF Flow!Response
  <2>2. /\ WireHolds(wire', flow', method') /\ response \in {"awaited", "givenUp"}
        /\ wire' = <<>> /\ method = "returned" /\ FramesOut(wire) = 0 /\ UNCHANGED <<slow, up>>
    BY <1>5, <2>1
  <2>3. FramesOut(wire') = 0
    BY <2>2, NoneInFlight
  <2>4. CASE response = "givenUp"
    BY <1>11, <2>2, <2>4 DEF Flow!Response, FramesHeld
  <2>5. CASE response = "awaited" /\ Flow!Drained
    <3>1. Flow!Answered
      BY <1>11, <2>5 DEF Flow!Response
    <3>2. ~stream.busy /\ handed = frames
      <4>1. ~stream.busy
        BY <1>4, <2>5 DEF Flow!Drained
      <4>2. handed + 0 = frames
        BY <1>4, <2>2, <2>5, <4>1
      <4> QED BY <1>0, <4>1, <4>2
    <3> QED BY <1>1, <1>10, <2>2, <3>1, <3>2 DEF Flow!Answered, FramesHeld
  <2>6. CASE response = "awaited" /\ ~Flow!Drained
    <3>1. response' = "deferred" /\ UNCHANGED <<registered, stream, handed>>
      BY <1>11, <2>6 DEF Flow!Response
    <3> QED BY <1>1, <1>4, <2>2, <2>3, <2>6, <3>1 DEF FramesHeld
  <2> QED BY <2>2, <2>4, <2>5, <2>6
<1>12. CASE Flow!Resume
  <2>1. response = "deferred" /\ Flow!Drained /\ Flow!Answered /\ UNCHANGED <<wire, slow, up>>
    BY <1>12 DEF Flow!Resume
  <2>2. wire = <<>> /\ method = "returned"
    BY <1>3, <2>1
  <2>3. ~stream.busy /\ handed = frames
    <3>1. ~stream.busy
      BY <1>4, <2>1 DEF Flow!Drained
    <3>2. handed + 0 = frames
      BY <1>4, <2>1, <2>2, <3>1, NoneInFlight
    <3> QED BY <1>0, <3>1, <3>2
  <2> QED BY <1>1, <1>3, <1>10, <2>1, <2>2, <2>3 DEF Flow!Answered, FramesHeld
<1>13. CASE Flow!Disconnect
  <2>1. /\ wire' = <<>> /\ UNCHANGED <<stream, handed, slow>>
        /\ response' = IF response = "answered" THEN response ELSE "givenUp"
    BY <1>13 DEF Flow!Disconnect
  <2>2. WireHolds(wire', flow', method')
    BY <2>1, NoneInFlight
  <2> QED BY <1>1, <1>3, <2>1, <2>2 DEF FramesHeld
<1> QED BY <1>6, <1>7, <1>8, <1>9, <1>11, <1>12, <1>13

\* What the server and the client hold, kept by every step.
LEMMA ServedNext == ASSUME Flow!FlowAssumption, ServedInv, [Flow!Next]_flowVars PROVE ServedInv'
<1>1. FlowInv' /\ FlowKept'
  BY FlowNext, KeptNext DEF ServedInv
<1>2. FramesHeld'
  <2>1. CASE ended'
    BY <2>1 DEF FramesHeld
  <2>2. CASE ~ended' /\ Flow!Next
    BY <2>2, ServerKeepsFrames, ClientKeepsFrames DEF Flow!Next
  <2>3. CASE UNCHANGED flowVars
    <3>1. UNCHANGED <<ended, wire, flow, method, response, up, registered, stream, slow, handed, frames>>
      BY <2>3 DEF flowVars
    <3> QED BY <3>1 DEF ServedInv, FramesHeld
  <2> QED BY <2>1, <2>2, <2>3
<1> QED BY <1>1, <1>2 DEF ServedInv

\* All of it at the start.
LEMMA ServedInit == ASSUME Flow!FlowAssumption, Flow!Init PROVE ServedInv
BY FlowInit, KeptInit, FramesInit DEF ServedInv

\* What follows for the flow.
LEMMA ServedProperties == ASSUME ServedInv PROVE Flow!TypeOK /\ Flow!WindowHolds /\ Flow!FramesBeforeResponse
<1>1. Flow!TypeOK
  BY DEF ServedInv, FlowInv, FlowTypes, FlowKept, PacketKinds, Flow!TypeOK
<1>2. Flow!WindowHolds
  BY DEF ServedInv, FlowInv, CreditHeld, Uncounted, Honest, Flow!WindowHolds
<1>3. Flow!FramesBeforeResponse
  BY DEF ServedInv, FramesHeld, Flow!FramesBeforeResponse
<1> QED BY <1>1, <1>2, <1>3

-----------------------------------------------------------------------------
(* All of them together *)

ResourcesInv ==
    /\ ScopeInv /\ HeardInv /\ FileInv /\ SessionInv /\ CloseInv
    /\ RpcInv /\ ServedInv /\ ArtifactInv /\ CacheInv

\* All of them begin with what they hold.
LEMMA ResourcesStart == ASSUME ResourcesInit PROVE ResourcesInv
<1>1. ScopeInv /\ HeardInv
  BY ScopeStarts, HeardInit DEF ResourcesInit
<1>2. FileInv
  BY FilesStart, ResourcesAssumption DEF ResourcesInit
<1>3. SessionInv /\ CloseInv /\ RpcInv
  BY SessionInit, CloseInit, CallsStart DEF ResourcesInit
<1>4. ServedInv
  BY ServedInit, ResourcesAssumption DEF ResourcesInit
<1>5. ArtifactInv /\ CacheInv
  BY ArtifactStarts, CacheStarts, ResourcesAssumption DEF ResourcesInit
<1> QED BY <1>1, <1>2, <1>3, <1>4, <1>5 DEF ResourcesInv

\* A step of all is a step of each, or leaves it alone.
LEMMA EachSteps ==
  ASSUME [ResourcesNext]_allVars
  PROVE  /\ [Scope!Next]_scopeVars /\ [Next]_vars /\ [Files!Next]_fileVars /\ [Session!Next]_sessionVars
         /\ [Rpc!Next]_rpcVars /\ [Flow!Next]_flowVars /\ [Artifact!Next]_artifactVars /\ [Cache!Next]_cacheVars
<1>1. CASE UNCHANGED allVars
  BY <1>1 DEF allVars, othersVars
<1>2. CASE ResourcesNext
  BY <1>2 DEF ResourcesNext, othersVars
<1> QED BY <1>1, <1>2

\* A step of all keeps what each holds.
LEMMA ResourcesStep ==
  ASSUME ResourcesInv, [ResourcesNext]_allVars
  PROVE  ResourcesInv' /\ EndsKept /\ FinalKept /\ DisposalKept
<1>0. /\ [Scope!Next]_scopeVars /\ [Next]_vars /\ [Files!Next]_fileVars /\ [Session!Next]_sessionVars
      /\ [Rpc!Next]_rpcVars /\ [Flow!Next]_flowVars /\ [Artifact!Next]_artifactVars /\ [Cache!Next]_cacheVars
  BY EachSteps
<1>1. ScopeInv' /\ DisposalKept
  BY <1>0, ScopeNext DEF ResourcesInv
<1>2. HeardInv'
  BY <1>0, HeardNext DEF ResourcesInv
<1>3. FileInv' /\ FinalKept
  BY <1>0, FilesNext, ResourcesAssumption DEF ResourcesInv
<1>4. (SessionInv /\ CloseInv)'
  BY <1>0, SessionNext, CloseNext DEF ResourcesInv
<1>5. RpcInv'
  BY <1>0, CallsNext DEF ResourcesInv
<1>6. ServedInv'
  BY <1>0, ServedNext, ResourcesAssumption DEF ResourcesInv
<1>7. ArtifactInv' /\ EndsKept
  BY <1>0, ArtifactNext DEF ResourcesInv
<1>8. CacheInv'
  BY <1>0, CacheNext, ResourcesAssumption DEF ResourcesInv
<1> QED BY <1>1, <1>2, <1>3, <1>4, <1>5, <1>6, <1>7, <1>8 DEF ResourcesInv

\* What all of them hold always.
LEMMA ResourcesHold == ResourcesSpec => []ResourcesInv
<1>1. ResourcesInit => ResourcesInv
  BY ResourcesStart
<1>2. ResourcesInv /\ [ResourcesNext]_allVars => ResourcesInv'
  BY ResourcesStep
<1> QED BY <1>1, <1>2, PTL DEF ResourcesSpec

\* The bookkeeping of all eight, in every order of their operations.
THEOREM ResourcesTypeOKAlways == ResourcesSpec => []ResourcesTypeOK
<1>1. ResourcesInv => ResourcesTypeOK
  BY ScopeProperties, FilesProperties, SessionProperties, CallsProperties, ServedProperties, CacheAgrees,
     ResourcesAssumption DEF ResourcesInv, ResourcesTypeOK, HeardInv, ArtifactInv
<1> QED BY <1>1, ResourcesHold, PTL

\* A close that has settled has disposed of everything it was given, in whatever order values
\* open, callers give up, handles come and time limits pass (resource-scope.ts:101-128,
\* resource-session.ts:140-155).
THEOREM SettledMeansGoneAlways == ResourcesSpec => []SettledMeansGone
<1>1. ResourcesInv => SettledMeansGone
  BY ScopeProperties, SessionProperties DEF ResourcesInv, SettledMeansGone
<1> QED BY <1>1, ResourcesHold, PTL

\* Whatever can be called was opened by the account and under the rights of now
\* (resource-session.ts:44-75).
THEOREM ListedAreCurrentAlways == ResourcesSpec => []ListedAreCurrent
<1>1. ResourcesInv => ListedAreCurrent
  BY SessionProperties DEF ResourcesInv, ListedAreCurrent
<1> QED BY <1>1, ResourcesHold, PTL

\* For any number of files, jobs, artifacts and contents: a job's file stays uploaded, a view
\* is the projection of the store, the bytes that are stored have their key, and the count of
\* a cache is the size of what it holds (file-job-host.ts:149-318, artifact-host.ts:218-234,
\* artifact-cache.ts:60-123).
THEOREM FilesAgreeAlways == ResourcesSpec => []FilesAgree
<1>1. ResourcesInv => FilesAgree
  BY FilesProperties, CacheAgrees, ResourcesAssumption DEF ResourcesInv, FilesAgree, ArtifactInv
<1> QED BY <1>1, ResourcesHold, PTL

\* For any number of calls and consumers, an id of the wire has one owner among the calls, the
\* callbacks, the zombies and the free ids, and a response settles the call that it answers
\* (id-pool.ts:1-18, rpc-client.ts:630-760).
THEOREM CallsKeepTheirIdsAlways == ResourcesSpec => []CallsKeepTheirIds
<1>1. ResourcesInv => CallsKeepTheirIds
  BY CallsProperties DEF ResourcesInv, CallsKeepTheirIds
<1> QED BY <1>1, ResourcesHold, PTL

\* A subscription that has consumers has a call under way or waits for the next connection
\* (rpc-client.ts:1177-1375).
THEOREM ListenersAreFedAlways == ResourcesSpec => []ListenersAreFed
<1>1. ResourcesInv => ListenersAreFed
  BY CallsProperties DEF ResourcesInv, ListenersAreFed
<1> QED BY <1>1, ResourcesHold, PTL

\* For any window and any number of pushes under way, no more frames are out than the credit
\* and the pushes that wait allow, and credit is for consumed frames only
\* (rpc-server.ts:404-470, rpc-client.ts:566-596).
THEOREM WindowHoldsAlways == ResourcesSpec => []WindowHolds
<1>1. ResourcesInv => WindowHolds
  BY ServedProperties DEF ResourcesInv, WindowHolds
<1> QED BY <1>1, ResourcesHold, PTL

\* However many frames there are, the answer of a call comes after them (rpc-client.ts:644-653).
THEOREM FramesBeforeResponseAlways == ResourcesSpec => []FramesBeforeResponse
<1>1. ResourcesInv => FramesBeforeResponse
  BY ServedProperties DEF ResourcesInv, FramesBeforeResponse
<1> QED BY <1>1, ResourcesHold, PTL

\* Nobody is handed a resource of a closing scope, and a resource is disposed of after those
\* that were admitted later (resource-scope.ts:60-107).
THEOREM DisposalInOrderAlways == ResourcesSpec => DisposalInOrder
<1> DEFINE Given == \A i \in DOMAIN entries :
                        (entries[i].caller = "waits" /\ entries'[i].caller = "given")
                            => ~Scope!aborted' /\ ~entries'[i].released
           Ordered == \A i \in DOMAIN entries :
                        (/\ phase # "open" /\ Scope!Starts(i)
                         /\ entries[i].at = "open" /\ ~entries[i].early /\ entries[i].caller \in {"none", "given"})
                            => Scope!LaterAreGone(i)
<1>1. DisposalKept => Given /\ Ordered
  BY DEF DisposalKept, Held, Scope!aborted
<1>2. ResourcesInv /\ [ResourcesNext]_allVars => [Given]_Scope!vars /\ [Ordered]_Scope!vars
  BY <1>1, ResourcesStep
<1>3. ResourcesSpec => [][Given]_Scope!vars /\ [][Ordered]_Scope!vars
  BY <1>2, ResourcesHold, PTL DEF ResourcesSpec
<1> QED BY <1>3 DEF DisposalInOrder, Scope!GivenIsOpen, Scope!DependentsFirst

\* Nothing changes a finished job, anything of a closed host, or the end of an artifact,
\* whatever report, upload or expiry comes later (file-job-host.ts:218-376,
\* artifact-host.ts:226-234).
THEOREM FinalStaysAlways == ResourcesSpec => FinalStays
<1> DEFINE Jobs == \A j \in DOMAIN jobs : jobs[j].state \in Files!Finished => jobs'[j] = jobs[j]
           Shut == hostClosed => files' = files /\ jobs' = jobs
           Over == \A a \in Artifact!Artifacts : record[a] \in {"revoked", "expired"} => record'[a] = record[a]
<1>1. FinalKept /\ EndsKept => Jobs /\ Shut /\ Over
  BY DEF FinalKept, EndsKept
<1>2. ResourcesInv /\ [ResourcesNext]_allVars => [Jobs]_Files!vars /\ [Shut]_Files!vars /\ [Over]_Artifact!artifactVars
  BY <1>1, ResourcesStep
<1>3. ResourcesSpec => [][Jobs]_Files!vars /\ [][Shut]_Files!vars /\ [][Over]_Artifact!artifactVars
  BY <1>2, ResourcesHold, PTL DEF ResourcesSpec
<1> QED BY <1>3 DEF FinalStays, Files!FinishedJobsStay, Files!ClosedHostStays, Artifact!EndsStay
===============================================================================
