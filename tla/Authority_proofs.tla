--------------------------- MODULE Authority_proofs ---------------------------
(***************************************************************************)
(* The run `authority`, for every value of the constants: the command host *)
(* and the authority process.                                              *)
(*                                                                         *)
(* Host.  First the index by itself: lists without repetitions, and what   *)
(* sweep, compact and the rebuilding of an index keep of a Sound one and   *)
(* take out of it.  The eviction loop is judged by a measure: what can     *)
(* still be evicted, and the accounts it has not looked at since.  Then    *)
(* HostInv, one lemma for an action.                                       *)
(*                                                                         *)
(* Scale.  ScaleInv says what the process holds by the role it has acted   *)
(* upon, HeardFirst what it has heard before it may lead of its own.       *)
(*                                                                         *)
(* Replica sets.  The one that follows and the one that leads keep what    *)
(* StoreReplicaSet_proofs proves of any replica set; with what the scale   *)
(* process holds it gives that no replica set leads without a claim to.    *)
(***************************************************************************)
EXTENDS MCAuthority, StoreReplicaSet_proofs, FiniteSetTheorems, SequenceTheorems, WellFoundedInduction, TLAPS

\* The proofs about a replica set, for the one that leads.
LeaderP == INSTANCE StoreReplicaSet_proofs WITH
    Self <- 2, Peer <- 1, InitialRole <- "leader", Eligible <- FALSE, AutoPromote <- FALSE,
    Probing <- FALSE, MaxEpoch <- 1, MaxChanges <- 1, MaxFaults <- 1, MaxElections <- 0

\* A set of natural numbers with a member has a least one.
LEMMA Least ==
  ASSUME NEW T \in SUBSET Nat, T # {}
  PROVE  \E x \in T : \A y \in T : x <= y
<1> DEFINE R == OpToRel(<, Nat)
<1>1. IsWellFoundedOn(R, Nat)
  BY NatLessThanWellFounded
<1>2. R = {ss \in Nat \X Nat : ss[1] < ss[2]}
  BY DEF OpToRel
<1>3. \A a, b \in Nat : a < b => <<a, b>> \in R
  BY <1>2
<1> HIDE DEF R
<1>4. PICK x \in T : \A y \in T : ~(<<y, x>> \in R)
  BY <1>1, WFMin
<1>5. \A y \in T : x <= y
  <2> TAKE y \in T
  <2>1. y \in Nat /\ x \in Nat
    OBVIOUS
  <2>2. ~(y < x)
    BY <1>3, <1>4, <2>1
  <2> QED BY <2>1, <2>2
<1> QED BY <1>5

\* A set that has 0 and is closed under the successor has every natural number.
LEMMA Induction ==
  ASSUME NEW S, 0 \in S, \A n \in Nat : n \in S => n + 1 \in S
  PROVE  Nat \subseteq S
<1> SUFFICES ASSUME Nat \ S # {} PROVE FALSE
  OBVIOUS
<1>1. PICK x \in Nat \ S : \A y \in Nat \ S : x <= y
  BY Least
<1>2. x # 0 /\ x - 1 \in Nat
  OBVIOUS
<1>3. x - 1 \in S
  BY <1>1, <1>2
<1>4. (x - 1) + 1 = x
  OBVIOUS
<1> QED BY <1>2, <1>3, <1>4

-----------------------------------------------------------------------------
(* The index of a command host *)

\* A list of accounts without repetitions.
Lists == {o \in Seq(Accounts) : \A i, j \in DOMAIN o : o[i] = o[j] => i = j}
Members(o) == {o[i] : i \in DOMAIN o}

LEMMA ListFacts ==
  ASSUME NEW o \in Lists
  PROVE  /\ o \in Seq(Accounts) /\ Len(o) \in Nat /\ DOMAIN o = 1..Len(o)
         /\ \A i \in 1..Len(o) : o[i] \in Accounts
         /\ \A i, j \in 1..Len(o) : o[i] = o[j] => i = j
         /\ Host!ToSet(o) = Members(o)
  BY ElementOfSeq DEF Lists, Members, Host!ToSet

\* Taking one place out of a list.
LEMMA RemoveFacts ==
  ASSUME NEW o \in Lists, NEW p \in 1..Len(o)
  PROVE  /\ Host!RemoveAt(o, p) \in Seq(Accounts)
         /\ Len(Host!RemoveAt(o, p)) = Len(o) - 1
         /\ \A i \in 1..(Len(o) - 1) : Host!RemoveAt(o, p)[i] = IF i < p THEN o[i] ELSE o[i + 1]
<1> DEFINE u == SubSeq(o, 1, p - 1)
           v == SubSeq(o, p + 1, Len(o))
<1>1. Len(o) \in Nat /\ p \in Int /\ p - 1 \in Int /\ p + 1 \in Int /\ 1 <= p /\ p <= Len(o)
  BY ListFacts
<1>2. u \in Seq(Accounts) /\ Len(u) = p - 1 /\ \A i \in 1..(p - 1) : u[i] = o[i]
  <2>1. \A i \in 1..(p - 1) : o[i] \in Accounts
    BY <1>1, ListFacts
  <2>2. /\ u \in Seq(Accounts) /\ Len(u) = IF 1 <= p - 1 THEN p - 1 - 1 + 1 ELSE 0
        /\ \A i \in 1..(p - 1 - 1 + 1) : u[i] = o[1 + i - 1]
    BY <1>1, <2>1, SubSeqProperties
  <2>3. \A i \in 1..(p - 1) : i \in 1..(p - 1 - 1 + 1) /\ 1 + i - 1 = i
    BY <1>1
  <2> HIDE DEF u
  <2> QED BY <1>1, <2>2, <2>3
<1>3. v \in Seq(Accounts) /\ Len(v) = Len(o) - p /\ \A i \in 1..(Len(o) - p) : v[i] = o[p + i]
  <2>1. \A i \in (p + 1)..Len(o) : o[i] \in Accounts
    BY <1>1, ListFacts
  <2>2. /\ v \in Seq(Accounts) /\ Len(v) = IF p + 1 <= Len(o) THEN Len(o) - (p + 1) + 1 ELSE 0
        /\ \A i \in 1..(Len(o) - (p + 1) + 1) : v[i] = o[(p + 1) + i - 1]
    BY <1>1, <2>1, SubSeqProperties
  <2>3. \A i \in 1..(Len(o) - p) : i \in 1..(Len(o) - (p + 1) + 1) /\ (p + 1) + i - 1 = p + i
    BY <1>1
  <2> HIDE DEF v
  <2> QED BY <1>1, <2>2, <2>3
<1>4. Host!RemoveAt(o, p) = u \o v
  BY DEF Host!RemoveAt
<1> HIDE DEF u, v
<1>5. /\ u \o v \in Seq(Accounts) /\ Len(u \o v) = Len(u) + Len(v)
      /\ \A i \in 1..(Len(u) + Len(v)) : (u \o v)[i] = IF i <= Len(u) THEN u[i] ELSE v[i - Len(u)]
  BY <1>2, <1>3, ConcatProperties
<1>6. ASSUME NEW i \in 1..(Len(o) - 1) PROVE (u \o v)[i] = IF i < p THEN o[i] ELSE o[i + 1]
  <2>1. i \in 1..(Len(u) + Len(v)) /\ (i <= Len(u) <=> i < p)
    BY <1>1, <1>2, <1>3
  <2>2. CASE i < p
    <3>1. i \in 1..(p - 1)
      BY <1>1, <2>2
    <3> QED BY <1>2, <1>5, <2>1, <2>2, <3>1
  <2>3. CASE ~(i < p)
    <3>1. i - Len(u) \in 1..(Len(o) - p) /\ p + (i - Len(u)) = i + 1
      BY <1>1, <1>2, <2>3
    <3>2. v[i - Len(u)] = o[p + (i - Len(u))]
      BY <1>3, <3>1
    <3> QED BY <1>5, <2>1, <2>3, <3>1, <3>2
  <2> QED BY <2>2, <2>3
<1>7. Len(u) + Len(v) = Len(o) - 1
  BY <1>1, <1>2, <1>3
<1> QED BY <1>4, <1>5, <1>6, <1>7

\* A list without one of its members, and with it at the end.
LEMMA WithoutFacts ==
  ASSUME NEW o \in Lists, NEW a
  PROVE  /\ Host!Without(o, a) \in Lists
         /\ Members(Host!Without(o, a)) = Members(o) \ {a}
         /\ Len(Host!Without(o, a)) = IF a \in Members(o) THEN Len(o) - 1 ELSE Len(o)
<1>1. CASE a \notin Members(o)
  <2>1. Host!Without(o, a) = o
    BY <1>1, ListFacts DEF Host!Without
  <2> QED BY <1>1, <2>1
<1>2. CASE a \in Members(o)
  <2> DEFINE p == CHOOSE i \in DOMAIN o : o[i] = a
             r == Host!RemoveAt(o, p)
  <2>1. p \in 1..Len(o) /\ o[p] = a
    BY <1>2, ListFacts DEF Members
  <2>2. Host!Without(o, a) = r
    BY <1>2, ListFacts DEF Host!Without
  <2> HIDE DEF p
  <2>3. /\ r \in Seq(Accounts) /\ Len(r) = Len(o) - 1
        /\ \A i \in 1..(Len(o) - 1) : r[i] = IF i < p THEN o[i] ELSE o[i + 1]
    BY <2>1, RemoveFacts
  <2> HIDE DEF r
  <2>4. DOMAIN r = 1..(Len(o) - 1) /\ Len(o) \in Nat /\ DOMAIN o = 1..Len(o)
    BY <2>3, ListFacts, LenProperties
  <2>5. ASSUME NEW i \in DOMAIN r, NEW j \in DOMAIN r, r[i] = r[j] PROVE i = j
    <3> DEFINE f(k) == IF k < p THEN k ELSE k + 1
    <3>1. f(i) \in 1..Len(o) /\ f(j) \in 1..Len(o) /\ r[i] = o[f(i)] /\ r[j] = o[f(j)]
      BY <2>1, <2>3, <2>4
    <3>2. f(i) = f(j)
      <4> HIDE DEF f
      <4> QED BY <2>5, <3>1, ListFacts
    <3> QED BY <2>1, <2>4, <3>2
  <2>6. ASSUME NEW i \in DOMAIN r PROVE r[i] \in Members(o) \ {a}
    <3> DEFINE k == IF i < p THEN i ELSE i + 1
    <3>1. k \in 1..Len(o) /\ r[i] = o[k] /\ k # p
      BY <2>1, <2>3, <2>4
    <3> HIDE DEF k
    <3>2. o[k] # a
      BY <2>1, <3>1, ListFacts
    <3> QED BY <2>4, <3>1, <3>2 DEF Members
  <2>7. ASSUME NEW b \in Members(o) \ {a} PROVE b \in Members(r)
    <3>1. PICK k \in 1..Len(o) : o[k] = b
      BY <2>4 DEF Members
    <3>2. k # p
      BY <2>1, <3>1
    <3> DEFINE i == IF k < p THEN k ELSE k - 1
    <3>3. i \in 1..(Len(o) - 1) /\ (IF i < p THEN i ELSE i + 1) = k
      BY <2>1, <2>4, <3>2
    <3> HIDE DEF i
    <3>4. r[i] = b
      BY <2>3, <3>1, <3>3
    <3> QED BY <2>4, <3>3, <3>4 DEF Members
  <2>8. Members(r) = Members(o) \ {a}
    BY <2>6, <2>7 DEF Members
  <2> QED BY <1>2, <2>2, <2>3, <2>5, <2>8 DEF Lists
<1> QED BY <1>1, <1>2

LEMMA ToEndFacts ==
  ASSUME NEW o \in Lists, NEW a \in Accounts
  PROVE  /\ Host!ToEnd(o, a) \in Lists
         /\ Members(Host!ToEnd(o, a)) = Members(o) \cup {a}
         /\ Host!ToEnd(o, a) = Append(Host!Without(o, a), a)
<1> DEFINE w == Host!Without(o, a)
           r == Append(w, a)
<1>1. w \in Lists /\ Members(w) = Members(o) \ {a}
  BY WithoutFacts
<1>2. Host!ToEnd(o, a) = r
  BY DEF Host!ToEnd
<1> HIDE DEF w
<1>3. /\ w \in Seq(Accounts) /\ Len(w) \in Nat /\ DOMAIN w = 1..Len(w)
      /\ \A i, j \in 1..Len(w) : w[i] = w[j] => i = j
  BY <1>1, ListFacts
<1>4. /\ r \in Seq(Accounts) /\ Len(r) = Len(w) + 1 /\ DOMAIN r = 1..(Len(w) + 1)
      /\ \A i \in 1..Len(w) : r[i] = w[i]
      /\ r[Len(w) + 1] = a
  BY <1>3, AppendProperties
<1> HIDE DEF r
<1>5. \A i \in 1..Len(w) : w[i] # a
  BY <1>1, <1>3 DEF Members
<1>6. \A i \in 1..(Len(w) + 1) : i \in 1..Len(w) \/ i = Len(w) + 1
  BY <1>3
<1>7. ASSUME NEW i \in DOMAIN r, NEW j \in DOMAIN r, r[i] = r[j] PROVE i = j
  BY <1>3, <1>4, <1>5, <1>6, <1>7
<1>8. Members(r) = Members(w) \cup {a}
  <2>1. Len(w) + 1 \in DOMAIN r /\ \A i \in DOMAIN w : i \in DOMAIN r /\ r[i] = w[i]
    BY <1>3, <1>4
  <2>2. \A i \in DOMAIN r : r[i] \in Members(w) \cup {a}
    BY <1>3, <1>4, <1>6 DEF Members
  <2> QED BY <1>4, <2>1, <2>2 DEF Members
<1>9. Members(r) = Members(o) \cup {a}
  BY <1>1, <1>8
<1> QED BY <1>2, <1>4, <1>7, <1>9 DEF Lists, w, r

-----------------------------------------------------------------------------
(* What sweep and compact take out of the index *)

\* An index that counts its receipts and has each in the list of accounts.
Sound(s) ==
  /\ s \in [order : Lists, receipts : SUBSET Host!Receipt, total : Nat]
  /\ IsFiniteSet(s.receipts) /\ s.total = Cardinality(s.receipts)
  /\ \A e \in s.receipts : e.account \in Members(s.order)
  /\ \A e, f \in s.receipts : Host!Same(e, f) => e = f

\* Only committed receipts have left.
Kept(s, t) == t.receipts \subseteq s.receipts /\ \A e \in s.receipts \ t.receipts : ~e.pending

LEMMA KeptChains ==
  ASSUME NEW s, NEW t, NEW u, Kept(s, t), Kept(t, u)
  PROVE  Kept(s, u)
  BY DEF Kept

\* The host counts as this module does.
LEMMA SameCount == \A S : Host!Cardinality(S) = Cardinality(S)
  BY DEF Host!Cardinality, Cardinality

LEMMA DropFacts ==
  ASSUME NEW s, Sound(s), NEW out \in SUBSET s.receipts
  PROVE  /\ Sound(Host!Drop(s, out))
         /\ Host!Drop(s, out).order = s.order
         /\ Host!Drop(s, out).receipts = s.receipts \ out
         /\ Host!Drop(s, out).total = s.total - Cardinality(out)
         /\ Host!Drop(s, out) = [order |-> s.order, receipts |-> s.receipts \ out,
                                 total |-> s.total - Cardinality(out)]
<1>1. /\ s = [order |-> s.order, receipts |-> s.receipts, total |-> s.total]
      /\ s.order \in Lists /\ s.receipts \in SUBSET Host!Receipt /\ s.total \in Nat
      /\ IsFiniteSet(s.receipts) /\ s.total = Cardinality(s.receipts)
  BY DEF Sound
<1>2. Host!Drop(s, out) = [order |-> s.order, receipts |-> s.receipts \ out,
                           total |-> s.total - Cardinality(out)]
  BY SameCount DEF Host!Drop, Host!Index
<1>3. s.receipts \cap out = out
  OBVIOUS
<1>4. /\ IsFiniteSet(s.receipts \ out)
      /\ Cardinality(s.receipts \ out) = s.total - Cardinality(out)
  <2>1. Cardinality(s.receipts \ out) = Cardinality(s.receipts) - Cardinality(s.receipts \cap out)
    BY <1>1, FS_Difference
  <2>2. IsFiniteSet(s.receipts \ out)
    BY <1>1, FS_Difference
  <2> QED BY <1>1, <1>3, <2>1, <2>2
<1>5. Cardinality(s.receipts \ out) \in Nat
  BY <1>4, FS_CardinalityType
<1> DEFINE d == [order |-> s.order, receipts |-> s.receipts \ out,
                 total |-> s.total - Cardinality(out)]
<1>6. d \in [order : Lists, receipts : SUBSET Host!Receipt, total : Nat]
  BY <1>1, <1>4, <1>5
<1>7. d.order = s.order /\ d.receipts = s.receipts \ out /\ d.total = s.total - Cardinality(out)
  OBVIOUS
<1> HIDE DEF d
<1>8. Sound(d)
  BY <1>4, <1>6, <1>7 DEF Sound
<1> QED BY <1>2, <1>7, <1>8 DEF d

\* A finite set of receipts has an oldest one.
LEMMA OldestExists ==
  ASSUME NEW es \in SUBSET Host!Receipt, IsFiniteSet(es), es # {}
  PROVE  Host!Oldest(es) # {}
<1> DEFINE Before(e) == {f \in es : f.at < e.at}
           T == {Cardinality(Before(e)) : e \in es}
<1>1. \A e \in es : e.at \in Int
  BY DEF Host!Receipt
<1>2. \A e \in es : IsFiniteSet(Before(e)) /\ Cardinality(Before(e)) \in Nat
  <2> TAKE e \in es
  <2>1. Before(e) \in SUBSET es
    OBVIOUS
  <2> HIDE DEF Before
  <2> QED BY <2>1, FS_Subset, FS_CardinalityType
<1>3. PICK x \in T : \A y \in T : x <= y
  <2>1. T \in SUBSET Nat /\ T # {}
    BY <1>2
  <2> HIDE DEF T
  <2> QED BY <2>1, Least
<1>4. PICK e \in es : x = Cardinality(Before(e))
  BY <1>3
<1>5. ASSUME NEW f \in es, f.at < e.at PROVE FALSE
  <2>1. f \in Before(e) /\ f \notin Before(f)
    BY <1>1, <1>5
  <2>2. Before(f) \subseteq Before(e)
    BY <1>1, <1>5
  <2>3. Cardinality(Before(f)) <= Cardinality(Before(e)) /\ Cardinality(Before(f)) # Cardinality(Before(e))
    <3> HIDE DEF Before
    <3> QED BY <1>2, <2>1, <2>2, FS_Subset
  <2>4. x <= Cardinality(Before(f))
    BY <1>3
  <2> HIDE DEF Before
  <2> QED BY <1>2, <1>4, <2>3, <2>4
<1>6. \A f \in es : e.at <= f.at
  BY <1>1, <1>5
<1> QED BY <1>6 DEF Host!Oldest

\* What sweep takes out, and what it leaves behind.
LEMMA SweptFacts ==
  ASSUME NEW s, Sound(s), NEW a, bounds.perAccount \in Nat
  PROVE  /\ Host!Swept(s, a) \subseteq Host!Committed(s, a)
         /\ Host!Committed(s, a) \subseteq Host!Of(s, a) /\ Host!Of(s, a) \subseteq s.receipts
         /\ \A e \in Host!Committed(s, a) : ~e.pending
         /\ Cardinality(Host!Of(s, a)) <= bounds.perAccount =>
                \A e \in Host!Swept(s, a) : Host!Expired(e)
         /\ \/ Cardinality(Host!Of(s, a) \ Host!Swept(s, a)) <= bounds.perAccount
            \/ \A e \in Host!Of(s, a) \ Host!Swept(s, a) : e.pending
<1> DEFINE own == Host!Of(s, a)
           C == Host!Committed(s, a)
           Before(f) == {e \in C : e.at < f.at}
           Leaves(f) == Host!Expired(f) \/ Cardinality(own) - Cardinality(Before(f)) > bounds.perAccount
           D == {e \in C : \A f \in Before(e) \cup {e} : Leaves(f)}
<1>1. Host!Swept(s, a) = D
  BY SameCount DEF Host!Swept, Host!MaxPerAccount
<1>2. C \subseteq own /\ own \subseteq s.receipts /\ \A e \in own : e \in C <=> ~e.pending
  BY DEF Host!Committed, Host!Of
<1>3. IsFiniteSet(own) /\ Cardinality(own) \in Nat /\ own \subseteq Host!Receipt
  BY <1>2, FS_Subset, FS_CardinalityType DEF Sound
<1> HIDE DEF own, C
<1>4. \A f \in C : IsFiniteSet(Before(f)) /\ Cardinality(Before(f)) \in Nat
  <2> TAKE f \in C
  <2>1. Before(f) \in SUBSET own
    BY <1>2
  <2> HIDE DEF Before
  <2> QED BY <1>3, <2>1, FS_Subset, FS_CardinalityType
<1>5. \A e \in C : e.at \in Int
  BY <1>2, <1>3 DEF Host!Receipt
<1>6. Cardinality(own) <= bounds.perAccount => \A e \in D : Host!Expired(e)
  <2> SUFFICES ASSUME Cardinality(own) <= bounds.perAccount, NEW e \in D PROVE Host!Expired(e)
    OBVIOUS
  <2>1. e \in C /\ Leaves(e)
    OBVIOUS
  <2> HIDE DEF D
  <2>2. Cardinality(Before(e)) \in Nat
    BY <1>4, <2>1
  <2> HIDE DEF Before
  <2> QED BY <1>3, <2>1, <2>2
<1>7. CASE \E f \in C : ~Leaves(f)
  <2> DEFINE N == {f \in C : ~Leaves(f)}
  <2>1. N \subseteq own /\ N # {}
    BY <1>2, <1>7
  <2>2. N \in SUBSET Host!Receipt /\ IsFiniteSet(N)
    <3> HIDE DEF N
    <3> QED BY <1>3, <2>1, FS_Subset
  <2>3. PICK g \in N : \A f \in N : g.at <= f.at
    <3> HIDE DEF N
    <3> QED BY <2>1, <2>2, OldestExists DEF Host!Oldest
  <2>4. g \in C /\ ~Leaves(g)
    BY <2>3
  <2>5. \A e \in Before(g) : e \in C /\ Leaves(e)
    BY <1>5, <2>3, <2>4
  <2>6. \A e \in Before(g) : Before(e) \subseteq Before(g)
    BY <1>5, <2>4
  <2>7. Before(g) \subseteq D
    <3> HIDE DEF Leaves
    <3>1. ASSUME NEW e \in Before(g) PROVE e \in D
      <4>1. e \in C /\ \A f \in Before(e) \cup {e} : f \in Before(g)
        BY <2>5, <2>6
      <4> HIDE DEF Before
      <4> QED BY <2>5, <4>1
    <3> QED BY <3>1
  <2>8. D \subseteq own
    BY <1>2
  <2>9. Cardinality(own) - Cardinality(Before(g)) <= bounds.perAccount
    BY <1>3, <1>4, <2>4
  <2> HIDE DEF D, Before
  <2>10. IsFiniteSet(D) /\ Cardinality(Before(g)) <= Cardinality(D)
    BY <1>3, <2>7, <2>8, FS_Subset
  <2>11. own \cap D = D
    BY <2>8
  <2>12. Cardinality(own \ D) = Cardinality(own) - Cardinality(D)
    BY <1>3, <2>11, FS_Difference
  <2>13. Cardinality(D) \in Nat /\ Cardinality(Before(g)) \in Nat
    BY <1>4, <2>4, <2>10, FS_CardinalityType
  <2>14. Cardinality(own \ D) <= bounds.perAccount
    BY <1>3, <2>9, <2>10, <2>12, <2>13
  <2> QED BY <1>1, <1>2, <1>6, <2>14 DEF own, C, D
<1>8. CASE \A f \in C : Leaves(f)
  <2>1. D = C
    <3> HIDE DEF Leaves
    <3> QED BY <1>8
  <2>2. \A e \in own \ D : e.pending
    BY <1>2, <2>1
  <2> HIDE DEF D
  <2> QED BY <1>1, <1>2, <1>6, <2>1, <2>2 DEF own, C
<1> QED BY <1>7, <1>8

LEMMA SweepFacts ==
  ASSUME NEW s, Sound(s), NEW a, bounds.perAccount \in Nat
  PROVE  /\ Sound(Host!Sweep(s, a)) /\ Kept(s, Host!Sweep(s, a))
         /\ Host!Sweep(s, a).receipts = s.receipts \ Host!Swept(s, a)
<1>1. Host!Swept(s, a) \in SUBSET s.receipts /\ \A e \in Host!Swept(s, a) : ~e.pending
  BY SweptFacts
<1> QED BY <1>1, DropFacts DEF Host!Sweep, Kept

LEMMA SweepAllFacts ==
  ASSUME NEW s, Sound(s), bounds.perAccount \in Nat
  PROVE  /\ Sound(Host!SweepAll(s)) /\ Kept(s, Host!SweepAll(s))
         /\ \A e \in s.receipts :
                e \in Host!SweepAll(s).receipts <=> e \notin Host!Swept(s, e.account)
<1> DEFINE D == UNION {Host!Swept(s, a) : a \in Host!ToSet(s.order)}
<1>1. \A a : Host!Swept(s, a) \subseteq s.receipts /\ \A e \in Host!Swept(s, a) : e.account = a /\ ~e.pending
  BY SweptFacts DEF Host!Of
<1>2. D \in SUBSET s.receipts /\ \A e \in D : ~e.pending
  BY <1>1
<1>3. \A e \in s.receipts : e.account \in Host!ToSet(s.order)
  BY ListFacts DEF Sound
<1>4. \A e \in s.receipts : e \in D <=> e \in Host!Swept(s, e.account)
  BY <1>1, <1>3
<1>5. Host!SweepAll(s) = Host!Drop(s, D)
  BY DEF Host!SweepAll
<1> HIDE DEF D
<1> QED BY <1>2, <1>4, <1>5, DropFacts DEF Kept

\* The accounts in front of which nothing is retained: a prefix of the list.
LEMMA FrontIsPrefix ==
  ASSUME NEW n \in Nat, NEW F, F \subseteq 1..n,
         \A i \in F : \A j \in 1..i : j \in F
  PROVE  /\ IsFiniteSet(F) /\ Cardinality(F) \in 0..n
         /\ F = 1..Cardinality(F)
<1> DEFINE T == {k \in Nat : k + 1 \notin F}
<1>1. n \in T
  OBVIOUS
<1>2. PICK x \in T : \A y \in T : x <= y
  <2>1. T \in SUBSET Nat /\ T # {}
    BY <1>1
  <2> HIDE DEF T
  <2> QED BY <2>1, Least
<1>3. x \in Nat /\ x <= n /\ x + 1 \notin F
  BY <1>1, <1>2
<1>4. F \subseteq 1..x
  <2> SUFFICES ASSUME NEW i \in F, i > x PROVE FALSE
    BY <1>3
  <2>1. i \in Nat /\ x + 1 \in 1..i
    BY <1>3
  <2> QED BY <1>3, <2>1
<1>5. 1..x \subseteq F
  <2> SUFFICES ASSUME NEW i \in 1..x, i \notin F PROVE FALSE
    OBVIOUS
  <2>1. i - 1 \in Nat /\ (i - 1) + 1 = i
    BY <1>3
  <2>2. i - 1 \in T
    BY <2>1
  <2>3. x <= i - 1
    BY <1>2, <2>2
  <2> QED BY <1>3, <2>3
<1>6. F = 1..x
  BY <1>4, <1>5
<1>7. IsFiniteSet(1..x) /\ Cardinality(1..x) = x
  <2>1. Cardinality(1..x) = IF 1 <= x THEN x - 1 + 1 ELSE 0
    BY <1>3, FS_Interval
  <2> QED BY <1>3, <2>1, FS_Interval
<1> QED BY <1>3, <1>6, <1>7

\* A list without its first places.
LEMMA RestFacts ==
  ASSUME NEW o \in Lists, NEW c \in 0..Len(o)
  PROVE  /\ SubSeq(o, c + 1, Len(o)) \in Lists
         /\ Len(SubSeq(o, c + 1, Len(o))) = Len(o) - c
         /\ \A b \in Members(o) : b \in Members(SubSeq(o, c + 1, Len(o))) \/ \E i \in 1..c : o[i] = b
<1> DEFINE v == SubSeq(o, c + 1, Len(o))
<1>1. Len(o) \in Nat /\ c \in Int /\ c + 1 \in Int /\ 0 <= c /\ c <= Len(o) /\ DOMAIN o = 1..Len(o)
  BY ListFacts
<1>2. v \in Seq(Accounts) /\ Len(v) = Len(o) - c /\ \A i \in 1..(Len(o) - c) : v[i] = o[c + i]
  <2>1. \A i \in (c + 1)..Len(o) : o[i] \in Accounts
    BY <1>1, ListFacts
  <2>2. /\ v \in Seq(Accounts) /\ Len(v) = IF c + 1 <= Len(o) THEN Len(o) - (c + 1) + 1 ELSE 0
        /\ \A i \in 1..(Len(o) - (c + 1) + 1) : v[i] = o[(c + 1) + i - 1]
    BY <1>1, <2>1, SubSeqProperties
  <2> HIDE DEF v
  <2>3. Len(v) = Len(o) - c
    <3> DEFINE n == Len(o)
    <3>1. n \in Nat /\ 0 <= c /\ c <= n /\ Len(v) = IF c + 1 <= n THEN n - (c + 1) + 1 ELSE 0
      BY <1>1, <2>2
    <3> HIDE DEF n
    <3>2. c + 1 <= n => n - (c + 1) + 1 = n - c
      BY <3>1
    <3>3. ~(c + 1 <= n) => n - c = 0
      BY <3>1
    <3>4. Len(v) = n - c
      BY <3>1, <3>2, <3>3
    <3> QED BY <3>4 DEF n
  <2>4. ASSUME NEW i \in 1..(Len(o) - c) PROVE v[i] = o[c + i]
    <3>1. i \in 1..(Len(o) - (c + 1) + 1)
      BY <1>1
    <3>2. (c + 1) + i - 1 = c + i
      BY <1>1
    <3>3. v[i] = o[(c + 1) + i - 1]
      BY <2>2, <3>1
    <3> QED BY <3>2, <3>3
  <2> QED BY <2>2, <2>3, <2>4
<1> HIDE DEF v
<1>3. DOMAIN v = 1..(Len(o) - c)
  BY <1>1, <1>2, LenProperties
<1>4. ASSUME NEW i \in DOMAIN v, NEW j \in DOMAIN v, v[i] = v[j] PROVE i = j
  <2>1. c + i \in 1..Len(o) /\ c + j \in 1..Len(o)
    BY <1>1, <1>3
  <2> o[c + i] = o[c + j]
    BY <1>2, <1>3, <1>4
  <2>2. c + i = c + j
    BY <2>1, ListFacts
  <2> QED BY <1>1, <1>3, <2>2
<1>5. ASSUME NEW b \in Members(o), ~\E i \in 1..c : o[i] = b PROVE b \in Members(v)
  <2>1. PICK k \in 1..Len(o) : o[k] = b
    BY <1>1 DEF Members
  <2>2. k \notin 1..c
    BY <1>5, <2>1
  <2>3. k - c \in 1..(Len(o) - c) /\ c + (k - c) = k
    BY <1>1, <2>2
  <2>4. v[k - c] = b
    BY <1>2, <2>1, <2>3
  <2> QED BY <1>3, <2>3, <2>4 DEF Members
<1> QED BY <1>2, <1>4, <1>5 DEF v, Lists

\* The departed accounts take expired receipts along, and nothing else.
LEMMA DrainFacts ==
  ASSUME NEW s, Sound(s)
  PROVE  /\ Sound(Host!DrainDeparted(s)) /\ Kept(s, Host!DrainDeparted(s))
         /\ \A e \in s.receipts \ Host!DrainDeparted(s).receipts : Host!Expired(e)
         /\ Host!DrainDeparted(s).total <= s.total
<1> DEFINE Departed(a) == \A e \in Host!Of(s, a) : Host!Expired(e)
           front == {i \in DOMAIN s.order : \A j \in 1..i : Departed(s.order[j])}
           gone == {e \in s.receipts : \E i \in front : s.order[i] = e.account}
           c == Cardinality(front)
           v == SubSeq(s.order, c + 1, Len(s.order))
           d == Host!Drop(s, gone)
           u == [order |-> v, receipts |-> d.receipts, total |-> d.total]
<1>1. s.order \in Lists /\ Len(s.order) \in Nat /\ DOMAIN s.order = 1..Len(s.order)
  BY ListFacts DEF Sound
<1>2. front \subseteq 1..Len(s.order) /\ \A i \in front : \A j \in 1..i : j \in front
  BY <1>1
<1>3. \A e \in gone : e \in s.receipts /\ Host!Expired(e)
  <2> TAKE e \in gone
  <2>1. PICK i \in front : s.order[i] = e.account
    OBVIOUS
  <2>2. Departed(s.order[i])
    BY <1>1, <2>1
  <2> QED BY <2>1, <2>2 DEF Host!Of
<1>4. Host!DrainDeparted(s) = u
  BY SameCount DEF Host!DrainDeparted, Host!Ordered, Host!Index
<1>5. gone \in SUBSET s.receipts /\ \A e \in s.receipts : e \in gone <=> \E i \in front : s.order[i] = e.account
  OBVIOUS
<1> HIDE DEF front, gone
<1>6. c \in 0..Len(s.order) /\ front = 1..c
  BY <1>1, <1>2, FrontIsPrefix
<1> HIDE DEF c
<1>7. /\ v \in Lists
      /\ \A b \in Members(s.order) : b \in Members(v) \/ \E i \in 1..c : s.order[i] = b
  BY <1>1, <1>6, RestFacts
<1>8. Sound(d) /\ d.receipts = s.receipts \ gone /\ d.total = s.total - Cardinality(gone)
  BY <1>5, DropFacts
<1> HIDE DEF v, d
<1>9. u.order = v /\ u.receipts = d.receipts /\ u.total = d.total
  OBVIOUS
<1>10. u \in [order : Lists, receipts : SUBSET Host!Receipt, total : Nat]
  BY <1>7, <1>8 DEF Sound
<1> HIDE DEF u
<1>11. \A e \in d.receipts : e.account \in Members(v)
  <2> TAKE e \in d.receipts
  <2>1. e \in s.receipts /\ e \notin gone
    BY <1>8
  <2>2. e.account \in Members(s.order)
    BY <2>1 DEF Sound
  <2> QED BY <1>5, <1>6, <1>7, <2>1, <2>2
<1>12. Sound(u)
  BY <1>8, <1>9, <1>10, <1>11 DEF Sound
<1>13. Cardinality(gone) \in Nat
  BY <1>5, FS_Subset, FS_CardinalityType DEF Sound
<1>14. s.total \in Nat
  BY DEF Sound
<1>15. Kept(s, u) /\ \A e \in s.receipts \ u.receipts : Host!Expired(e)
  BY <1>3, <1>5, <1>8, <1>9 DEF Kept, Host!Expired
<1> QED BY <1>4, <1>8, <1>9, <1>12, <1>13, <1>14, <1>15

\* A list without its first member.
LEMMA HeadFacts ==
  ASSUME NEW o \in Lists, o # <<>>
  PROVE  /\ Len(o) \in Nat /\ 1 <= Len(o) /\ Head(o) = o[1] /\ o[1] \in Accounts
         /\ Host!Without(o, o[1]) \in Lists /\ Len(Host!Without(o, o[1])) = Len(o) - 1
         /\ \A i \in 1..(Len(o) - 1) : Host!Without(o, o[1])[i] = o[i + 1]
<1> DEFINE p == CHOOSE i \in DOMAIN o : o[i] = o[1]
<1>1. /\ o \in Seq(Accounts) /\ Len(o) \in Nat /\ 1 <= Len(o) /\ DOMAIN o = 1..Len(o)
      /\ Head(o) = o[1]
  BY ListFacts, EmptySeq
<1>2. 1 \in DOMAIN o /\ o[1] \in Members(o) /\ o[1] \in Accounts
  BY <1>1, ListFacts DEF Members
<1>3. p \in DOMAIN o /\ o[p] = o[1]
  BY <1>2
<1>4. p = 1
  BY <1>1, <1>2, <1>3, ListFacts
<1>5. Host!Without(o, o[1]) = Host!RemoveAt(o, p)
  BY <1>2, ListFacts DEF Host!Without
<1> HIDE DEF p
<1>6. \A i \in 1..(Len(o) - 1) : Host!RemoveAt(o, 1)[i] = IF i < 1 THEN o[i] ELSE o[i + 1]
  BY <1>1, <1>2, RemoveFacts
<1>7. \A i \in 1..(Len(o) - 1) : Host!Without(o, o[1])[i] = o[i + 1]
  BY <1>1, <1>4, <1>5, <1>6
<1> QED BY <1>1, <1>2, <1>7, WithoutFacts

\* One turn of the eviction: the oldest committed receipt of the first account
\* leaves, and the account is first again, gone, or last.
LEMMA EvictFacts ==
  ASSUME NEW s, Sound(s), ~(s.total <= bounds.total), s.order # <<>>
  PROVE  LET a == s.order[1]
             t == Host!EvictOnce(s)
         IN  /\ Sound(t) /\ Kept(s, t)
             /\ t.receipts = s.receipts \ Host!Oldest(Host!Committed(s, a))
             /\ \/ t.order = Host!Without(s.order, a)
                \/ t.order = s.order /\ Host!Committed(s, a) # {}
                \/ t.order = Host!ToEnd(s.order, a) /\ Host!Committed(s, a) = {}
<1> DEFINE a == s.order[1]
           out == Host!Oldest(Host!Committed(s, a))
           t == Host!Drop(s, out)
           u == Host!Drop(t, Host!Of(t, a))
           x == [order |-> Host!Without(t.order, a), receipts |-> u.receipts, total |-> u.total]
           y == [order |-> Host!ToEnd(t.order, a), receipts |-> t.receipts, total |-> t.total]
<1>1. s.order \in Lists /\ Head(s.order) = a /\ a \in Accounts
  BY HeadFacts DEF Sound
<1>2. out \in SUBSET s.receipts /\ \A e \in out : ~e.pending
  BY DEF Host!Oldest, Host!Committed, Host!Of
<1>3. Host!EvictOnce(s) =
        IF Host!Of(t, a) = {} THEN x ELSE IF Host!Committed(s, a) = {} THEN y ELSE t
  BY <1>1 DEF Host!EvictOnce, Host!MaxTotal, Host!DropAccount, Host!Ordered, Host!Index
<1> HIDE DEF a, out
<1>4. Sound(t) /\ t.order = s.order /\ t.receipts = s.receipts \ out
  BY <1>2, DropFacts
<1> HIDE DEF t
<1>5. Kept(s, t)
  BY <1>2, <1>4 DEF Kept
<1>6. ASSUME Host!Of(t, a) = {} PROVE Sound(x) /\ x.receipts = t.receipts
  <2>1. u.receipts = t.receipts \ {} /\ u.total = t.total - Cardinality({})
    <3>1. {} \in SUBSET t.receipts
      OBVIOUS
    <3> QED BY <1>4, <1>6, <3>1, DropFacts
  <2>2. t.total \in Nat
    BY <1>4 DEF Sound
  <2>3. u.receipts = t.receipts /\ u.total = t.total
    BY <2>1, <2>2, FS_EmptySet
  <2> HIDE DEF u
  <2>4. /\ Host!Without(t.order, a) \in Lists
        /\ Members(Host!Without(t.order, a)) = Members(t.order) \ {a}
    BY <1>1, <1>4, WithoutFacts
  <2>5. \A e \in t.receipts : e.account \in Members(t.order) \ {a}
    BY <1>4, <1>6 DEF Sound, Host!Of
  <2>6. x.order = Host!Without(t.order, a) /\ x.receipts = t.receipts /\ x.total = t.total
    BY <2>3
  <2>7. x \in [order : Lists, receipts : SUBSET Host!Receipt, total : Nat]
    BY <1>4, <2>3, <2>4 DEF Sound
  <2> HIDE DEF x
  <2> QED BY <1>4, <2>4, <2>5, <2>6, <2>7 DEF Sound
<1>7. Sound(y) /\ y.receipts = t.receipts /\ y.order = Host!ToEnd(s.order, a)
  <2>1. /\ Host!ToEnd(t.order, a) \in Lists
        /\ Members(Host!ToEnd(t.order, a)) = Members(t.order) \cup {a}
    BY <1>1, <1>4, ToEndFacts
  <2>2. y.order = Host!ToEnd(t.order, a) /\ y.receipts = t.receipts /\ y.total = t.total
    OBVIOUS
  <2>3. y \in [order : Lists, receipts : SUBSET Host!Receipt, total : Nat]
    BY <1>4, <2>1 DEF Sound
  <2> HIDE DEF y
  <2> QED BY <1>4, <2>1, <2>2, <2>3 DEF Sound
<1>8. x.order = Host!Without(s.order, a)
  BY <1>4
<1> HIDE DEF x, y
<1> DEFINE r == Host!EvictOnce(s)
<1>9. /\ Sound(r) /\ r.receipts = t.receipts
      /\ \/ r.order = Host!Without(s.order, a)
         \/ r.order = s.order /\ Host!Committed(s, a) # {}
         \/ r.order = Host!ToEnd(s.order, a) /\ Host!Committed(s, a) = {}
  BY <1>3, <1>4, <1>6, <1>7, <1>8
<1> HIDE DEF r
<1>10. Kept(s, r)
  BY <1>5, <1>9 DEF Kept
<1> QED BY <1>4, <1>9, <1>10 DEF a, r, out

\* The eviction is done: the bound holds, or only runs in flight are left.
Done(s) == s.total <= bounds.total \/ \A e \in s.receipts : e.pending

\* What can be evicted, and the last accounts of the list, that have been found to
\* have nothing of it.
Open(s) == {e \in s.receipts : ~e.pending}
Seen(s, v) ==
  \A i \in 1..Len(s.order) : i > Len(s.order) - v =>
      \A e \in s.receipts : e.account = s.order[i] => e.pending

\* The eviction is done after k more turns: each turn finds a receipt, or an account
\* without any.
Near(s, k) ==
  \/ Done(s)
  \/ \E v \in 0..Len(s.order) :
        Seen(s, v) /\ Cardinality(Open(s)) + (Len(s.order) - v) <= k

LEMMA OpenFacts ==
  ASSUME NEW s, Sound(s)
  PROVE  IsFiniteSet(Open(s)) /\ Cardinality(Open(s)) \in Nat /\ Cardinality(Open(s)) <= s.total
<1>1. Open(s) \in SUBSET s.receipts
  BY DEF Open
<1> QED BY <1>1, FS_Subset, FS_CardinalityType DEF Sound

LEMMA NearTurns ==
  ASSUME NEW s, Sound(s), NEW k \in Nat, Near(s, k + 1), bounds.total \in Nat
  PROVE  /\ Sound(Host!EvictOnce(s)) /\ Kept(s, Host!EvictOnce(s))
         /\ Near(Host!EvictOnce(s), k)
         /\ s.total <= bounds.total => Host!EvictOnce(s) = s
<1>1. CASE s.total <= bounds.total
  <2>1. Host!EvictOnce(s) = s
    BY <1>1 DEF Host!EvictOnce, Host!MaxTotal
  <2> QED BY <1>1, <2>1 DEF Near, Done, Kept
<1>2. CASE ~(s.total <= bounds.total) /\ s.order = <<>>
  <2>1. Host!EvictOnce(s) = s
    BY <1>2 DEF Host!EvictOnce
  <2>2. Members(s.order) = {}
    BY <1>2 DEF Members
  <2>3. Done(s)
    BY <2>2 DEF Done, Sound
  <2> QED BY <1>2, <2>1, <2>3 DEF Near, Kept
<1>3. CASE ~(s.total <= bounds.total) /\ s.order # <<>>
  <2> DEFINE a == s.order[1]
             t == Host!EvictOnce(s)
             C == Host!Committed(s, a)
             out == Host!Oldest(C)
             n == Len(s.order)
  <2>1. /\ Sound(t) /\ Kept(s, t) /\ t.receipts = s.receipts \ out
        /\ \/ t.order = Host!Without(s.order, a)
           \/ t.order = s.order /\ C # {}
           \/ t.order = Host!ToEnd(s.order, a) /\ C = {}
    BY <1>3, EvictFacts
  <2>2. s.order \in Lists
    BY DEF Sound
  <2>3. /\ n \in Nat /\ 1 <= n /\ a \in Accounts
        /\ Host!Without(s.order, a) \in Lists /\ Len(Host!Without(s.order, a)) = n - 1
        /\ \A i \in 1..(n - 1) : Host!Without(s.order, a)[i] = s.order[i + 1]
    BY <1>3, <2>2, HeadFacts
  <2>4. out \subseteq C /\ C = {e \in s.receipts : e.account = a /\ ~e.pending}
    BY DEF Host!Oldest, Host!Committed, Host!Of
  <2>5. CASE Done(s)
    <3>1. Done(t)
      BY <1>3, <2>1, <2>5 DEF Done
    <3> QED BY <1>3, <2>1, <3>1 DEF Near
  <2>6. CASE ~Done(s)
    <3>1. PICK v \in 0..n : Seen(s, v) /\ Cardinality(Open(s)) + (n - v) <= k + 1
      BY <2>6 DEF Near
    <3>2. v \in Nat /\ v <= n
      BY <2>3, <3>1
    <3>3. Cardinality(Open(t)) \in Nat /\ Cardinality(Open(s)) \in Nat /\ IsFiniteSet(Open(s))
      BY <2>1, OpenFacts
    <3>4. v # n
      <4> SUFFICES ASSUME v = n PROVE FALSE
        OBVIOUS
      <4>1. \A i \in 1..n : \A e \in s.receipts : e.account = s.order[i] => e.pending
        BY <2>3, <3>1 DEF Seen
      <4>2. \A e \in s.receipts : \E i \in 1..n : e.account = s.order[i]
        <5>1. DOMAIN s.order = 1..n
          BY <2>2, ListFacts
        <5>2. \A e \in s.receipts : e.account \in Members(s.order)
          BY DEF Sound
        <5> HIDE DEF n
        <5> QED BY <5>1, <5>2 DEF Members
      <4>3. \A e \in s.receipts : e.pending
        BY <4>1, <4>2
      <4> QED BY <2>6, <4>3 DEF Done
    <3>5. Open(t) \subseteq Open(s) /\ Cardinality(Open(t)) <= Cardinality(Open(s))
      <4>1. Open(t) \subseteq Open(s)
        BY <2>1 DEF Open
      <4> QED BY <3>3, <4>1, FS_Subset
    <3>6. ASSUME C # {} PROVE Cardinality(Open(t)) <= Cardinality(Open(s)) - 1
      <4>1. C \in SUBSET s.receipts
        BY <2>4
      <4>2. C \in SUBSET Host!Receipt /\ IsFiniteSet(C)
        <5> HIDE DEF C
        <5> QED BY <4>1, FS_Subset DEF Sound
      <4>3. PICK e \in out : TRUE
        BY <3>6, <4>2, OldestExists
      <4>4. e \in Open(s) /\ e \notin Open(t)
        BY <2>1, <2>4, <4>3 DEF Open
      <4>5. Cardinality(Open(t)) # Cardinality(Open(s))
        BY <3>3, <3>5, <4>4, FS_Subset
      <4> QED BY <3>3, <3>5, <4>5
    <3> HIDE DEF t, a, C, out, n
    <3>7. CASE t.order = Host!Without(s.order, a)
      <4>1. Len(t.order) = n - 1 /\ \A i \in 1..(n - 1) : t.order[i] = s.order[i + 1]
        BY <2>3, <3>7
      <4>2. v \in 0..Len(t.order)
        BY <2>3, <3>2, <3>4, <4>1
      <4>3. Seen(t, v)
        <5> SUFFICES ASSUME NEW i \in 1..Len(t.order), i > Len(t.order) - v,
                            NEW e \in t.receipts, e.account = t.order[i]
                     PROVE  e.pending
          BY DEF Seen
        <5>1. i + 1 \in 1..n /\ i + 1 > n - v /\ t.order[i] = s.order[i + 1]
          BY <2>3, <3>2, <4>1
        <5>2. e \in s.receipts
          BY <2>1
        <5> QED BY <3>1, <5>1, <5>2 DEF Seen, n
      <4>4. Cardinality(Open(t)) + (Len(t.order) - v) <= k
        BY <2>3, <3>1, <3>2, <3>3, <3>5, <4>1
      <4> QED BY <1>3, <2>1, <4>2, <4>3, <4>4 DEF Near, t
    <3>8. CASE t.order = s.order /\ C # {}
      <4>1. Seen(t, v)
        BY <2>1, <3>1, <3>8 DEF Seen
      <4>2. Cardinality(Open(t)) + (n - v) <= k
        BY <2>3, <3>1, <3>2, <3>3, <3>6, <3>8
      <4>3. Len(t.order) = n
        BY <3>8 DEF n
      <4> QED BY <1>3, <2>1, <4>1, <4>2, <4>3 DEF Near, t
    <3>9. CASE t.order = Host!ToEnd(s.order, a) /\ C = {}
      <4> DEFINE w == Host!Without(s.order, a)
      <4>1. t.order = Append(w, a)
        BY <2>2, <2>3, <3>9, ToEndFacts
      <4>2. /\ Len(t.order) = n /\ t.order[n] = a
            /\ \A i \in 1..(n - 1) : t.order[i] = s.order[i + 1]
        <5>1. w \in Seq(Accounts) /\ Len(w) = n - 1
          BY <2>3, ListFacts
        <5>2. \A i \in 1..(n - 1) : w[i] = s.order[i + 1]
          BY <2>3
        <5> HIDE DEF w
        <5>3. /\ Len(t.order) = Len(w) + 1 /\ t.order[Len(w) + 1] = a
              /\ \A i \in 1..Len(w) : t.order[i] = w[i]
          BY <2>3, <4>1, <5>1, AppendProperties
        <5>4. Len(w) + 1 = n
          BY <2>3, <5>1
        <5> QED BY <5>1, <5>2, <5>3, <5>4
      <4>3. v + 1 \in 0..n
        BY <2>3, <3>2, <3>4
      <4>4. Seen(t, v + 1)
        <5> SUFFICES ASSUME NEW i \in 1..Len(t.order), i > Len(t.order) - (v + 1),
                            NEW e \in t.receipts, e.account = t.order[i]
                     PROVE  e.pending
          BY DEF Seen
        <5>1. e \in s.receipts
          BY <2>1
        <5>2. CASE i = n
          BY <2>4, <3>9, <4>2, <5>1, <5>2
        <5>3. CASE i # n
          <6>1. i \in 1..(n - 1) /\ i + 1 \in 1..n /\ i + 1 > n - v
            BY <2>3, <3>2, <4>2, <5>3
          <6> QED BY <3>1, <4>2, <5>1, <6>1 DEF Seen, n
        <5> QED BY <5>2, <5>3
      <4>5. Cardinality(Open(t)) + (Len(t.order) - (v + 1)) <= k
        BY <2>3, <3>1, <3>2, <3>3, <3>5, <4>2
      <4> QED BY <1>3, <2>1, <4>2, <4>3, <4>4, <4>5 DEF Near, t
    <3> QED BY <2>1, <3>7, <3>8, <3>9 DEF t
  <2> QED BY <2>5, <2>6
<1> QED BY <1>1, <1>2, <1>3

\* The turns of the eviction, from an index on.
Turns(d, g) ==
  CHOOSE f : f = [n \in 0..g |-> IF n = 0 THEN d ELSE Host!EvictOnce(f[n - 1])]
Guard(s) == Len(Host!DrainDeparted(s).order) + Host!DrainDeparted(s).total

LEMMA CompactIsTurns ==
  ASSUME NEW s
  PROVE  Host!Compact(s) = Turns(Host!DrainDeparted(s), Guard(s))[Guard(s)]
  BY DEF Host!Compact, Turns, Guard

LEMMA TurnsExist ==
  ASSUME NEW d, NEW g \in Nat
  PROVE  /\ Turns(d, g)[0] = d
         /\ \A n \in 1..g : Turns(d, g)[n] = Host!EvictOnce(Turns(d, g)[n - 1])
<1> DEFINE IsTurns(f, m) == f = [n \in 0..m |-> IF n = 0 THEN d ELSE Host!EvictOnce(f[n - 1])]
           S == {m \in Nat : \E f : IsTurns(f, m)}
<1>1. 0 \in S
  <2> DEFINE f == [n \in 0..0 |-> d]
  <2>1. f = [n \in 0..0 |-> IF n = 0 THEN d ELSE Host!EvictOnce(f[n - 1])]
    <3>1. \A n \in 0..0 : n = 0
      OBVIOUS
    <3> QED BY <3>1
  <2> QED BY <2>1
<1>2. ASSUME NEW m \in Nat, m \in S PROVE m + 1 \in S
  <2>1. PICK f : IsTurns(f, m)
    BY <1>2
  <2> DEFINE h == [n \in 0..(m + 1) |-> IF n <= m THEN f[n] ELSE Host!EvictOnce(f[m])]
  <2>2. \A n \in 0..m : f[n] = IF n = 0 THEN d ELSE Host!EvictOnce(f[n - 1])
    BY <2>1
  <2>3. ASSUME NEW n \in 0..(m + 1)
        PROVE  h[n] = IF n = 0 THEN d ELSE Host!EvictOnce(h[n - 1])
    <3>1. CASE n = 0
      <4>1. h[n] = f[0] /\ 0 \in 0..m
        BY <3>1
      <4> QED BY <2>2, <3>1, <4>1
    <3>2. CASE n # 0 /\ n <= m
      <4>1. n \in 0..m /\ n - 1 \in 0..(m + 1) /\ n - 1 <= m
        BY <3>2
      <4>2. h[n] = f[n] /\ h[n - 1] = f[n - 1]
        BY <3>2, <4>1
      <4> HIDE DEF h
      <4> QED BY <2>2, <3>2, <4>1, <4>2
    <3>3. CASE n = m + 1
      <4>1. n - 1 = m /\ m \in 0..(m + 1) /\ ~(n <= m) /\ n # 0
        BY <3>3
      <4>2. h[n] = Host!EvictOnce(f[m]) /\ h[n - 1] = f[m]
        BY <3>3, <4>1
      <4> HIDE DEF h
      <4> QED BY <4>1, <4>2
    <3>4. n = 0 \/ n <= m \/ n = m + 1
      OBVIOUS
    <3> QED BY <3>1, <3>2, <3>3, <3>4
  <2>4. h = [n \in 0..(m + 1) |-> IF n = 0 THEN d ELSE Host!EvictOnce(h[n - 1])]
    <3>1. h = [n \in 0..(m + 1) |-> h[n]]
      OBVIOUS
    <3> HIDE DEF h
    <3> QED BY <2>3, <3>1
  <2> HIDE DEF h
  <2> QED BY <2>4
<1>3. g \in S
  <2> HIDE DEF S
  <2> QED BY <1>1, <1>2, Induction
<1>4. \E f : f = [n \in 0..g |-> IF n = 0 THEN d ELSE Host!EvictOnce(f[n - 1])]
  BY <1>3
<1> DEFINE f == Turns(d, g)
<1>5. f = [n \in 0..g |-> IF n = 0 THEN d ELSE Host!EvictOnce(f[n - 1])]
  BY <1>4 DEF Turns
<1> HIDE DEF f
<1>6. f[0] = d
  <2>1. 0 \in 0..g
    OBVIOUS
  <2> QED BY <1>5, <2>1
<1>7. ASSUME NEW n \in 1..g PROVE f[n] = Host!EvictOnce(f[n - 1])
  <2>1. n \in 0..g /\ n # 0
    OBVIOUS
  <2> QED BY <1>5, <2>1
<1> QED BY <1>6, <1>7 DEF f

\* What compact takes out, and that it restores the bound of all accounts.
LEMMA CompactFacts ==
  ASSUME NEW s, Sound(s), bounds.total \in Nat
  PROVE  /\ Sound(Host!Compact(s)) /\ Kept(s, Host!Compact(s)) /\ Done(Host!Compact(s))
         /\ s.total <= bounds.total =>
                \A e \in s.receipts \ Host!Compact(s).receipts : Host!Expired(e)
<1> DEFINE d == Host!DrainDeparted(s)
           g == Guard(s)
           f == Turns(d, g)
           S == {n \in Nat : n <= g =>
                    /\ Sound(f[n]) /\ Kept(d, f[n]) /\ Near(f[n], g - n)
                    /\ d.total <= bounds.total => f[n] = d}
<1>1. /\ Sound(d) /\ Kept(s, d)
      /\ \A e \in s.receipts \ d.receipts : Host!Expired(e)
      /\ d.total <= s.total
  BY DrainFacts
<1>2. d.order \in Lists /\ Len(d.order) \in Nat /\ d.total \in Nat
  BY <1>1, ListFacts DEF Sound
<1>3. g \in Nat /\ g = Len(d.order) + d.total
  BY <1>2 DEF Guard
<1>4. Host!Compact(s) = f[g]
  BY CompactIsTurns
<1> HIDE DEF d, g
<1>5. f[0] = d /\ \A n \in 1..g : f[n] = Host!EvictOnce(f[n - 1])
  BY <1>3, TurnsExist
<1> HIDE DEF f
<1>6. Near(d, g)
  <2>1. Seen(d, 0)
    BY <1>2 DEF Seen
  <2>2. Cardinality(Open(d)) \in Nat /\ Cardinality(Open(d)) <= d.total
    BY <1>1, OpenFacts
  <2>3. 0 \in 0..Len(d.order) /\ Cardinality(Open(d)) + (Len(d.order) - 0) <= g
    BY <1>2, <1>3, <2>2
  <2> QED BY <2>1, <2>3 DEF Near
<1>7. 0 \in S
  <2>1. g - 0 = g /\ Kept(d, d)
    BY <1>3 DEF Kept
  <2> QED BY <1>1, <1>5, <1>6, <2>1
<1>8. ASSUME NEW n \in Nat, n \in S PROVE n + 1 \in S
  <2> SUFFICES ASSUME n + 1 <= g
               PROVE  /\ Sound(f[n + 1]) /\ Kept(d, f[n + 1]) /\ Near(f[n + 1], g - (n + 1))
                      /\ d.total <= bounds.total => f[n + 1] = d
    OBVIOUS
  <2>1. n <= g /\ n + 1 \in 1..g /\ (n + 1) - 1 = n /\ g - (n + 1) \in Nat
        /\ (g - (n + 1)) + 1 = g - n
    BY <1>3
  <2>2. /\ Sound(f[n]) /\ Kept(d, f[n]) /\ Near(f[n], (g - (n + 1)) + 1)
        /\ d.total <= bounds.total => f[n] = d
    BY <1>8, <2>1
  <2>3. f[n + 1] = Host!EvictOnce(f[n])
    BY <1>5, <2>1
  <2>4. /\ Sound(f[n + 1]) /\ Kept(f[n], f[n + 1]) /\ Near(f[n + 1], g - (n + 1))
        /\ f[n].total <= bounds.total => f[n + 1] = f[n]
    BY <2>1, <2>2, <2>3, NearTurns
  <2>5. Kept(d, f[n + 1])
    BY <2>2, <2>4, KeptChains
  <2> QED BY <2>2, <2>4, <2>5
<1>9. g \in S
  <2> HIDE DEF S
  <2> QED BY <1>3, <1>7, <1>8, Induction
<1>10. /\ Sound(f[g]) /\ Kept(d, f[g]) /\ Near(f[g], 0)
       /\ d.total <= bounds.total => f[g] = d
  <2>1. g <= g /\ g - g = 0
    BY <1>3
  <2> QED BY <1>9, <2>1
<1>11. Done(f[g])
  <2> SUFFICES ASSUME ~Done(f[g]) PROVE FALSE
    OBVIOUS
  <2> DEFINE t == f[g]
  <2>1. PICK v \in 0..Len(t.order) :
            Seen(t, v) /\ Cardinality(Open(t)) + (Len(t.order) - v) <= 0
    BY <1>10 DEF Near
  <2>2. /\ t.order \in Lists /\ Len(t.order) \in Nat
        /\ IsFiniteSet(Open(t)) /\ Cardinality(Open(t)) \in Nat
    BY <1>10, ListFacts, OpenFacts DEF Sound
  <2>3. Cardinality(Open(t)) = 0
    BY <2>1, <2>2
  <2>4. Open(t) = {}
    BY <2>2, <2>3, FS_EmptySet
  <2> QED BY <2>4 DEF Done, Open
<1>12. Kept(s, f[g])
  BY <1>1, <1>10, KeptChains
<1>13. s.total <= bounds.total => \A e \in s.receipts \ f[g].receipts : Host!Expired(e)
  <2>1. s.total \in Nat
    BY DEF Sound
  <2>2. s.total <= bounds.total => d.total <= bounds.total
    BY <1>1, <1>2, <2>1
  <2> QED BY <1>1, <1>10, <2>2
<1> QED BY <1>4, <1>10, <1>11, <1>12, <1>13

-----------------------------------------------------------------------------
(* The index after a command has been entered, and after a line has been adopted *)

\* As many receipts as there are requests.
LEMMA CountFacts ==
  ASSUME NEW s, Sound(s), IsFiniteSet(Accounts), IsFiniteSet(Requests)
  PROVE  /\ s.total <= Cardinality(Accounts) * Cardinality(Requests)
         /\ \A a : Cardinality(Host!Of(s, a)) <= Cardinality(Requests)
<1>1. /\ IsFiniteSet(Accounts \X Requests)
      /\ Cardinality(Accounts \X Requests) = Cardinality(Accounts) * Cardinality(Requests)
  BY FS_Product
<1>2. s.receipts \subseteq Host!Receipt /\ s.total = Cardinality(s.receipts)
  BY DEF Sound
<1>3. \A e, f \in s.receipts : Host!Same(e, f) => e = f
  BY DEF Sound
<1>4. Cardinality(s.receipts) <= Cardinality(Accounts \X Requests)
  <2> DEFINE key == [e \in s.receipts |-> <<e.account, e.req>>]
  <2>1. key \in [s.receipts -> Accounts \X Requests]
    BY <1>2 DEF Host!Receipt
  <2>2. \A e, f \in s.receipts : key[e] = key[f] => e = f
    BY <1>3 DEF Host!Same
  <2>3. DOMAIN key = s.receipts
    OBVIOUS
  <2> HIDE DEF key
  <2>4. key \in Injection(s.receipts, Accounts \X Requests)
    BY <2>1, <2>2, <2>3 DEF Injection, IsInjective
  <2> QED BY <1>1, <2>4, FS_Injection
<1>5. ASSUME NEW a PROVE Cardinality(Host!Of(s, a)) <= Cardinality(Requests)
  <2> DEFINE own == Host!Of(s, a)
             key == [e \in own |-> e.req]
  <2>1. own \subseteq s.receipts /\ \A e \in own : e.account = a
    BY DEF Host!Of
  <2> HIDE DEF own
  <2>2. key \in [own -> Requests]
    BY <1>2, <2>1 DEF Host!Receipt
  <2>3. \A e, f \in own : key[e] = key[f] => e = f
    BY <1>3, <2>1 DEF Host!Same
  <2>4. DOMAIN key = own
    OBVIOUS
  <2> HIDE DEF key
  <2>5. key \in Injection(own, Requests)
    BY <2>2, <2>3, <2>4 DEF Injection, IsInjective
  <2> QED BY <2>5, FS_Injection DEF own
<1> QED BY <1>1, <1>2, <1>4, <1>5

\* Within the bound of an account, or nothing but runs in flight.
Fits(s, a) ==
  \/ Cardinality(Host!Of(s, a)) <= bounds.perAccount
  \/ \A e \in Host!Of(s, a) : e.pending

LEMMA FitsStays ==
  ASSUME NEW s, Sound(s), NEW t, t.receipts \subseteq s.receipts, NEW a,
         NEW out, Host!Of(t, a) \subseteq Host!Of(s, a) \ out, bounds.perAccount \in Nat,
         \/ Cardinality(Host!Of(s, a) \ out) <= bounds.perAccount
         \/ \A e \in Host!Of(s, a) \ out : e.pending
  PROVE  Fits(t, a)
<1> DEFINE left == Host!Of(s, a) \ out
<1>1. left \in SUBSET s.receipts /\ IsFiniteSet(s.receipts)
  BY DEF Host!Of, Sound
<1> HIDE DEF left
<1>2. IsFiniteSet(left)
  BY <1>1, FS_Subset
<1>3. Host!Of(t, a) \in SUBSET left
  BY DEF left
<1>4. /\ Cardinality(Host!Of(t, a)) <= Cardinality(left)
      /\ Cardinality(left) \in Nat /\ Cardinality(Host!Of(t, a)) \in Nat
  BY <1>2, <1>3, FS_Subset, FS_CardinalityType
<1> QED BY <1>3, <1>4 DEF Fits, left

LEMMA EnteredFacts ==
  ASSUME NEW s, Sound(s), NEW a, bounds.perAccount \in Nat, bounds.total \in Nat
  PROVE  LET t == Host!Compact(Host!Sweep(s, a))
         IN  /\ Sound(t) /\ Kept(s, t) /\ Done(t) /\ Fits(t, a)
             /\ s.total <= bounds.total /\ Cardinality(Host!Of(s, a)) <= bounds.perAccount =>
                    \A e \in s.receipts \ t.receipts : Host!Expired(e)
<1> DEFINE u == Host!Sweep(s, a)
           t == Host!Compact(u)
           out == Host!Swept(s, a)
<1>1. Sound(u) /\ Kept(s, u) /\ u.receipts = s.receipts \ out
  BY SweepFacts
<1>2. /\ \/ Cardinality(Host!Of(s, a) \ out) <= bounds.perAccount
         \/ \A e \in Host!Of(s, a) \ out : e.pending
      /\ Cardinality(Host!Of(s, a)) <= bounds.perAccount => \A e \in out : Host!Expired(e)
  BY SweptFacts
<1> HIDE DEF u, out
<1>3. /\ Sound(t) /\ Kept(u, t) /\ Done(t)
      /\ u.total <= bounds.total => \A e \in u.receipts \ t.receipts : Host!Expired(e)
  BY <1>1, CompactFacts
<1> HIDE DEF t
<1>4. Kept(s, t)
  BY <1>1, <1>3, KeptChains
<1>5. t.receipts \subseteq s.receipts /\ Host!Of(t, a) \subseteq Host!Of(s, a) \ out
  BY <1>1, <1>3 DEF Kept, Host!Of
<1>6. Fits(t, a)
  BY <1>2, <1>5, FitsStays
<1>7. u.total <= s.total /\ u.total \in Nat /\ s.total \in Nat
  <2>1. u.receipts \in SUBSET s.receipts
    BY <1>1
  <2> QED BY <1>1, <2>1, FS_Subset DEF Sound
<1>8. ASSUME s.total <= bounds.total, Cardinality(Host!Of(s, a)) <= bounds.perAccount
      PROVE  \A e \in s.receipts \ t.receipts : Host!Expired(e)
  <2>1. u.total <= bounds.total
    BY <1>7, <1>8
  <2> QED BY <1>1, <1>2, <1>3, <1>8, <2>1
<1> QED BY <1>3, <1>4, <1>6, <1>8 DEF t, u

LEMMA AdoptedFacts ==
  ASSUME NEW s, Sound(s), bounds.perAccount \in Nat, bounds.total \in Nat
  PROVE  LET t == Host!Compact(Host!SweepAll(s))
         IN  /\ Sound(t) /\ Kept(s, t) /\ Done(t) /\ \A a : Fits(t, a)
             /\ s.total <= bounds.total /\ (\A a : Cardinality(Host!Of(s, a)) <= bounds.perAccount) =>
                    \A e \in s.receipts \ t.receipts : Host!Expired(e)
<1> DEFINE u == Host!SweepAll(s)
           t == Host!Compact(u)
<1>1. /\ Sound(u) /\ Kept(s, u)
      /\ \A e \in s.receipts : e \in u.receipts <=> e \notin Host!Swept(s, e.account)
  BY SweepAllFacts
<1>2. \A a : /\ \/ Cardinality(Host!Of(s, a) \ Host!Swept(s, a)) <= bounds.perAccount
                \/ \A e \in Host!Of(s, a) \ Host!Swept(s, a) : e.pending
             /\ Cardinality(Host!Of(s, a)) <= bounds.perAccount =>
                    \A e \in Host!Swept(s, a) : Host!Expired(e)
  BY SweptFacts
<1> HIDE DEF u
<1>3. /\ Sound(t) /\ Kept(u, t) /\ Done(t)
      /\ u.total <= bounds.total => \A e \in u.receipts \ t.receipts : Host!Expired(e)
  BY <1>1, CompactFacts
<1> HIDE DEF t
<1>4. Kept(s, t)
  BY <1>1, <1>3, KeptChains
<1>5. ASSUME NEW a PROVE Fits(t, a)
  <2>1. t.receipts \subseteq s.receipts
    BY <1>4 DEF Kept
  <2>2. Host!Of(t, a) \subseteq Host!Of(s, a) \ Host!Swept(s, a)
    BY <1>1, <1>3 DEF Kept, Host!Of
  <2> QED BY <1>2, <2>1, <2>2, FitsStays
<1>6. u.total <= s.total /\ u.total \in Nat /\ s.total \in Nat
  <2>1. u.receipts \in SUBSET s.receipts
    BY <1>1 DEF Kept
  <2> QED BY <1>1, <2>1, FS_Subset DEF Sound
<1>7. ASSUME s.total <= bounds.total, \A a : Cardinality(Host!Of(s, a)) <= bounds.perAccount
      PROVE  \A e \in s.receipts \ t.receipts : Host!Expired(e)
  <2>1. u.total <= bounds.total
    BY <1>6, <1>7
  <2>2. \A e \in s.receipts \ u.receipts : Host!Expired(e)
    BY <1>1, <1>2, <1>7
  <2> QED BY <1>3, <2>1, <2>2
<1> QED BY <1>3, <1>4, <1>5, <1>7 DEF t, u

\* The index that is rebuilt of a line holds the records of the line.
LEMMA RebuiltFacts ==
  ASSUME line \subseteq Host!Record, IsFiniteSet(line),
         \A l, m \in line : Host!Same(l, m) => l = m,
         NEW at \in Host!ByCommitTime, NEW o \in Host!ByLastUse(at)
  PROVE  LET s == Host!Rebuilt(at, o)
         IN  /\ Sound(s)
             /\ \A e \in s.receipts : ~e.pending /\ \E l \in line :
                    /\ e.account = l.account /\ e.req = l.req /\ e.ts = l.ts /\ e.run = l.run
             /\ \A l \in line : \E e \in s.receipts :
                    /\ e.account = l.account /\ e.req = l.req /\ e.ts = l.ts /\ e.run = l.run
<1> DEFINE of(l) == [account |-> l.account, req |-> l.req, ts |-> l.ts, run |-> l.run,
                     pending |-> FALSE, at |-> at[l]]
           rs == {of(l) : l \in line}
           users == {l.account : l \in line}
           s == [order |-> o, receipts |-> rs, total |-> Cardinality(line)]
<1>1. Host!Rebuilt(at, o) = s
  BY SameCount DEF Host!Rebuilt, Host!Index
<1>2. Cardinality(line) \in Nat
  BY FS_CardinalityType
<1>3. at \in [line -> (1 - Cardinality(line))..0]
  BY SameCount DEF Host!ByCommitTime
<1>4. \A l \in line : at[l] \in Int
  BY <1>2, <1>3
<1>5. \A l \in line : /\ l.account \in Accounts /\ l.req \in Requests /\ l.ts \in Nat /\ l.run \in Nat
  BY DEF Host!Record
<1>6. rs \in SUBSET Host!Receipt
  <2> SUFFICES ASSUME NEW l \in line PROVE of(l) \in Host!Receipt
    OBVIOUS
  <2>1. FALSE \in BOOLEAN
    OBVIOUS
  <2> QED BY <1>4, <1>5, <2>1 DEF Host!Receipt
<1>7. IsFiniteSet(rs) /\ Cardinality(rs) = Cardinality(line)
  <2> DEFINE f == [l \in line |-> of(l)]
  <2>1. f \in [line -> rs] /\ \A e \in rs : \E l \in line : f[l] = e
    OBVIOUS
  <2>2. \A l, m \in line : f[l] = f[m] => l = m
    BY DEF Host!Same
  <2>3. DOMAIN f = line
    OBVIOUS
  <2> HIDE DEF f, rs
  <2>4. f \in Surjection(line, rs) /\ f \in Injection(line, rs)
    BY <2>1, <2>2, <2>3 DEF Surjection, Injection, IsInjective
  <2> QED BY <2>4, FS_Surjection
<1>8. o \in Lists /\ Members(o) = users
  <2> DEFINE n == Cardinality(users)
  <2>1. IsFiniteSet(users)
    <3> DEFINE g == [l \in line |-> l.account]
    <3>1. g \in [line -> users] /\ \A a \in users : \E l \in line : g[l] = a
      OBVIOUS
    <3> HIDE DEF g, users
    <3>2. g \in Surjection(line, users)
      BY <3>1 DEF Surjection
    <3> QED BY <3>2, FS_Surjection
  <2>2. n \in Nat /\ users \subseteq Accounts
    BY <1>5, <2>1, FS_CardinalityType
  <2>3. /\ o \in [1..n -> users]
        /\ \A i, j \in DOMAIN o : i < j =>
              \E l \in line : l.account = o[j] /\ \A m \in line : m.account = o[i] => at[m] < at[l]
    BY SameCount DEF Host!ByLastUse
  <2> HIDE DEF n
  <2>4. DOMAIN o = 1..n
    BY <2>3
  <2>5. ASSUME NEW i \in 1..n, NEW j \in 1..n, i < j PROVE o[i] # o[j]
    <3>1. PICK l \in line : l.account = o[j] /\ \A m \in line : m.account = o[i] => at[m] < at[l]
      BY <2>3, <2>4, <2>5
    <3> QED BY <1>4, <3>1
  <2>6. \A i, j \in 1..n : o[i] = o[j] => i = j
    <3> TAKE i, j \in 1..n
    <3>1. i < j \/ j < i \/ i = j
      BY <2>2
    <3> QED BY <2>5, <3>1
  <2> HIDE DEF users
  <2>7. o \in Injection(1..n, users)
    BY <2>3, <2>4, <2>6 DEF Injection, IsInjective
  <2>8. Cardinality(1..n) = n /\ n = Cardinality(users)
    <3>1. Cardinality(1..n) = IF 1 > n THEN 0 ELSE n - 1 + 1
      BY <2>2, FS_Interval
    <3> QED BY <2>2, <3>1 DEF n
  <2>9. o \in Surjection(1..n, users)
    BY <2>1, <2>7, <2>8, FS_Injection
  <2>10. Members(o) = users
    BY <2>4, <2>9 DEF Surjection, Members
  <2>11. o \in [1..n -> Accounts]
    BY <2>2, <2>3
  <2>12. o \in Seq(Accounts)
    BY <2>2, <2>11, SeqDef
  <2> QED BY <2>4, <2>6, <2>10, <2>12 DEF Lists
<1>9. ASSUME NEW e \in rs, NEW f \in rs, Host!Same(e, f) PROVE e = f
  <2>1. PICK l \in line : e = of(l)
    OBVIOUS
  <2>2. PICK m \in line : f = of(m)
    OBVIOUS
  <2>3. Host!Same(l, m)
    BY <1>9, <2>1, <2>2 DEF Host!Same
  <2> QED BY <2>1, <2>2, <2>3
<1>10. s.order = o /\ s.receipts = rs /\ s.total = Cardinality(line)
  OBVIOUS
<1>11. s \in [order : Lists, receipts : SUBSET Host!Receipt, total : Nat]
  BY <1>2, <1>6, <1>8
<1>12. \A e \in rs : /\ ~e.pending /\ e.account \in users
                     /\ \E l \in line : e.account = l.account /\ e.req = l.req /\ e.ts = l.ts /\ e.run = l.run
  OBVIOUS
<1>13. \A l \in line : of(l) \in rs
  OBVIOUS
<1>14. \A l \in line : \E e \in rs : e.account = l.account /\ e.req = l.req /\ e.ts = l.ts /\ e.run = l.run
  <2> TAKE l \in line
  <2> WITNESS of(l) \in rs
  <2> QED OBVIOUS
<1> HIDE DEF s, rs, users
<1>15. Sound(s)
  BY <1>7, <1>8, <1>9, <1>10, <1>11, <1>12 DEF Sound
<1> QED BY <1>1, <1>10, <1>12, <1>14, <1>15

-----------------------------------------------------------------------------
(* The invariant of the command host *)

Idx == Host!Index(order, receipts, total)

HostTyped ==
  /\ bounds \in Bounds /\ now \in 0..MaxNow /\ runs \in 0..MaxRuns
  /\ Sound(Idx)
  /\ line \subseteq Host!Record /\ published \subseteq Host!Record
  /\ running \subseteq Host!Run /\ entered \in Seq(Host!Run)
  /\ attached \in BOOLEAN /\ hostClosed \in BOOLEAN

LineKeyed == IsFiniteSet(line) /\ \A l, m \in line : Host!Same(l, m) => l = m

\* A run in flight is the only one of its number; what has its number in the index is
\* its own reservation, and nothing on the line has it.
RunsKnown ==
  /\ \A x \in running : x.id <= runs /\ \A y \in running : x.id = y.id => x = y
  /\ \A e \in receipts : e.run <= runs
  /\ \A l \in line : l.run <= runs
  /\ \A x \in running : \A e \in receipts : e.run = x.id => e.pending /\ Host!Same(e, x)
  /\ \A x \in running : \A l \in line : l.run # x.id

\* With bounds that evict nothing, a commit on record that has not expired is answered
\* from the line.
CommitsAnswered ==
  /\ \A p \in published : p.ts <= now
  /\ Host!EvictsNothing =>
        \A p \in published : p.ts > now - KeepMs =>
            \E l \in line : Host!Same(l, p) /\ l.ts >= p.ts

HostInv == HostTyped /\ LineKeyed /\ RunsKnown /\ CommitsAnswered /\ Host!LineIsIndex

LEMMA BoundsFacts ==
  ASSUME Host!CommandAssumption, bounds \in Bounds
  PROVE  /\ bounds.perAccount \in Nat /\ bounds.total \in Nat
         /\ KeepMs \in Nat /\ MaxNow \in Nat /\ MaxRuns \in Nat
         /\ IsFiniteSet(Accounts) /\ IsFiniteSet(Requests)
  BY DEF Host!CommandAssumption, Host!IsFiniteSet, IsFiniteSet

LEMMA IdxFacts ==
  /\ Idx.order = order /\ Idx.receipts = receipts /\ Idx.total = total
  /\ Idx = [order |-> order, receipts |-> receipts, total |-> total]
  BY DEF Idx, Host!Index

LEMMA HostTypedGives ==
  ASSUME HostTyped
  PROVE  /\ order \in Lists /\ receipts \subseteq Host!Receipt /\ total \in Nat
         /\ IsFiniteSet(receipts) /\ total = Cardinality(receipts)
         /\ \A e \in receipts : e.account \in Members(order)
         /\ \A e, f \in receipts : Host!Same(e, f) => e = f
         /\ now \in Nat /\ runs \in Nat
  BY IdxFacts DEF HostTyped, Sound

\* With bounds that evict nothing the index is within them.
LEMMA NothingEvicted ==
  ASSUME Host!CommandAssumption, bounds \in Bounds, Host!EvictsNothing, NEW s, Sound(s)
  PROVE  /\ s.total <= bounds.total
         /\ \A a : Cardinality(Host!Of(s, a)) <= bounds.perAccount
<1>1. /\ bounds.perAccount >= Cardinality(Requests)
      /\ bounds.total >= Cardinality(Requests) * Cardinality(Accounts)
  BY SameCount DEF Host!EvictsNothing, Host!MaxPerAccount, Host!MaxTotal
<1>2. IsFiniteSet(Accounts) /\ IsFiniteSet(Requests) /\ bounds.perAccount \in Nat /\ bounds.total \in Nat
  BY BoundsFacts
<1>3. Cardinality(Accounts) \in Nat /\ Cardinality(Requests) \in Nat
  BY <1>2, FS_CardinalityType
<1>4. /\ s.total <= Cardinality(Accounts) * Cardinality(Requests)
      /\ \A a : Cardinality(Host!Of(s, a)) <= Cardinality(Requests)
  BY <1>2, CountFacts
<1>5. s.total \in Nat
  BY DEF Sound
<1>6. Cardinality(Accounts) * Cardinality(Requests) = Cardinality(Requests) * Cardinality(Accounts)
  BY <1>3
<1>7. s.total <= bounds.total
  <2>1. Cardinality(Requests) * Cardinality(Accounts) \in Nat
    BY <1>3
  <2> DEFINE m == Cardinality(Requests) * Cardinality(Accounts)
  <2>2. s.total <= m /\ bounds.total >= m /\ m \in Nat
    BY <1>1, <1>4, <1>6, <2>1
  <2> HIDE DEF m
  <2> QED BY <1>2, <1>5, <2>2
<1>8. ASSUME NEW a PROVE Cardinality(Host!Of(s, a)) <= bounds.perAccount
  <2>1. Host!Of(s, a) \in SUBSET s.receipts
    BY DEF Host!Of
  <2>2. Cardinality(Host!Of(s, a)) \in Nat
    BY <2>1, FS_Subset, FS_CardinalityType DEF Sound
  <2> QED BY <1>1, <1>2, <1>3, <1>4, <2>2
<1> QED BY <1>7, <1>8

LEMMA HostInit ==
  ASSUME Host!CommandAssumption, Host!Init PROVE HostInv
<1>1. /\ bounds \in Bounds /\ now = 0 /\ order = <<>> /\ receipts = {} /\ total = 0
      /\ attached = TRUE /\ line = {} /\ running = {} /\ entered = <<>> /\ runs = 0
      /\ hostClosed = FALSE /\ published = {}
  BY DEF Host!Init
<1>2. <<>> \in Lists /\ <<>> \in Seq(Host!Run)
  BY DEF Lists
<1>3. IsFiniteSet({}) /\ Cardinality({}) = 0
  BY FS_EmptySet
<1>4. Sound(Idx)
  <2>1. Idx \in [order : Lists, receipts : SUBSET Host!Receipt, total : Nat]
    BY <1>1, <1>2, IdxFacts
  <2> HIDE DEF Idx
  <2> QED BY <1>1, <1>3, <2>1, IdxFacts DEF Sound
<1>5. HostTyped
  <2>1. MaxNow \in Nat /\ MaxRuns \in Nat
    BY <1>1, BoundsFacts
  <2>2. now \in 0..MaxNow /\ runs \in 0..MaxRuns
    BY <1>1, <2>1
  <2>3. entered \in Seq(Host!Run)
    BY <1>1, <1>2, Zenon
  <2>4. /\ line \subseteq Host!Record /\ published \subseteq Host!Record
        /\ running \subseteq Host!Run /\ attached \in BOOLEAN /\ hostClosed \in BOOLEAN
    BY <1>1
  <2> QED BY <1>1, <1>4, <2>2, <2>3, <2>4 DEF HostTyped
<1>6. LineKeyed /\ RunsKnown /\ CommitsAnswered
  BY <1>1, <1>3 DEF LineKeyed, RunsKnown, CommitsAnswered
<1>7. Host!LineIsIndex
  BY <1>1 DEF Host!LineIsIndex, Host!Recorded
<1> QED BY <1>5, <1>6, <1>7 DEF HostInv

LEMMA IdxStep ==
  ASSUME NEW s, Sound(s), order' = s.order, receipts' = s.receipts, total' = s.total
  PROVE  Sound(Idx)'
<1>1. s = [order |-> s.order, receipts |-> s.receipts, total |-> s.total]
  BY DEF Sound
<1>2. Idx' = [order |-> order', receipts |-> receipts', total |-> total']
  BY DEF Idx, Host!Index
<1>3. Idx' = s
  BY <1>1, <1>2
<1> QED BY <1>3 DEF Sound

RecordOf(e) == [account |-> e.account, req |-> e.req, ts |-> e.ts, run |-> e.run]

LEMMA RecordedFacts ==
  /\ Host!Recorded = {RecordOf(e) : e \in {f \in receipts : ~f.pending}}
  /\ \A l : l \in Host!Recorded <=> \E e \in receipts : ~e.pending /\ l = RecordOf(e)
  BY DEF Host!Recorded, RecordOf

\* What leaves the index and the line as they are, but for the order of the accounts.
LEMMA OrderKeeps ==
  ASSUME HostInv, bounds' = bounds, order' \in Lists,
         \A e \in receipts : e.account \in Members(order'),
         now' \in now..MaxNow, running' \subseteq running, runs' = runs,
         UNCHANGED <<receipts, total, attached, line, hostClosed, published>>,
         entered' \in Seq(Host!Run), Host!CommandAssumption
  PROVE  HostInv'
<1>1. HostTyped /\ LineKeyed /\ RunsKnown /\ CommitsAnswered /\ Host!LineIsIndex
  BY DEF HostInv
<1>2. Sound(Idx)'
  <2> DEFINE s == [order |-> order', receipts |-> receipts, total |-> total]
  <2>1. s \in [order : Lists, receipts : SUBSET Host!Receipt, total : Nat]
    BY <1>1, HostTypedGives
  <2>2. s.order = order' /\ s.receipts = receipts /\ s.total = total
    OBVIOUS
  <2> HIDE DEF s
  <2>3. Sound(s)
    BY <1>1, <2>1, <2>2, HostTypedGives DEF Sound
  <2> QED BY <2>2, <2>3, IdxStep
<1>3. HostTyped'
  <2>1. MaxNow \in Nat /\ now \in Nat
    BY <1>1, BoundsFacts, HostTypedGives DEF HostTyped
  <2>2. now' \in 0..MaxNow
    BY <2>1
  <2> QED BY <1>1, <1>2, <2>2 DEF HostTyped
<1>4. LineKeyed' /\ RunsKnown'
  BY <1>1 DEF LineKeyed, RunsKnown
<1>5. Host!LineIsIndex'
  BY <1>1 DEF Host!LineIsIndex, Host!Recorded
<1>6. CommitsAnswered'
  <2>1. now \in Nat /\ now' \in Int /\ now <= now' /\ KeepMs \in Nat
    BY <1>1, BoundsFacts, HostTypedGives DEF HostTyped
  <2>2. \A p \in published : p.ts \in Nat
    BY <1>1 DEF HostTyped, Host!Record
  <2>3. Host!EvictsNothing' => Host!EvictsNothing
    BY DEF Host!EvictsNothing, Host!MaxPerAccount, Host!MaxTotal
  <2> QED BY <1>1, <2>1, <2>2, <2>3 DEF CommitsAnswered
<1> QED BY <1>3, <1>4, <1>5, <1>6 DEF HostInv

LEMMA RateLimitedKeeps ==
  ASSUME HostInv, bounds' = bounds, Host!CommandAssumption, NEW a \in Accounts, NEW r,
         Host!RateLimited(a, r)
  PROVE  HostInv'
<1>1. /\ order' = IF \E e \in receipts : e.account = a THEN Host!ToEnd(order, a) ELSE Host!Without(order, a)
      /\ UNCHANGED <<now, receipts, total, attached, line, running, entered, runs, hostClosed, published>>
  BY DEF Host!RateLimited
<1>2. HostTyped
  BY DEF HostInv
<1>3. order \in Lists /\ now \in Nat /\ entered \in Seq(Host!Run) /\ now <= MaxNow /\ MaxNow \in Nat
  BY <1>2, HostTypedGives, BoundsFacts DEF HostTyped
<1>4. order' \in Lists /\ \A e \in receipts : e.account \in Members(order')
  <2>1. \A e \in receipts : e.account \in Members(order)
    BY <1>2, HostTypedGives
  <2>2. CASE \E e \in receipts : e.account = a
    BY <1>1, <1>3, <2>1, <2>2, ToEndFacts
  <2>3. CASE ~\E e \in receipts : e.account = a
    <3>1. /\ Host!Without(order, a) \in Lists
          /\ Members(Host!Without(order, a)) = Members(order) \ {a}
      BY <1>3, WithoutFacts
    <3>2. order' = Host!Without(order, a)
      BY <1>1, <2>3
    <3> QED BY <2>1, <2>3, <3>1, <3>2
  <2> QED BY <2>2, <2>3
<1>5. now' \in now..MaxNow
  BY <1>1, <1>3
<1> QED BY <1>1, <1>3, <1>4, <1>5, OrderKeeps

LEMMA DuplicateKeeps ==
  ASSUME HostInv, bounds' = bounds, Host!CommandAssumption, NEW a \in Accounts, NEW r,
         Host!Duplicate(a, r)
  PROVE  HostInv'
<1>1. /\ order' = Host!ToEnd(order, a)
      /\ UNCHANGED <<now, receipts, total, attached, line, running, entered, runs, hostClosed, published>>
  BY DEF Host!Duplicate
<1>2. HostTyped
  BY DEF HostInv
<1>3. order \in Lists /\ now \in Nat /\ entered \in Seq(Host!Run) /\ now <= MaxNow /\ MaxNow \in Nat
  BY <1>2, HostTypedGives, BoundsFacts DEF HostTyped
<1>4. order' \in Lists /\ \A e \in receipts : e.account \in Members(order')
  BY <1>1, <1>2, <1>3, HostTypedGives, ToEndFacts
<1>5. now' \in now..MaxNow
  BY <1>1, <1>3
<1> QED BY <1>1, <1>3, <1>4, <1>5, OrderKeeps

LEMMA TickKeeps ==
  ASSUME HostInv, bounds' = bounds, Host!CommandAssumption, Host!Tick
  PROVE  HostInv'
<1>1. /\ now < MaxNow /\ now' = now + 1
      /\ UNCHANGED <<order, receipts, total, attached, line, running, entered, runs, hostClosed, published>>
  BY DEF Host!Tick, Host!indexVars
<1>2. HostTyped
  BY DEF HostInv
<1>3. order \in Lists /\ now \in Nat /\ entered \in Seq(Host!Run) /\ MaxNow \in Nat
  BY <1>2, HostTypedGives, BoundsFacts DEF HostTyped
<1>4. now' \in now..MaxNow
  BY <1>1, <1>3
<1> QED BY <1>1, <1>2, <1>3, <1>4, HostTypedGives, OrderKeeps

\* The index is dropped, by a host that steps down, closes or dies.
LEMMA ClearedKeeps ==
  ASSUME HostInv, bounds' = bounds, Host!CommandAssumption, Host!Become(Host!Cleared),
         ~attached' \/ hostClosed', attached' \in BOOLEAN, hostClosed' \in BOOLEAN,
         running' \subseteq running, entered' \in Seq(Host!Run),
         UNCHANGED <<now, line, runs, published>>
  PROVE  HostInv'
<1>1. HostTyped /\ LineKeyed /\ RunsKnown /\ CommitsAnswered
  BY DEF HostInv
<1>2. order' = <<>> /\ receipts' = {} /\ total' = 0
  BY DEF Host!Become, Host!Cleared, Host!Index
<1>3. Sound(Idx)'
  <2> DEFINE s == [order |-> <<>>, receipts |-> {}, total |-> 0]
  <2>1. <<>> \in Lists
    BY DEF Lists
  <2>2. s \in [order : Lists, receipts : SUBSET Host!Receipt, total : Nat]
    BY <2>1
  <2>3. s.order = <<>> /\ s.receipts = {} /\ s.total = 0
    OBVIOUS
  <2> HIDE DEF s
  <2>4. Sound(s)
    BY <2>2, <2>3, FS_EmptySet DEF Sound
  <2> QED BY <1>2, <2>3, <2>4, IdxStep
<1>4. HostTyped'
  BY <1>1, <1>3 DEF HostTyped
<1>5. LineKeyed' /\ RunsKnown'
  BY <1>1, <1>2 DEF LineKeyed, RunsKnown
<1>6. Host!LineIsIndex'
  BY DEF Host!LineIsIndex
<1>7. CommitsAnswered'
  <2>1. Host!EvictsNothing' => Host!EvictsNothing
    BY DEF Host!EvictsNothing, Host!MaxPerAccount, Host!MaxTotal
  <2> QED BY <1>1, <2>1 DEF CommitsAnswered
<1> QED BY <1>4, <1>5, <1>6, <1>7 DEF HostInv

LEMMA ClearingKeeps ==
  ASSUME HostInv, bounds' = bounds, Host!CommandAssumption,
         Host!Detach \/ Host!Crash \/ Host!Close
  PROVE  HostInv'
<1>1. HostTyped
  BY DEF HostInv
<1>2. CASE Host!Detach
  <2>1. /\ attached' = FALSE /\ Host!Become(Host!Cleared)
        /\ UNCHANGED <<now, line, running, entered, runs, hostClosed, published>>
    BY <1>2 DEF Host!Detach
  <2>2. entered' \in Seq(Host!Run) /\ hostClosed' \in BOOLEAN
    BY <1>1, <2>1 DEF HostTyped
  <2> QED BY <2>1, <2>2, ClearedKeeps
<1>3. CASE Host!Crash
  <2>1. /\ attached' = FALSE /\ hostClosed' = FALSE /\ Host!Become(Host!Cleared)
        /\ running' = {} /\ entered' = <<>>
        /\ UNCHANGED <<now, line, runs, published>>
    BY <1>3 DEF Host!Crash
  <2>2. entered' \in Seq(Host!Run)
    BY <2>1
  <2> QED BY <2>1, <2>2, ClearedKeeps
<1>4. CASE Host!Close
  <2>1. /\ hostClosed' = TRUE /\ Host!Become(Host!Cleared)
        /\ UNCHANGED <<now, attached, line, running, entered, runs, published>>
    BY <1>4 DEF Host!Close
  <2>2. entered' \in Seq(Host!Run) /\ attached' \in BOOLEAN
    BY <1>1, <2>1 DEF HostTyped
  <2> QED BY <2>1, <2>2, ClearedKeeps
<1> QED BY <1>2, <1>3, <1>4

LEMMA ReserveKeeps ==
  ASSUME HostInv, bounds' = bounds, Host!CommandAssumption,
         NEW a \in Accounts, NEW r \in Requests, Host!Reserve(a, r)
  PROVE  HostInv'
<1> DEFINE x == [id |-> runs + 1, account |-> a, req |-> r]
           e == [account |-> a, req |-> r, ts |-> now, run |-> runs + 1, pending |-> TRUE,
                 at |-> runs + 1]
<1>1. /\ ~hostClosed /\ runs < MaxRuns
      /\ \A f \in receipts : ~(f.account = a /\ f.req = r)
      /\ receipts' = receipts \cup {e} /\ running' = running \cup {x}
      /\ entered' = Append(entered, x) /\ order' = Host!ToEnd(order, a)
      /\ total' = total + 1 /\ runs' = runs + 1
      /\ UNCHANGED <<now, attached, line, hostClosed, published>>
  BY DEF Host!Reserve, Host!Callable, Host!Has
<1>2. HostTyped /\ LineKeyed /\ RunsKnown /\ CommitsAnswered /\ Host!LineIsIndex
  BY DEF HostInv
<1>3. /\ order \in Lists /\ receipts \subseteq Host!Receipt /\ total \in Nat
      /\ IsFiniteSet(receipts) /\ total = Cardinality(receipts)
      /\ \A f \in receipts : f.account \in Members(order)
      /\ \A f, g \in receipts : Host!Same(f, g) => f = g
      /\ now \in Nat /\ runs \in Nat
  BY <1>2, HostTypedGives
<1>4. MaxRuns \in Nat
  BY <1>2, BoundsFacts DEF HostTyped
<1>5. /\ e.account = a /\ e.req = r /\ e.run = runs + 1 /\ e.pending
      /\ x.id = runs + 1 /\ x.account = a /\ x.req = r
  OBVIOUS
<1>6. e \in Host!Receipt /\ x \in Host!Run
  <2>1. runs + 1 \in Nat /\ runs + 1 \in Int
    BY <1>3
  <2>2. TRUE \in BOOLEAN
    OBVIOUS
  <2> QED BY <1>3, <2>1, <2>2 DEF Host!Receipt, Host!Run
<1> HIDE DEF e, x
<1>7. Sound(Idx)'
  <2> DEFINE s == [order |-> Host!ToEnd(order, a), receipts |-> receipts \cup {e}, total |-> total + 1]
  <2>1. /\ Host!ToEnd(order, a) \in Lists
        /\ Members(Host!ToEnd(order, a)) = Members(order) \cup {a}
    BY <1>3, ToEndFacts
  <2>2. e \notin receipts
    BY <1>1, <1>5
  <2>3. /\ IsFiniteSet(receipts \cup {e})
        /\ Cardinality(receipts \cup {e}) = total + 1
    BY <1>3, <2>2, FS_AddElement
  <2>4. s \in [order : Lists, receipts : SUBSET Host!Receipt, total : Nat]
    BY <1>3, <1>6, <2>1
  <2>5. s.order = Host!ToEnd(order, a) /\ s.receipts = receipts \cup {e} /\ s.total = total + 1
    OBVIOUS
  <2> HIDE DEF s
  <2>6. \A f, g \in s.receipts : Host!Same(f, g) => f = g
    BY <1>1, <1>3, <1>5, <2>5 DEF Host!Same
  <2>7. Sound(s)
    BY <1>3, <1>5, <2>1, <2>3, <2>4, <2>5, <2>6 DEF Sound
  <2> QED BY <1>1, <2>5, <2>7, IdxStep
<1>8. HostTyped'
  <2>1. runs' \in 0..MaxRuns
    BY <1>1, <1>3, <1>4
  <2>2. entered' \in Seq(Host!Run)
    BY <1>1, <1>2, <1>6, AppendProperties DEF HostTyped
  <2> QED BY <1>1, <1>2, <1>6, <1>7, <2>1, <2>2 DEF HostTyped
<1>9. RunsKnown'
  <2>1. /\ \A y \in running : y.id \in Nat /\ y.id <= runs
        /\ \A f \in receipts : f.run \in Nat /\ f.run <= runs
        /\ \A l \in line : l.run \in Nat /\ l.run <= runs
    BY <1>2, <1>3 DEF RunsKnown, HostTyped, Host!Run, Host!Receipt, Host!Record
  <2>2. /\ \A y \in running : \A f \in receipts : f.run = y.id => f.pending /\ Host!Same(f, y)
        /\ \A y \in running : \A l \in line : l.run # y.id
    BY <1>2 DEF RunsKnown
  <2>3. /\ \A y \in running' : y.id <= runs'
        /\ \A f \in receipts' : f.run <= runs'
        /\ \A l \in line' : l.run <= runs'
    BY <1>1, <1>3, <1>5, <2>1
  <2>4. ASSUME NEW y \in running', NEW f \in receipts', f.run = y.id
        PROVE  f.pending /\ Host!Same(f, y)
    <3>1. CASE y \in running /\ f \in receipts
      BY <2>2, <2>4, <3>1
    <3>2. CASE y = x /\ f = e
      BY <1>5, <3>2 DEF Host!Same
    <3>3. CASE y = x /\ f \in receipts
      BY <1>3, <1>5, <2>1, <2>4, <3>3
    <3>4. CASE y \in running /\ f = e
      BY <1>3, <1>5, <2>1, <2>4, <3>4
    <3> QED BY <1>1, <3>1, <3>2, <3>3, <3>4
  <2>5. \A y \in running' : \A l \in line' : l.run # y.id
    BY <1>1, <1>3, <1>5, <2>1, <2>2
  <2>6. \A y, z \in running' : y.id = z.id => y = z
    BY <1>1, <1>2, <1>3, <1>5, <2>1 DEF RunsKnown
  <2> QED BY <2>3, <2>4, <2>5, <2>6 DEF RunsKnown, Host!Same
<1>10. Host!LineIsIndex'
  <2>1. {f \in receipts' : ~f.pending} = {f \in receipts : ~f.pending}
    BY <1>1, <1>5
  <2>2. Host!Recorded' = Host!Recorded
    BY <2>1 DEF Host!Recorded
  <2> QED BY <1>1, <1>2, <2>2 DEF Host!LineIsIndex
<1>11. LineKeyed'
  BY <1>1, <1>2 DEF LineKeyed
<1>12. CommitsAnswered'
  <2>1. Host!EvictsNothing' => Host!EvictsNothing
    BY DEF Host!EvictsNothing, Host!MaxPerAccount, Host!MaxTotal
  <2> QED BY <1>1, <1>2, <2>1 DEF CommitsAnswered
<1> QED BY <1>8, <1>9, <1>10, <1>11, <1>12 DEF HostInv

\* A line holds the records of what is committed.
RecordsOf(l, es) ==
  /\ \A m \in l : \E e \in es : ~e.pending /\ m = RecordOf(e)
  /\ \A e \in es : ~e.pending => RecordOf(e) \in l

Remaining(l, out) == {m \in l : ~\E e \in out : Host!Same(e, m)}

LEMMA RecordedIs ==
  ASSUME NEW l PROVE l = Host!Recorded <=> RecordsOf(l, receipts)
<1>1. \A m : m \in Host!Recorded <=> \E e \in receipts : ~e.pending /\ m = RecordOf(e)
  BY RecordedFacts
<1>2. l = Host!Recorded => RecordsOf(l, receipts)
  BY <1>1 DEF RecordsOf
<1>3. RecordsOf(l, receipts) => \A m : m \in l <=> m \in Host!Recorded
  BY <1>1 DEF RecordsOf
<1> QED BY <1>2, <1>3

LEMMA RecordedNext ==
  ASSUME RecordsOf(line', receipts') PROVE line' = Host!Recorded'
<1>1. Host!Recorded' = {RecordOf(e) : e \in {f \in receipts' : ~f.pending}}
  BY DEF Host!Recorded, RecordOf
<1>2. \A m : m \in Host!Recorded' <=> \E e \in receipts' : ~e.pending /\ m = RecordOf(e)
  BY <1>1
<1> QED BY <1>2 DEF RecordsOf

\* What a compaction that has dropped committed receipts leaves on the line.
LEMMA CompactedLine ==
  ASSUME Host!CommandAssumption, HostTyped, NEW s, Sound(s), NEW t, Sound(t), Kept(s, t),
         NEW before, before \subseteq Host!Record, IsFiniteSet(before),
         RecordsOf(before, s.receipts)
  PROVE  LET after == Remaining(before, s.receipts \ t.receipts)
         IN  /\ RecordsOf(after, t.receipts)
             /\ IsFiniteSet(after) /\ after \subseteq before
             /\ \A l, m \in after : Host!Same(l, m) => l = m
             /\ \A l \in before \ after : \E e \in s.receipts \ t.receipts : l = RecordOf(e)
<1> DEFINE after == {l \in before : ~\E e \in s.receipts \ t.receipts : Host!Same(e, l)}
<1>1. t.receipts \subseteq s.receipts
  BY DEF Kept
<1>2. \A e, f \in s.receipts : Host!Same(e, f) => e = f
  BY DEF Sound
<1>3. \A e : RecordOf(e).account = e.account /\ RecordOf(e).req = e.req /\ RecordOf(e).ts = e.ts
  BY DEF RecordOf
<1>4. \A l \in before : \E e \in s.receipts : ~e.pending /\ l = RecordOf(e)
  BY DEF RecordsOf
<1>5. \A e \in s.receipts : ~e.pending => RecordOf(e) \in before
  BY DEF RecordsOf
<1>6. \A e, f \in s.receipts : Host!Same(e, RecordOf(f)) => e = f
  BY <1>2, <1>3 DEF Host!Same
<1>7. ASSUME NEW l \in after PROVE \E e \in t.receipts : ~e.pending /\ l = RecordOf(e)
  <2>1. l \in before /\ ~\E e \in s.receipts \ t.receipts : Host!Same(e, l)
    OBVIOUS
  <2>2. PICK e \in s.receipts : ~e.pending /\ l = RecordOf(e)
    BY <1>4, <2>1
  <2>3. Host!Same(e, l)
    BY <1>3, <2>2 DEF Host!Same
  <2> QED BY <2>1, <2>2, <2>3
<1>8. ASSUME NEW e \in t.receipts, ~e.pending PROVE RecordOf(e) \in after
  <2>1. e \in s.receipts /\ RecordOf(e) \in before
    BY <1>1, <1>5, <1>8
  <2>2. ~\E f \in s.receipts \ t.receipts : Host!Same(f, RecordOf(e))
    BY <1>6, <2>1
  <2> QED BY <2>1, <2>2
<1>9. RecordsOf(after, t.receipts)
  BY <1>7, <1>8 DEF RecordsOf
<1>10. after \in SUBSET before
  OBVIOUS
<1>11. IsFiniteSet(after)
  BY <1>10, FS_Subset
<1>12. ASSUME NEW l \in after, NEW m \in after, Host!Same(l, m) PROVE l = m
  <2>1. PICK e \in s.receipts : l = RecordOf(e)
    BY <1>4, <1>10
  <2>2. PICK f \in s.receipts : m = RecordOf(f)
    BY <1>4, <1>10
  <2>3. Host!Same(e, f)
    BY <1>3, <1>12, <2>1, <2>2 DEF Host!Same
  <2> QED BY <1>2, <2>1, <2>2, <2>3
<1>13. ASSUME NEW l \in before \ after
       PROVE  \E e \in s.receipts \ t.receipts : l = RecordOf(e)
  <2>1. PICK e \in s.receipts \ t.receipts : Host!Same(e, l)
    OBVIOUS
  <2>2. PICK f \in s.receipts : l = RecordOf(f)
    BY <1>4
  <2>3. e = f
    BY <1>6, <2>1, <2>2
  <2> QED BY <2>1, <2>2, <2>3
<1> QED BY <1>9, <1>10, <1>11, <1>12, <1>13 DEF Remaining

LEMMA EnteredKeeps ==
  ASSUME HostInv, bounds' = bounds, Host!CommandAssumption, Host!Entered
  PROVE  HostInv'
<1> DEFINE x == Host!Last(entered)
           t == Host!Compact(Host!Sweep(Idx, x.account))
<1>1. /\ entered # <<>> /\ entered' = Host!Front(entered)
      /\ IF Host!Owns(x)
         THEN /\ Host!Become(t)
              /\ line' = IF attached THEN Host!Unpublished(receipts \ t.receipts) ELSE line
         ELSE UNCHANGED <<order, receipts, total, line>>
      /\ UNCHANGED <<now, attached, running, runs, hostClosed, published>>
  BY DEF Host!Entered, Idx, Host!indexVars
<1>2. HostTyped /\ LineKeyed /\ RunsKnown /\ CommitsAnswered /\ Host!LineIsIndex
  BY DEF HostInv
<1>3. entered' \in Seq(Host!Run)
  <2>1. entered \in Seq(Host!Run)
    BY <1>2 DEF HostTyped
  <2>2. Len(entered) \in Nat /\ \A i \in 1..(Len(entered) - 1) : entered[i] \in Host!Run
    BY <2>1, LenProperties, ElementOfSeq
  <2>3. SubSeq(entered, 1, Len(entered) - 1) \in Seq(Host!Run)
    BY <2>1, <2>2, SubSeqProperties
  <2> QED BY <1>1, <2>3 DEF Host!Front
<1> HIDE DEF x
<1>4. /\ now \in Nat /\ now <= MaxNow /\ MaxNow \in Nat /\ KeepMs \in Nat
      /\ bounds.perAccount \in Nat /\ bounds.total \in Nat
      /\ bounds \in Bounds
  BY <1>2, HostTypedGives, BoundsFacts DEF HostTyped
<1>5. CASE ~Host!Owns(x)
  <2>1. now' \in now..MaxNow
    BY <1>1, <1>4
  <2>2. UNCHANGED <<order, receipts, total, line>>
    BY <1>1, <1>5
  <2>3. order \in Lists /\ \A e \in receipts : e.account \in Members(order)
    BY <1>2, HostTypedGives
  <2> QED BY <1>1, <1>3, <2>1, <2>2, <2>3, OrderKeeps
<1>6. CASE Host!Owns(x)
  <2>1. Sound(Idx) /\ Idx.receipts = receipts
    BY <1>2, IdxFacts DEF HostTyped
  <2>2. /\ Sound(t) /\ Kept(Idx, t)
        /\ Idx.total <= bounds.total /\ Cardinality(Host!Of(Idx, x.account)) <= bounds.perAccount =>
               \A e \in Idx.receipts \ t.receipts : Host!Expired(e)
    BY <1>4, <2>1, EnteredFacts
  <2> HIDE DEF t
  <2>3. /\ order' = t.order /\ receipts' = t.receipts /\ total' = t.total
        /\ line' = IF attached THEN Host!Unpublished(receipts \ t.receipts) ELSE line
    BY <1>1, <1>6 DEF Host!Become
  <2>4. Sound(Idx)' /\ receipts' \subseteq receipts
    BY <2>1, <2>2, <2>3, IdxStep DEF Kept
  <2>5. ~hostClosed
    BY <1>6 DEF Host!Owns
  <2>6. attached => RecordsOf(line, receipts)
    BY <1>2, <2>5, RecordedIs DEF Host!LineIsIndex
  <2>7. attached => line' = Remaining(line, receipts \ t.receipts)
    BY <2>3 DEF Host!Unpublished, Remaining
  <2>8. line \subseteq Host!Record /\ IsFiniteSet(line)
    BY <1>2 DEF HostTyped, LineKeyed
  <2>9. attached =>
          /\ RecordsOf(line', receipts')
          /\ IsFiniteSet(line') /\ line' \subseteq line
          /\ \A l, m \in line' : Host!Same(l, m) => l = m
          /\ \A l \in line \ line' : \E e \in receipts \ receipts' : l = RecordOf(e)
    <3> SUFFICES ASSUME attached
                 PROVE  /\ RecordsOf(line', receipts')
                        /\ IsFiniteSet(line') /\ line' \subseteq line
                        /\ \A l, m \in line' : Host!Same(l, m) => l = m
                        /\ \A l \in line \ line' : \E e \in receipts \ receipts' : l = RecordOf(e)
      OBVIOUS
    <3> DEFINE after == Remaining(line, Idx.receipts \ t.receipts)
    <3>1. RecordsOf(line, Idx.receipts)
      BY <2>1, <2>6
    <3>2. /\ RecordsOf(after, t.receipts)
          /\ IsFiniteSet(after) /\ after \subseteq line
          /\ \A l, m \in after : Host!Same(l, m) => l = m
          /\ \A l \in line \ after : \E e \in Idx.receipts \ t.receipts : l = RecordOf(e)
      BY <1>2, <2>1, <2>2, <2>8, <3>1, CompactedLine
    <3>3. line' = after
      BY <2>1, <2>7
    <3> HIDE DEF after
    <3> QED BY <2>1, <2>3, <3>2, <3>3
  <2>10. line' \subseteq line /\ (~attached => line' = line)
    BY <2>3, <2>9
  <2>11. HostTyped'
    BY <1>1, <1>2, <1>3, <2>4, <2>10 DEF HostTyped
  <2>12. LineKeyed'
    BY <1>2, <2>9, <2>10 DEF LineKeyed, Host!Same
  <2>13. RunsKnown'
    BY <1>1, <1>2, <2>4, <2>10 DEF RunsKnown, Host!Same
  <2>14. Host!LineIsIndex'
    <3> SUFFICES ASSUME attached PROVE line' = Host!Recorded'
      BY <1>1 DEF Host!LineIsIndex
    <3> QED BY <2>9, RecordedNext
  <2>15. CommitsAnswered'
    <3>1. \A p \in published' : p.ts <= now'
      BY <1>1, <1>2 DEF CommitsAnswered
    <3>2. SUFFICES ASSUME Host!EvictsNothing, NEW p \in published, p.ts > now - KeepMs
                   PROVE  \E l \in line' : Host!Same(l, p) /\ l.ts >= p.ts
      <4>1. Host!EvictsNothing' => Host!EvictsNothing
        BY DEF Host!EvictsNothing, Host!MaxPerAccount, Host!MaxTotal
      <4> QED BY <1>1, <3>1, <4>1 DEF CommitsAnswered, Host!Same
    <3>3. PICK l \in line : Host!Same(l, p) /\ l.ts >= p.ts
      BY <1>2, <3>2 DEF CommitsAnswered
    <3>4. CASE l \in line'
      BY <3>3, <3>4
    <3>5. CASE l \notin line'
      <4>1. PICK e \in receipts \ receipts' : l = RecordOf(e)
        BY <2>9, <2>10, <3>5
      <4>2. Host!Expired(e)
        BY <1>4, <2>1, <2>2, <2>3, <3>2, <4>1, NothingEvicted
      <4>3. e.ts <= now - KeepMs /\ l.ts = e.ts
        BY <4>1, <4>2 DEF Host!Expired, RecordOf
      <4>4. l.ts \in Nat /\ p.ts \in Nat
        BY <1>2 DEF HostTyped, Host!Record
      <4> QED BY <1>4, <3>2, <3>3, <4>3, <4>4
    <3> QED BY <3>4, <3>5
  <2> QED BY <2>11, <2>12, <2>13, <2>14, <2>15 DEF HostInv
<1> QED BY <1>5, <1>6

LEMMA AdoptKeeps ==
  ASSUME HostInv, bounds' = bounds, Host!CommandAssumption, Host!Adopt
  PROVE  HostInv'
<1>1. PICK at \in Host!ByCommitTime : \E o \in Host!ByLastUse(at) :
          LET built == Host!Rebuilt(at, o)
              s == Host!Compact(Host!SweepAll(built))
          IN  Host!Become(s) /\ line' = Host!Unpublished(built.receipts \ s.receipts)
  BY DEF Host!Adopt
<1>2. PICK o \in Host!ByLastUse(at) :
          LET built == Host!Rebuilt(at, o)
              s == Host!Compact(Host!SweepAll(built))
          IN  Host!Become(s) /\ line' = Host!Unpublished(built.receipts \ s.receipts)
  BY <1>1
<1> DEFINE s == Host!Rebuilt(at, o)
           t == Host!Compact(Host!SweepAll(s))
<1>3. /\ attached' = TRUE
      /\ UNCHANGED <<now, running, entered, runs, hostClosed, published>>
  BY DEF Host!Adopt
<1>4. HostTyped /\ LineKeyed /\ RunsKnown /\ CommitsAnswered
  BY DEF HostInv
<1>5. /\ now \in Nat /\ KeepMs \in Nat /\ bounds.perAccount \in Nat /\ bounds.total \in Nat
      /\ bounds \in Bounds
  BY <1>4, HostTypedGives, BoundsFacts DEF HostTyped
<1>6. line \subseteq Host!Record /\ IsFiniteSet(line) /\ \A l, m \in line : Host!Same(l, m) => l = m
  BY <1>4 DEF HostTyped, LineKeyed
<1>7. /\ Sound(s)
      /\ \A e \in s.receipts : ~e.pending /\ \E l \in line :
             /\ e.account = l.account /\ e.req = l.req /\ e.ts = l.ts /\ e.run = l.run
      /\ \A l \in line : \E e \in s.receipts :
             /\ e.account = l.account /\ e.req = l.req /\ e.ts = l.ts /\ e.run = l.run
  BY <1>6, RebuiltFacts
<1> HIDE DEF s
<1>8. /\ Sound(t) /\ Kept(s, t)
      /\ s.total <= bounds.total /\ (\A a : Cardinality(Host!Of(s, a)) <= bounds.perAccount) =>
             \A e \in s.receipts \ t.receipts : Host!Expired(e)
  BY <1>5, <1>7, AdoptedFacts
<1>9. order' = t.order /\ receipts' = t.receipts /\ total' = t.total
  BY <1>2 DEF s, Host!Become
<1>10. line' = Remaining(line, s.receipts \ t.receipts)
  BY <1>2 DEF s, Host!Unpublished, Remaining
<1> HIDE DEF t
<1>11. RecordsOf(line, s.receipts)
  <2>1. \A l \in line : l = [account |-> l.account, req |-> l.req, ts |-> l.ts, run |-> l.run]
    BY <1>6 DEF Host!Record
  <2>2. \A e \in s.receipts : RecordOf(e) \in line
    <3> TAKE e \in s.receipts
    <3>1. PICK l \in line : /\ e.account = l.account /\ e.req = l.req /\ e.ts = l.ts /\ e.run = l.run
      BY <1>7
    <3>2. RecordOf(e) = l
      BY <2>1, <3>1 DEF RecordOf
    <3> QED BY <3>2
  <2>3. \A l \in line : \E e \in s.receipts : l = RecordOf(e)
    <3> TAKE l \in line
    <3>1. PICK e \in s.receipts : /\ e.account = l.account /\ e.req = l.req /\ e.ts = l.ts /\ e.run = l.run
      BY <1>7
    <3>2. RecordOf(e) = l
      BY <2>1, <3>1 DEF RecordOf
    <3> QED BY <3>2
  <2> QED BY <1>7, <2>2, <2>3 DEF RecordsOf
<1>12. /\ RecordsOf(line', t.receipts)
       /\ IsFiniteSet(line') /\ line' \subseteq line
       /\ \A l, m \in line' : Host!Same(l, m) => l = m
       /\ \A l \in line \ line' : \E e \in s.receipts \ t.receipts : l = RecordOf(e)
  BY <1>4, <1>6, <1>7, <1>8, <1>10, <1>11, CompactedLine
<1>13. Sound(Idx)' /\ receipts' \subseteq s.receipts
  BY <1>8, <1>9, IdxStep DEF Kept
<1>14. HostTyped'
  BY <1>3, <1>4, <1>12, <1>13 DEF HostTyped
<1>15. LineKeyed'
  BY <1>12 DEF LineKeyed, Host!Same
<1>16. RunsKnown'
  <2>1. /\ \A x \in running : x.id <= runs /\ \A y \in running : x.id = y.id => x = y
        /\ \A l \in line : l.run <= runs
        /\ \A x \in running : \A l \in line : l.run # x.id
    BY <1>4 DEF RunsKnown
  <2>2. \A e \in receipts' : \E l \in line : e.run = l.run
    BY <1>7, <1>13
  <2>3. \A e \in receipts' : e.run <= runs /\ \A x \in running : e.run # x.id
    BY <2>1, <2>2
  <2> QED BY <1>3, <1>12, <2>1, <2>3 DEF RunsKnown
<1>17. Host!LineIsIndex'
  <2>1. RecordsOf(line', receipts')
    BY <1>9, <1>12
  <2> QED BY <2>1, RecordedNext DEF Host!LineIsIndex
<1>18. CommitsAnswered'
  <2>1. \A p \in published' : p.ts <= now'
    BY <1>3, <1>4 DEF CommitsAnswered
  <2>2. SUFFICES ASSUME Host!EvictsNothing, NEW p \in published, p.ts > now - KeepMs
                 PROVE  \E l \in line' : Host!Same(l, p) /\ l.ts >= p.ts
    <3>1. Host!EvictsNothing' => Host!EvictsNothing
      BY DEF Host!EvictsNothing, Host!MaxPerAccount, Host!MaxTotal
    <3> QED BY <1>3, <2>1, <3>1 DEF CommitsAnswered, Host!Same
  <2>3. PICK l \in line : Host!Same(l, p) /\ l.ts >= p.ts
    BY <1>4, <2>2 DEF CommitsAnswered
  <2>4. CASE l \in line'
    BY <2>3, <2>4
  <2>5. CASE l \notin line'
    <3>1. PICK e \in s.receipts \ t.receipts : l = RecordOf(e)
      BY <1>12, <2>5
    <3>2. Host!Expired(e)
      BY <1>5, <1>7, <1>8, <2>2, <3>1, NothingEvicted
    <3>3. e.ts <= now - KeepMs /\ l.ts = e.ts
      BY <3>1, <3>2 DEF Host!Expired, RecordOf
    <3>4. l.ts \in Nat /\ p.ts \in Nat
      BY <1>4 DEF HostTyped, Host!Record
    <3> QED BY <1>5, <2>2, <2>3, <3>3, <3>4
  <2> QED BY <2>4, <2>5
<1> QED BY <1>14, <1>15, <1>16, <1>17, <1>18 DEF HostInv

\* A receipt by its run and account: the one that a run owns.
LEMMA OwnedFacts ==
  ASSUME HostTyped, RunsKnown, NEW x \in running
  PROVE  /\ \A e \in receipts : e.run = x.id => e.account = x.account /\ e.req = x.req /\ e.pending
         /\ \A e, f \in receipts : e.run = x.id /\ f.run = x.id => e = f
         /\ ~hostClosed => (Host!Owns(x) <=> \E e \in receipts : e.run = x.id)
<1>1. \A e \in receipts : e.run = x.id => e.account = x.account /\ e.req = x.req /\ e.pending
  BY DEF RunsKnown, Host!Same
<1>2. \A e, f \in receipts : Host!Same(e, f) => e = f
  BY HostTypedGives
<1>3. \A e, f \in receipts : e.run = x.id /\ f.run = x.id => e = f
  BY <1>1, <1>2 DEF Host!Same
<1>4. ~hostClosed => (Host!Owns(x) <=> \E e \in receipts : e.run = x.id)
  BY <1>1 DEF Host!Owns
<1> QED BY <1>1, <1>3, <1>4

LEMMA FailKeeps ==
  ASSUME HostInv, bounds' = bounds, Host!CommandAssumption, NEW x \in running, Host!Fail(x)
  PROVE  HostInv'
<1>1. /\ running' = running \ {x}
      /\ IF Host!Owns(x)
         THEN receipts' = {e \in receipts : e.run # x.id} /\ total' = total - 1
         ELSE UNCHANGED <<receipts, total>>
      /\ UNCHANGED <<now, order, attached, line, entered, runs, hostClosed, published>>
  BY DEF Host!Fail
<1>2. HostTyped /\ LineKeyed /\ RunsKnown /\ CommitsAnswered /\ Host!LineIsIndex
  BY DEF HostInv
<1>3. /\ order \in Lists /\ receipts \subseteq Host!Receipt /\ total \in Nat
      /\ IsFiniteSet(receipts) /\ total = Cardinality(receipts)
      /\ \A f \in receipts : f.account \in Members(order)
      /\ \A f, g \in receipts : Host!Same(f, g) => f = g
      /\ now \in Nat /\ runs \in Nat
  BY <1>2, HostTypedGives
<1>4. CASE ~Host!Owns(x)
  <2>1. MaxNow \in Nat /\ now <= MaxNow
    BY <1>2, <1>3, BoundsFacts DEF HostTyped
  <2>2. now' \in now..MaxNow /\ entered' \in Seq(Host!Run)
    BY <1>1, <1>2, <1>3, <2>1 DEF HostTyped
  <2> QED BY <1>1, <1>3, <1>4, <2>2, OrderKeeps
<1>5. CASE Host!Owns(x)
  <2>1. PICK e \in receipts : e.run = x.id
    BY <1>5 DEF Host!Owns
  <2>2. e.pending /\ receipts' = receipts \ {e}
    BY <1>1, <1>2, <1>5, <2>1, OwnedFacts
  <2>3. Sound(Idx)'
    <3> DEFINE s == [order |-> order, receipts |-> receipts \ {e}, total |-> total - 1]
    <3>1. IsFiniteSet(receipts \ {e}) /\ Cardinality(receipts \ {e}) = total - 1
      BY <1>3, <2>1, FS_RemoveElement
    <3>2. total - 1 \in Nat
      BY <3>1, FS_CardinalityType
    <3>3. s \in [order : Lists, receipts : SUBSET Host!Receipt, total : Nat]
      BY <1>3, <3>2
    <3>4. s.order = order /\ s.receipts = receipts \ {e} /\ s.total = total - 1
      OBVIOUS
    <3> HIDE DEF s
    <3>5. Sound(s)
      BY <1>3, <3>1, <3>3, <3>4 DEF Sound
    <3> QED BY <1>1, <1>5, <2>2, <3>4, <3>5, IdxStep
  <2>4. HostTyped'
    BY <1>1, <1>2, <2>3 DEF HostTyped
  <2>5. LineKeyed' /\ RunsKnown'
    BY <1>1, <1>2, <2>2 DEF LineKeyed, RunsKnown, Host!Same
  <2>6. Host!LineIsIndex'
    <3>1. {f \in receipts' : ~f.pending} = {f \in receipts : ~f.pending}
      BY <2>2
    <3>2. Host!Recorded' = Host!Recorded
      BY <3>1 DEF Host!Recorded
    <3> QED BY <1>1, <1>2, <3>2 DEF Host!LineIsIndex
  <2>7. CommitsAnswered'
    <3>1. Host!EvictsNothing' => Host!EvictsNothing
      BY DEF Host!EvictsNothing, Host!MaxPerAccount, Host!MaxTotal
    <3> QED BY <1>1, <1>2, <3>1 DEF CommitsAnswered
  <2> QED BY <2>4, <2>5, <2>6, <2>7 DEF HostInv
<1> QED BY <1>4, <1>5

\* With a record of this commit in the place of an older one, what was answered still is.
LEMMA PublishedKeeps ==
  ASSUME HostTyped, CommitsAnswered, Host!CommandAssumption, bounds' = bounds, now' = now,
         NEW rec \in Host!Record, rec.ts = now,
         line' = {l \in line : ~Host!Same(l, rec)} \cup {rec},
         published' = published \cup {rec}
  PROVE  CommitsAnswered'
<1>1. now \in Nat /\ KeepMs \in Nat
  BY HostTypedGives, BoundsFacts DEF HostTyped
<1>2. \A p \in published : p.ts \in Nat /\ p.ts <= now
  BY DEF HostTyped, Host!Record, CommitsAnswered
<1>3. \A p \in published' : p.ts <= now'
  BY <1>1, <1>2
<1>4. ASSUME Host!EvictsNothing, NEW p \in published', p.ts > now - KeepMs
      PROVE  \E l \in line' : Host!Same(l, p) /\ l.ts >= p.ts
  <2>1. CASE p = rec
    <3>1. Host!Same(rec, rec) /\ rec.ts >= rec.ts /\ rec \in line'
      BY <1>1 DEF Host!Same
    <3> QED BY <2>1, <3>1
  <2>2. CASE p \in published
    <3>1. PICK l \in line : Host!Same(l, p) /\ l.ts >= p.ts
      BY <1>4, <2>2 DEF CommitsAnswered
    <3>2. CASE Host!Same(l, rec)
      <4>1. Host!Same(rec, p) /\ rec.ts >= p.ts /\ rec \in line'
        BY <1>1, <1>2, <2>2, <3>1, <3>2 DEF Host!Same
      <4> QED BY <4>1
    <3>3. CASE ~Host!Same(l, rec)
      BY <3>1, <3>3
    <3> QED BY <3>2, <3>3
  <2> QED BY <2>1, <2>2
<1>5. Host!EvictsNothing' => Host!EvictsNothing
  BY DEF Host!EvictsNothing, Host!MaxPerAccount, Host!MaxTotal
<1> QED BY <1>3, <1>4, <1>5 DEF CommitsAnswered, Host!Same

LEMMA OtherCommitsKeeps ==
  ASSUME HostInv, bounds' = bounds, Host!CommandAssumption,
         NEW a \in Accounts, NEW r \in Requests, Host!OtherCommits(a, r)
  PROVE  HostInv'
<1> DEFINE rec == [account |-> a, req |-> r, ts |-> now, run |-> runs + 1]
<1>1. /\ ~attached /\ runs < MaxRuns
      /\ ~\E l \in line : l.account = a /\ l.req = r
      /\ line' = line \cup {rec} /\ published' = published \cup {rec} /\ runs' = runs + 1
      /\ UNCHANGED <<now, order, receipts, total, attached, running, entered, hostClosed>>
  BY DEF Host!OtherCommits, Host!indexVars
<1>2. HostTyped /\ LineKeyed /\ RunsKnown /\ CommitsAnswered /\ Host!LineIsIndex
  BY DEF HostInv
<1>3. now \in Nat /\ runs \in Nat /\ MaxRuns \in Nat
  BY <1>2, HostTypedGives, BoundsFacts DEF HostTyped
<1>4. /\ rec \in Host!Record /\ rec.account = a /\ rec.req = r /\ rec.ts = now /\ rec.run = runs + 1
  BY <1>3 DEF Host!Record
<1> HIDE DEF rec
<1>5. \A l \in line : ~Host!Same(l, rec) /\ ~Host!Same(rec, l)
  BY <1>1, <1>4 DEF Host!Same
<1>6. HostTyped'
  <2>1. Sound(Idx)'
    BY <1>1, <1>2 DEF HostTyped, Idx, Sound
  <2>2. runs' \in 0..MaxRuns
    BY <1>1, <1>3
  <2> QED BY <1>1, <1>2, <1>4, <2>1, <2>2 DEF HostTyped
<1>7. LineKeyed'
  <2>1. IsFiniteSet(line')
    BY <1>1, <1>2, FS_AddElement DEF LineKeyed
  <2>2. \A l, m \in line' : Host!Same(l, m) => l = m
    BY <1>1, <1>2, <1>5 DEF LineKeyed
  <2> QED BY <2>1, <2>2 DEF LineKeyed, Host!Same
<1>8. RunsKnown'
  <2>1. /\ \A y \in running : y.id \in Nat /\ y.id <= runs
        /\ \A f \in receipts : f.run \in Nat /\ f.run <= runs
        /\ \A l \in line : l.run \in Nat /\ l.run <= runs
    BY <1>2, HostTypedGives DEF RunsKnown, HostTyped, Host!Run, Host!Receipt, Host!Record
  <2>2. /\ \A y \in running' : y.id <= runs'
        /\ \A f \in receipts' : f.run <= runs'
        /\ \A l \in line' : l.run <= runs'
    BY <1>1, <1>3, <1>4, <2>1
  <2>3. \A x \in running' : \A l \in line' : l.run # x.id
    BY <1>1, <1>2, <1>3, <1>4, <2>1 DEF RunsKnown
  <2> QED BY <1>1, <1>2, <2>2, <2>3 DEF RunsKnown, Host!Same
<1>9. Host!LineIsIndex'
  BY <1>1 DEF Host!LineIsIndex
<1>10. CommitsAnswered'
  <2>1. line' = {l \in line : ~Host!Same(l, rec)} \cup {rec}
    BY <1>1, <1>5
  <2> QED BY <1>1, <1>2, <1>4, <2>1, PublishedKeeps
<1> QED BY <1>6, <1>7, <1>8, <1>9, <1>10 DEF HostInv

LEMMA CommitKeeps ==
  ASSUME HostInv, bounds' = bounds, Host!CommandAssumption, NEW x \in running, Host!Commit(x)
  PROVE  HostInv'
<1> DEFINE rec == [account |-> x.account, req |-> x.req, ts |-> now, run |-> x.id]
           done(e) == IF e.run = x.id THEN [e EXCEPT !.pending = FALSE, !.ts = now] ELSE e
<1>1. /\ running' = running \ {x}
      /\ receipts' = {done(e) : e \in receipts}
      /\ IF attached /\ Host!Owns(x)
         THEN /\ line' = {l \in line : ~Host!Same(l, rec)} \cup {rec}
              /\ published' = published \cup {rec}
         ELSE UNCHANGED <<line, published>>
      /\ UNCHANGED <<now, order, total, attached, entered, runs, hostClosed>>
  BY DEF Host!Commit
<1>2. HostTyped /\ LineKeyed /\ RunsKnown /\ CommitsAnswered /\ Host!LineIsIndex
  BY DEF HostInv
<1>3. /\ order \in Lists /\ receipts \subseteq Host!Receipt /\ total \in Nat
      /\ IsFiniteSet(receipts) /\ total = Cardinality(receipts)
      /\ \A f \in receipts : f.account \in Members(order)
      /\ \A f, g \in receipts : Host!Same(f, g) => f = g
      /\ now \in Nat /\ runs \in Nat
  BY <1>2, HostTypedGives
<1>4. x \in Host!Run /\ x.id \in Nat /\ x.account \in Accounts /\ x.req \in Requests
  BY <1>2 DEF HostTyped, Host!Run
<1>5. /\ rec \in Host!Record /\ rec.account = x.account /\ rec.req = x.req /\ rec.ts = now
      /\ rec.run = x.id
  BY <1>3, <1>4 DEF Host!Record
<1>6. ASSUME NEW e \in receipts
      PROVE  /\ done(e) \in Host!Receipt
             /\ done(e).account = e.account /\ done(e).req = e.req /\ done(e).run = e.run
             /\ e.run = x.id => ~done(e).pending /\ done(e).ts = now
             /\ e.run # x.id => done(e) = e
  <2>1. e \in Host!Receipt
    BY <1>3
  <2>2. FALSE \in BOOLEAN
    OBVIOUS
  <2> QED BY <1>3, <2>1, <2>2 DEF Host!Receipt
<1> HIDE DEF rec, done
<1>7. Sound(Idx)'
  <2> DEFINE s == [order |-> order, receipts |-> {done(e) : e \in receipts}, total |-> total]
             f == [e \in receipts |-> done(e)]
             rs == {done(e) : e \in receipts}
  <2>1. f \in [receipts -> rs] /\ \A g \in rs : \E e \in receipts : f[e] = g
    OBVIOUS
  <2>2. \A e, g \in receipts : f[e] = f[g] => e = g
    BY <1>3, <1>6 DEF Host!Same
  <2>3. DOMAIN f = receipts
    OBVIOUS
  <2>4. rs \in SUBSET Host!Receipt /\ \A g \in rs : g.account \in Members(order)
    BY <1>3, <1>6
  <2>5. ASSUME NEW g \in rs, NEW h \in rs, Host!Same(g, h) PROVE g = h
    <3>1. PICK e \in receipts : g = done(e)
      OBVIOUS
    <3>2. PICK k \in receipts : h = done(k)
      OBVIOUS
    <3>3. Host!Same(e, k)
      BY <1>6, <2>5, <3>1, <3>2 DEF Host!Same
    <3> QED BY <1>3, <3>1, <3>2, <3>3
  <2> HIDE DEF f, rs
  <2>6. f \in Surjection(receipts, rs) /\ f \in Injection(receipts, rs)
    BY <2>1, <2>2, <2>3 DEF Surjection, Injection, IsInjective
  <2>7. IsFiniteSet(rs) /\ Cardinality(rs) = total
    BY <1>3, <2>6, FS_Surjection
  <2>8. s.order = order /\ s.receipts = rs /\ s.total = total
    BY DEF rs
  <2>9. s \in [order : Lists, receipts : SUBSET Host!Receipt, total : Nat]
    BY <1>3, <2>4 DEF rs
  <2> HIDE DEF s
  <2>10. Sound(s)
    BY <2>4, <2>5, <2>7, <2>8, <2>9 DEF Sound
  <2> QED BY <1>1, <2>8, <2>10, IdxStep DEF rs
<1>8. HostTyped'
  <2>1. line' \subseteq Host!Record /\ published' \subseteq Host!Record
    BY <1>1, <1>2, <1>5 DEF HostTyped
  <2> QED BY <1>1, <1>2, <1>7, <2>1 DEF HostTyped
<1>9. LineKeyed'
  <2>1. CASE attached /\ Host!Owns(x)
    <3> DEFINE rest == {l \in line : ~Host!Same(l, rec)}
    <3>1. line' = rest \cup {rec}
      BY <1>1, <2>1
    <3>2. rest \in SUBSET line
      OBVIOUS
    <3>3. IsFiniteSet(rest)
      <4> HIDE DEF rest
      <4> QED BY <1>2, <3>2, FS_Subset DEF LineKeyed
    <3>4. IsFiniteSet(line')
      BY <3>1, <3>3, FS_AddElement
    <3>5. ASSUME NEW l \in line', NEW m \in line', Host!Same(l, m) PROVE l = m
      <4>1. \A k \in rest : k \in line /\ ~Host!Same(k, rec) /\ ~Host!Same(rec, k)
        BY DEF Host!Same
      <4> HIDE DEF rest
      <4> QED BY <1>2, <3>1, <3>5, <4>1 DEF LineKeyed
    <3> QED BY <3>4, <3>5 DEF LineKeyed, Host!Same
  <2>2. CASE ~(attached /\ Host!Owns(x))
    BY <1>1, <1>2, <2>2 DEF LineKeyed, Host!Same
  <2> QED BY <2>1, <2>2
<1>10. RunsKnown'
  <2>1. /\ \A y \in running : y.id <= runs /\ \A z \in running : y.id = z.id => y = z
        /\ \A l \in line : l.run <= runs
        /\ \A f \in receipts : f.run <= runs
        /\ \A y \in running : \A f \in receipts : f.run = y.id => f.pending /\ Host!Same(f, y)
        /\ \A y \in running : \A l \in line : l.run # y.id
    BY <1>2 DEF RunsKnown
  <2>2. \A l \in line' : l \in line \/ l = rec
    BY <1>1
  <2>3. /\ \A y \in running' : y.id <= runs' /\ \A z \in running' : y.id = z.id => y = z
        /\ \A l \in line' : l.run <= runs'
        /\ \A y \in running' : \A l \in line' : l.run # y.id
    BY <1>1, <1>5, <2>1, <2>2
  <2>4. ASSUME NEW f \in receipts'
        PROVE  f.run <= runs' /\ \A y \in running' : f.run = y.id => f.pending /\ Host!Same(f, y)
    <3>1. PICK e \in receipts : f = done(e)
      BY <1>1
    <3>2. f.run = e.run
      BY <1>6, <3>1
    <3>3. ASSUME NEW y \in running', f.run = y.id PROVE f.pending /\ Host!Same(f, y)
      <4>1. y \in running /\ y # x
        BY <1>1
      <4>2. e.run # x.id
        BY <2>1, <3>2, <3>3, <4>1
      <4>3. f = e
        BY <1>6, <3>1, <4>2
      <4> QED BY <2>1, <3>3, <4>1, <4>3
    <3> QED BY <1>1, <2>1, <3>2, <3>3
  <2> QED BY <2>3, <2>4 DEF RunsKnown, Host!Same
<1>11. Host!LineIsIndex'
  <2> SUFFICES ASSUME attached, ~hostClosed PROVE line' = Host!Recorded'
    BY <1>1 DEF Host!LineIsIndex
  <2>1. RecordsOf(line, receipts)
    BY <1>2, RecordedIs DEF Host!LineIsIndex
  <2>2. CASE ~Host!Owns(x)
    <3>1. \A e \in receipts : e.run # x.id
      BY <1>2, <2>2, OwnedFacts
    <3>2. receipts' = receipts
      BY <1>1, <1>6, <3>1
    <3> QED BY <1>1, <2>1, <2>2, <3>2, RecordedNext
  <2>3. CASE Host!Owns(x)
    <3>1. line' = {l \in line : ~Host!Same(l, rec)} \cup {rec}
      BY <1>1, <2>3
    <3>2. PICK e \in receipts : e.run = x.id
      BY <2>3 DEF Host!Owns
    <3>3. /\ e.pending /\ Host!Same(e, rec)
          /\ \A f \in receipts : f.run = x.id => f = e
      BY <1>2, <1>5, <3>2, OwnedFacts DEF Host!Same
    <3>4. /\ ~done(e).pending /\ done(e) \in receipts' /\ RecordOf(done(e)) = rec
      BY <1>1, <1>5, <1>6, <1>2, <3>2, OwnedFacts DEF RecordOf, rec
    <3>5. \A f \in receipts : ~f.pending => f \in receipts' /\ ~Host!Same(f, rec)
      BY <1>1, <1>3, <1>6, <3>3 DEF Host!Same
    <3>6. ASSUME NEW m \in line' PROVE \E f \in receipts' : ~f.pending /\ m = RecordOf(f)
      <4>1. CASE m = rec
        BY <3>4, <4>1
      <4>2. CASE m \in line
        BY <2>1, <3>5, <4>2 DEF RecordsOf
      <4> QED BY <3>1, <4>1, <4>2
    <3>7. ASSUME NEW f \in receipts', ~f.pending PROVE RecordOf(f) \in line'
      <4>1. PICK g \in receipts : f = done(g)
        BY <1>1
      <4>2. CASE g.run = x.id
        BY <3>1, <3>3, <3>4, <4>1, <4>2
      <4>3. CASE g.run # x.id
        <5>1. f = g /\ ~Host!Same(g, rec)
          BY <1>6, <3>5, <3>7, <4>1, <4>3
        <5>2. RecordOf(f) \in line
          BY <2>1, <3>7, <5>1 DEF RecordsOf
        <5>3. ~Host!Same(RecordOf(f), rec)
          BY <5>1 DEF Host!Same, RecordOf
        <5> QED BY <3>1, <5>2, <5>3
      <4> QED BY <4>2, <4>3
    <3> QED BY <3>6, <3>7, RecordedNext DEF RecordsOf
  <2> QED BY <2>2, <2>3
<1>12. CommitsAnswered'
  <2>1. CASE attached /\ Host!Owns(x)
    BY <1>1, <1>2, <1>5, <2>1, PublishedKeeps
  <2>2. CASE ~(attached /\ Host!Owns(x))
    <3>1. Host!EvictsNothing' => Host!EvictsNothing
      BY DEF Host!EvictsNothing, Host!MaxPerAccount, Host!MaxTotal
    <3> QED BY <1>1, <1>2, <2>2, <3>1 DEF CommitsAnswered, Host!Same
  <2> QED BY <2>1, <2>2
<1> QED BY <1>8, <1>9, <1>10, <1>11, <1>12 DEF HostInv

LEMMA HostNext ==
  ASSUME HostInv, Host!CommandAssumption, Host!Next \/ UNCHANGED hostVars
  PROVE  HostInv'
<1>1. CASE UNCHANGED hostVars
  <2>1. /\ UNCHANGED <<bounds, now, order, receipts, total, attached, line, running, entered, runs>>
        /\ UNCHANGED <<hostClosed, published>>
    BY <1>1 DEF hostVars
  <2>2. HostTyped
    BY DEF HostInv
  <2>3. order \in Lists /\ now \in Nat /\ entered \in Seq(Host!Run) /\ now <= MaxNow /\ MaxNow \in Nat
    BY <2>2, HostTypedGives, BoundsFacts DEF HostTyped
  <2>4. now' \in now..MaxNow
    BY <2>1, <2>3
  <2> QED BY <2>1, <2>2, <2>3, <2>4, HostTypedGives, OrderKeeps
<1>2. CASE Host!Next
  <2>1. bounds' = bounds /\ Host!Step
    BY <1>2 DEF Host!Next
  <2>2. CASE \E a \in Accounts, r \in Requests :
                Host!Reserve(a, r) \/ Host!RateLimited(a, r) \/ Host!Duplicate(a, r)
                \/ Host!OtherCommits(a, r)
    BY <2>1, <2>2, ReserveKeeps, RateLimitedKeeps, DuplicateKeeps, OtherCommitsKeeps
  <2>3. CASE Host!Entered
    BY <2>1, <2>3, EnteredKeeps
  <2>4. CASE \E x \in running : Host!Commit(x) \/ Host!Fail(x)
    BY <2>1, <2>4, CommitKeeps, FailKeeps
  <2>5. CASE Host!Tick
    BY <2>1, <2>5, TickKeeps
  <2>6. CASE Host!Detach \/ Host!Crash \/ Host!Close
    BY <2>1, <2>6, ClearingKeeps
  <2>7. CASE Host!Adopt
    BY <2>1, <2>7, AdoptKeeps
  <2> QED BY <2>1, <2>2, <2>3, <2>4, <2>5, <2>6, <2>7 DEF Host!Step
<1> QED BY <1>1, <1>2

-----------------------------------------------------------------------------
(* The properties of the command host *)

HostStep == Host!Next \/ UNCHANGED hostVars

LEMMA AuthoritySteps ==
  ASSUME [CandidateNext \/ LeaderNext \/ CommandNext \/ ScaleNext]_allVars
  PROVE  /\ HostStep
         /\ Scale!Next \/ UNCHANGED authorityVars
  BY DEF CandidateNext, LeaderNext, CommandNext, ScaleNext, allVars, HostStep, authorityVars, hostVars

LEMMA HostInvHolds == AuthoritySpec => []HostInv
<1>1. AuthorityInit => HostInv
  BY AuthorityAssumption, HostInit DEF AuthorityInit
<1>2. HostInv /\ [CandidateNext \/ LeaderNext \/ CommandNext \/ ScaleNext]_allVars => HostInv'
  BY AuthorityAssumption, AuthoritySteps, HostNext DEF HostStep
<1> QED BY <1>1, <1>2, PTL DEF AuthoritySpec

\* What a successor would answer from the line is what this host would answer, in every
\* interleaving of commands, expiry, eviction, crashes and adoptions
\* (command-host.ts:245-249).
THEOREM LineIsIndexHolds == AuthoritySpec => []LineIsIndex
<1>1. HostInv => LineIsIndex
  BY DEF HostInv, LineIsIndex
<1> QED BY <1>1, HostInvHolds, PTL

\* A run begins for a request that has no receipt, and so no commit on record.
LEMMA OnceOnly ==
  ASSUME HostInv, HostStep, NEW x \in running' \ running, attached, Host!EvictsNothing,
         NEW p \in published, p.account = x.account, p.req = x.req, p.ts > now - KeepMs
  PROVE  FALSE
<1>1. HostTyped /\ CommitsAnswered /\ Host!LineIsIndex
  BY DEF HostInv
<1>2. \E a \in Accounts, r \in Requests : Host!Reserve(a, r)
  BY DEF HostStep, hostVars, Host!Next, Host!Step, Host!RateLimited, Host!Duplicate,
         Host!OtherCommits, Host!Entered, Host!Commit, Host!Fail, Host!Tick, Host!Detach,
         Host!Adopt, Host!Crash, Host!Close
<1>3. PICK a \in Accounts, r \in Requests : Host!Reserve(a, r)
  BY <1>2
<1>4. /\ ~hostClosed /\ x.account = a /\ x.req = r
      /\ \A e \in receipts : ~(e.account = a /\ e.req = r)
  BY <1>3 DEF Host!Reserve, Host!Callable, Host!Has
<1>5. PICK l \in line : Host!Same(l, p)
  BY <1>1 DEF CommitsAnswered
<1>6. PICK e \in receipts : l = RecordOf(e)
  BY <1>1, <1>4, <1>5, RecordedFacts DEF Host!LineIsIndex
<1>7. e.account = a /\ e.req = r
  BY <1>4, <1>5, <1>6 DEF Host!Same, RecordOf
<1> QED BY <1>4, <1>7

\* The receipt of a run in flight goes only with the index.
LEMMA ReceiptStays ==
  ASSUME HostInv, HostStep, NEW x \in running, Host!Owns(x), x \in running'
  PROVE  \/ order' = <<>> \/ attached' # attached \/ hostClosed'
         \/ \E e \in receipts' : e.account = x.account /\ e.run = x.id
<1>1. HostTyped /\ RunsKnown
  BY DEF HostInv
<1>2. PICK e \in receipts : e.account = x.account /\ e.run = x.id
  BY DEF Host!Owns
<1>3. e.pending
  BY <1>1, <1>2 DEF RunsKnown
<1>4. CASE Host!Entered
  <2>1. CASE UNCHANGED receipts
    BY <1>2, <2>1
  <2>2. CASE ~UNCHANGED receipts
    <3> DEFINE t == Host!Compact(Host!Sweep(Idx, Host!Last(entered).account))
    <3>1. Host!Become(t)
      BY <1>4, <2>2 DEF Host!Entered, Idx, Host!indexVars
    <3>2. Sound(Idx) /\ bounds.perAccount \in Nat /\ bounds.total \in Nat
      BY <1>1, AuthorityAssumption, BoundsFacts DEF HostTyped
    <3>3. Kept(Idx, t)
      BY <3>2, EnteredFacts
    <3> HIDE DEF t
    <3>4. e \in t.receipts
      BY <1>2, <1>3, <3>3, IdxFacts DEF Kept
    <3> QED BY <1>2, <3>1, <3>4 DEF Host!Become
  <2> QED BY <2>1, <2>2
<1>5. CASE \E y \in running : Host!Commit(y)
  <2>1. PICK y \in running : Host!Commit(y)
    BY <1>5
  <2>2. /\ x # y
        /\ receipts' = {IF f.run = y.id THEN [f EXCEPT !.pending = FALSE, !.ts = now] ELSE f : f \in receipts}
    BY <2>1 DEF Host!Commit
  <2>3. e.run # y.id
    BY <1>1, <1>2, <2>2 DEF RunsKnown
  <2>4. e \in receipts'
    BY <2>2, <2>3
  <2> QED BY <1>2, <2>4
<1>6. CASE \E y \in running : Host!Fail(y)
  <2>1. PICK y \in running : Host!Fail(y)
    BY <1>6
  <2>2. x # y /\ (receipts' = receipts \/ receipts' = {f \in receipts : f.run # y.id})
    BY <2>1 DEF Host!Fail
  <2>3. e.run # y.id
    BY <1>1, <1>2, <2>2 DEF RunsKnown
  <2> QED BY <1>2, <2>2, <2>3
<1>7. CASE Host!Detach \/ Host!Crash \/ Host!Close
  BY <1>7 DEF Host!Detach, Host!Crash, Host!Close, Host!Become, Host!Cleared, Host!Index
<1>8. CASE Host!Adopt
  BY <1>8 DEF Host!Adopt
<1>9. CASE \E a \in Accounts, r \in Requests :
              Host!Reserve(a, r) \/ Host!RateLimited(a, r) \/ Host!Duplicate(a, r)
              \/ Host!OtherCommits(a, r)
  BY <1>2, <1>9 DEF Host!Reserve, Host!RateLimited, Host!Duplicate, Host!OtherCommits, Host!indexVars
<1>10. CASE Host!Tick
  BY <1>2, <1>10 DEF Host!Tick, Host!indexVars
<1>11. CASE UNCHANGED hostVars
  BY <1>2, <1>11 DEF hostVars
<1> QED BY <1>4, <1>5, <1>6, <1>7, <1>8, <1>9, <1>10, <1>11 DEF HostStep, Host!Next, Host!Step

\* What an index within its bounds says of the next state.
LEMMA WithinFacts ==
  ASSUME NEW t, Sound(t), Host!Become(t), bounds' = bounds
  PROVE  /\ Done(t) => Host!WithinTotal'
         /\ \A a : Fits(t, a) => Host!WithinAccount(a)'
<1>1. receipts' = t.receipts /\ total' = t.total
  BY DEF Host!Become
<1>2. Done(t) => Host!WithinTotal'
  BY <1>1 DEF Done, Host!WithinTotal, Host!MaxTotal
<1>3. ASSUME NEW a, Fits(t, a) PROVE Host!WithinAccount(a)'
  <2>1. {e \in receipts' : e.account = a} = Host!Of(t, a)
    BY <1>1 DEF Host!Of
  <2> QED BY <1>3, <2>1, SameCount DEF Fits, Host!WithinAccount, Host!MaxPerAccount
<1> QED BY <1>2, <1>3

LEMMA EmptyIsWithin ==
  ASSUME receipts' = {}
  PROVE  Host!WithinTotal' /\ \A a : Host!WithinAccount(a)'
  BY DEF Host!WithinTotal, Host!WithinAccount

\* A command that has been entered, or dies.
LEMMA EnteredRestores ==
  ASSUME HostInv, HostStep, Len(entered') < Len(entered), Host!Owns(Host!Last(entered))
  PROVE  Host!WithinTotal' /\ \A a \in {Host!Last(entered).account} : Host!WithinAccount(a)'
<1>1. HostTyped
  BY DEF HostInv
<1>2. entered \in Seq(Host!Run) /\ Len(entered) \in Nat
  BY <1>1, LenProperties DEF HostTyped
<1>3. CASE Host!Entered
  <2> DEFINE acc == Host!Last(entered).account
             t == Host!Compact(Host!Sweep(Idx, acc))
  <2>1. Host!Become(t)
    BY <1>3 DEF Host!Entered, Idx
  <2>2. bounds' = bounds
    BY <1>2, <1>3 DEF HostStep, Host!Next, hostVars, Host!Entered
  <2>3. Sound(Idx) /\ bounds.perAccount \in Nat /\ bounds.total \in Nat
    BY <1>1, AuthorityAssumption, BoundsFacts DEF HostTyped
  <2>4. Sound(t) /\ Done(t) /\ Fits(t, acc)
    BY <2>3, EnteredFacts
  <2> HIDE DEF t
  <2>5. Host!WithinTotal' /\ \A a : Fits(t, a) => Host!WithinAccount(a)'
    BY <2>1, <2>2, <2>4, WithinFacts
  <2> QED BY <2>4, <2>5
<1>4. CASE Host!Crash
  <2>1. receipts' = {}
    BY <1>4 DEF Host!Crash, Host!Become, Host!Cleared, Host!Index
  <2> QED BY <2>1, EmptyIsWithin
<1>5. CASE \E a \in Accounts, r \in Requests : Host!Reserve(a, r)
  <2>1. PICK a \in Accounts, r \in Requests : Host!Reserve(a, r)
    BY <1>5
  <2>2. entered' = Append(entered, [id |-> runs + 1, account |-> a, req |-> r])
    BY <2>1 DEF Host!Reserve
  <2>3. runs + 1 \in Nat
    BY <1>1, HostTypedGives
  <2>4. [id |-> runs + 1, account |-> a, req |-> r] \in Host!Run
    BY <2>3 DEF Host!Run
  <2>5. Len(entered') = Len(entered) + 1
    BY <1>2, <2>2, <2>4, AppendProperties
  <2> QED BY <1>2, <2>5
<1>6. CASE entered' = entered
  BY <1>2, <1>6
<1> QED BY <1>3, <1>4, <1>5, <1>6 DEF HostStep, hostVars, Host!Next, Host!Step, Host!RateLimited,
      Host!Duplicate, Host!OtherCommits, Host!Commit, Host!Fail, Host!Tick, Host!Detach,
      Host!Adopt, Host!Close

LEMMA AdoptRestores ==
  ASSUME HostInv, HostStep, attached', ~attached
  PROVE  Host!WithinTotal' /\ \A a : Host!WithinAccount(a)'
<1>1. HostTyped /\ LineKeyed
  BY DEF HostInv
<1>2. Host!Adopt /\ bounds' = bounds
  BY DEF HostStep, hostVars, Host!Next, Host!Step, Host!Reserve, Host!RateLimited, Host!Entered,
         Host!Duplicate, Host!OtherCommits, Host!Commit, Host!Fail, Host!Tick, Host!Detach,
         Host!Crash, Host!Close
<1>3. PICK at \in Host!ByCommitTime : \E o \in Host!ByLastUse(at) :
          Host!Become(Host!Compact(Host!SweepAll(Host!Rebuilt(at, o))))
  BY <1>2 DEF Host!Adopt
<1>4. PICK o \in Host!ByLastUse(at) :
          Host!Become(Host!Compact(Host!SweepAll(Host!Rebuilt(at, o))))
  BY <1>3
<1> DEFINE s == Host!Rebuilt(at, o)
           t == Host!Compact(Host!SweepAll(s))
<1>5. Sound(s)
  BY <1>1, RebuiltFacts DEF HostTyped, LineKeyed
<1>6. Host!Become(t)
  BY <1>4
<1>7. bounds.perAccount \in Nat /\ bounds.total \in Nat
  BY <1>1, AuthorityAssumption, BoundsFacts DEF HostTyped
<1> HIDE DEF s
<1>8. Sound(t) /\ Done(t) /\ \A a : Fits(t, a)
  BY <1>5, <1>7, AdoptedFacts
<1> HIDE DEF t
<1> QED BY <1>2, <1>6, <1>8, WithinFacts

\* Duplicates share the run in flight: neither expiry nor a bound takes its receipt
\* (command-host.ts:136, 166).
THEOREM InFlightKeepsItsReceiptHolds == AuthoritySpec => InFlightKeepsItsReceipt
<1> DEFINE A == \A x \in running :
        Host!Owns(x) /\ x \in running' =>
            \/ order' = <<>> \/ attached' # attached \/ hostClosed'
            \/ \E e \in receipts' : e.account = x.account /\ e.run = x.id
<1>1. HostInv /\ [CandidateNext \/ LeaderNext \/ CommandNext \/ ScaleNext]_allVars
        => [A]_Host!vars
  BY AuthoritySteps, ReceiptStays
<1>2. InFlightKeepsItsReceipt <=> [][A]_Host!vars
  BY DEF InFlightKeepsItsReceipt, Host!InFlightKeepsItsReceipt
<1> HIDE DEF A
<1> QED BY <1>1, <1>2, HostInvHolds, PTL DEF AuthoritySpec

\* The eviction restores the bounds, in the turns it gives itself
\* (command-host.ts:160-177).
THEOREM BoundsRestoredHolds == AuthoritySpec => BoundsRestored
<1> DEFINE A ==
        /\ (Len(entered') < Len(entered) /\ Host!Owns(Host!Last(entered))
                => Host!WithinTotal' /\ \A a \in {Host!Last(entered).account} : Host!WithinAccount(a)')
        /\ (attached' /\ ~attached => Host!WithinTotal' /\ \A a \in Accounts : Host!WithinAccount(a)')
<1>1. HostInv /\ HostStep => A
  BY EnteredRestores, AdoptRestores
<1>2. HostInv /\ [CandidateNext \/ LeaderNext \/ CommandNext \/ ScaleNext]_allVars
        => [A]_Host!vars
  BY <1>1, AuthoritySteps
<1>3. BoundsRestored <=> [][A]_Host!vars
  BY DEF BoundsRestored, Host!BoundsRestored
<1> HIDE DEF A
<1> QED BY <1>2, <1>3, HostInvHolds, PTL DEF AuthoritySpec

-----------------------------------------------------------------------------
(* The invariant of the authority process *)

\* The types that the argument needs.
ScaleShape ==
    /\ writer \in {"leader", "follower"} /\ announced \in {"leader", "follower"}
    /\ control \in [kind : {"owner", "follower", "idle"},
                    health : {"none", "catching", "live", "closed"}, facts : Scale!Facts]
    /\ roster \in {"none", "live", "stale"}
    /\ host \in [line : {"none", "live", "stale"}, index : SUBSET Keys]
    /\ inFlight \subseteq [key : Keys, mine : BOOLEAN]
    /\ upstream \in Scale!Facts

\* What an owned line is made of: the facets of the process and of its command host are
\* facets of it, and its roster names no other leader.
LineIsWhole ==
    /\ roster = "live" /\ host.line = "live" /\ control.facts.receipts = host.index
    /\ \A n \in Scale!Rows \ {"self"} : control.facts.rows[n] # "leader"
    /\ started => control.facts.rows["self"] = "leader"

\* By the role that was acted upon.  A leader that has not slipped keeps its line for as
\* long as nothing else is followed, also through a demotion it has not heard of.
RoleHeld ==
    ~shut =>
        /\ announced = "follower" =>
            control.kind # "owner" /\ roster = "none" /\ host.line = "none"
        /\ announced = "leader" /\ ~slipped =>
            /\ writer = "leader" => control.kind = "owner"
            /\ control.kind = "owner" => LineIsWhole

ScaleInv == ScaleShape /\ RoleHeld

LEMMA EmptyIsFacts == Scale!Empty \in Scale!Facts /\ [Scale!Empty EXCEPT !.rows["upstream"] = "leader"] \in Scale!Facts
  BY DEF Scale!Empty, Scale!Facts, Scale!NoRows, Scale!Rows, Scale!RowRoles

LEMMA ScaleInvInit == Scale!Init => ScaleInv
<1> SUFFICES ASSUME Scale!Init PROVE ScaleInv
  OBVIOUS
<1>1. ScaleShape
  BY EmptyIsFacts DEF Scale!Init, ScaleShape
<1>2. RoleHeld
  BY DEF Scale!Init, RoleHeld, LineIsWhole, Scale!Empty, Scale!NoRows, Scale!Rows
<1> QED BY <1>1, <1>2 DEF ScaleInv

\* Taking the lead makes a whole line of whatever the control line shows.
LEMMA LeadingIsWhole ==
  ASSUME ScaleShape, Scale!BecomeLeader, UNCHANGED started
  PROVE  /\ LineIsWhole' /\ control'.kind = "owner"
         /\ control' \in [kind : {"owner", "follower", "idle"},
                          health : {"none", "catching", "live", "closed"}, facts : Scale!Facts]
         /\ roster' \in {"none", "live", "stale"}
         /\ host' \in [line : {"none", "live", "stale"}, index : SUBSET Keys]
<1> DEFINE rows == Scale!OwnRow(Scale!Inherited(control.facts.rows))
<1> DEFINE facts == [control.facts EXCEPT !.rows = Scale!OwnRow(Scale!Inherited(@))]
<1>1. control.facts \in Scale!Facts /\ control.facts.rows \in [Scale!Rows -> Scale!RowRoles]
  BY DEF ScaleShape, Scale!Facts
<1>2. Scale!Inherited(control.facts.rows) \in [Scale!Rows -> Scale!RowRoles]
  BY <1>1 DEF Scale!Inherited, Scale!Rows, Scale!RowRoles
<1>3. rows \in [Scale!Rows -> Scale!RowRoles]
  BY <1>2 DEF Scale!OwnRow, Scale!Rows, Scale!RowRoles
<1>4. \A n \in Scale!Rows \ {"self"} : rows[n] # "leader"
  BY <1>1 DEF Scale!OwnRow, Scale!Inherited, Scale!Rows, Scale!RowRoles
<1>5. started => rows["self"] = "leader"
  BY <1>2 DEF Scale!OwnRow, Scale!Rows
<1>6. facts \in Scale!Facts /\ facts.rows = rows /\ facts.receipts \subseteq Keys
  BY <1>1, <1>3 DEF Scale!Facts
<1>7. control' = Scale!Promoted(facts) /\ roster' = "live" /\ host' = [line |-> "live", index |-> facts.receipts]
  BY DEF Scale!BecomeLeader
<1> HIDE DEF rows, facts
<1>8. control' = [kind |-> "owner", health |-> "none", facts |-> facts]
  BY <1>7 DEF Scale!Promoted
<1>9. control'.facts = facts /\ control'.kind = "owner" /\ host'.line = "live" /\ host'.index = facts.receipts
  BY <1>7, <1>8
<1>10. LineIsWhole'
  BY <1>4, <1>5, <1>6, <1>7, <1>9 DEF LineIsWhole
<1> QED BY <1>6, <1>7, <1>8, <1>9, <1>10

\* A standby has nothing of an owner.
LEMMA StandingIsBare ==
  ASSUME ScaleShape, Scale!BecomeStandby
  PROVE  /\ control'.kind # "owner" /\ roster' = "none" /\ host'.line = "none"
         /\ control' \in [kind : {"owner", "follower", "idle"},
                          health : {"none", "catching", "live", "closed"}, facts : Scale!Facts]
         /\ host' \in [line : {"none", "live", "stale"}, index : SUBSET Keys]
<1>1. roster' = "none" /\ host' = [line |-> "none", index |-> {}]
  BY DEF Scale!BecomeStandby
<1>2. CASE Scale!Follow(link)
  BY <1>1, <1>2 DEF Scale!Follow, ScaleShape
<1>3. CASE control' = Scale!Released
  BY <1>1, <1>3 DEF Scale!Released, ScaleShape
<1> QED BY <1>2, <1>3 DEF Scale!BecomeStandby

LEMMA SyncKeeps ==
  ASSUME ScaleInv, Scale!SyncRole, UNCHANGED <<writer, shut, started, upstream>>
  PROVE  ScaleInv'
<1>1. CASE UNCHANGED Scale!lineVars
  BY <1>1 DEF Scale!lineVars, ScaleInv, ScaleShape, RoleHeld, LineIsWhole
<1>2. CASE ~UNCHANGED Scale!lineVars
  <2>1. /\ announced' = IF Scale!Leading THEN "leader" ELSE "follower"
        /\ inFlight' = {[x EXCEPT !.mine = FALSE] : x \in inFlight}
    BY <1>2 DEF Scale!SyncRole
  <2>2. inFlight' \subseteq [key : Keys, mine : BOOLEAN]
    <3> SUFFICES ASSUME NEW x \in inFlight PROVE [x EXCEPT !.mine = FALSE] \in [key : Keys, mine : BOOLEAN]
      BY <2>1
    <3>1. x \in [key : Keys, mine : BOOLEAN]
      BY DEF ScaleInv, ScaleShape
    <3>2. FALSE \in BOOLEAN
      OBVIOUS
    <3> QED BY <3>1, <3>2
  <2>3. CASE Scale!Leading
    <3>1. Scale!BecomeLeader /\ announced' = "leader"
      BY <1>2, <2>1, <2>3 DEF Scale!SyncRole
    <3>2. ScaleShape'
      BY <2>2, <3>1, LeadingIsWhole DEF ScaleInv, ScaleShape
    <3>3. RoleHeld'
      BY <3>1, LeadingIsWhole DEF ScaleInv, RoleHeld
    <3> QED BY <3>2, <3>3 DEF ScaleInv
  <2>4. CASE ~Scale!Leading
    <3>1. Scale!BecomeStandby /\ announced' = "follower"
      BY <1>2, <2>1, <2>4 DEF Scale!SyncRole
    <3>2. ScaleShape'
      BY <2>2, <3>1, StandingIsBare DEF ScaleInv, ScaleShape
    <3>3. RoleHeld'
      BY <3>1, StandingIsBare DEF ScaleInv, RoleHeld
    <3> QED BY <3>2, <3>3 DEF ScaleInv
  <2> QED BY <2>3, <2>4
<1> QED BY <1>1, <1>2

\* A line that is only followed, or let go, is replaced without a word about owners.
LEMMA FollowedKeeps ==
  ASSUME ScaleInv, control.kind # "owner",
         control'.kind # "owner", UNCHANGED <<writer, announced, roster, host, inFlight, shut, upstream>>,
         control' \in [kind : {"owner", "follower", "idle"},
                       health : {"none", "catching", "live", "closed"}, facts : Scale!Facts],
         slipped' = slipped
  PROVE  ScaleInv'
  BY DEF ScaleInv, ScaleShape, RoleHeld

\* What is written to the line that is owned leaves it whole.
LEMMA WrittenKeeps ==
  ASSUME ScaleInv, NEW facts \in Scale!Facts, control' = [control EXCEPT !.facts = facts],
         UNCHANGED <<writer, announced, roster, host, inFlight, shut, started, upstream, slipped>>,
         facts.receipts = control.facts.receipts,
         \A n \in Scale!Rows : facts.rows[n] = "leader" <=> control.facts.rows[n] = "leader"
  PROVE  ScaleInv'
<1>1. control'.kind = control.kind /\ control'.facts = facts
  BY DEF ScaleInv, ScaleShape
<1>2. ScaleShape'
  BY DEF ScaleInv, ScaleShape
<1>3. "self" \in Scale!Rows
  BY DEF Scale!Rows
<1>4. LineIsWhole => LineIsWhole'
  BY <1>1, <1>3 DEF LineIsWhole
<1> QED BY <1>1, <1>2, <1>4 DEF ScaleInv, RoleHeld

LEMMA ScaleInvNext == ScaleInv /\ (Scale!Next \/ UNCHANGED authorityVars) => ScaleInv'
<1> SUFFICES ASSUME ScaleInv, (Scale!Next \/ UNCHANGED authorityVars) PROVE ScaleInv'
  OBVIOUS
<1>1. CASE Scale!Hears
  <2>1. control'.kind = "follower" /\ control.kind = "follower"
    BY <1>1 DEF Scale!Hears, ScaleInv, ScaleShape
  <2>2. control' \in [kind : {"owner", "follower", "idle"},
                      health : {"none", "catching", "live", "closed"}, facts : Scale!Facts]
    <3>1. CASE control' = [control EXCEPT !.health = "live", !.facts = upstream]
      BY <3>1 DEF ScaleInv, ScaleShape
    <3>2. CASE \E section \in {"denied", "receipts", "rows"} :
                  control' = [control EXCEPT !.facts[section] = upstream[section]]
      <4>1. PICK section \in {"denied", "receipts", "rows"} :
              control' = [control EXCEPT !.facts[section] = upstream[section]]
        BY <3>2
      <4>2. [control.facts EXCEPT ![section] = upstream[section]] \in Scale!Facts
        BY DEF ScaleInv, ScaleShape, Scale!Facts
      <4> QED BY <4>1, <4>2 DEF ScaleInv, ScaleShape
    <3> QED BY <1>1, <3>1, <3>2 DEF Scale!Hears
  <2> QED BY <1>1, <2>1, <2>2, FollowedKeeps DEF Scale!Hears
<1>2. CASE Scale!FollowedEnds
  <2>1. control'.kind = "follower" /\ control.kind = "follower"
    BY <1>2 DEF Scale!FollowedEnds, ScaleInv, ScaleShape
  <2>2. control' \in [kind : {"owner", "follower", "idle"},
                      health : {"none", "catching", "live", "closed"}, facts : Scale!Facts]
    BY <1>2 DEF Scale!FollowedEnds, ScaleInv, ScaleShape
  <2> QED BY <1>2, <2>1, <2>2, FollowedKeeps DEF Scale!FollowedEnds
<1>3. CASE Scale!Resolve
  <2>1. CASE Scale!Leading
    BY <1>3, <2>1 DEF Scale!Resolve, ScaleInv, ScaleShape, RoleHeld, LineIsWhole
  <2>2. CASE ~Scale!Leading
    <3>1. /\ control' = [kind |-> "follower", health |-> "catching", facts |-> control.facts]
          /\ roster' = Scale!Stale(roster) /\ host' = [host EXCEPT !.line = Scale!Stale(host.line)]
          /\ UNCHANGED <<writer, announced, inFlight, shut, started, upstream, slipped>> /\ ~shut
      BY <1>3, <2>2 DEF Scale!Resolve, Scale!Follow
    <3>2. ScaleShape'
      BY <3>1 DEF ScaleInv, ScaleShape, Scale!Stale
    <3>3. writer = "follower" /\ control'.kind # "owner"
      BY <2>2, <3>1 DEF Scale!Leading, ScaleInv, ScaleShape
    <3>4. announced = "follower" => roster' = "none" /\ host'.line = "none"
      BY <3>1 DEF ScaleInv, ScaleShape, RoleHeld, Scale!Stale
    <3> QED BY <3>1, <3>2, <3>3, <3>4 DEF ScaleInv, RoleHeld
  <2> QED BY <2>1, <2>2
<1>4. CASE Scale!FollowSettles
  <2>1. upstream' \in Scale!Facts
    BY <1>4 DEF Scale!FollowSettles, Scale!AnnouncesStandby, ScaleInv, ScaleShape, Scale!Facts, Scale!Rows, Scale!RowRoles
  <2> QED BY <1>4, <2>1 DEF Scale!FollowSettles, ScaleInv, ScaleShape, RoleHeld, LineIsWhole
<1>5. CASE Scale!UpstreamWrites
  <2>1. upstream' \in Scale!Facts
    BY <1>5 DEF Scale!UpstreamWrites, ScaleInv, ScaleShape, Scale!Facts
  <2> QED BY <1>5, <2>1 DEF Scale!UpstreamWrites, ScaleInv, ScaleShape, RoleHeld, LineIsWhole
<1>6. CASE Scale!Elected
  BY <1>6 DEF Scale!Elected, ScaleInv, ScaleShape, RoleHeld, LineIsWhole
<1>7. CASE Scale!Demoted
  BY <1>7 DEF Scale!Demoted, ScaleInv, ScaleShape, RoleHeld, LineIsWhole
<1>8. CASE Scale!RoleDrained
  BY <1>8, SyncKeeps DEF Scale!RoleDrained
<1>9. CASE Scale!PromoteAsked
  BY <1>9 DEF Scale!PromoteAsked, ScaleInv, ScaleShape, RoleHeld, LineIsWhole
<1>10. CASE Scale!PromoteReturns
  <2>1. CASE Scale!SyncRole
    BY <1>10, <2>1, SyncKeeps DEF Scale!PromoteReturns
  <2>2. CASE UNCHANGED Scale!lineVars
    BY <1>10, <2>2 DEF Scale!PromoteReturns, Scale!lineVars, ScaleInv, ScaleShape, RoleHeld, LineIsWhole
  <2> QED BY <1>10, <2>1, <2>2 DEF Scale!PromoteReturns
<1>11. CASE Scale!Start
  <2>1. CASE Scale!Leading
    <3>1. CASE roster = "live"
      <4>1. control' = [control EXCEPT !.facts.rows["self"] = "leader"]
        BY <1>11, <2>1, <3>1 DEF Scale!Start
      <4>2. ScaleShape'
        BY <1>11, <2>1, <4>1 DEF Scale!Start, ScaleInv, ScaleShape, Scale!Facts, Scale!Rows, Scale!RowRoles
      <4>3. /\ control'.kind = control.kind /\ control'.facts.receipts = control.facts.receipts
            /\ control'.facts.rows = [control.facts.rows EXCEPT !["self"] = "leader"]
        BY <4>1 DEF ScaleInv, ScaleShape, Scale!Facts
      <4>4. control.facts.rows \in [Scale!Rows -> Scale!RowRoles]
        BY DEF ScaleInv, ScaleShape, Scale!Facts
      <4>5. LineIsWhole => LineIsWhole'
        BY <1>11, <4>3, <4>4 DEF Scale!Start, LineIsWhole, Scale!Rows
      <4> QED BY <1>11, <2>1, <4>2, <4>3, <4>5 DEF Scale!Start, ScaleInv, RoleHeld
    <3>2. CASE roster # "live"
      <4>1. ~LineIsWhole
        BY <3>2 DEF LineIsWhole
      <4> QED BY <1>11, <2>1, <3>2, <4>1 DEF Scale!Start, ScaleInv, ScaleShape, RoleHeld
    <3> QED BY <3>1, <3>2
  <2>2. CASE ~Scale!Leading
    <3>1. upstream' \in Scale!Facts
      BY <1>11, <2>2 DEF Scale!Start, Scale!AnnouncesStandby, ScaleInv, ScaleShape, Scale!Facts, Scale!Rows, Scale!RowRoles
    <3>2. UNCHANGED <<writer, announced, control, roster, host, inFlight, shut>> /\ ~shut
          /\ (announced = "leader" => slipped')
      BY <1>11, <2>2 DEF Scale!Start
    <3> QED BY <3>1, <3>2 DEF ScaleInv, ScaleShape, RoleHeld
  <2> QED BY <2>1, <2>2
<1>12. CASE Scale!CommandEnds
  <2>1. PICK x \in inFlight :
          /\ inFlight' = inFlight \ {x}
          /\ UNCHANGED <<writer, announced, roster, shut, started, upstream, slipped>>
          /\ \/ UNCHANGED <<host, control>>
             \/ /\ host' = [host EXCEPT !.index = @ \cup {x.key}]
                /\ control' = IF host.line = "live"
                              THEN [control EXCEPT !.facts.receipts = @ \cup {x.key}] ELSE control
    BY <1>12 DEF Scale!CommandEnds
  <2>2. x.key \in Keys
    BY DEF ScaleInv, ScaleShape
  <2>3. CASE UNCHANGED <<host, control>>
    BY <2>1, <2>3 DEF ScaleInv, ScaleShape, RoleHeld, LineIsWhole
  <2>4. CASE /\ host' = [host EXCEPT !.index = @ \cup {x.key}] /\ host.line = "live"
             /\ control' = [control EXCEPT !.facts.receipts = @ \cup {x.key}]
    <3>1. ScaleShape'
      BY <2>1, <2>2, <2>4 DEF ScaleInv, ScaleShape, Scale!Facts
    <3>2. /\ host'.line = host.line /\ host'.index = host.index \cup {x.key}
          /\ control'.kind = control.kind /\ control'.facts.rows = control.facts.rows
          /\ control'.facts.receipts = control.facts.receipts \cup {x.key}
      BY <2>4 DEF ScaleInv, ScaleShape, Scale!Facts
    <3>3. LineIsWhole => LineIsWhole'
      BY <2>1, <3>2 DEF LineIsWhole
    <3> QED BY <2>1, <3>1, <3>2, <3>3 DEF ScaleInv, RoleHeld
  <2>5. CASE host' = [host EXCEPT !.index = @ \cup {x.key}] /\ host.line # "live" /\ control' = control
    <3>1. ScaleShape'
      BY <2>1, <2>2, <2>5 DEF ScaleInv, ScaleShape
    <3>2. host'.line = host.line /\ ~LineIsWhole
      BY <2>5 DEF ScaleInv, ScaleShape, LineIsWhole
    <3> QED BY <2>1, <2>5, <3>1, <3>2 DEF ScaleInv, RoleHeld
  <2> QED BY <2>1, <2>3, <2>4, <2>5
<1>13. CASE Scale!ServeLink
  BY <1>13 DEF Scale!ServeLink, ScaleInv, ScaleShape, RoleHeld, LineIsWhole
<1>14. CASE Scale!Close
  <2>1. shut' /\ ScaleShape'
    BY <1>14 DEF Scale!Close, ScaleInv, ScaleShape
  <2> QED BY <2>1 DEF ScaleInv, RoleHeld
<1>15. CASE \E c \in Clients : Scale!Revoke(c) \/ Scale!Login(c)
  <2>1. PICK denied \in SUBSET Clients : control' = [control EXCEPT !.facts.denied = denied]
    BY <1>15 DEF Scale!Revoke, Scale!Login, ScaleInv, ScaleShape, Scale!Facts
  <2> DEFINE facts == [control.facts EXCEPT !.denied = denied]
  <2>2. facts \in Scale!Facts /\ control' = [control EXCEPT !.facts = facts]
        /\ facts.receipts = control.facts.receipts /\ facts.rows = control.facts.rows
    BY <2>1 DEF ScaleInv, ScaleShape, Scale!Facts
  <2> HIDE DEF facts
  <2> QED BY <1>15, <2>2, WrittenKeeps DEF Scale!Revoke, Scale!Login
<1>16. CASE \E k \in Keys : Scale!Execute(k)
  <2>1. inFlight' \subseteq [key : Keys, mine : BOOLEAN]
    <3>1. PICK k \in Keys : inFlight' = inFlight \cup {[key |-> k, mine |-> TRUE]}
      BY <1>16 DEF Scale!Execute
    <3>2. TRUE \in BOOLEAN
      OBVIOUS
    <3>3. [key |-> k, mine |-> TRUE] \in [key : Keys, mine : BOOLEAN]
      BY <3>2
    <3> QED BY <3>1, <3>3 DEF ScaleInv, ScaleShape
  <2> QED BY <1>16, <2>1 DEF Scale!Execute, ScaleInv, ScaleShape, RoleHeld, LineIsWhole
<1>17. CASE \E s \in served : Scale!LinkWrites(s)
  <2>1. UNCHANGED <<writer, announced, roster, host, inFlight, shut, started, upstream, slipped>>
    BY <1>17 DEF Scale!LinkWrites
  <2>2. PICK row \in {"none", "mirror"} :
          control' = IF roster = "live" THEN [control EXCEPT !.facts.rows["mirror"] = row] ELSE control
    BY <1>17 DEF Scale!LinkWrites
  <2>3. CASE roster = "live"
    <3>1. control' = [control EXCEPT !.facts.rows["mirror"] = row]
      BY <2>2, <2>3
    <3>2. control.facts.rows \in [Scale!Rows -> Scale!RowRoles]
      BY DEF ScaleInv, ScaleShape, Scale!Facts
    <3>3. ScaleShape'
      BY <2>1, <3>1 DEF ScaleInv, ScaleShape, Scale!Facts, Scale!Rows, Scale!RowRoles
    <3>4. /\ control'.kind = control.kind /\ control'.facts.receipts = control.facts.receipts
          /\ control'.facts.rows = [control.facts.rows EXCEPT !["mirror"] = row]
      BY <3>1 DEF ScaleInv, ScaleShape, Scale!Facts
    <3>5. LineIsWhole => LineIsWhole'
      BY <2>1, <3>2, <3>4 DEF LineIsWhole, Scale!Rows
    <3> QED BY <2>1, <3>3, <3>4, <3>5 DEF ScaleInv, RoleHeld
  <2>4. CASE roster # "live"
    BY <2>1, <2>2, <2>4 DEF ScaleInv, ScaleShape, RoleHeld, LineIsWhole
  <2> QED BY <2>3, <2>4
<1>18. CASE UNCHANGED authorityVars
  BY <1>18 DEF authorityVars, ScaleInv, ScaleShape, RoleHeld, LineIsWhole
<1> QED BY <1>1, <1>2, <1>3, <1>4, <1>5, <1>6, <1>7, <1>8, <1>9, <1>10, <1>11, <1>12, <1>13,
           <1>14, <1>15, <1>16, <1>17, <1>18 DEF Scale!Next

\* A standby that may lead of its own has followed.
HeardFirst ==
  /\ once \/ writer = "leader" \/ announced = "leader" => born \/ heard
  /\ \A f \in follows : f.link <= link /\ (f.settled /\ f.link = link /\ ~shut => born \/ heard)
  /\ link \in Nat /\ born \in BOOLEAN /\ heard \in BOOLEAN
  /\ follows \subseteq [link : Nat, settled : BOOLEAN]

LEMMA FollowsFacts ==
  ASSUME HeardFirst
  PROVE  \A f \in Scale!SettledFollows :
            f \in [link : Nat, settled : BOOLEAN] /\ \E g \in follows : f.link = g.link
<1> SUFFICES ASSUME NEW g \in follows
             PROVE  LET f == [g EXCEPT !.settled = TRUE]
                    IN  f \in [link : Nat, settled : BOOLEAN] /\ f.link = g.link
  BY DEF Scale!SettledFollows
<1>1. g \in [link : Nat, settled : BOOLEAN] /\ TRUE \in BOOLEAN
  BY DEF HeardFirst
<1> QED BY <1>1

\* A follow that starts settles the others.
LEMMA FollowKeepsHeard ==
  ASSUME HeardFirst, NEW n \in Nat, link <= n, Scale!Follow(n) \/ follows' = Scale!SettledFollows,
         link' = n, born' = born, heard' \in BOOLEAN, heard => heard',
         n = link => born \/ heard' \/ shut'
  PROVE  \A f \in follows' :
            /\ f \in [link : Nat, settled : BOOLEAN]
            /\ f.link <= link' /\ (f.settled /\ f.link = link' /\ ~shut' => born' \/ heard')
<1> TAKE f \in follows'
<1>1. CASE f \in Scale!SettledFollows
  <2>1. PICK g \in follows : f.link = g.link
    BY <1>1, FollowsFacts
  <2>2. g.link \in Nat /\ g.link <= link /\ link \in Nat
    BY DEF HeardFirst
  <2> QED BY <1>1, <2>1, <2>2, FollowsFacts
<1>2. CASE f = [link |-> n, settled |-> FALSE]
  BY <1>2
<1> QED BY <1>1, <1>2 DEF Scale!Follow

LEMMA HeardNext ==
  ASSUME HeardFirst, ScaleInv, Scale!Next \/ UNCHANGED authorityVars
  PROVE  HeardFirst'
<1>1. /\ once \/ writer = "leader" \/ announced = "leader" => born \/ heard
      /\ link \in Nat /\ born \in BOOLEAN /\ heard \in BOOLEAN
      /\ announced \in {"leader", "follower"} /\ writer \in {"leader", "follower"}
  BY DEF HeardFirst, ScaleInv, ScaleShape
<1>2. CASE Scale!Hears \/ Scale!FollowedEnds
  <2>1. /\ follows' = Scale!SettledFollows /\ heard' = TRUE
        /\ UNCHANGED <<once, writer, announced, born, link, shut>>
    BY <1>2 DEF Scale!Hears, Scale!FollowedEnds
  <2> QED BY <1>1, <2>1, FollowKeepsHeard DEF HeardFirst
<1>3. CASE Scale!Resolve
  <2>1. /\ link' = link + 1 /\ (Scale!Follow(link + 1) \/ follows' = follows)
        /\ UNCHANGED <<once, writer, announced, born, heard, shut>>
    BY <1>3 DEF Scale!Resolve
  <2>2. CASE Scale!Follow(link + 1)
    BY <1>1, <2>1, <2>2, FollowKeepsHeard DEF HeardFirst
  <2>3. CASE follows' = follows
    BY <1>1, <2>1, <2>3 DEF HeardFirst
  <2> QED BY <2>1, <2>2, <2>3
<1>4. CASE Scale!FollowSettles
  <2>1. PICK f \in follows :
          /\ f.settled /\ follows' = follows \ {f}
          /\ ((shut \/ link # f.link) /\ once' = once) \/ (~shut /\ link = f.link /\ once' = TRUE)
          /\ UNCHANGED <<writer, announced, born, heard, shut, link>>
    BY <1>4 DEF Scale!FollowSettles
  <2> QED BY <2>1 DEF HeardFirst
<1>5. CASE Scale!RoleDrained \/ Scale!PromoteReturns
  <2>1. UNCHANGED <<born, writer, link, once, shut, heard>>
    BY <1>5 DEF Scale!RoleDrained, Scale!PromoteReturns
  <2>2. CASE UNCHANGED <<announced, follows>>
    BY <2>1, <2>2 DEF HeardFirst
  <2>3. CASE ~UNCHANGED <<announced, follows>>
    <3>1. Scale!SyncRole
      BY <1>5, <2>3 DEF Scale!RoleDrained, Scale!PromoteReturns, Scale!lineVars
    <3>2. /\ announced' = IF Scale!Leading THEN "leader" ELSE "follower"
          /\ (Scale!Leading = (announced = "leader")) => FALSE
          /\ IF Scale!Leading THEN Scale!BecomeLeader ELSE Scale!BecomeStandby
      BY <2>3, <3>1 DEF Scale!SyncRole, Scale!lineVars
    <3>3. born \/ heard
      BY <1>1, <3>2 DEF Scale!Leading
    <3>4. \/ Scale!Follow(link) \/ follows' = Scale!SettledFollows
          \/ follows' = follows
      BY <3>2 DEF Scale!BecomeLeader, Scale!BecomeStandby
    <3>5. CASE Scale!Follow(link) \/ follows' = Scale!SettledFollows
      BY <1>1, <2>1, <3>3, <3>5, FollowKeepsHeard DEF HeardFirst
    <3>6. CASE follows' = follows
      BY <1>1, <2>1, <3>3, <3>6 DEF HeardFirst
    <3> QED BY <3>4, <3>5, <3>6
  <2> QED BY <2>2, <2>3
<1>6. CASE Scale!Elected
  BY <1>1, <1>6 DEF Scale!Elected, HeardFirst
<1>7. CASE Scale!Demoted
  BY <1>1, <1>7 DEF Scale!Demoted, HeardFirst
<1>8. CASE Scale!Close
  <2>1. /\ follows' = Scale!SettledFollows /\ shut'
        /\ UNCHANGED <<once, writer, announced, born, link, heard>>
    BY <1>8 DEF Scale!Close
  <2> QED BY <1>1, <2>1, FollowKeepsHeard DEF HeardFirst
<1>9. CASE UNCHANGED <<once, writer, announced, born, heard, link, follows, shut>>
  BY <1>9 DEF HeardFirst
<1> QED BY <1>2, <1>3, <1>4, <1>5, <1>6, <1>7, <1>8, <1>9 DEF Scale!Next, authorityVars,
      Scale!UpstreamWrites, Scale!PromoteAsked, Scale!Start, Scale!CommandEnds,
      Scale!ServeLink, Scale!Revoke, Scale!Login, Scale!Execute, Scale!LinkWrites

LEMMA HeardInit == Scale!Init => HeardFirst
<1> SUFFICES ASSUME Scale!Init PROVE HeardFirst
  OBVIOUS
<1>1. /\ born \in BOOLEAN /\ heard = FALSE /\ link = 0 /\ follows = {} /\ once = born
      /\ announced = writer /\ writer = IF born THEN "leader" ELSE "follower"
  BY DEF Scale!Init
<1>2. heard \in BOOLEAN /\ link \in Nat
  BY <1>1
<1>3. follows \subseteq [link : Nat, settled : BOOLEAN]
  BY <1>1
<1>4. once \/ writer = "leader" \/ announced = "leader" => born \/ heard
  BY <1>1
<1> QED BY <1>1, <1>2, <1>3, <1>4 DEF HeardFirst

\* What is denied on the control line.
LEMMA DenialsStay ==
  ASSUME ScaleInv, Scale!Next \/ UNCHANGED authorityVars,
         NEW c \in control.facts.denied \ control'.facts.denied
  PROVE  Scale!Login(c) \/ (control.kind = "follower" /\ control'.facts.denied = upstream.denied)
<1>1. /\ control \in [kind : {"owner", "follower", "idle"},
                      health : {"none", "catching", "live", "closed"}, facts : Scale!Facts]
      /\ upstream \in Scale!Facts
  BY DEF ScaleInv, ScaleShape
<1>2. CASE Scale!Hears
  <2>1. control.kind = "follower"
    BY <1>2 DEF Scale!Hears
  <2>2. CASE control' = [control EXCEPT !.health = "live", !.facts = upstream]
    BY <1>1, <2>1, <2>2
  <2>3. CASE \E section \in {"denied", "receipts", "rows"} :
                control' = [control EXCEPT !.facts[section] = upstream[section]]
    <3>1. PICK section \in {"denied", "receipts", "rows"} :
            control' = [control EXCEPT !.facts[section] = upstream[section]]
      BY <2>3
    <3>2. control'.facts = [control.facts EXCEPT ![section] = upstream[section]]
      BY <1>1, <3>1
    <3>3. control'.facts.denied = upstream.denied \/ control'.facts.denied = control.facts.denied
      BY <1>1, <3>2 DEF Scale!Facts
    <3> QED BY <2>1, <3>3
  <2> QED BY <1>2, <2>2, <2>3 DEF Scale!Hears
<1>3. CASE \E d \in Clients : Scale!Login(d)
  <2>1. PICK d \in Clients : Scale!Login(d)
    BY <1>3
  <2>2. control'.facts.denied = control.facts.denied \ {d}
    BY <1>1, <2>1 DEF Scale!Login, Scale!Facts
  <2>3. c = d
    BY <2>2
  <2> QED BY <2>1, <2>3
<1>4. CASE \E d \in Clients : Scale!Revoke(d)
  BY <1>1, <1>4 DEF Scale!Revoke, Scale!Facts
<1>5. CASE control'.facts = control.facts
  BY <1>5
<1>6. CASE Scale!BecomeLeader
  BY <1>1, <1>6 DEF Scale!BecomeLeader, Scale!Promoted, Scale!Facts
<1>7. CASE Scale!BecomeStandby
  BY <1>1, <1>7 DEF Scale!BecomeStandby, Scale!Follow, Scale!Released
<1>8. CASE Scale!CommandEnds
  BY <1>1, <1>8 DEF Scale!CommandEnds, Scale!Facts
<1>9. CASE Scale!Start
  BY <1>1, <1>9 DEF Scale!Start, Scale!Facts
<1>10. CASE \E s \in served : Scale!LinkWrites(s)
  BY <1>1, <1>10 DEF Scale!LinkWrites, Scale!Facts
<1>11. CASE Scale!FollowedEnds \/ Scale!Close
  BY <1>1, <1>5, <1>11 DEF Scale!FollowedEnds, Scale!Close
<1>12. CASE Scale!Resolve
  BY <1>1, <1>5, <1>12 DEF Scale!Resolve, Scale!Follow
<1>13. CASE Scale!RoleDrained \/ Scale!PromoteReturns
  BY <1>5, <1>6, <1>7, <1>13 DEF Scale!RoleDrained, Scale!PromoteReturns, Scale!SyncRole, Scale!lineVars
<1> QED BY <1>2, <1>3, <1>4, <1>5, <1>8, <1>9, <1>10, <1>11, <1>12, <1>13
      DEF Scale!Next, authorityVars, Scale!FollowSettles, Scale!UpstreamWrites, Scale!Elected,
          Scale!Demoted, Scale!PromoteAsked, Scale!ServeLink, Scale!Execute

\* Who writes to an owned roster.
LEMMA LinksStay ==
  ASSUME ScaleInv, Scale!Next \/ UNCHANGED authorityVars,
         control'.facts.rows["mirror"] # control.facts.rows["mirror"],
         control'.kind = "owner", control.kind = "owner"
  PROVE  announced' # announced \/ \E s \in served : s.epoch = reign /\ s.current
<1>1. /\ control \in [kind : {"owner", "follower", "idle"},
                      health : {"none", "catching", "live", "closed"}, facts : Scale!Facts]
      /\ control.facts \in Scale!Facts
      /\ announced \in {"leader", "follower"}
  BY DEF ScaleInv, ScaleShape
<1>2. control.facts.rows \in [Scale!Rows -> Scale!RowRoles] /\ "mirror" \in Scale!Rows
  BY <1>1 DEF Scale!Facts, Scale!Rows
<1>3. CASE control'.facts.rows = control.facts.rows
  BY <1>3
<1>4. CASE Scale!Start
  BY <1>1, <1>2, <1>4 DEF Scale!Start, Scale!Facts
<1>5. CASE \E s \in served : Scale!LinkWrites(s)
  BY <1>5 DEF Scale!LinkWrites, Scale!LinkAccepted
<1>6. CASE Scale!Hears
  BY <1>6 DEF Scale!Hears
<1>7. CASE Scale!RoleDrained \/ Scale!PromoteReturns
  <2>1. Scale!SyncRole \/ control' = control
    BY <1>7 DEF Scale!RoleDrained, Scale!PromoteReturns, Scale!lineVars
  <2>2. CASE Scale!SyncRole
    BY <1>1, <2>2 DEF Scale!SyncRole, Scale!lineVars
  <2> QED BY <2>1, <2>2
<1>8. CASE Scale!CommandEnds
  BY <1>1, <1>3, <1>8 DEF Scale!CommandEnds, Scale!Facts
<1>9. CASE \E c \in Clients : Scale!Revoke(c) \/ Scale!Login(c)
  BY <1>1, <1>3, <1>9 DEF Scale!Revoke, Scale!Login, Scale!Facts
<1>10. CASE Scale!FollowedEnds \/ Scale!Close
  BY <1>1, <1>3, <1>10 DEF Scale!FollowedEnds, Scale!Close
<1>11. CASE Scale!Resolve
  BY <1>1, <1>3, <1>11 DEF Scale!Resolve, Scale!Follow
<1> QED BY <1>3, <1>4, <1>5, <1>6, <1>7, <1>8, <1>9, <1>10, <1>11
      DEF Scale!Next, authorityVars, Scale!FollowSettles, Scale!UpstreamWrites, Scale!Elected,
          Scale!Demoted, Scale!PromoteAsked, Scale!ServeLink, Scale!Execute

LEMMA ScaleInvHolds == AuthoritySpec => []ScaleInv
<1>1. AuthorityInit => ScaleInv
  BY ScaleInvInit DEF AuthorityInit
<1>2. ScaleInv /\ [CandidateNext \/ LeaderNext \/ CommandNext \/ ScaleNext]_allVars => ScaleInv'
  BY AuthoritySteps, ScaleInvNext
<1> QED BY <1>1, <1>2, PTL DEF AuthoritySpec

LEMMA HeardHolds == AuthoritySpec => []HeardFirst
<1>1. AuthorityInit => HeardFirst
  BY HeardInit DEF AuthorityInit
<1>2. HeardFirst /\ ScaleInv /\ [CandidateNext \/ LeaderNext \/ CommandNext \/ ScaleNext]_allVars
        => HeardFirst'
  BY AuthoritySteps, HeardNext
<1> QED BY <1>1, <1>2, ScaleInvHolds, PTL DEF AuthoritySpec

\* The line, the roster and the receipts of an authority are those of the role it has
\* acted upon (scale-authority.ts:404-441).
THEOREM OwnerIsWholeHolds == AuthoritySpec => []Scale!OwnerIsWhole
<1>1. ScaleInv => Scale!OwnerIsWhole
  BY DEF ScaleInv, ScaleShape, RoleHeld, LineIsWhole, Scale!OwnerIsWhole, Scale!Leading
<1> QED BY <1>1, ScaleInvHolds, PTL

\* The roster of a leader names it alone (scale-authority.ts:411-416, 450-458).
THEOREM OneLeaderRowHolds == AuthoritySpec => []Scale!OneLeaderRow
<1>1. ScaleInv => Scale!OneLeaderRow
  BY DEF ScaleInv, ScaleShape, RoleHeld, LineIsWhole, Scale!OneLeaderRow
<1> QED BY <1>1, ScaleInvHolds, PTL

\* A leader that has acted upon its role executes nothing that its line has a receipt of
\* (scale-authority.ts:277-283, command-host.ts:199-215).
THEOREM ReceiptsAnswerHolds == AuthoritySpec => Scale!ReceiptsAnswer
<1> DEFINE Answered == \A k \in Keys :
        Scale!Execute(k) /\ announced = "leader" /\ ~slipped => k \notin control.facts.receipts
<1>1. ScaleInv => Answered
  BY DEF ScaleInv, ScaleShape, RoleHeld, LineIsWhole, Scale!Execute, Scale!Answers, Scale!Leading
<1>2. ScaleInv /\ [CandidateNext \/ LeaderNext \/ CommandNext \/ ScaleNext]_allVars
        => [Answered]_Scale!scaleVars
  BY <1>1
<1>3. Scale!ReceiptsAnswer <=> [][Answered]_Scale!scaleVars
  BY DEF Scale!ReceiptsAnswer
<1> HIDE DEF Answered
<1> QED BY <1>2, <1>3, ScaleInvHolds, PTL DEF AuthoritySpec

\* A standby leads first after a followed line delivered or ended, or by an operator's word
\* (scale-authority.ts:190-212).
THEOREM LeadsAfterFollowingHolds == AuthoritySpec => Scale!LeadsAfterFollowing
<1> DEFINE A == writer = "follower" /\ writer' = "leader" => born \/ heard \/ forced
<1>1. HeardFirst /\ ScaleInv /\ [CandidateNext \/ LeaderNext \/ CommandNext \/ ScaleNext]_allVars
        => [A]_Scale!scaleVars
  <2> SUFFICES ASSUME HeardFirst, Scale!Next \/ UNCHANGED authorityVars,
                      writer = "follower", writer' = "leader"
               PROVE  born \/ heard \/ forced
    BY AuthoritySteps
  <2>1. Scale!Elected
    BY DEF Scale!Next, authorityVars, Scale!Hears, Scale!FollowedEnds, Scale!Resolve,
           Scale!FollowSettles, Scale!UpstreamWrites, Scale!Demoted, Scale!RoleDrained,
           Scale!PromoteAsked, Scale!PromoteReturns, Scale!Start, Scale!CommandEnds,
           Scale!ServeLink, Scale!Close, Scale!Revoke, Scale!Login, Scale!Execute,
           Scale!LinkWrites
  <2> QED BY <2>1 DEF Scale!Elected, Scale!MayLead, HeardFirst
<1>2. Scale!LeadsAfterFollowing <=> [][A]_Scale!scaleVars
  BY DEF Scale!LeadsAfterFollowing
<1> HIDE DEF A
<1> QED BY <1>1, <1>2, ScaleInvHolds, HeardHolds, PTL DEF AuthoritySpec

\* Neither a change of hands nor a link of an earlier reign changes what is on the control
\* line (scale-control.ts:78-130, scale-authority.ts:496-511).
THEOREM FactsSurviveHolds == AuthoritySpec => FactsSurvive
<1> DEFINE A == \A c \in control.facts.denied \ control'.facts.denied :
                  Scale!Login(c) \/ (control.kind = "follower" /\ control'.facts.denied = upstream.denied)
           B == \A n \in {"mirror"} :
                  control'.facts.rows[n] # control.facts.rows[n] /\ control'.kind = "owner" /\ control.kind = "owner"
                    => \/ announced' # announced
                       \/ \E s \in served : s.epoch = reign /\ s.current
<1>1. ScaleInv /\ (Scale!Next \/ UNCHANGED authorityVars) => A /\ B
  BY DenialsStay, LinksStay
<1>2. ScaleInv /\ [CandidateNext \/ LeaderNext \/ CommandNext \/ ScaleNext]_allVars
        => [A]_Scale!scaleVars /\ [B]_Scale!scaleVars
  BY <1>1, AuthoritySteps
<1>3. FactsSurvive <=> [][A]_Scale!scaleVars /\ [][B]_Scale!scaleVars
  BY DEF FactsSurvive, Scale!DenialsSurvive, Scale!LinksAreOfThisReign
<1> HIDE DEF A, B
<1> QED BY <1>2, <1>3, ScaleInvHolds, PTL DEF AuthoritySpec

\* A commit on record is not executed again, by a host (command-host.ts:199-215, 270-290)
\* or by the authority that adopted its line (scale-authority.ts:277-283, 404-407).
THEOREM AtMostOnceHolds == AuthoritySpec => AtMostOnce
<1> DEFINE A == \A x \in running' \ running :
                  attached /\ Host!EvictsNothing =>
                    ~ \E p \in published : p.account = x.account /\ p.req = x.req /\ p.ts > now - KeepMs
<1>1. HostInv /\ [CandidateNext \/ LeaderNext \/ CommandNext \/ ScaleNext]_allVars
        => [A]_Host!vars
  BY AuthoritySteps, OnceOnly
<1>2. Host!AtMostOnce <=> [][A]_Host!vars
  BY DEF Host!AtMostOnce
<1>3. AtMostOnce <=> Host!AtMostOnce /\ Scale!ReceiptsAnswer
  BY DEF AtMostOnce
<1> HIDE DEF A
<1> QED BY <1>1, <1>2, <1>3, HostInvHolds, ReceiptsAnswerHolds, PTL DEF AuthoritySpec

-----------------------------------------------------------------------------
(* The replica sets *)

\* The replica set that leads, proved about, is that of the model.
LEMMA SameLeader ==
  /\ Leader!Init => LeaderP!Init
  /\ Leader!PlainNext => LeaderP!PlainNext
  /\ LeaderP!TypeOK => Leader!TypeOK
  /\ LeaderP!RoleMatchesRoute => Leader!RoleMatchesRoute
  /\ LeaderP!ReplicaAssumption
<1>1. Leader!Init => LeaderP!Init
  BY DEF Leader!Init, LeaderP!Init, Leader!NoAuthority, LeaderP!NoAuthority, Leader!NoLeader, LeaderP!NoLeader,
         Leader!NoSub, LeaderP!NoSub, Leader!NoOp, LeaderP!NoOp, Leader!NoRefresh, LeaderP!NoRefresh
<1>2. Leader!PlainNext => LeaderP!PlainNext
  BY DEF Leader!world, LeaderP!world, Leader!vars, LeaderP!vars, Leader!NoLeader,
     LeaderP!NoLeader, Leader!Authority, LeaderP!Authority, Leader!NoAuthority,
     LeaderP!NoAuthority, Leader!Descriptor, LeaderP!Descriptor, Leader!AuthorityOf,
     LeaderP!AuthorityOf, Leader!Newer, LeaderP!Newer, Leader!NoSub, LeaderP!NoSub,
     Leader!NoOp, LeaderP!NoOp, Leader!NoRefresh, LeaderP!NoRefresh, Leader!Abandoned,
     LeaderP!Abandoned, Leader!DetachUpstream, LeaderP!DetachUpstream, Leader!CloseSession,
     LeaderP!CloseSession, Leader!Opened, LeaderP!Opened, Leader!FailEntry,
     LeaderP!FailEntry, Leader!StartRefresh, LeaderP!StartRefresh, Leader!TimersRun,
     LeaderP!TimersRun, Leader!Forget, LeaderP!Forget, Leader!Viable, LeaderP!Viable,
     Leader!ConnectSucceeds, LeaderP!ConnectSucceeds, Leader!SessionFails,
     LeaderP!SessionFails, Leader!Retry, LeaderP!Retry, Leader!RemoveOffer,
     LeaderP!RemoveOffer, Leader!AddOffer, LeaderP!AddOffer, Leader!PeerChanges,
     LeaderP!PeerChanges, Leader!Probed, LeaderP!Probed, Leader!Probe, LeaderP!Probe,
     Leader!ProbeEnds, LeaderP!ProbeEnds, Leader!RefreshReads, LeaderP!RefreshReads,
     Leader!RefreshRejects, LeaderP!RefreshRejects, Leader!RefreshCommits,
     LeaderP!RefreshCommits, Leader!RefreshFails, LeaderP!RefreshFails, Leader!Candidates,
     LeaderP!Candidates, Leader!BestRemote, LeaderP!BestRemote, Leader!Outranks,
     LeaderP!Outranks, Leader!ObservedEpoch, LeaderP!ObservedEpoch, Leader!Saved,
     LeaderP!Saved, Leader!Attach, LeaderP!Attach, Leader!ScheduleElection,
     LeaderP!ScheduleElection, Leader!RequestReconcile, LeaderP!RequestReconcile,
     Leader!Run, LeaderP!Run, Leader!ReconcileStays, LeaderP!ReconcileStays,
     Leader!ReconcileAlone, LeaderP!ReconcileAlone, Leader!ReconcileKeeps,
     LeaderP!ReconcileKeeps, Leader!ReconcileFollows, LeaderP!ReconcileFollows,
     Leader!FrameArrives, LeaderP!FrameArrives, Leader!FrameFails, LeaderP!FrameFails,
     Leader!AwaitsRoute, LeaderP!AwaitsRoute, Leader!RouteReady, LeaderP!RouteReady,
     Leader!RouteFails, LeaderP!RouteFails, Leader!LineFails, LeaderP!LineFails,
     Leader!FollowSucceeds, LeaderP!FollowSucceeds, Leader!FollowRestores,
     LeaderP!FollowRestores, Leader!Close, LeaderP!Close, Leader!FollowAfterClose,
     LeaderP!FollowAfterClose, Leader!PlainNext, LeaderP!PlainNext
<1>3. LeaderP!TypeOK => Leader!TypeOK
  BY DEF Leader!TypeOK, LeaderP!TypeOK, Leader!Descriptor, LeaderP!Descriptor, Leader!Authority, LeaderP!Authority,
         Leader!NoLeader, LeaderP!NoLeader
<1>4. LeaderP!ReplicaAssumption
  BY AuthorityAssumption DEF AuthorityAssumption, Leader!ReplicaAssumption, LeaderP!ReplicaAssumption
<1>5. LeaderP!RoleMatchesRoute => Leader!RoleMatchesRoute
  BY DEF Leader!RoleMatchesRoute, LeaderP!RoleMatchesRoute, Leader!NoSub, LeaderP!NoSub
<1> QED BY <1>1, <1>2, <1>3, <1>4, <1>5

\* What the replica set of each part holds.
ReplicaHeld ==
    /\ part \in {"candidate", "leader", "commands", "scale"}
    /\ part = "candidate" => ReplicaInv /\ RolesInv
    /\ part # "candidate" => LeaderP!ReplicaInv /\ LeaderP!RolesInv /\ LeaderP!StepsHeld

LEMMA ReplicaHeldStarts == ASSUME AuthorityInit PROVE ReplicaHeld
<1>1. CASE part = "candidate" /\ Init
  BY <1>1, ReplicaInit, RolesInit DEF ReplicaHeld
<1>2. CASE part \in {"leader", "commands", "scale"} /\ Leader!Init
  BY <1>2, SameLeader, LeaderP!ReplicaInit, LeaderP!RolesInit, LeaderP!StepsInit DEF ReplicaHeld
<1> QED BY <1>1, <1>2 DEF AuthorityInit, Quiet

\* A step of the replica set is a step of what it is in this part.
LEMMA ReplicaSteps ==
  ASSUME ReplicaHeld, [CandidateNext \/ LeaderNext \/ CommandNext \/ ScaleNext]_allVars
  PROVE  /\ part' = part
         /\ part = "candidate" => [Next]_vars
         /\ part # "candidate" => [LeaderP!PlainNext]_LeaderP!vars
<1>1. vars = LeaderP!vars
  BY DEF vars, LeaderP!vars
<1> QED BY <1>1, SameLeader DEF CandidateNext, LeaderNext, CommandNext, ScaleNext, allVars, vars, LeaderP!vars

LEMMA ReplicaHeldNext ==
  ASSUME ReplicaHeld, [CandidateNext \/ LeaderNext \/ CommandNext \/ ScaleNext]_allVars
  PROVE  ReplicaHeld'
<1>1. CASE part = "candidate"
  BY <1>1, ReplicaSteps, ReplicaNext, RolesNext DEF ReplicaHeld
<1>2. CASE part # "candidate"
  <2>1. [LeaderP!Next]_LeaderP!vars
    BY <1>2, ReplicaSteps DEF LeaderP!Next
  <2> QED BY <1>2, <2>1, SameLeader, ReplicaSteps, LeaderP!ReplicaNext, LeaderP!RolesNext, LeaderP!StepsNext DEF ReplicaHeld
<1> QED BY <1>1, <1>2

LEMMA ReplicaHeldAlways == AuthoritySpec => []ReplicaHeld
<1>1. AuthorityInit => ReplicaHeld
  BY ReplicaHeldStarts
<1>2. ReplicaHeld /\ [CandidateNext \/ LeaderNext \/ CommandNext \/ ScaleNext]_allVars => ReplicaHeld'
  BY ReplicaHeldNext
<1> QED BY <1>1, <1>2, PTL DEF AuthoritySpec

\* At rest the role of a replica set agrees with its route and with what it publishes, from
\* either start (store-replica-set.ts:781-846, 857-887); and what an authority process holds
\* is that of its role (scale-authority.ts:404-441).
THEOREM RoleIsWholeHolds == AuthoritySpec => []RoleIsWhole
<1>1. ReplicaHeld => IF part = "candidate" THEN RoleMatchesRoute ELSE Leader!RoleMatchesRoute
  BY SameLeader DEF ReplicaHeld, RolesInv, LeaderP!RolesInv
<1>2. ReplicaHeld /\ Scale!OwnerIsWhole /\ Scale!OneLeaderRow => RoleIsWhole
  BY <1>1 DEF RoleIsWhole
<1> QED BY <1>2, ReplicaHeldAlways, OwnerIsWholeHolds, OneLeaderRowHolds, PTL

\* Whatever peers, links and operators do meanwhile: a promotion outranks everything that was
\* observed, a leader without elections steps down for a better authority only
\* (store-replica-set.ts:781-846, 857-887), and a standby leads after it has followed
\* (scale-authority.ts:190-212).
THEOREM LeadershipIsRightfulHolds == AuthoritySpec => LeadershipIsRightful
<1> DEFINE A == (part = "leader" /\ role = "leader" /\ role' # "leader") => (closed' \/ Newer(auth', auth))
           B == (elections' < elections /\ auth' # auth) =>
                   /\ auth'.epoch > auth.epoch /\ auth'.epoch > activeAuth.epoch
                   /\ \A o \in Candidates : auth'.epoch > entry[o].desc.epoch
<1>1. ReplicaHeld /\ [CandidateNext \/ LeaderNext \/ CommandNext \/ ScaleNext]_allVars => [A]_allVars
  <2> SUFFICES ASSUME ReplicaHeld, [CandidateNext \/ LeaderNext \/ CommandNext \/ ScaleNext]_allVars,
                      part = "leader", role = "leader", role' # "leader"
               PROVE  closed' \/ Newer(auth', auth)
    OBVIOUS
  <2>1. closed' \/ LeaderP!Newer(auth', auth)
    BY SameLeader, ReplicaSteps, LeaderP!StepsNext DEF ReplicaHeld
  <2> QED BY <2>1 DEF LeaderP!Newer, Newer
<1>2. ReplicaHeld /\ [CandidateNext \/ LeaderNext \/ CommandNext \/ ScaleNext]_allVars => [B]_vars
  <2> SUFFICES ASSUME ReplicaHeld, [CandidateNext \/ LeaderNext \/ CommandNext \/ ScaleNext]_allVars,
                      elections' < elections, auth' # auth
               PROVE  B
    OBVIOUS
  <2>1. CASE part = "candidate"
    BY <2>1, ReplicaSteps, PromotionIsAbove DEF ReplicaHeld
  <2>2. CASE part # "candidate"
    <3>1. elections = 0 /\ elections' = 0
      BY <2>2, SameLeader, ReplicaSteps, ReplicaHeldNext DEF ReplicaHeld, LeaderP!ReplicaInv, LeaderP!FlagsWhole
    <3> QED BY <3>1
  <2> QED BY <2>1, <2>2
<1>3. LeadershipIsRightful <=> [][A]_allVars /\ [][B]_vars /\ Scale!LeadsAfterFollowing
  BY DEF LeadershipIsRightful, PromotionOutranks
<1> HIDE DEF A, B
<1> QED BY <1>1, <1>2, <1>3, ReplicaHeldAlways, LeadsAfterFollowingHolds, PTL DEF AuthoritySpec

-----------------------------------------------------------------------------
(* The types of the four *)

\* What ScaleShape leaves open.
ScaleRest ==
    /\ born \in BOOLEAN /\ reign \in 0..MaxReign /\ link \in 0..MaxLinks /\ promoting \in 0..1
    /\ follows \subseteq [link : 1..MaxLinks, settled : BOOLEAN]
    /\ served \subseteq [current : BOOLEAN, epoch : Nat]
    /\ once \in BOOLEAN /\ forced \in BOOLEAN /\ started \in BOOLEAN /\ shut \in BOOLEAN
    /\ heard \in BOOLEAN /\ slipped \in BOOLEAN

LEMMA ScaleNumbers == MaxReign \in Nat /\ MaxReign >= 1 /\ MaxLinks \in Nat
BY AuthorityAssumption DEF AuthorityAssumption, Scale!ScaleAssumption

LEMMA ScaleRestInit == Scale!Init => ScaleRest
<1>1. 0 \in 0..MaxReign /\ 1 \in 0..MaxReign /\ 0 \in 0..MaxLinks
  BY ScaleNumbers
<1>2. 0 \in 0..1 /\ {} \subseteq [link : 1..MaxLinks, settled : BOOLEAN]
  OBVIOUS
<1> QED BY <1>1, <1>2 DEF Scale!Init, ScaleRest

LEMMA SettledAreFollows == ASSUME ScaleRest PROVE Scale!SettledFollows \subseteq [link : 1..MaxLinks, settled : BOOLEAN]
<1> SUFFICES ASSUME NEW f \in follows
             PROVE  [f EXCEPT !.settled = TRUE] \in [link : 1..MaxLinks, settled : BOOLEAN]
  BY DEF Scale!SettledFollows
<1>1. f \in [link : 1..MaxLinks, settled : BOOLEAN]
  BY DEF ScaleRest
<1> QED BY <1>1

LEMMA FollowIsTyped ==
  ASSUME ScaleRest, NEW n \in 1..MaxLinks, Scale!Follow(n)
  PROVE  follows' \subseteq [link : 1..MaxLinks, settled : BOOLEAN]
<1>1. [link |-> n, settled |-> FALSE] \in [link : 1..MaxLinks, settled : BOOLEAN]
  OBVIOUS
<1>2. follows' = Scale!SettledFollows \cup {[link |-> n, settled |-> FALSE]}
  BY DEF Scale!Follow
<1> QED BY <1>1, <1>2, SettledAreFollows

\* Acting upon the role keeps the links and what is served.
LEMMA SyncRest ==
  ASSUME ScaleRest, Scale!SyncRole
  PROVE  /\ follows' \subseteq [link : 1..MaxLinks, settled : BOOLEAN]
         /\ served' \subseteq [current : BOOLEAN, epoch : Nat]
         /\ slipped' \in BOOLEAN
<1>1. CASE UNCHANGED Scale!lineVars
  BY <1>1 DEF Scale!lineVars, ScaleRest
<1>2. CASE Scale!BecomeLeader /\ slipped' = FALSE
  <2>1. follows' = Scale!SettledFollows /\ served' = {[s EXCEPT !.current = FALSE] : s \in served}
    BY <1>2 DEF Scale!BecomeLeader
  <2>2. ASSUME NEW s \in served PROVE [s EXCEPT !.current = FALSE] \in [current : BOOLEAN, epoch : Nat]
    <3>1. s \in [current : BOOLEAN, epoch : Nat]
      BY DEF ScaleRest
    <3> QED BY <3>1
  <2> QED BY <1>2, <2>1, <2>2, SettledAreFollows
<1>3. CASE Scale!BecomeStandby /\ slipped' = FALSE
  <2>1. UNCHANGED served /\ ((link > 0 /\ Scale!Follow(link)) \/ UNCHANGED follows)
    BY <1>3 DEF Scale!BecomeStandby
  <2>2. link > 0 => link \in 1..MaxLinks
    BY ScaleNumbers DEF ScaleRest
  <2> QED BY <1>3, <2>1, <2>2, FollowIsTyped DEF ScaleRest
<1> QED BY <1>1, <1>2, <1>3 DEF Scale!SyncRole

LEMMA ScaleRestNext == ASSUME ScaleRest, Scale!Next \/ UNCHANGED authorityVars PROVE ScaleRest'
<1>1. CASE Scale!Hears \/ Scale!FollowedEnds \/ Scale!Close
  <2>1. follows' = Scale!SettledFollows /\ heard' \in BOOLEAN /\ shut' \in BOOLEAN
        /\ UNCHANGED <<born, reign, link, promoting, served, once, forced, started, slipped>>
    BY <1>1 DEF Scale!Hears, Scale!FollowedEnds, Scale!Close, ScaleRest
  <2> QED BY <2>1, SettledAreFollows DEF ScaleRest
<1>2. CASE Scale!Resolve
  <2>1. /\ link < MaxLinks /\ link' = link + 1 /\ (Scale!Follow(link + 1) \/ UNCHANGED follows)
        /\ UNCHANGED <<born, reign, promoting, served, once, forced, started, shut, heard, slipped>>
    BY <1>2 DEF Scale!Resolve
  <2>2. link + 1 \in 1..MaxLinks /\ link' \in 0..MaxLinks
    BY <2>1, ScaleNumbers DEF ScaleRest
  <2> QED BY <2>1, <2>2, FollowIsTyped DEF ScaleRest
<1>3. CASE Scale!FollowSettles
  <2>1. /\ follows' \subseteq follows /\ once' \in BOOLEAN
        /\ UNCHANGED <<born, reign, link, promoting, served, forced, started, shut, heard, slipped>>
    BY <1>3 DEF Scale!FollowSettles, ScaleRest
  <2> QED BY <2>1 DEF ScaleRest
<1>4. CASE Scale!Elected \/ Scale!Demoted
  <2>1. reign' \in 0..MaxReign
    <3>1. CASE Scale!Elected
      BY <3>1, ScaleNumbers DEF Scale!Elected, ScaleRest
    <3>2. CASE Scale!Demoted
      BY <3>2, ScaleNumbers DEF Scale!Demoted, ScaleRest
    <3> QED BY <1>4, <3>1, <3>2
  <2>2. slipped' \in BOOLEAN /\ heard' \in BOOLEAN
    BY <1>4, Zenon DEF Scale!Elected, Scale!Demoted, ScaleRest
  <2>3. UNCHANGED <<born, link, follows, once, forced, promoting, started, shut, served>>
    BY <1>4 DEF Scale!Elected, Scale!Demoted
  <2> QED BY <2>1, <2>2, <2>3 DEF ScaleRest
<1>5. CASE Scale!RoleDrained
  BY <1>5, SyncRest DEF Scale!RoleDrained, ScaleRest
<1>6. CASE Scale!PromoteReturns
  <2>1. /\ promoting' = 0 /\ forced' = FALSE /\ (Scale!SyncRole \/ UNCHANGED Scale!lineVars)
        /\ UNCHANGED <<born, reign, link, once, started, shut, heard>>
    BY <1>6 DEF Scale!PromoteReturns
  <2>2. /\ follows' \subseteq [link : 1..MaxLinks, settled : BOOLEAN]
        /\ served' \subseteq [current : BOOLEAN, epoch : Nat] /\ slipped' \in BOOLEAN
    <3>1. CASE UNCHANGED Scale!lineVars
      BY <3>1 DEF Scale!lineVars, ScaleRest
    <3> QED BY <2>1, <3>1, SyncRest
  <2>3. promoting' \in 0..1
    BY <2>1
  <2> QED BY <2>1, <2>2, <2>3 DEF ScaleRest
<1>7. CASE Scale!Start \/ Scale!PromoteAsked
  <2>1. slipped' \in BOOLEAN /\ started' \in BOOLEAN /\ forced' \in BOOLEAN
    BY <1>7, Zenon DEF Scale!Start, Scale!PromoteAsked, ScaleRest
  <2>2. promoting' \in 0..1 /\ UNCHANGED <<born, reign, link, follows, once, shut, served, heard>>
    BY <1>7 DEF Scale!Start, Scale!PromoteAsked, ScaleRest
  <2> QED BY <2>1, <2>2 DEF ScaleRest
<1>8. CASE Scale!ServeLink
  <2>1. [current |-> TRUE, epoch |-> reign] \in [current : BOOLEAN, epoch : Nat]
    BY ScaleNumbers DEF ScaleRest
  <2> QED BY <1>8, <2>1 DEF Scale!ServeLink, ScaleRest
<1>9. CASE UNCHANGED <<born, reign, link, follows, once, forced, promoting, started, shut, served, heard, slipped>>
  BY <1>9 DEF ScaleRest
<1> QED BY <1>1, <1>2, <1>3, <1>4, <1>5, <1>6, <1>7, <1>8, <1>9
      DEF Scale!Next, Scale!UpstreamWrites, Scale!CommandEnds, Scale!Revoke, Scale!Login, Scale!Execute,
          Scale!LinkWrites, authorityVars

LEMMA ScaleRestHolds == AuthoritySpec => []ScaleRest
<1>1. AuthorityInit => ScaleRest
  BY ScaleRestInit DEF AuthorityInit
<1>2. ScaleRest /\ [CandidateNext \/ LeaderNext \/ CommandNext \/ ScaleNext]_allVars => ScaleRest'
  BY AuthoritySteps, ScaleRestNext
<1> QED BY <1>1, <1>2, PTL DEF AuthoritySpec

\* What a command host, an authority process and a replica set keep is whole, in every
\* order of their operations.
THEOREM AuthorityTypeOKHolds == AuthoritySpec => []AuthorityTypeOK
<1>1. HostInv => Host!TypeOK
  <2> SUFFICES ASSUME HostInv PROVE Host!TypeOK
    OBVIOUS
  <2>1. HostTyped
    BY DEF HostInv
  <2>2. /\ order \in Lists /\ receipts \subseteq Host!Receipt /\ total = Cardinality(receipts)
        /\ \A e \in receipts : e.account \in Members(order)
        /\ \A e, f \in receipts : Host!Same(e, f) => e = f
    BY <2>1, HostTypedGives
  <2>3. order \in Seq(Accounts) /\ Host!IsInjective(order)
    BY <2>2 DEF Lists, Host!IsInjective
  <2>4. \A e \in receipts : e.account \in Host!ToSet(order)
    BY <2>2, ListFacts
  <2>5. total = Host!Cardinality(receipts)
    BY <2>2 DEF Host!Cardinality, Cardinality
  <2> QED BY <2>1, <2>2, <2>3, <2>4, <2>5 DEF HostTyped, Host!TypeOK
<1>2. ScaleInv /\ ScaleRest => Scale!TypeOK
  BY DEF ScaleInv, ScaleShape, ScaleRest, Scale!TypeOK
<1>3. ReplicaHeld => IF part = "candidate" THEN TypeOK ELSE Leader!TypeOK
  BY SameLeader, ReplicaTyped, LeaderP!ReplicaTyped DEF ReplicaHeld
<1>4. HostInv /\ ScaleInv /\ ScaleRest /\ ReplicaHeld => AuthorityTypeOK
  BY <1>1, <1>2, <1>3 DEF AuthorityTypeOK
<1> QED BY <1>4, HostInvHolds, ScaleInvHolds, ScaleRestHolds, ReplicaHeldAlways, PTL
=============================================================================
