----------------------------- MODULE Lines_proofs -----------------------------
(***************************************************************************)
(* Proofs about what a replay line is wrapped in, for any bounds, any      *)
(* thresholds and any sizes: the journal that spills, the emission with a  *)
(* journal, the follower of a map, the durable store, and with the proofs  *)
(* of ReplayConflate_proofs the gate; and of all of them together.         *)
(***************************************************************************)
EXTENDS MCReplayLines, TLAPS, SequenceTheorems

-----------------------------------------------------------------------------
(* The journal that spills *)

\* The index is the run of numbers that ends below the memory; a journal that never gave up
\* a file it could not remove has exactly those lines in its files.
SpillInv ==
    /\ TypeOK
    /\ \A i \in DOMAIN prev : prev[i] = (ramOldest - 1 - Len(curr) - Len(prev)) + i
    /\ \A i \in DOMAIN curr : curr[i] = (ramOldest - 1 - Len(curr)) + i
    /\ ~stale => file = curr /\ prevFile = prev
    /\ ~closed /\ head > 0 => ramOldest <= head

\* The exact tail, and that it is never taken for a refusal.
LEMMA Betweens ==
  ASSUME NEW a \in Nat \ {0}, NEW b \in Nat, a - 1 <= b
  PROVE  /\ Between(a, b) \in Seq(Nat) /\ Len(Between(a, b)) = b - a + 1
         /\ \A i \in 1..(b - a + 1) : Between(a, b)[i] = a + i - 1
         /\ Between(a, b) # Refused
<1>1. b - a + 1 \in Nat
  OBVIOUS
<1>2. \A i \in 1..(b - a + 1) : a + i - 1 \in Nat \ {0}
  OBVIOUS
<1>3. /\ Between(a, b) \in Seq(Nat) /\ Len(Between(a, b)) = b - a + 1
      /\ \A i \in 1..(b - a + 1) : Between(a, b)[i] = a + i - 1
  BY <1>1, <1>2 DEF Between
<1>4. ASSUME Between(a, b) = Refused PROVE FALSE
  <2>1. b - a + 1 = 1 /\ Between(a, b)[1] = 0
    BY <1>3, <1>4 DEF Refused, Torn
  <2> QED BY <2>1, <1>2, <1>3
<1> QED BY <1>3, <1>4 DEF Refused, Torn

\* An empty tail.
LEMMA NothingBetween == ASSUME NEW a \in Int PROVE Between(a + 1, a) = <<>>
<1>1. a - (a + 1) + 1 = 0
  OBVIOUS
<1> QED BY <1>1 DEF Between

\* A tail that is continued.
LEMMA Joined ==
  ASSUME NEW a \in Nat \ {0}, NEW b \in Nat, NEW c \in Nat, a - 1 <= b, b <= c
  PROVE  Between(a, b) \o Between(b + 1, c) = Between(a, c)
<1> DEFINE x == Between(a, b)
           y == Between(b + 1, c)
           z == Between(a, c)
<1>1. /\ x \in Seq(Nat) /\ Len(x) = b - a + 1 /\ \A i \in 1..(b - a + 1) : x[i] = a + i - 1
      /\ y \in Seq(Nat) /\ Len(y) = c - b /\ \A i \in 1..(c - b) : y[i] = b + i
      /\ z \in Seq(Nat) /\ Len(z) = c - a + 1 /\ \A i \in 1..(c - a + 1) : z[i] = a + i - 1
  <2>1. b + 1 \in Nat \ {0} /\ (b + 1) - 1 <= c /\ a - 1 <= c /\ c - (b + 1) + 1 = c - b
        /\ \A i \in 1..(c - b) : (b + 1) + i - 1 = b + i
    OBVIOUS
  <2>2. x \in Seq(Nat) /\ Len(x) = b - a + 1 /\ \A i \in 1..(b - a + 1) : x[i] = a + i - 1
    BY Betweens
  <2>3. y \in Seq(Nat) /\ Len(y) = c - b /\ \A i \in 1..(c - b) : y[i] = b + i
    BY <2>1, Betweens, ZenonT(40)
  <2>4. z \in Seq(Nat) /\ Len(z) = c - a + 1 /\ \A i \in 1..(c - a + 1) : z[i] = a + i - 1
    BY <2>1, Betweens
  <2> QED BY <2>2, <2>3, <2>4
<1> HIDE DEF x, y, z
<1>2. /\ x \o y \in Seq(Nat) /\ Len(x \o y) = Len(x) + Len(y)
      /\ \A i \in 1..(Len(x) + Len(y)) : (x \o y)[i] = IF i <= Len(x) THEN x[i] ELSE y[i - Len(x)]
  BY <1>1, ConcatProperties
<1>3. Len(x) + Len(y) = c - a + 1
  BY <1>1
<1>4. ASSUME NEW i \in 1..(c - a + 1) PROVE (x \o y)[i] = z[i]
  <2>1. (x \o y)[i] = IF i <= b - a + 1 THEN x[i] ELSE y[i - (b - a + 1)]
    BY <1>1, <1>2, <1>3
  <2>2. CASE i <= b - a + 1
    <3>1. i \in 1..(b - a + 1)
      BY <2>2
    <3> QED BY <3>1, <2>1, <2>2, <1>1
  <2>3. CASE ~(i <= b - a + 1)
    <3>1. i - (b - a + 1) \in 1..(c - b) /\ b + (i - (b - a + 1)) = a + i - 1
      BY <2>3
    <3> QED BY <3>1, <2>1, <2>3, <1>1
  <2> QED BY <2>2, <2>3
<1>5. x \o y = z
  <2>1. x \o y \in Seq(Nat) /\ z \in Seq(Nat) /\ Len(x \o y) = Len(z)
    BY <1>1, <1>2, <1>3
  <2>2. \A i \in 1..Len(x \o y) : (x \o y)[i] = z[i]
    BY <1>2, <1>3, <1>4
  <2> QED BY <2>1, <2>2, SeqEqual
<1> QED BY <1>5 DEF x, y, z

\* An index that ascends by one, read from a file that has what it says.
LEMMA ReadExact ==
  ASSUME NEW b \in Nat, NEW s \in Seq(Nat), \A i \in DOMAIN s : s[i] = b + i, NEW n \in Nat
  PROVE  Read(s, s, n) = IF n <= b THEN Between(b + 1, b + Len(s))
                         ELSE IF n < b + Len(s) THEN Between(n + 1, b + Len(s)) ELSE <<>>
<1> DEFINE needed == {i \in DOMAIN s : s[i] > n}
<1>0. Len(s) \in Nat /\ DOMAIN s = 1..Len(s)
  OBVIOUS
<1>1. needed = {i \in 1..Len(s) : b + i > n}
  BY <1>0
<1>2. \A i \in needed : i <= Len(s) /\ s[i] # Torn
  BY <1>0, <1>1 DEF Torn
<1>3. Read(s, s, n) = IF needed = {} THEN <<>>
                      ELSE SubSeq(s, CHOOSE i \in needed : \A j \in needed : i <= j, Len(s))
  BY <1>0, <1>2 DEF Read
<1>4. ASSUME NEW f \in 1..Len(s), b + f > n, \A i \in 1..Len(s) : b + i > n => f <= i
      PROVE  Read(s, s, n) = Between(b + f, b + Len(s))
  <2>1. f \in needed /\ \A j \in needed : f <= j
    BY <1>1, <1>4
  <2>2. (CHOOSE i \in needed : \A j \in needed : i <= j) = f
    <3>1. \A g \in needed : (\A j \in needed : g <= j) => g = f
      BY <2>1, <1>0, <1>1
    <3> HIDE DEF needed
    <3> QED BY <2>1, <3>1
  <2>3. Read(s, s, n) = SubSeq(s, f, Len(s))
    BY <1>3, <2>1, <2>2
  <2>4. f \in Int /\ Len(s) \in Int /\ \A i \in f..Len(s) : s[i] \in Nat
    BY <1>0, <1>4
  <2>5. /\ SubSeq(s, f, Len(s)) \in Seq(Nat)
        /\ Len(SubSeq(s, f, Len(s))) = IF f <= Len(s) THEN Len(s) - f + 1 ELSE 0
        /\ \A i \in 1..(Len(s) - f + 1) : SubSeq(s, f, Len(s))[i] = s[f + i - 1]
    BY <2>4, SubSeqProperties
  <2>6. /\ Between(b + f, b + Len(s)) \in Seq(Nat)
        /\ Len(Between(b + f, b + Len(s))) = (b + Len(s)) - (b + f) + 1
        /\ \A i \in 1..((b + Len(s)) - (b + f) + 1) : Between(b + f, b + Len(s))[i] = (b + f) + i - 1
    <3>1. b + f \in Nat \ {0} /\ b + Len(s) \in Nat /\ (b + f) - 1 <= b + Len(s)
      BY <1>0, <1>4
    <3> QED BY <3>1, Betweens
  <2> DEFINE l == Len(s)
             x == SubSeq(s, f, l)
             y == Between(b + f, b + l)
  <2>7. l \in Nat /\ f \in 1..l /\ (b + l) - (b + f) + 1 = l - f + 1 /\ \A i \in 1..(l - f + 1) : f + i - 1 \in 1..l
    BY <1>0, <1>4
  <2>8. x \in Seq(Nat) /\ Len(x) = l - f + 1 /\ \A i \in 1..(l - f + 1) : x[i] = b + (f + i - 1)
    <3>1. x \in Seq(Nat) /\ Len(x) = IF f <= l THEN l - f + 1 ELSE 0
      BY <2>5
    <3>2. Len(x) = l - f + 1
      BY <3>1, <2>7
    <3>3. \A i \in 1..(l - f + 1) : x[i] = s[f + i - 1]
      BY <2>5
    <3>4. \A i \in 1..l : s[i] = b + i
      BY <1>0
    <3>5. \A i \in 1..(l - f + 1) : x[i] = b + (f + i - 1)
      BY <2>7, <3>3, <3>4
    <3> QED BY <3>1, <3>2, <3>5
  <2>9. y \in Seq(Nat) /\ Len(y) = l - f + 1 /\ \A i \in 1..(l - f + 1) : y[i] = b + (f + i - 1)
    <3>1. \A i \in 1..(l - f + 1) : (b + f) + i - 1 = b + (f + i - 1)
      BY <2>7
    <3> QED BY <2>6, <2>7, <3>1
  <2> HIDE DEF x, y, l
  <2>10. x = y
    <3>1. x \in Seq(Nat) /\ y \in Seq(Nat) /\ Len(x) = Len(y)
      BY <2>8, <2>9
    <3>2. \A i \in 1..Len(x) : x[i] = y[i]
      BY <2>8, <2>9
    <3> QED BY <3>1, <3>2, SeqEqual
  <2> QED BY <2>3, <2>10 DEF x, y, l
<1>5. CASE n <= b
  <2>1. CASE Len(s) = 0
    <3>1. needed = {} /\ b + Len(s) = b
      BY <2>1, <1>0, <1>1
    <3> QED BY <3>1, <1>3, <1>5, NothingBetween
  <2>2. CASE Len(s) # 0
    <3>1. 1 \in 1..Len(s) /\ b + 1 > n /\ \A i \in 1..Len(s) : 1 <= i
      BY <2>2, <1>0, <1>5
    <3> QED BY <3>1, <1>4, <1>5
  <2> QED BY <2>1, <2>2
<1>6. CASE ~(n <= b) /\ n < b + Len(s)
  <2>1. (n + 1 - b) \in 1..Len(s) /\ b + (n + 1 - b) = n + 1 /\ b + (n + 1 - b) > n
        /\ \A i \in 1..Len(s) : b + i > n => n + 1 - b <= i
    BY <1>0, <1>6
  <2>2. Read(s, s, n) = Between(b + (n + 1 - b), b + Len(s))
    BY <2>1, <1>4
  <2> QED BY <2>1, <2>2, <1>6
<1>7. CASE ~(n <= b) /\ ~(n < b + Len(s))
  <2>1. needed = {}
    BY <1>0, <1>1, <1>7
  <2> QED BY <2>1, <1>3, <1>7
<1> QED BY <1>5, <1>6, <1>7

\* What a sequence of lines is worth when one is appended.
LEMMA Appended ==
  ASSUME NEW S, NEW s \in Seq(S), NEW x \in S
  PROVE  /\ Append(s, x) \in Seq(S) /\ Len(Append(s, x)) = Len(s) + 1 /\ Len(s) \in Nat
         /\ \A i \in 1..Len(s) : Append(s, x)[i] = s[i]
         /\ Append(s, x)[Len(s) + 1] = x
OBVIOUS

\* An empty file.
LEMMA NoLines == ASSUME NEW S PROVE <<>> \in Seq(S)
OBVIOUS

\* What is in a file stays so when the line grows.
LEMMA WiderLines ==
  ASSUME NEW m \in Nat
  PROVE  /\ Seq(1..m) \subseteq Seq(1..(m + 1)) /\ Seq(0..m) \subseteq Seq(0..(m + 1))
<1>1. 1..m \subseteq 1..(m + 1) /\ 0..m \subseteq 0..(m + 1)
  OBVIOUS
<1> QED BY <1>1

\* An event is journaled, and the oldest of the memory spilled, or not.
LEMMA SpillJournals ==
  ASSUME SpillAssumption, SpillInv, OnJournal
  PROVE  SpillInv'
<1> DEFINE h == head + 1
<1>0. /\ head \in Nat /\ ramOldest \in 1..(head + 1) /\ head - ramOldest + 1 <= History /\ History \in Nat \ {0}
      /\ head' = h /\ closed' = closed /\ ~closed /\ h \in Nat \ {0}
      /\ prev \in Seq(1..head) /\ curr \in Seq(1..head) /\ prevFile \in Seq(0..head) /\ file \in Seq(0..head)
      /\ faults \in Nat /\ (head > 0 => ramOldest <= head)
  BY DEF SpillAssumption, SpillInv, TypeOK, OnJournal
<1>b. stale \in BOOLEAN /\ closed \in BOOLEAN
  BY DEF SpillInv, TypeOK
<1>1. prev \in Seq(1..h) /\ curr \in Seq(1..h) /\ prevFile \in Seq(0..h) /\ file \in Seq(0..h)
  BY <1>0, WiderLines
<1>2. Len(prev) \in Nat /\ Len(curr) \in Nat /\ DOMAIN prev = 1..Len(prev) /\ DOMAIN curr = 1..Len(curr)
      /\ (\A i \in 1..Len(prev) : prev[i] = (ramOldest - 1 - Len(curr) - Len(prev)) + i)
      /\ (\A i \in 1..Len(curr) : curr[i] = (ramOldest - 1 - Len(curr)) + i)
  BY <1>0, SMTT(30) DEF SpillInv
<1> HIDE DEF h
<1>3. CASE UNCHANGED <<ramOldest, prev, curr, prevFile, file, stale, faults>> /\ h - ramOldest + 1 <= History
  <2>1. TypeOK'
    <3>1. ramOldest \in 1..(h + 1)
      BY <1>0 DEF h
    <3> QED BY <1>0, <1>1, <1>3, <1>b, <3>1 DEF TypeOK
  <2>2. ramOldest <= h
    BY <1>0 DEF h
  <2> QED BY <1>0, <1>3, <2>1, <2>2 DEF SpillInv
<1>4. CASE h - ramOldest + 1 > History /\ ramOldest' = ramOldest + 1
  <2>1. ramOldest \in 1..head /\ ramOldest' \in 1..h /\ h - ramOldest' + 1 <= History /\ ramOldest \in 1..h
        /\ ramOldest \in 0..h /\ ramOldest' \in 1..(h + 1)
    <3>1. head + 1 - ramOldest + 1 > History /\ History >= 1
      BY <1>0, <1>4 DEF h
    <3>2. ramOldest <= head
      BY <1>0, <3>1
    <3> QED BY <1>0, <1>4, <3>2 DEF h
  <2>2. CASE prev' = <<>> /\ curr' = <<>> /\ (~stale' => file' = <<>> /\ prevFile' = <<>>)
             /\ stale' \in BOOLEAN /\ file' \in Seq(0..h) /\ prevFile' \in Seq(0..h) /\ faults' \in Nat
    <3>0. prev' \in Seq(1..h) /\ curr' \in Seq(1..h)
      BY <2>2, NoLines
    <3>1. TypeOK'
      BY <1>0, <1>b, <2>1, <2>2, <3>0 DEF TypeOK
    <3> QED BY <1>0, <2>1, <2>2, <3>1 DEF SpillInv
  <2>3. CASE /\ curr' = Append(curr, ramOldest) /\ file' = Append(file, ramOldest)
             /\ UNCHANGED <<prev, prevFile, stale, faults>>
    <3>1. curr' \in Seq(1..h) /\ file' \in Seq(0..h) /\ Len(curr') = Len(curr) + 1 /\ DOMAIN curr' = 1..(Len(curr) + 1)
          /\ (\A i \in 1..Len(curr) : curr'[i] = curr[i]) /\ curr'[Len(curr) + 1] = ramOldest
      BY <1>1, <2>1, <2>3, Appended
    <3>2. TypeOK'
      BY <1>0, <1>1, <1>b, <2>1, <2>3, <3>1 DEF TypeOK
    <3>3. ramOldest' - 1 - Len(curr') = ramOldest - 1 - Len(curr)
      BY <1>0, <1>2, <1>4, <3>1
    <3>4. \A i \in DOMAIN curr' : curr'[i] = (ramOldest' - 1 - Len(curr')) + i
      <4> SUFFICES ASSUME NEW i \in 1..(Len(curr) + 1) PROVE curr'[i] = (ramOldest - 1 - Len(curr)) + i
        BY <3>1, <3>3
      <4>1. CASE i \in 1..Len(curr)
        BY <4>1, <3>1, <1>2
      <4>2. CASE i = Len(curr) + 1
        BY <4>2, <3>1, <1>0, <1>2
      <4> QED BY <4>1, <4>2, <1>2
    <3>5. \A i \in DOMAIN prev' : prev'[i] = (ramOldest' - 1 - Len(curr') - Len(prev')) + i
      BY <1>2, <2>3, <3>3
    <3>6. ~stale' => file' = curr' /\ prevFile' = prev'
      BY <2>3 DEF SpillInv
    <3> QED BY <1>0, <2>1, <3>2, <3>4, <3>5, <3>6 DEF SpillInv
  <2>4. CASE /\ prev' = Append(curr, ramOldest) /\ prevFile' = Append(file, ramOldest)
             /\ curr' = <<>> /\ file' = <<>> /\ UNCHANGED <<stale, faults>>
    <3>1. prev' \in Seq(1..h) /\ prevFile' \in Seq(0..h) /\ Len(prev') = Len(curr) + 1 /\ DOMAIN prev' = 1..(Len(curr) + 1)
          /\ (\A i \in 1..Len(curr) : prev'[i] = curr[i]) /\ prev'[Len(curr) + 1] = ramOldest /\ Len(curr') = 0
      BY <1>1, <2>1, <2>4, Appended
    <3>0. curr' \in Seq(1..h) /\ file' \in Seq(0..h)
      BY <2>4, NoLines
    <3>2. TypeOK'
      BY <1>0, <1>b, <2>1, <2>4, <3>0, <3>1 DEF TypeOK
    <3>3. ramOldest' - 1 - Len(curr') - Len(prev') = ramOldest - 1 - Len(curr)
      BY <1>0, <1>2, <1>4, <3>1
    <3>4. \A i \in DOMAIN prev' : prev'[i] = (ramOldest' - 1 - Len(curr') - Len(prev')) + i
      <4> SUFFICES ASSUME NEW i \in 1..(Len(curr) + 1) PROVE prev'[i] = (ramOldest - 1 - Len(curr)) + i
        BY <3>1, <3>3
      <4>1. CASE i \in 1..Len(curr)
        BY <4>1, <3>1, <1>2
      <4>2. CASE i = Len(curr) + 1
        BY <4>2, <3>1, <1>0, <1>2
      <4> QED BY <4>1, <4>2, <1>2
    <3>5. \A i \in DOMAIN curr' : curr'[i] = (ramOldest' - 1 - Len(curr')) + i
      BY <2>4
    <3>6. ~stale' => file' = curr' /\ prevFile' = prev'
      BY <2>4 DEF SpillInv
    <3> QED BY <1>0, <2>1, <3>2, <3>4, <3>5, <3>6 DEF SpillInv
  <2>5. CASE Spill(ramOldest)
    BY <2>3, <2>4, <2>5 DEF Spill
  <2>6. CASE SpillFails(ramOldest)
    <3>1. ASSUME NEW f \in Seq(0..h), NEW g \in Seq(0..h), DropDiskWindow(f, g)
          PROVE  prev' = <<>> /\ curr' = <<>> /\ (~stale' => file' = <<>> /\ prevFile' = <<>>)
                 /\ stale' \in BOOLEAN /\ file' \in Seq(0..h) /\ prevFile' \in Seq(0..h)
      <4>1. prev' = <<>> /\ curr' = <<>> /\ file' \in {f, <<>>} /\ prevFile' \in {g, <<>>}
        BY <3>1 DEF DropDiskWindow
      <4>2. stale' = (stale \/ file' # <<>> \/ prevFile' # <<>>)
        BY <3>1 DEF DropDiskWindow
      <4>3. (~stale' => file' = <<>> /\ prevFile' = <<>>) /\ stale' \in BOOLEAN
        BY <4>2
      <4>4. file' \in Seq(0..h) /\ prevFile' \in Seq(0..h)
        BY <4>1, NoLines
      <4> QED BY <4>1, <4>3, <4>4
    <3>2. faults' \in Nat
      BY <1>0, <2>6 DEF SpillFails
    <3>3. Append(file, Torn) \in Seq(0..h) /\ Append(file, ramOldest) \in Seq(0..h) /\ <<>> \in Seq(0..h)
      BY <1>0, <1>1, <2>1, Appended DEF Torn
    <3>4. \E f \in Seq(0..h), g \in Seq(0..h) : DropDiskWindow(f, g)
      BY <1>1, <2>6, <3>3 DEF SpillFails
    <3> QED BY <2>2, <3>1, <3>2, <3>4
  <2> QED BY <1>4, <2>5, <2>6, <1>0 DEF OnJournal, h
<1> QED BY <1>0, <1>3, <1>4 DEF OnJournal, h

\* The journal closes.
LEMMA SpillCloses ==
  ASSUME SpillAssumption, SpillInv, Close
  PROVE  SpillInv'
<1>0. /\ head \in Nat /\ head' = head /\ closed' /\ ramOldest' = head + 1 /\ faults' = faults /\ faults \in Nat
      /\ DropDiskWindow(file, prevFile) /\ prevFile \in Seq(0..head) /\ file \in Seq(0..head)
      /\ History \in Nat
  BY DEF SpillAssumption, SpillInv, TypeOK, Close
<1>1. prev' = <<>> /\ curr' = <<>> /\ file' \in {file, <<>>} /\ prevFile' \in {prevFile, <<>>}
  BY <1>0 DEF DropDiskWindow
<1>2. stale' = (stale \/ file' # <<>> \/ prevFile' # <<>>)
  BY <1>0 DEF DropDiskWindow
<1>3. (~stale' => file' = <<>> /\ prevFile' = <<>>) /\ stale' \in BOOLEAN
  BY <1>2
<1>4. file' \in Seq(0..head) /\ prevFile' \in Seq(0..head) /\ prev' \in Seq(1..head) /\ curr' \in Seq(1..head)
  BY <1>0, <1>1, NoLines
<1>5. ramOldest' \in 1..(head + 1) /\ head - ramOldest' + 1 <= History /\ closed' \in BOOLEAN
  <2>1. head - (head + 1) + 1 = 0
    BY <1>0
  <2>2. closed' \in BOOLEAN
    BY DEF Close
  <2> QED BY <1>0, <2>1, <2>2
<1>6. TypeOK'
  BY <1>0, <1>1, <1>3, <1>4, <1>5 DEF TypeOK
<1> QED BY <1>0, <1>1, <1>3, <1>6 DEF SpillInv

\* The journal begins so.
LEMMA SpillStarts == ASSUME SpillAssumption, Init PROVE SpillInv
<1>1. 0 \in Nat /\ 1 \in 1..(0 + 1) /\ 0 - 1 + 1 <= History
  BY DEF SpillAssumption
<1>2. TypeOK
  <2>1. prev \in Seq(1..head) /\ curr \in Seq(1..head) /\ prevFile \in Seq(0..head) /\ file \in Seq(0..head)
    BY NoLines DEF Init
  <2>2. stale \in BOOLEAN /\ closed \in BOOLEAN
    BY DEF Init
  <2> QED BY <1>1, <2>1, <2>2 DEF Init, TypeOK
<1> QED BY <1>2 DEF Init, SpillInv

\* Every step of the journal keeps it.
LEMMA SpillStep ==
  ASSUME SpillAssumption, SpillInv, Next \/ UNCHANGED vars
  PROVE  SpillInv'
<1>1. CASE UNCHANGED vars
  BY <1>1 DEF vars, SpillInv, TypeOK
<1>2. CASE Next
  BY <1>2, SpillJournals, SpillCloses DEF Next
<1> QED BY <1>1, <1>2

\* Within the window of a journal that removed what it gave up, the files are the index.
LEMMA SpillPromises ==
  ASSUME SpillAssumption, SpillInv
  PROVE  TypeOK /\ TailOrNothing /\ WindowIsHonest
<1>0. /\ head \in Nat /\ ramOldest \in 1..(head + 1) /\ ramOldest \in Nat \ {0}
      /\ prev \in Seq(1..head) /\ curr \in Seq(1..head) /\ Len(prev) \in Nat /\ Len(curr) \in Nat
      /\ DOMAIN prev = 1..Len(prev) /\ DOMAIN curr = 1..Len(curr)
  BY DEF SpillInv, TypeOK
<1>1. TailOrNothing
  <2> SUFFICES ASSUME NEW n \in 0..(head + 1) PROVE GetSince(n) \in {Refused, Between(n + 1, head)}
    BY DEF TailOrNothing
  <2>1. n = head => Between(n + 1, head) = <<>>
    BY <1>0, NothingBetween
  <2> QED BY <2>1, <1>0 DEF GetSince
<1>2. WindowIsHonest
  <2> SUFFICES ASSUME ~closed, NEW n \in 0..head,
                      n + 1 >= ramOldest \/ (n + 1 >= oldestSeq /\ ~stale)
               PROVE  GetSince(n) # Refused
    BY DEF WindowIsHonest
  <2>1. n \in Nat /\ n <= head /\ n + 1 \in Nat \ {0}
    BY <1>0
  <2>2. CASE n = head
    <3>1. GetSince(n) = <<>>
      BY <2>2, <1>0 DEF GetSince
    <3> QED BY <3>1 DEF Refused
  <2>3. CASE n < head
    <3>1. ramOldest <= head
      BY <2>1, <2>3, <1>0 DEF SpillInv
    <3>2. (n + 1) - 1 <= head /\ n + 1 <= head
      BY <2>1, <2>3, <1>0
    <3>3. Between(n + 1, head) # Refused
      BY <2>1, <3>2, <1>0, Betweens
    <3> DEFINE lp == Len(prev)
               lc == Len(curr)
               bp == ramOldest - 1 - lc - lp
               bc == ramOldest - 1 - lc
    <3>4. (\A i \in DOMAIN prev : prev[i] = bp + i) /\ (\A i \in DOMAIN curr : curr[i] = bc + i)
      BY DEF SpillInv
    <3>5. bp \in Nat /\ bc \in Nat /\ bp + lp = bc /\ bc + lc = ramOldest - 1
      <4>1. lp \in Nat /\ lc \in Nat
        BY <1>0
      <4>2. lp > 0 => bp + 1 >= 1
        <5> SUFFICES ASSUME lp > 0 PROVE bp + 1 >= 1
          OBVIOUS
        <5>1. 1 \in DOMAIN prev /\ prev[1] \in 1..head
          BY <1>0, <4>1
        <5>2. prev[1] = bp + 1
          BY <5>1, <3>4
        <5> QED BY <5>1, <5>2, <1>0
      <4>3. lc > 0 => bc + 1 >= 1
        <5> SUFFICES ASSUME lc > 0 PROVE bc + 1 >= 1
          OBVIOUS
        <5>1. 1 \in DOMAIN curr /\ curr[1] \in 1..head
          BY <1>0, <4>1
        <5>2. curr[1] = bc + 1
          BY <5>1, <3>4
        <5> QED BY <5>1, <5>2, <1>0
      <4> HIDE DEF lp, lc
      <4> QED BY <4>1, <4>2, <4>3, <1>0
    <3>6. oldestSeq = IF lp # 0 THEN bp + 1 ELSE IF lc # 0 THEN bc + 1 ELSE ramOldest
      <4>1. lp # 0 => prev # <<>> /\ prev[1] = bp + 1
        <5> SUFFICES ASSUME lp # 0 PROVE prev # <<>> /\ prev[1] = bp + 1
          OBVIOUS
        <5>1. 1 \in DOMAIN prev /\ prev # <<>>
          BY <1>0
        <5>2. \A i \in DOMAIN prev : prev[i] = bp + i
          BY <3>4
        <5> HIDE DEF bp
        <5> QED BY <5>1, <5>2
      <4>2. lp = 0 => prev = <<>>
        BY <1>0
      <4>3. lc # 0 => curr # <<>> /\ curr[1] = bc + 1
        <5> SUFFICES ASSUME lc # 0 PROVE curr # <<>> /\ curr[1] = bc + 1
          OBVIOUS
        <5>1. 1 \in DOMAIN curr /\ curr # <<>>
          BY <1>0
        <5>2. \A i \in DOMAIN curr : curr[i] = bc + i
          BY <3>4
        <5> HIDE DEF bc
        <5> QED BY <5>1, <5>2
      <4>4. lc = 0 => curr = <<>>
        BY <1>0
      <4> HIDE DEF lp, lc, bp, bc
      <4> QED BY <4>1, <4>2, <4>3, <4>4 DEF oldestSeq
    <3>7. lp \in Nat /\ lc \in Nat /\ prev \in Seq(Nat) /\ curr \in Seq(Nat)
      BY <1>0
    <3> DEFINE ram == Between(Max2(ramOldest, n + 1), head)
               older == Read(prev, prevFile, n)
               newer == Read(curr, file, n)
               all == IF n + 1 >= ramOldest THEN ram ELSE older \o newer \o ram
    <3>8. CASE n + 1 >= ramOldest
      <4>1. Max2(ramOldest, n + 1) = n + 1
        BY <3>8, <1>0, <2>1 DEF Max2
      <4>2. ~(n + 1 < oldestSeq)
        <5> HIDE DEF lp, lc, bp, bc
        <5> QED BY <3>5, <3>6, <3>7, <3>8, <1>0, <2>1
      <4>3. ~(n > head) /\ ~(n = head) /\ ~(ramOldest > head) /\ ~(n + 1 < ramOldest)
        BY <3>1, <3>8, <2>1, <2>3, <1>0
      <4>4. GetSince(n) = Between(n + 1, head)
        BY <4>1, <4>2, <4>3, <3>8 DEF GetSince
      <4> QED BY <4>4, <3>3
    <3>9. CASE ~(n + 1 >= ramOldest)
      <4>1. n + 1 >= oldestSeq /\ file = curr /\ prevFile = prev /\ n + 1 < ramOldest
        BY <3>9, <1>0, <2>1 DEF SpillInv
      <4>2. Max2(ramOldest, n + 1) = ramOldest
        BY <4>1, <1>0, <2>1 DEF Max2
      <4> HIDE DEF lp, lc, bp, bc
      <4>3. bp <= n /\ n < bc + lc
        BY <3>5, <3>6, <3>7, <4>1, <1>0, <2>1
      <4>4. older = IF n <= bp THEN Between(bp + 1, bp + lp) ELSE IF n < bp + lp THEN Between(n + 1, bp + lp) ELSE <<>>
        BY <3>4, <3>5, <3>7, <4>1, <2>1, ReadExact, ZenonT(40) DEF lp
      <4>5. newer = IF n <= bc THEN Between(bc + 1, bc + lc) ELSE IF n < bc + lc THEN Between(n + 1, bc + lc) ELSE <<>>
        BY <3>4, <3>5, <3>7, <4>1, <2>1, ReadExact, ZenonT(40) DEF lc
      <4>6. older = IF n < bc THEN Between(n + 1, bc) ELSE <<>>
        <5>1. CASE n = bp
          <6>1. older = Between(n + 1, bc)
            <7>1. n <= bp
              BY <5>1, <2>1
            <7> HIDE DEF older
            <7>2. older = Between(bp + 1, bp + lp)
              BY <7>1, <4>4
            <7> QED BY <7>2, <5>1, <3>5
          <6>2. CASE bp = bc
            <7>1. Between(bc + 1, bc) = <<>>
              BY <3>5, NothingBetween
            <7> QED BY <5>1, <6>1, <6>2, <7>1, <3>5
          <6>3. CASE bp # bc
            <7>1. bp < bc
              BY <6>3, <3>5, <3>7
            <7> QED BY <5>1, <6>1, <7>1
          <6> QED BY <6>2, <6>3
        <5>2. CASE n # bp
          BY <5>2, <4>3, <4>4, <3>5, <2>1
        <5> QED BY <5>1, <5>2
      <4>7. newer = IF n < bc THEN Between(bc + 1, ramOldest - 1) ELSE Between(n + 1, ramOldest - 1)
        <5>1. CASE n = bc
          BY <5>1, <4>5, <3>5
        <5>2. CASE n # bc
          BY <5>2, <4>3, <4>5, <3>5, <2>1
        <5> QED BY <5>1, <5>2
      <4>8. older \o newer = Between(n + 1, ramOldest - 1) /\ older # Refused /\ newer # Refused
        <5>1. CASE n < bc
          <6>1. (n + 1) - 1 <= bc /\ bc <= ramOldest - 1 /\ ramOldest - 1 \in Nat /\ bc + 1 \in Nat \ {0}
                /\ (bc + 1) - 1 <= ramOldest - 1
            BY <5>1, <3>5, <3>7, <1>0, <2>1
          <6>2. Between(n + 1, bc) \o Between(bc + 1, ramOldest - 1) = Between(n + 1, ramOldest - 1)
            <7> DEFINE a == n + 1
                       r == ramOldest - 1
            <7>1. a \in Nat \ {0} /\ bc \in Nat /\ r \in Nat /\ a - 1 <= bc /\ bc <= r
              BY <6>1, <2>1, <3>5
            <7> HIDE DEF a, r
            <7>2. Between(a, bc) \o Between(bc + 1, r) = Between(a, r)
              BY <7>1, Joined
            <7> QED BY <7>2 DEF a, r
          <6>3. Between(n + 1, bc) # Refused /\ Between(bc + 1, ramOldest - 1) # Refused
            BY <6>1, <2>1, <3>5, Betweens
          <6> QED BY <5>1, <6>2, <6>3, <4>6, <4>7
        <5>2. CASE ~(n < bc)
          <6>1. ramOldest - 1 \in Nat /\ (n + 1) - 1 <= ramOldest - 1
            BY <4>1, <1>0, <2>1
          <6>2. Between(n + 1, ramOldest - 1) \in Seq(Nat) /\ Between(n + 1, ramOldest - 1) # Refused
            BY <6>1, <2>1, Betweens
          <6>3. older = <<>> /\ newer = Between(n + 1, ramOldest - 1)
            BY <5>2, <4>6, <4>7
          <6>4. <<>> \o Between(n + 1, ramOldest - 1) = Between(n + 1, ramOldest - 1) /\ <<>> # Refused
            BY <6>2, ConcatEmptySeq DEF Refused
          <6> QED BY <6>2, <6>3, <6>4
        <5> QED BY <5>1, <5>2
      <4>9. all = Between(n + 1, head)
        <5>1. (n + 1) - 1 <= ramOldest - 1 /\ ramOldest - 1 <= head /\ ramOldest - 1 \in Nat /\ (ramOldest - 1) + 1 = ramOldest
          BY <4>1, <3>1, <1>0, <2>1
        <5>2. Between(n + 1, ramOldest - 1) \o Between((ramOldest - 1) + 1, head) = Between(n + 1, head)
          BY <5>1, <1>0, <2>1, Joined
        <5>3. ram = Between(ramOldest, head)
          BY <4>2
        <5> QED BY <5>1, <5>2, <5>3, <4>8, <3>9
      <4>10. ~(n > head) /\ ~(n = head) /\ ~(ramOldest > head) /\ ~(n + 1 < oldestSeq)
        <5>1. oldestSeq \in Int
          BY <3>5, <3>6, <3>7, <1>0
        <5> QED BY <5>1, <4>1, <3>1, <2>1, <2>3, <1>0
      <4>11. ~(Refused \in {older, newer})
        BY <4>8
      <4> HIDE DEF older, newer
      <4>12. GetSince(n) = Between(n + 1, head)
        BY <4>9, <4>10, <4>11 DEF GetSince, older, newer
      <4> QED BY <4>12, <3>3
    <3> QED BY <3>8, <3>9
  <2> QED BY <2>1, <2>2, <2>3, <1>0
<1> QED BY <1>1, <1>2 DEF SpillInv

-----------------------------------------------------------------------------
(* The emission with a journal *)

\* An event of a bulk; the last events of a bulk; and a bulk.
Piece(b, i, n) == [bulk |-> b, at |-> i, of |-> n]
IsRest(s) == \A i \in DOMAIN s : s[i] = Piece(s[1].bulk, s[1].of - Len(s) + i, s[1].of)
IsBulk(s) == s # <<>> /\ IsRest(s) /\ s[1].of = Len(s)

\* What is stored: the events of a bulk in order, and the bulks.
Ordered(s) ==
    \A i \in DOMAIN s :
        /\ s[i].at > 1 => i > 1 /\ s[i - 1] = [s[i] EXCEPT !.at = @ - 1]
        /\ i > 1 => s[i - 1].bulk <= s[i].bulk
\* Nothing in it ends in the middle of a bulk.
Unbroken(s) ==
    \A i \in DOMAIN s :
        s[i].at < s[i].of => i < Len(s) /\ s[i + 1] = [s[i] EXCEPT !.at = @ + 1]

\* The bulks that wait come after b, in order.
QueueHolds(q, b) ==
    \A i \in DOMAIN q :
        /\ IsBulk(q[i]) /\ q[i][1].bulk > b
        /\ \A j \in DOMAIN q : i < j => q[i][1].bulk < q[j][1].bulk

\* What is left of the bulk b continues what is stored.
TodoHolds(t, b, s) ==
    t # <<>> =>
        /\ IsRest(t) /\ t[1].bulk = b
        /\ t[1].at > 1 => s # <<>> /\ s[Len(s)] = [t[1] EXCEPT !.at = @ - 1]

\* A bulk that is not gone is stored to its end, under way or waiting.
Accounted(n, gone, s, b, t, q) ==
    \A x \in (1..n) \ gone :
        \/ \E i \in DOMAIN s : s[i].bulk = x /\ s[i].at = s[i].of
        \/ x = b /\ t # <<>>
        \/ \E i \in DOMAIN q : q[i][1].bulk = x

\* What holds of the emission always.
JournalInv ==
    /\ Journal!TypeOK /\ Journal!StoredThenPublished /\ Ordered(jstored) /\ (jatomic => Unbroken(jstored))
    /\ QueueHolds(jqueued, jbulk) /\ (jbulk = 0 => jqueued = <<>>)
    /\ TodoHolds(jtodo, jbulk, jstored) /\ (jatomic /\ jtodo # <<>> => IsBulk(jtodo))
    /\ jbulk # 0 => \A i \in DOMAIN jstored : jstored[i].bulk <= jbulk
    /\ Accounted(jemitted, jrefused \cup jdropped, jstored, jbulk, jtodo, jqueued)

\* The events of the first n bulks.
PlaceOf(n) == [bulk : 1..n, at : 1..MaxBulk, of : 1..MaxBulk]

\* The events of a bulk.
LEMMA BulkEvents ==
  ASSUME Journal!JournalAssumption, NEW b \in Nat \ {0}, NEW n \in 1..MaxBulk
  PROVE  /\ Journal!EventsOf(b, n) \in Seq(PlaceOf(b)) /\ IsBulk(Journal!EventsOf(b, n))
         /\ Journal!EventsOf(b, n)[1].bulk = b /\ Len(Journal!EventsOf(b, n)) = n /\ Journal!EventsOf(b, n)[1].at = 1
<1> DEFINE s == Journal!EventsOf(b, n)
<1>1. n \in Nat \ {0} /\ n <= MaxBulk /\ MaxBulk \in Nat
  BY DEF Journal!JournalAssumption
<1>2. s \in Seq(PlaceOf(b)) /\ Len(s) = n /\ DOMAIN s = 1..n
  BY <1>1 DEF Journal!EventsOf, PlaceOf
<1>3. \A i \in 1..n : s[i] = [bulk |-> b, at |-> i, of |-> n]
  BY DEF Journal!EventsOf
<1> HIDE DEF s
<1>4. s[1] = [bulk |-> b, at |-> 1, of |-> n]
  BY <1>1, <1>3
<1>5. IsRest(s)
  <2> SUFFICES ASSUME NEW i \in 1..n
               PROVE  s[i] = Piece(s[1].bulk, s[1].of - Len(s) + i, s[1].of)
    BY <1>2 DEF IsRest
  <2>1. n - n + i = i
    BY <1>1
  <2> QED BY <1>2, <1>3, <1>4, <2>1 DEF Piece
<1> QED BY <1>1, <1>2, <1>4, <1>5 DEF IsBulk, s

\* Events stay events when more bulks are emitted.
LEMMA WiderBulks ==
  ASSUME NEW m \in Nat, NEW n \in Nat, m <= n
  PROVE  PlaceOf(m) \subseteq PlaceOf(n) /\ Seq(PlaceOf(m)) \subseteq Seq(PlaceOf(n))
         /\ Seq(Seq(PlaceOf(m))) \subseteq Seq(Seq(PlaceOf(n)))
<1>1. PlaceOf(m) \subseteq PlaceOf(n)
  BY DEF PlaceOf
<1>2. Seq(PlaceOf(m)) \subseteq Seq(PlaceOf(n))
  BY <1>1
<1> QED BY <1>1, <1>2

\* A bulk is emitted from outside.
LEMMA JEmit ==
  ASSUME Journal!JournalAssumption, JournalInv, NEW n \in 1..MaxBulk, Journal!Emit(n)
  PROVE  JournalInv'
<1> DEFINE e == jemitted'
           s == Journal!EventsOf(e, n)
<1>0. jemitted \in Nat /\ e = jemitted + 1 /\ e \in Nat \ {0} /\ jtodo' = s /\ jbulk' = e /\ jbulk = 0
  BY DEF JournalInv, Journal!TypeOK, Journal!Emit
<1>u. UNCHANGED <<jatomic, jqueued, jstaged, jstored, jhead, jpublished, jrefused, jdropped, jfaults>>
  BY DEF Journal!Emit
<1>1. s \in Seq(PlaceOf(e)) /\ IsBulk(s) /\ s[1].bulk = e /\ s[1].at = 1 /\ s # <<>>
  BY <1>0, BulkEvents DEF IsBulk
<1>2. jqueued = <<>> /\ jtodo = <<>> /\ jstaged = <<>>
  BY <1>0 DEF JournalInv, Journal!TypeOK
<1> HIDE DEF s
<1> HIDE DEF e
<1>3. Journal!TypeOK'
  <2>1. Journal!Place = PlaceOf(jemitted) /\ Journal!Place' = PlaceOf(e)
    BY DEF Journal!Place, PlaceOf, e
  <2>2. jstored \in Seq(PlaceOf(e)) /\ jpublished \in Seq(PlaceOf(e))
    BY <1>0, <2>1, WiderBulks DEF JournalInv, Journal!TypeOK
  <2>3. jqueued' \in Seq(Seq(PlaceOf(e))) /\ jstaged' \in Seq(PlaceOf(e))
    BY <1>2, <1>u
  <2> QED BY <1>0, <1>1, <1>2, <1>u, <2>1, <2>2, <2>3 DEF JournalInv, Journal!TypeOK, e
<1>4. Journal!StoredThenPublished' /\ Ordered(jstored)' /\ (jatomic => Unbroken(jstored))'
  BY <1>u DEF JournalInv, Journal!StoredThenPublished, Ordered, Unbroken
<1>5. QueueHolds(jqueued, jbulk)' /\ (jbulk = 0 => jqueued = <<>>)'
  BY <1>u, <1>2, <1>0 DEF QueueHolds
<1>6. TodoHolds(jtodo, jbulk, jstored)' /\ (jatomic /\ jtodo # <<>> => IsBulk(jtodo))'
  BY <1>0, <1>1 DEF TodoHolds, IsBulk
<1>7. (jbulk # 0 => \A i \in DOMAIN jstored : jstored[i].bulk <= jbulk)'
  <2>1. jstored \in Seq(Journal!Place)
    BY DEF JournalInv, Journal!TypeOK
  <2>2. \A i \in DOMAIN jstored : jstored[i] \in Journal!Place
    BY <2>1
  <2>3. \A i \in DOMAIN jstored : jstored[i].bulk \in 1..jemitted
    BY <2>2 DEF Journal!Place
  <2> QED BY <2>3, <1>0, <1>u
<1>8. Accounted(jemitted, jrefused \cup jdropped, jstored, jbulk, jtodo, jqueued)'
  <2> SUFFICES ASSUME NEW x \in (1..e) \ (jrefused \cup jdropped)
               PROVE  \/ \E i \in DOMAIN jstored : jstored[i].bulk = x /\ jstored[i].at = jstored[i].of
                      \/ x = e
    BY <1>u, <1>0, <1>1 DEF Accounted, e
  <2>1. CASE x \in 1..jemitted
    BY <2>1, <1>2, <1>0 DEF JournalInv, Accounted
  <2>2. CASE x \notin 1..jemitted
    BY <2>2, <1>0
  <2> QED BY <2>1, <2>2
<1> QED BY <1>3, <1>4, <1>5, <1>6, <1>7, <1>8 DEF JournalInv

\* A bulk is emitted from within.
LEMMA JEmitAgain ==
  ASSUME Journal!JournalAssumption, JournalInv, NEW n \in 1..MaxBulk, Journal!EmitAgain(n)
  PROVE  JournalInv'
<1> DEFINE e == jemitted'
           s == Journal!EventsOf(e, n)
<1>0. jemitted \in Nat /\ e = jemitted + 1 /\ e \in Nat \ {0} /\ jbulk # 0 /\ jqueued' = Append(jqueued, s)
      /\ jbulk \in 0..jemitted
  BY DEF JournalInv, Journal!TypeOK, Journal!EmitAgain
<1>u. UNCHANGED <<jatomic, jbulk, jtodo, jstaged, jstored, jhead, jpublished, jrefused, jdropped, jfaults>>
  BY DEF Journal!EmitAgain
<1>1. s \in Seq(PlaceOf(e)) /\ IsBulk(s) /\ s[1].bulk = e /\ s # <<>>
  BY <1>0, BulkEvents DEF IsBulk
<1> HIDE DEF s
<1> HIDE DEF e
<1>2. Journal!Place = PlaceOf(jemitted) /\ Journal!Place' = PlaceOf(e)
  BY DEF Journal!Place, PlaceOf, e
<1>3. jqueued \in Seq(Seq(PlaceOf(jemitted)))
  BY <1>2 DEF JournalInv, Journal!TypeOK
<1>3a. jqueued \in Seq(Seq(PlaceOf(e)))
  BY <1>3, <1>0, WiderBulks
<1>3b. \A i \in DOMAIN jqueued : IsBulk(jqueued[i]) /\ jqueued[i][1].bulk \in 1..jemitted
  <2> SUFFICES ASSUME NEW i \in DOMAIN jqueued PROVE IsBulk(jqueued[i]) /\ jqueued[i][1].bulk \in 1..jemitted
    OBVIOUS
  <2>1. jqueued[i] \in Seq(PlaceOf(jemitted)) /\ IsBulk(jqueued[i])
    BY <1>3 DEF JournalInv, QueueHolds
  <2>2. jqueued[i][1] \in PlaceOf(jemitted)
    BY <2>1 DEF IsBulk
  <2> QED BY <2>1, <2>2 DEF PlaceOf
<1>4. Journal!TypeOK'
  <2>1. jstored \in Seq(PlaceOf(e)) /\ jpublished \in Seq(PlaceOf(e)) /\ jtodo \in Seq(PlaceOf(e))
        /\ jstaged \in Seq(PlaceOf(e))
    BY <1>0, <1>2, WiderBulks DEF JournalInv, Journal!TypeOK
  <2>2. jqueued' \in Seq(Seq(PlaceOf(e)))
    BY <1>3a, <1>1, <1>0
  <2> QED BY <1>0, <1>1, <1>2, <1>u, <2>1, <2>2 DEF JournalInv, Journal!TypeOK, e
<1>5. Journal!StoredThenPublished' /\ Ordered(jstored)' /\ (jatomic => Unbroken(jstored))'
  BY <1>u DEF JournalInv, Journal!StoredThenPublished, Ordered, Unbroken
<1>6. QueueHolds(jqueued, jbulk)'
  <2> SUFFICES ASSUME NEW i \in DOMAIN jqueued'
               PROVE  /\ IsBulk(jqueued'[i]) /\ jqueued'[i][1].bulk > jbulk
                      /\ \A j \in DOMAIN jqueued' : i < j => jqueued'[i][1].bulk < jqueued'[j][1].bulk
    BY <1>u DEF QueueHolds
  <2>1. Len(jqueued) \in Nat /\ DOMAIN jqueued = 1..Len(jqueued) /\ DOMAIN jqueued' = 1..(Len(jqueued) + 1)
    BY <1>0, <1>3
  <2>2. \A j \in 1..Len(jqueued) : jqueued'[j] = jqueued[j]
    BY <1>0, <1>3
  <2>3. jqueued'[Len(jqueued) + 1] = s
    BY <1>0, <1>3
  <2>4. CASE i = Len(jqueued) + 1
    BY <2>1, <2>3, <2>4, <1>0, <1>1
  <2>5. CASE i # Len(jqueued) + 1
    <3>1. i \in 1..Len(jqueued)
      BY <2>1, <2>5
    <3>2. \A j \in 1..Len(jqueued) : i < j => jqueued[i][1].bulk < jqueued[j][1].bulk
      BY <2>1, <3>1 DEF JournalInv, QueueHolds
    <3>3. jqueued[i][1].bulk < e
      BY <1>3b, <3>1, <2>1, <1>0
    <3>4. jqueued[i][1].bulk > jbulk
      BY <3>1, <2>1 DEF JournalInv, QueueHolds
    <3>5. \A j \in DOMAIN jqueued' : i < j => jqueued'[i][1].bulk < jqueued'[j][1].bulk
      <4> TAKE j \in DOMAIN jqueued'
      <4>1. CASE j = Len(jqueued) + 1
        BY <4>1, <2>2, <2>3, <3>1, <3>3, <1>1
      <4>2. CASE j # Len(jqueued) + 1
        BY <4>2, <2>1, <2>2, <3>1, <3>2
      <4> QED BY <4>1, <4>2
    <3> QED BY <3>1, <3>4, <3>5, <2>1, <2>2, <1>3b
  <2> QED BY <2>4, <2>5
<1>7. (jbulk = 0 => jqueued = <<>>)' /\ TodoHolds(jtodo, jbulk, jstored)' /\ (jatomic /\ jtodo # <<>> => IsBulk(jtodo))'
      /\ (jbulk # 0 => \A i \in DOMAIN jstored : jstored[i].bulk <= jbulk)'
  BY <1>u, <1>0 DEF JournalInv, TodoHolds
<1>8. Accounted(jemitted, jrefused \cup jdropped, jstored, jbulk, jtodo, jqueued)'
  <2> SUFFICES ASSUME NEW x \in (1..e) \ (jrefused \cup jdropped)
               PROVE  \/ \E i \in DOMAIN jstored : jstored[i].bulk = x /\ jstored[i].at = jstored[i].of
                      \/ x = jbulk /\ jtodo # <<>>
                      \/ \E i \in DOMAIN jqueued' : jqueued'[i][1].bulk = x
    BY <1>u DEF Accounted, e
  <2>1. CASE x \in 1..jemitted
    <3>1. \A i \in DOMAIN jqueued : i \in DOMAIN jqueued' /\ jqueued'[i] = jqueued[i]
      BY <1>0, <1>3
    <3> QED BY <2>1, <3>1 DEF JournalInv, Accounted
  <2>2. CASE x \notin 1..jemitted
    <3>1. x = e
      BY <2>2, <1>0
    <3>2. Len(jqueued) + 1 \in DOMAIN jqueued' /\ jqueued'[Len(jqueued) + 1] = s
      BY <1>0, <1>3
    <3> QED BY <3>1, <3>2, <1>1
  <2> QED BY <2>1, <2>2
<1> QED BY <1>4, <1>5, <1>6, <1>7, <1>8 DEF JournalInv

\* What is stored next continues what is stored.
LEMMA Continues ==
  ASSUME NEW n \in Nat, NEW s \in Seq(PlaceOf(n)), NEW t \in Seq(PlaceOf(n)), NEW b \in Nat,
         NEW k \in 1..Len(t), Ordered(s), t # <<>>, TodoHolds(t, b, s),
         \A i \in DOMAIN s : s[i].bulk <= b
  PROVE  LET u == s \o SubSeq(t, 1, k) IN
         /\ Ordered(u) /\ \A i \in DOMAIN u : u[i].bulk <= b
         /\ k = Len(t) /\ Unbroken(s) => Unbroken(u)
<1> DEFINE u == s \o SubSeq(t, 1, k)
<1>0. Len(s) \in Nat /\ Len(t) \in Nat /\ DOMAIN s = 1..Len(s) /\ DOMAIN t = 1..Len(t) /\ k \in 1..Len(t)
  OBVIOUS
<1>1. DOMAIN u = 1..(Len(s) + k) /\ Len(u) = Len(s) + k
  BY <1>0
<1>2. (\A i \in 1..Len(s) : u[i] = s[i]) /\ (\A i \in 1..k : u[Len(s) + i] = t[i])
  BY <1>0
<1>3. \A i \in 1..Len(t) : t[i] \in PlaceOf(n)
  OBVIOUS
<1>4. \A i \in 1..Len(t) :
        t[i] = Piece(b, t[1].of - Len(t) + i, t[1].of)
  BY <1>0 DEF TodoHolds, IsRest
<1>5. PICK o \in Int : t[1].of = o
  <2>1. t[1] \in PlaceOf(n)
    BY <1>0, <1>3
  <2> QED BY <2>1 DEF PlaceOf
<1>6. t[1].at > 1 => Len(s) > 0 /\ s[Len(s)] = [t[1] EXCEPT !.at = @ - 1]
  BY <1>0 DEF TodoHolds
<1> HIDE DEF u
<1>7. \A i \in 1..k : i \in 1..Len(t) /\ t[i].bulk = b /\ t[i].at = t[1].of - Len(t) + i /\ t[i].of = t[1].of
  BY <1>0, <1>4 DEF Piece
<1>8. ASSUME NEW i \in DOMAIN u
      PROVE  /\ u[i].at > 1 => i > 1 /\ u[i - 1] = [u[i] EXCEPT !.at = @ - 1]
             /\ i > 1 => u[i - 1].bulk <= u[i].bulk
             /\ u[i].bulk <= b
  <2>1. CASE i \in 1..Len(s)
    <3>1. /\ s[i].at > 1 => i > 1 /\ s[i - 1] = [s[i] EXCEPT !.at = @ - 1]
          /\ i > 1 => s[i - 1].bulk <= s[i].bulk
      BY <2>1, <1>0 DEF Ordered
    <3>2. i > 1 => i - 1 \in 1..Len(s)
      BY <2>1, <1>0
    <3> QED BY <3>1, <3>2, <2>1, <1>0, <1>2
  <2>2. CASE i = Len(s) + 1
    <3>1. u[i] = t[1] /\ 1 \in 1..k /\ i - 1 = Len(s)
      BY <2>2, <1>0, <1>2
    <3>2. Len(s) > 0 => u[i - 1] = s[Len(s)] /\ s[Len(s)].bulk <= b
      BY <3>1, <1>0, <1>2
    <3>3. u[i].bulk = b
      BY <3>1, <1>7
    <3>4. u[i].at > 1 => i > 1 /\ u[i - 1] = [u[i] EXCEPT !.at = @ - 1]
      BY <3>1, <3>2, <1>6, <1>0, <2>2
    <3>5. i > 1 => u[i - 1].bulk <= u[i].bulk
      BY <3>2, <3>3, <1>0, <2>2
    <3> QED BY <3>3, <3>4, <3>5
  <2>3. CASE i > Len(s) + 1
    <3>1. PICK j \in 2..k : i = Len(s) + j
      <4>1. i - Len(s) \in 2..k /\ i = Len(s) + (i - Len(s))
        BY <2>3, <1>0, <1>1
      <4> QED BY <4>1
    <3>2. j \in 1..k /\ j - 1 \in 1..k /\ i - 1 = Len(s) + (j - 1)
      BY <3>1, <1>0
    <3>3. u[i] = t[j] /\ u[i - 1] = t[j - 1]
      BY <3>1, <3>2, <1>2
    <3>4. o - Len(t) + (j - 1) = (o - Len(t) + j) - 1
      BY <3>2, <1>0
    <3>5. u[i - 1] = [u[i] EXCEPT !.at = @ - 1]
      <4>1. u[i] = Piece(b, o - Len(t) + j, o)
        BY <3>2, <3>3, <1>4, <1>5, <1>0
      <4>2. u[i - 1] = Piece(b, o - Len(t) + (j - 1), o)
        BY <3>2, <3>3, <1>4, <1>5, <1>0
      <4>3. PICK x \in Int : x = o - Len(t) + j
        <5>1. o - Len(t) + j \in Int
          BY <3>2, <1>0, <1>5
        <5> QED BY <5>1
      <4>4. u[i] = Piece(b, x, o) /\ u[i - 1] = Piece(b, x - 1, o)
        BY <4>1, <4>2, <4>3, <3>4
      <4> QED BY <4>4 DEF Piece
    <3>6. u[i].bulk = b /\ u[i - 1].bulk = b
      BY <3>2, <3>3, <1>7
    <3> QED BY <3>5, <3>6, <2>3, <1>0, <1>1
  <2> QED BY <2>1, <2>2, <2>3, <1>0, <1>1
<1>9. ASSUME k = Len(t), Unbroken(s), NEW i \in DOMAIN u, u[i].at < u[i].of
      PROVE  i < Len(u) /\ u[i + 1] = [u[i] EXCEPT !.at = @ + 1]
  <2>1. CASE i \in 1..Len(s)
    <3>1. s[i].at < s[i].of => i < Len(s) /\ s[i + 1] = [s[i] EXCEPT !.at = @ + 1]
      BY <2>1, <1>0, <1>9 DEF Unbroken
    <3>2. u[i] = s[i] /\ (i < Len(s) => i + 1 \in 1..Len(s))
      BY <2>1, <1>0, <1>2
    <3> QED BY <3>1, <3>2, <1>0, <1>1, <1>2, <1>9
  <2>2. CASE i \notin 1..Len(s)
    <3>1. PICK j \in 1..k : i = Len(s) + j
      <4>1. i - Len(s) \in 1..k /\ i = Len(s) + (i - Len(s))
        BY <2>2, <1>0, <1>1
      <4> QED BY <4>1
    <3>2. u[i] = t[j]
      BY <3>1, <1>2
    <3>3. t[1].of - Len(t) + j < t[1].of
      BY <3>1, <3>2, <1>7, <1>9
    <3>4. j < k
      BY <3>1, <3>3, <1>5, <1>0, <1>9
    <3>5. i + 1 = Len(s) + (j + 1) /\ j + 1 \in 1..k
      <4>1. Len(s) \in Nat /\ j \in Nat /\ k \in Nat
        BY <3>1, <1>0
      <4>2. j + 1 \in 1..k
        BY <4>1, <3>4
      <4> QED BY <4>1, <4>2, <3>1
    <3>6. u[i + 1] = t[j + 1]
      BY <3>5, <1>2
    <3>7. o - Len(t) + (j + 1) = (o - Len(t) + j) + 1
      BY <3>1, <1>0
    <3>8. u[i + 1] = [u[i] EXCEPT !.at = @ + 1]
      <4>1. u[i] = Piece(b, o - Len(t) + j, o)
        BY <3>1, <3>2, <1>4, <1>5, <1>0
      <4>2. u[i + 1] = Piece(b, o - Len(t) + (j + 1), o)
        BY <3>5, <3>6, <1>4, <1>5, <1>0, <1>9
      <4>3. PICK x \in Int : x = o - Len(t) + j
        <5>1. o - Len(t) + j \in Int
          BY <3>1, <1>0, <1>5
        <5> QED BY <5>1
      <4>4. u[i] = Piece(b, x, o) /\ u[i + 1] = Piece(b, x + 1, o)
        BY <4>1, <4>2, <4>3, <3>7
      <4> QED BY <4>4 DEF Piece
    <3> QED BY <3>4, <3>5, <3>8, <1>0, <1>1
  <2> QED BY <2>1, <2>2
<1> QED BY <1>8, <1>9 DEF Ordered, Unbroken, u

\* The first k events of the bulk are stored.
LEMMA StoreSome ==
  ASSUME NEW n \in Nat, NEW s \in Seq(PlaceOf(n)), NEW t \in Seq(PlaceOf(n)), NEW b \in Nat,
         NEW k \in 1..Len(t), Ordered(s), t # <<>>, TodoHolds(t, b, s),
         \A i \in DOMAIN s : s[i].bulk <= b,
         NEW gone, NEW q, Accounted(n, gone, s, b, t, q)
  PROVE  LET u == s \o SubSeq(t, 1, k)
             r == SubSeq(t, k + 1, Len(t))
         IN  /\ u \in Seq(PlaceOf(n)) /\ r \in Seq(PlaceOf(n)) /\ SubSeq(t, 1, k) \in Seq(PlaceOf(n))
             /\ TodoHolds(r, b, u) /\ Accounted(n, gone, u, b, r, q) /\ (k = Len(t) => r = <<>>)
<1> DEFINE u == s \o SubSeq(t, 1, k)
           r == SubSeq(t, k + 1, Len(t))
<1>2. Len(t) \in Nat /\ DOMAIN t = 1..Len(t) /\ k \in 1..Len(t)
  OBVIOUS
<1>3. SubSeq(t, 1, k) \in Seq(PlaceOf(n)) /\ r \in Seq(PlaceOf(n)) /\ u \in Seq(PlaceOf(n))
  BY <1>2
<1>4. Len(r) = Len(t) - k /\ DOMAIN r = 1..(Len(t) - k) /\ \A i \in 1..(Len(t) - k) : r[i] = t[k + i]
  <2>1. k + 1 \in Int /\ Len(t) \in Int /\ \A i \in (k + 1)..Len(t) : t[i] \in PlaceOf(n)
    BY <1>2
  <2>2. /\ Len(r) = IF k + 1 <= Len(t) THEN Len(t) - (k + 1) + 1 ELSE 0
        /\ \A i \in 1..(Len(t) - (k + 1) + 1) : r[i] = t[(k + 1) + i - 1]
    BY <2>1, SubSeqProperties
  <2>3. Len(t) - (k + 1) + 1 = Len(t) - k /\ \A i \in 1..(Len(t) - k) : (k + 1) + i - 1 = k + i
    BY <1>2
  <2>4. Len(r) = Len(t) - k
    <3> DEFINE l == Len(t)
    <3>1. l \in Nat /\ k \in 1..l /\ Len(r) = IF k + 1 <= l THEN l - (k + 1) + 1 ELSE 0
      BY <2>2, <1>2
    <3> HIDE DEF l
    <3>2. Len(r) = l - k
      BY <3>1
    <3> QED BY <3>2 DEF l
  <2>5. \A i \in 1..(Len(t) - k) : r[i] = t[k + i]
    BY <2>2, <2>3
  <2> QED BY <2>4, <2>5, <1>3
<1>5. /\ u # <<>> /\ Len(u) \in DOMAIN u /\ u[Len(u)] = t[k]
      /\ \A i \in DOMAIN s : i \in DOMAIN u /\ u[i] = s[i]
  BY <1>2
<1>6. k = Len(t) => r = <<>>
  BY <1>2, <1>3, <1>4
<1> HIDE DEF u, r
<1>7. \A i \in 1..Len(t) : t[i] = Piece(b, t[1].of - Len(t) + i, t[1].of)
  BY <1>2 DEF TodoHolds, IsRest
<1>8. PICK o \in Int : t[1].of = o
  <2>1. t[1] \in PlaceOf(n)
    BY <1>2
  <2> QED BY <2>1 DEF PlaceOf
<1>9. TodoHolds(r, b, u)
  <2> SUFFICES ASSUME r # <<>>
               PROVE  /\ IsRest(r) /\ r[1].bulk = b
                      /\ r[1].at > 1 => u # <<>> /\ u[Len(u)] = [r[1] EXCEPT !.at = @ - 1]
    BY DEF TodoHolds
  <2>1. k < Len(t) /\ 1 \in 1..(Len(t) - k) /\ k + 1 \in 1..Len(t)
    <3>1. k # Len(t)
      BY <1>6
    <3>2. k \in Nat /\ k <= Len(t) /\ k >= 1
      BY <1>2
    <3>3. k < Len(t)
      <4> DEFINE l == Len(t)
      <4>1. l \in Nat /\ k <= l /\ k # l /\ k \in Nat
        BY <3>1, <3>2, <1>2
      <4> HIDE DEF l
      <4>2. k < l
        BY <4>1
      <4> QED BY <4>2 DEF l
    <3> QED BY <3>2, <3>3, <1>2
  <2>2. PICK x \in Int : x = o - Len(t) + k
    <3>1. o - Len(t) + k \in Int
      BY <1>2, <1>8
    <3> QED BY <3>1
  <2>3. r[1] = Piece(b, x + 1, o)
    <3>1. o - Len(t) + (k + 1) = x + 1
      BY <1>2, <1>8, <2>2
    <3> QED BY <2>1, <3>1, <1>4, <1>7, <1>8
  <2>4. IsRest(r)
    <3>1. ASSUME NEW i \in 1..(Len(t) - k)
          PROVE  r[i] = Piece(b, o - Len(r) + i, o)
      <4>1. k + i \in 1..Len(t)
        BY <1>2
      <4>2. o - (Len(t) - k) + i = o - Len(t) + (k + i)
        BY <1>2, <1>8
      <4> QED BY <4>1, <4>2, <1>4, <1>7, <1>8
    <3>2. r[1].bulk = b /\ r[1].of = o
      BY <2>3 DEF Piece
    <3> QED BY <3>1, <3>2, <1>4 DEF IsRest
  <2>5. t[k] = Piece(b, x, o)
    BY <2>2, <1>2, <1>7, <1>8
  <2>6. u[Len(u)] = [r[1] EXCEPT !.at = @ - 1]
    BY <2>3, <2>5, <1>5 DEF Piece
  <2> QED BY <2>3, <2>4, <2>6, <1>5 DEF Piece
<1>10. Accounted(n, gone, u, b, r, q)
  <2> SUFFICES ASSUME NEW x \in (1..n) \ gone
               PROVE  \/ \E i \in DOMAIN u : u[i].bulk = x /\ u[i].at = u[i].of
                      \/ x = b /\ r # <<>>
                      \/ \E i \in DOMAIN q : q[i][1].bulk = x
    BY DEF Accounted
  <2>1. \/ \E i \in DOMAIN s : s[i].bulk = x /\ s[i].at = s[i].of
        \/ x = b
        \/ \E i \in DOMAIN q : q[i][1].bulk = x
    BY DEF Accounted
  <2>2. CASE x = b /\ r = <<>>
    <3>1. k = Len(t)
      <4>1. Len(t) - k = 0
        BY <2>2, <1>4
      <4>2. Len(t) \in Nat /\ k \in Nat
        BY <1>2
      <4> QED BY <4>1, <4>2
    <3>2. o - Len(t) + k = o
      BY <3>1, <1>2, <1>8
    <3>3. t[k] = Piece(b, o, o)
      BY <3>2, <1>2, <1>7, <1>8
    <3>4. u[Len(u)].bulk = b /\ u[Len(u)].at = u[Len(u)].of
      BY <3>3, <1>5 DEF Piece
    <3> QED BY <2>2, <3>4, <1>5
  <2> QED BY <2>1, <2>2, <1>5
<1> QED BY <1>3, <1>6, <1>9, <1>10 DEF u, r

\* The bulk, or its next event, is stored.
LEMMA JStore ==
  ASSUME Journal!JournalAssumption, JournalInv, Journal!Store
  PROVE  JournalInv'
<1> DEFINE n == jemitted
<1>0. n \in Nat /\ Journal!Place = PlaceOf(n) /\ Journal!Place' = PlaceOf(n) /\ jbulk \in Nat
  BY DEF JournalInv, Journal!TypeOK, Journal!Store, Journal!Place, PlaceOf
<1>1. jstored \in Seq(PlaceOf(n)) /\ jtodo \in Seq(PlaceOf(n)) /\ jtodo # <<>> /\ jbulk # 0 /\ jstaged = <<>>
  BY <1>0 DEF JournalInv, Journal!TypeOK, Journal!Store
<1>u. jstored' = jstored \o jstaged' /\ UNCHANGED <<jemitted, jqueued, jbulk, jhead, jpublished, jrefused, jdropped, jfaults>>
  BY DEF Journal!Store
<1>2. PICK k \in 1..Len(jtodo) :
        jstaged' = SubSeq(jtodo, 1, k) /\ jtodo' = SubSeq(jtodo, k + 1, Len(jtodo)) /\ (jatomic => k = Len(jtodo))
  <2>1. CASE jatomic
    <3>1. jstaged' = SubSeq(jtodo, 1, Len(jtodo)) /\ jtodo' = SubSeq(jtodo, Len(jtodo) + 1, Len(jtodo))
          /\ Len(jtodo) \in 1..Len(jtodo)
      <4>1. jstaged' = jtodo /\ jtodo' = <<>>
        BY <2>1 DEF Journal!Store
      <4> QED BY <4>1, <1>1
    <3> QED BY <3>1
  <2>2. CASE ~jatomic
    <3>1. jstaged' = SubSeq(jtodo, 1, 1) /\ jtodo' = SubSeq(jtodo, 1 + 1, Len(jtodo)) /\ 1 \in 1..Len(jtodo)
      <4>1. jstaged' = <<Head(jtodo)>> /\ jtodo' = Tail(jtodo)
        BY <2>2 DEF Journal!Store
      <4> QED BY <4>1, <1>1
    <3> QED BY <3>1, <2>2
  <2> QED BY <2>1, <2>2
<1>3. TodoHolds(jtodo, jbulk, jstored) /\ (\A i \in DOMAIN jstored : jstored[i].bulk <= jbulk) /\ Ordered(jstored)
      /\ Accounted(n, jrefused \cup jdropped, jstored, jbulk, jtodo, jqueued)
  BY <1>1 DEF JournalInv
<1> HIDE DEF n
<1>4. /\ jstored' \in Seq(PlaceOf(n)) /\ jtodo' \in Seq(PlaceOf(n)) /\ jstaged' \in Seq(PlaceOf(n))
      /\ TodoHolds(jtodo', jbulk, jstored') /\ Accounted(n, jrefused \cup jdropped, jstored', jbulk, jtodo', jqueued)
      /\ (k = Len(jtodo) => jtodo' = <<>>)
  BY <1>0, <1>1, <1>2, <1>3, <1>u, StoreSome
<1>5. /\ Ordered(jstored') /\ \A i \in DOMAIN jstored' : jstored'[i].bulk <= jbulk
      /\ k = Len(jtodo) /\ Unbroken(jstored) => Unbroken(jstored')
  BY <1>0, <1>1, <1>2, <1>3, <1>u, Continues
<1>6. jatomic' = jatomic
  BY DEF Journal!Store
<1>7. Journal!TypeOK'
  <2>1. Journal!TypeOK
    BY DEF JournalInv
  <2> QED BY <2>1, <1>0, <1>1, <1>4, <1>6, <1>u DEF Journal!TypeOK
<1>8. Journal!StoredThenPublished'
  <2>1. jstored = jpublished /\ jhead = Len(jpublished)
    BY <1>1 DEF JournalInv, Journal!StoredThenPublished
  <2> QED BY <2>1, <1>u DEF Journal!StoredThenPublished
<1>9. (jatomic => Unbroken(jstored))' /\ (jatomic /\ jtodo # <<>> => IsBulk(jtodo))'
  BY <1>2, <1>4, <1>5, <1>6 DEF JournalInv
<1>10. QueueHolds(jqueued, jbulk)' /\ (jbulk = 0 => jqueued = <<>>)'
  BY <1>u, <1>1 DEF JournalInv
<1>11. TodoHolds(jtodo, jbulk, jstored)' /\ Ordered(jstored)' /\ (jbulk # 0 => \A i \in DOMAIN jstored : jstored[i].bulk <= jbulk)'
       /\ Accounted(jemitted, jrefused \cup jdropped, jstored, jbulk, jtodo, jqueued)'
  BY <1>4, <1>5, <1>u DEF n
<1> QED BY <1>7, <1>8, <1>9, <1>10, <1>11 DEF JournalInv

\* The journal refuses, and everything that waits is given up.
LEMMA JStoreFails ==
  ASSUME Journal!JournalAssumption, JournalInv, Journal!StoreFails
  PROVE  JournalInv'
<1>0. jemitted \in Nat /\ Journal!Place = PlaceOf(jemitted) /\ Journal!Place' = PlaceOf(jemitted) /\ jbulk \in 0..jemitted /\ jbulk # 0
      /\ jstaged = <<>> /\ jtodo # <<>>
  BY DEF JournalInv, Journal!TypeOK, Journal!StoreFails, Journal!Place, PlaceOf
<1>1. jtodo \in Seq(PlaceOf(jemitted)) /\ jqueued \in Seq(Seq(PlaceOf(jemitted)))
  BY <1>0 DEF JournalInv, Journal!TypeOK
<1>2. jtodo[1].bulk = jbulk
  BY <1>0 DEF JournalInv, TodoHolds
<1>3. \A i \in DOMAIN jqueued : jqueued[i][1].bulk \in 1..jemitted
  <2> SUFFICES ASSUME NEW i \in DOMAIN jqueued PROVE jqueued[i][1].bulk \in 1..jemitted
    OBVIOUS
  <2>1. jqueued[i] \in Seq(PlaceOf(jemitted)) /\ IsBulk(jqueued[i])
    BY <1>1 DEF JournalInv, QueueHolds
  <2>2. jqueued[i][1] \in PlaceOf(jemitted)
    BY <2>1 DEF IsBulk
  <2> QED BY <2>2 DEF PlaceOf
<1>u. /\ UNCHANGED <<jatomic, jemitted, jstaged, jstored, jhead, jpublished>>
      /\ jqueued' = <<>> /\ jtodo' = <<>> /\ jbulk' = 0 /\ jfaults' = jfaults + 1
      /\ jrefused' = jrefused \cup {jbulk}
      /\ jdropped' = jdropped \cup {jqueued[i][1].bulk : i \in DOMAIN jqueued}
  BY <1>2 DEF Journal!StoreFails
<1>4. Journal!TypeOK'
  <2>0. jrefused \subseteq 1..jemitted /\ jdropped \subseteq 1..jemitted /\ jfaults \in Nat /\ jhead \in Nat /\ jatomic \in BOOLEAN
    BY DEF JournalInv, Journal!TypeOK
  <2>1. jrefused' \subseteq 1..jemitted /\ jdropped' \subseteq 1..jemitted
    <3>1. jbulk \in 1..jemitted
      BY <1>0
    <3>2. {jqueued[i][1].bulk : i \in DOMAIN jqueued} \subseteq 1..jemitted
      BY <1>3
    <3> QED BY <3>1, <3>2, <2>0, <1>u
  <2>2. jstored \in Seq(PlaceOf(jemitted)) /\ jpublished \in Seq(PlaceOf(jemitted))
    BY <1>0 DEF JournalInv, Journal!TypeOK
  <2>3. jqueued' \in Seq(Seq(PlaceOf(jemitted))) /\ jtodo' \in Seq(PlaceOf(jemitted)) /\ jstaged' \in Seq(PlaceOf(jemitted))
    BY <1>0, <1>u
  <2>4. jatomic' \in BOOLEAN /\ jbulk' \in 0..jemitted' /\ jemitted' = jemitted /\ jstored' = jstored /\ jpublished' = jpublished
        /\ jhead' \in Nat /\ jfaults' \in Nat /\ jstaged' = <<>> /\ jtodo' = <<>>
    BY <1>0, <1>u, <2>0
  <2> QED BY <1>0, <2>1, <2>2, <2>3, <2>4 DEF Journal!TypeOK
<1>5. Accounted(jemitted, jrefused \cup jdropped, jstored, jbulk, jtodo, jqueued)'
  BY <1>0, <1>u DEF JournalInv, Accounted
<1>6. Journal!StoredThenPublished' /\ Ordered(jstored)' /\ (jatomic => Unbroken(jstored))'
  BY <1>u DEF JournalInv, Journal!StoredThenPublished
<1>7. QueueHolds(jqueued, jbulk)' /\ TodoHolds(jtodo, jbulk, jstored)' /\ jqueued' = <<>> /\ jtodo' = <<>> /\ jbulk' = 0
  BY <1>u DEF QueueHolds, TodoHolds
<1> QED BY <1>4, <1>5, <1>6, <1>7 DEF JournalInv

\* The next event gets its number and is published.
LEMMA JCommit ==
  ASSUME Journal!JournalAssumption, JournalInv, Journal!Commit
  PROVE  JournalInv'
<1>u. jstaged # <<>> /\ jhead' = jhead + 1 /\ jpublished' = Append(jpublished, Head(jstaged)) /\ jstaged' = Tail(jstaged)
      /\ UNCHANGED <<jatomic, jemitted, jqueued, jbulk, jtodo, jstored, jrefused, jdropped, jfaults>>
  BY DEF Journal!Commit
<1>1. jstaged \in Seq(Journal!Place) /\ jpublished \in Seq(Journal!Place)
  BY DEF JournalInv, Journal!TypeOK
<1>2. jstaged' \in Seq(Journal!Place) /\ jpublished' \in Seq(Journal!Place)
  BY <1>1, <1>u
<1>3. Journal!Place' = Journal!Place
  BY <1>u DEF Journal!Place
<1>4. Journal!TypeOK'
  BY <1>2, <1>3, <1>u, SMTT(30) DEF JournalInv, Journal!TypeOK
<1>5. Journal!StoredThenPublished'
  BY <1>1, <1>u, SMTT(30) DEF JournalInv, Journal!StoredThenPublished
<1> QED BY <1>u, <1>4, <1>5 DEF JournalInv

\* The bulk is through.
LEMMA JFinish ==
  ASSUME Journal!JournalAssumption, JournalInv, Journal!Finish
  PROVE  JournalInv'
<1>0. jbulk # 0 /\ jtodo = <<>> /\ jstaged = <<>>
      /\ UNCHANGED <<jatomic, jemitted, jstaged, jstored, jhead, jpublished, jrefused, jdropped, jfaults>>
  BY DEF Journal!Finish
<1>1. CASE jqueued = <<>>
  <2>1. jbulk' = 0 /\ UNCHANGED <<jqueued, jtodo>>
    BY <1>1 DEF Journal!Finish
  <2>2. Journal!TypeOK'
    BY <2>1, <1>0 DEF JournalInv, Journal!TypeOK, Journal!Place
  <2>3. Accounted(jemitted, jrefused \cup jdropped, jstored, jbulk, jtodo, jqueued)'
    BY <2>1, <1>0, <1>1 DEF JournalInv, Accounted
  <2>4. Journal!StoredThenPublished' /\ Ordered(jstored)' /\ (jatomic => Unbroken(jstored))'
    BY <1>0 DEF JournalInv, Journal!StoredThenPublished
  <2>5. QueueHolds(jqueued, jbulk)' /\ TodoHolds(jtodo, jbulk, jstored)' /\ jqueued' = <<>> /\ jtodo' = <<>> /\ jbulk' = 0
    BY <2>1, <1>0, <1>1 DEF QueueHolds, TodoHolds
  <2> QED BY <2>2, <2>3, <2>4, <2>5 DEF JournalInv
<1>2. CASE jqueued # <<>>
  <2> DEFINE q == jqueued[1]
  <2>1. jbulk' = q[1].bulk /\ jtodo' = q /\ jqueued' = Tail(jqueued)
    BY <1>2 DEF Journal!Finish
  <2>2. jemitted \in Nat /\ Journal!Place = PlaceOf(jemitted) /\ Journal!Place' = PlaceOf(jemitted)
    BY <1>0 DEF JournalInv, Journal!TypeOK, Journal!Place, PlaceOf
  <2>3. jqueued \in Seq(Seq(PlaceOf(jemitted)))
    BY <2>2 DEF JournalInv, Journal!TypeOK
  <2>4. q \in Seq(PlaceOf(jemitted)) /\ IsBulk(q) /\ q[1].bulk > jbulk
    BY <2>3, <1>2 DEF JournalInv, QueueHolds
  <2>5. q[1] \in PlaceOf(jemitted) /\ q # <<>>
    BY <2>4 DEF IsBulk
  <2>6. q[1].bulk \in 1..jemitted
    BY <2>5 DEF PlaceOf
  <2>7. Len(jqueued) \in Nat /\ DOMAIN jqueued = 1..Len(jqueued) /\ DOMAIN jqueued' = 1..(Len(jqueued) - 1)
        /\ jqueued' \in Seq(Seq(PlaceOf(jemitted)))
    BY <2>1, <2>3, <1>2
  <2>8. \A i \in 1..(Len(jqueued) - 1) : jqueued'[i] = jqueued[i + 1] /\ i + 1 \in 1..Len(jqueued) /\ 1 < i + 1
    BY <2>1, <2>3, <2>7, <1>2
  <2> HIDE DEF q
  <2>9. Journal!TypeOK'
    <3>1. Journal!TypeOK
      BY DEF JournalInv
    <3>2. jbulk' \in 0..jemitted /\ jtodo' \in Seq(PlaceOf(jemitted)) /\ jbulk' # 0
      BY <2>1, <2>4, <2>6, <2>2
    <3> QED BY <3>1, <3>2, <2>2, <2>7, <1>0 DEF Journal!TypeOK
  <2>10. QueueHolds(jqueued, jbulk)'
    <3>1. \A i \in DOMAIN jqueued : IsBulk(jqueued[i]) /\ \A j \in DOMAIN jqueued : i < j => jqueued[i][1].bulk < jqueued[j][1].bulk
      BY DEF JournalInv, QueueHolds
    <3>2. \A i \in DOMAIN jqueued' : IsBulk(jqueued'[i]) /\ jqueued'[i][1].bulk > q[1].bulk
      <4> SUFFICES ASSUME NEW i \in 1..(Len(jqueued) - 1)
                   PROVE  IsBulk(jqueued'[i]) /\ jqueued'[i][1].bulk > q[1].bulk
        BY <2>7
      <4>1. jqueued'[i] = jqueued[i + 1] /\ i + 1 \in 1..Len(jqueued) /\ 1 \in 1..Len(jqueued) /\ 1 < i + 1
        BY <2>7, <2>8
      <4>2. IsBulk(jqueued[i + 1]) /\ jqueued[1][1].bulk < jqueued[i + 1][1].bulk
        BY <3>1, <4>1, <2>7
      <4>3. jqueued[i + 1][1].bulk \in Nat /\ q[1].bulk \in Nat
        <5>1. jqueued[i + 1] \in Seq(PlaceOf(jemitted)) /\ jqueued[i + 1] # <<>>
          BY <4>1, <4>2, <2>3 DEF IsBulk
        <5>2. jqueued[i + 1][1] \in PlaceOf(jemitted)
          BY <5>1
        <5> QED BY <5>2, <2>5 DEF PlaceOf
      <4> QED BY <4>1, <4>2, <4>3 DEF q
    <3>3. ASSUME NEW i \in DOMAIN jqueued', NEW j \in DOMAIN jqueued', i < j
          PROVE  jqueued'[i][1].bulk < jqueued'[j][1].bulk
      <4>1. i \in 1..(Len(jqueued) - 1) /\ j \in 1..(Len(jqueued) - 1)
        BY <2>7
      <4>2. i + 1 < j + 1
        BY <4>1, <3>3, <2>7
      <4>3. i + 1 \in 1..Len(jqueued) /\ j + 1 \in 1..Len(jqueued) /\ jqueued'[i] = jqueued[i + 1] /\ jqueued'[j] = jqueued[j + 1]
        BY <4>1, <2>8
      <4> QED BY <4>2, <4>3, <3>1, <2>7
    <3> QED BY <3>2, <3>3, <2>1 DEF QueueHolds
  <2>11. (jbulk = 0 => jqueued = <<>>)'
    BY <2>1, <2>6
  <2>12. TodoHolds(jtodo, jbulk, jstored)' /\ (jatomic /\ jtodo # <<>> => IsBulk(jtodo))'
    <3>1. q[1].at = 1
      <4>1. 1 \in DOMAIN q /\ q[1].of = Len(q) /\ Len(q) \in Nat
        BY <2>4, <2>5 DEF IsBulk
      <4>2. q[1] = Piece(q[1].bulk, q[1].of - Len(q) + 1, q[1].of)
        BY <4>1, <2>4 DEF IsBulk, IsRest
      <4>3. q[1].of - Len(q) + 1 = 1
        BY <4>1
      <4> QED BY <4>2, <4>3 DEF Piece
    <3> QED BY <3>1, <2>1, <2>4 DEF TodoHolds, IsBulk
  <2>13. (jbulk # 0 => \A i \in DOMAIN jstored : jstored[i].bulk <= jbulk)'
    <3>1. jstored \in Seq(PlaceOf(jemitted)) /\ jbulk \in Nat
      BY <2>2 DEF JournalInv, Journal!TypeOK
    <3>2. \A i \in DOMAIN jstored : jstored[i] \in PlaceOf(jemitted)
      BY <3>1
    <3>3. \A i \in DOMAIN jstored : jstored[i].bulk \in Nat
      BY <3>2 DEF PlaceOf
    <3>4. \A i \in DOMAIN jstored : jstored[i].bulk <= jbulk
      BY <1>0 DEF JournalInv
    <3> QED BY <3>1, <3>3, <3>4, <2>1, <2>4, <2>6, <1>0
  <2>14. Accounted(jemitted, jrefused \cup jdropped, jstored, jbulk, jtodo, jqueued)'
    <3> SUFFICES ASSUME NEW x \in (1..jemitted) \ (jrefused \cup jdropped)
                 PROVE  \/ \E i \in DOMAIN jstored : jstored[i].bulk = x /\ jstored[i].at = jstored[i].of
                        \/ x = q[1].bulk
                        \/ \E i \in DOMAIN jqueued' : jqueued'[i][1].bulk = x
      BY <1>0, <2>1, <2>5 DEF Accounted
    <3>1. \/ \E i \in DOMAIN jstored : jstored[i].bulk = x /\ jstored[i].at = jstored[i].of
          \/ \E i \in DOMAIN jqueued : jqueued[i][1].bulk = x
      BY <1>0 DEF JournalInv, Accounted
    <3>2. ASSUME NEW i \in DOMAIN jqueued, i # 1
          PROVE  i - 1 \in DOMAIN jqueued' /\ jqueued'[i - 1] = jqueued[i]
      <4>1. i - 1 \in 1..(Len(jqueued) - 1) /\ (i - 1) + 1 = i
        BY <3>2, <2>7
      <4>2. jqueued'[i - 1] = jqueued[(i - 1) + 1]
        BY <4>1, <2>8
      <4> QED BY <4>1, <4>2, <2>7
    <3> QED BY <3>1, <3>2 DEF q
  <2>15. Journal!StoredThenPublished' /\ Ordered(jstored)' /\ (jatomic => Unbroken(jstored))'
    BY <1>0 DEF JournalInv, Journal!StoredThenPublished
  <2> QED BY <2>9, <2>10, <2>11, <2>12, <2>13, <2>14, <2>15 DEF JournalInv
<1> QED BY <1>1, <1>2

\* The emission begins so.
LEMMA JournalStarts == Journal!JournalAssumption /\ Journal!Init => JournalInv
<1> SUFFICES ASSUME Journal!Init PROVE JournalInv
  OBVIOUS
<1>1. Journal!TypeOK
  BY DEF Journal!Init, Journal!TypeOK
<1> QED BY <1>1 DEF Journal!Init, JournalInv, Journal!StoredThenPublished, Ordered, Unbroken, QueueHolds, TodoHolds, Accounted

\* Every step of the emission keeps it.
LEMMA JournalStep ==
  ASSUME Journal!JournalAssumption, JournalInv, Journal!Next \/ UNCHANGED Journal!vars
  PROVE  JournalInv'
<1>1. CASE UNCHANGED Journal!vars
  <2>1. Journal!TypeOK'
    BY <1>1 DEF Journal!vars, JournalInv, Journal!TypeOK, Journal!Place
  <2>2. (jatomic => Unbroken(jstored))' /\ (jatomic /\ jtodo # <<>> => IsBulk(jtodo))'
    BY <1>1 DEF Journal!vars, JournalInv
  <2> QED BY <1>1, <2>1, <2>2 DEF Journal!vars, JournalInv, Journal!StoredThenPublished
<1>2. CASE Journal!Next
  BY <1>2, JEmit, JEmitAgain, JStore, JStoreFails, JCommit, JFinish DEF Journal!Next
<1> QED BY <1>1, <1>2

\* What follows from it.
LEMMA JournalPromises ==
  ASSUME Journal!JournalAssumption, JournalInv
  PROVE  Journal!TypeOK /\ Journal!StoredThenPublished /\ Journal!BulksStayWhole /\ Journal!AllAccountedFor
<1>1. Journal!BulksStayWhole
  BY DEF JournalInv, Ordered, Unbroken, Journal!BulksStayWhole
<1>2. Journal!AllAccountedFor
  <2> SUFFICES ASSUME jbulk = 0, NEW b \in (1..jemitted) \ (jrefused \cup jdropped)
               PROVE  \E i \in DOMAIN jpublished : jpublished[i].bulk = b /\ jpublished[i].at = jpublished[i].of
    BY DEF Journal!AllAccountedFor, JournalInv
  <2>1. jstaged = <<>> /\ jqueued = <<>> /\ jtodo = <<>> /\ jpublished \in Seq(Journal!Place)
    BY DEF JournalInv, Journal!TypeOK
  <2>2. jstored = jpublished
    BY <2>1 DEF JournalInv, Journal!StoredThenPublished
  <2> QED BY <2>1, <2>2 DEF JournalInv, Accounted
<1> QED BY <1>1, <1>2 DEF JournalInv

-----------------------------------------------------------------------------
(* The follower of a map *)

\* A checkpoint, and what it binds.
Checkpoints == [line : 0..MaxLines, seq : -1..MapEvents, shows : [line : Int, seq : Int]]
Binds(l, n, s) == n # -1 => s = Map!At(l, n)

\* What holds of a follower always: between the answer of a descriptor and the catch-up it
\* leads to nothing moves, and outside a reset the map is what its number says.
MapInv ==
    /\ Map!TypeOK /\ mdelivery \in {"latest", "lossless"}
    /\ msaved \in Checkpoints /\ msaved.shows # Map!Mixed /\ Binds(msaved.line, msaved.seq, msaved.shows)
    /\ mshows \in [line : Int, seq : Int] /\ mshows # Map!Mixed
    /\ mstage \in {"describe", "described"} => msaved = Map!Checkpoint
    /\ manswer # 0 => manswer = mline /\ mup
    /\ mstage \in {"reset", "ask", "live"} => mlineId = mline /\ mup
    /\ mstage = "live" => mlast # -1
    /\ mstatus = "live" => mstage = "live"
    /\ (mstatus = "closed" => Map!Over) /\ (mstage = "abandoned" => mstatus = "closed")
    /\ mstage # "reset" /\ mstatus # "closed" => Binds(mlineId, mlast, mshows)

\* The producer emits.
LEMMA MapEmit == ASSUME Map!MapAssumption, MapInv, Map!Emit PROVE MapInv'
BY DEF Map!MapAssumption, MapInv, Map!TypeOK, Map!Over, Map!Checkpoint, Binds, Checkpoints, Map!At, Map!Mixed, Map!Empty, Map!NoCheckpoint, Map!producer, Map!Emit

\* The transport drops, and with it perhaps the line.
LEMMA MapDrop == ASSUME Map!MapAssumption, MapInv, Map!Drop PROVE MapInv'
BY DEF Map!MapAssumption, MapInv, Map!TypeOK, Map!Over, Map!Checkpoint, Binds, Checkpoints, Map!At, Map!Mixed, Map!Empty, Map!NoCheckpoint, Map!producer, Map!Drop, Map!Outside

\* The transport is back.
LEMMA MapConnect == ASSUME Map!MapAssumption, MapInv, Map!Connect PROVE MapInv'
BY DEF Map!MapAssumption, MapInv, Map!TypeOK, Map!Over, Map!Checkpoint, Binds, Checkpoints, Map!At, Map!Mixed, Map!Empty, Map!NoCheckpoint, Map!producer, Map!Connect

\* The descriptor is answered.
LEMMA MapDescribeAnswered == ASSUME Map!MapAssumption, MapInv, Map!DescribeAnswered PROVE MapInv'
BY DEF Map!MapAssumption, MapInv, Map!TypeOK, Map!Over, Map!Checkpoint, Binds, Checkpoints, Map!At, Map!Mixed, Map!Empty, Map!NoCheckpoint, Map!producer, Map!DescribeAnswered

\* The start of a follower goes on.
LEMMA MapNegotiated == ASSUME Map!MapAssumption, MapInv, Map!Negotiated PROVE MapInv'
BY DEF Map!MapAssumption, MapInv, Map!TypeOK, Map!Over, Map!Checkpoint, Binds, Checkpoints, Map!At, Map!Mixed, Map!Empty, Map!NoCheckpoint, Map!producer, Map!Negotiated, Map!Fail

\* A catch-up learns which line it is for.
LEMMA MapPrepared == ASSUME Map!MapAssumption, MapInv, Map!Prepared PROVE MapInv'
<1>0. /\ Map!TypeOK /\ manswer = mline /\ mstage = "prepared" /\ mline \in 1..MaxLines /\ manswer' = 0
      /\ UNCHANGED <<Map!producer, mdelivery, mlast, mshows, mliveOnce, msaved, mlives>>
      /\ Binds(mlineId, mlast, mshows) /\ mstatus # "live" /\ mstatus # "closed" /\ mup
  BY DEF MapInv, Map!TypeOK, Map!Prepared, Map!Over
<1>1. /\ msaved' \in Checkpoints /\ msaved'.shows # Map!Mixed /\ Binds(msaved.line, msaved.seq, msaved.shows)'
      /\ mdelivery' \in {"latest", "lossless"} /\ mshows' \in [line : Int, seq : Int] /\ mshows' # Map!Mixed
  BY <1>0 DEF MapInv
<1>2. mstage' \in {"ask", "ended", "reset"} /\ mstatus' \in {mstatus, "error"} /\ mlineId' \in 0..MaxLines
      /\ (mstage' # "ended" => mlineId' = mline) /\ (mstage' # "reset" => mlineId' = mlineId)
  BY <1>0 DEF Map!Prepared, Map!Fail, Map!TypeOK
<1>3. Map!TypeOK'
  BY <1>0, <1>2 DEF Map!TypeOK, Map!producer
<1> QED BY <1>0, <1>1, <1>2, <1>3 DEF MapInv, Binds, Map!producer

\* The same after a close.
LEMMA MapPreparedLate == ASSUME Map!MapAssumption, MapInv, Map!PreparedLate PROVE MapInv'
<1>0. /\ Map!TypeOK /\ mstage = "abandoned" /\ mstage' = "ended" /\ manswer = 0 /\ mline \in 1..MaxLines
      /\ UNCHANGED <<Map!producer, mdelivery, mlast, mshows, manswer, mliveOnce, mstatus, msaved, mlives>>
      /\ mstatus = "closed" /\ mlineId' \in 0..MaxLines
  BY DEF MapInv, Map!TypeOK, Map!PreparedLate
<1>1. /\ msaved' \in Checkpoints /\ msaved'.shows # Map!Mixed /\ Binds(msaved.line, msaved.seq, msaved.shows)'
      /\ mdelivery' \in {"latest", "lossless"} /\ mshows' \in [line : Int, seq : Int] /\ mshows' # Map!Mixed
  BY <1>0 DEF MapInv
<1>2. Map!TypeOK'
  BY <1>0 DEF Map!TypeOK, Map!producer
<1> QED BY <1>0, <1>1, <1>2 DEF MapInv, Map!Over

\* A new line starts without a number.
LEMMA MapResetApplied == ASSUME Map!MapAssumption, MapInv, Map!ResetApplied PROVE MapInv'
BY DEF Map!MapAssumption, MapInv, Map!TypeOK, Map!Over, Map!Checkpoint, Binds, Checkpoints, Map!At, Map!Mixed, Map!Empty, Map!NoCheckpoint, Map!producer, Map!ResetApplied

\* The answer of the producer is applied.
LEMMA MapCaughtUp == ASSUME Map!MapAssumption, MapInv, Map!CaughtUp PROVE MapInv'
BY DEF Map!MapAssumption, MapInv, Map!TypeOK, Map!Over, Map!Checkpoint, Binds, Checkpoints, Map!At, Map!Mixed, Map!Empty, Map!NoCheckpoint, Map!producer, Map!CaughtUp, Map!HasTail, Map!Extended

\* A lossless follower gives up.
LEMMA MapGapFails == ASSUME Map!MapAssumption, MapInv, Map!GapFails PROVE MapInv'
BY DEF Map!MapAssumption, MapInv, Map!TypeOK, Map!Over, Map!Checkpoint, Binds, Checkpoints, Map!At, Map!Mixed, Map!Empty, Map!NoCheckpoint, Map!producer, Map!GapFails, Map!Fail

\* The next event.
LEMMA MapLive == ASSUME Map!MapAssumption, MapInv, Map!Live PROVE MapInv'
BY DEF Map!MapAssumption, MapInv, Map!TypeOK, Map!Over, Map!Checkpoint, Binds, Checkpoints, Map!At, Map!Mixed, Map!Empty, Map!NoCheckpoint, Map!producer, Map!Live, Map!Extended

\* A call is refused.
LEMMA MapRefused == ASSUME Map!MapAssumption, MapInv, Map!Refused PROVE MapInv'
BY DEF Map!MapAssumption, MapInv, Map!TypeOK, Map!Over, Map!Checkpoint, Binds, Checkpoints, Map!At, Map!Mixed, Map!Empty, Map!NoCheckpoint, Map!producer, Map!Refused, Map!Fail

\* The follower is closed.
LEMMA MapClose == ASSUME Map!MapAssumption, MapInv, Map!Close PROVE MapInv'
BY DEF Map!MapAssumption, MapInv, Map!TypeOK, Map!Over, Map!Checkpoint, Binds, Checkpoints, Map!At, Map!Mixed, Map!Empty, Map!NoCheckpoint, Map!producer, Map!Close, Map!Outside

\* A checkpoint is kept of an open follower.
LEMMA MapSave == ASSUME Map!MapAssumption, MapInv, Map!Save PROVE MapInv'
BY DEF Map!MapAssumption, MapInv, Map!TypeOK, Map!Over, Map!Checkpoint, Binds, Checkpoints, Map!At, Map!Mixed, Map!Empty, Map!NoCheckpoint, Map!producer, Map!Save, Map!Outside

\* The next follower, from a checkpoint or from nothing.
LEMMA MapReopen == ASSUME Map!MapAssumption, MapInv, Map!Reopen PROVE MapInv'
BY DEF Map!MapAssumption, MapInv, Map!TypeOK, Map!Over, Map!Checkpoint, Binds, Checkpoints, Map!At, Map!Mixed, Map!Empty, Map!NoCheckpoint, Map!producer, Map!Reopen

\* The follower begins so.
LEMMA MapStarts == ASSUME Map!MapAssumption, Map!Init PROVE MapInv
BY DEF Map!MapAssumption, Map!Init, MapInv, Map!TypeOK, Map!Over, Map!Checkpoint, Binds, Checkpoints, Map!At, Map!Mixed, Map!Empty, Map!NoCheckpoint, Map!producer

\* Every step keeps it.
LEMMA MapStep == ASSUME Map!MapAssumption, MapInv, Map!Next \/ UNCHANGED Map!vars PROVE MapInv'
<1>1. CASE UNCHANGED Map!vars
  BY <1>1 DEF Map!vars, MapInv, Map!TypeOK, Map!Over, Map!Checkpoint, Binds, Checkpoints, Map!At, Map!Mixed, Map!Empty, Map!NoCheckpoint, Map!producer
<1>2. CASE Map!Next
  BY <1>2, MapEmit, MapDrop, MapConnect, MapDescribeAnswered, MapNegotiated, MapPrepared, MapPreparedLate, MapResetApplied, MapCaughtUp, MapGapFails, MapLive, MapRefused, MapClose, MapSave, MapReopen DEF Map!Next, Map!Follower
<1> QED BY <1>1, <1>2

\* What follows from it.
LEMMA MapPromises == ASSUME Map!MapAssumption, MapInv PROVE Map!TypeOK /\ Map!CheckpointsBind /\ Map!NothingMixed
BY DEF Map!CheckpointsBind, Map!NothingMixed, MapInv, Map!TypeOK, Map!Over, Map!Checkpoint, Binds, Checkpoints, Map!At, Map!Mixed, Map!Empty, Map!NoCheckpoint, Map!producer

-----------------------------------------------------------------------------
(* The durable store *)

\* A log as the line leaves it: a keyframe first, numbers that never go back and of which
\* no event repeats one, and none of them missing.
EventPlaces(l) == {i \in DOMAIN l : l[i].kind = "event"}
Top(l) == l[Len(l)].seq
Steady(l) ==
    /\ Len(l) > 0 /\ l[1].kind = "keyframe"
    /\ \E b \in Durable!Keyframes(l) : \A j \in Durable!Keyframes(l) : j <= b
    /\ \A i, j \in DOMAIN l : i < j => l[i].seq <= l[j].seq
    /\ \A i \in DOMAIN l, j \in EventPlaces(l) : i < j => l[i].seq < l[j].seq
    /\ \A n \in (l[1].seq + 1)..Top(l) : \E j \in EventPlaces(l) : l[j].seq = n

\* Every event that ever was in the log, the numbered ones and those still in the file.
KeptEvents(l) == {l[i] : i \in EventPlaces(l)}
KeptFrames(l) == {l[i] : i \in Durable!Keyframes(l)}
KnownEvents == dnumbered \cup KeptEvents(dlog)
KnownWrite(w) == \E e \in KnownEvents : w \in e.writes
Pending == Durable!Range(dundrained) \cup UNION Durable!Range(dready)

\* The log and the numbers: its end is the head, or one above while an event has no number
\* yet; and a number stands for one event.
LogInv ==
    /\ Steady(dlog)
    /\ Top(dlog) = IF dpc = "persisted" THEN dhead + 1 ELSE IF dpc = "down" THEN Top(dlog) ELSE dhead
    /\ dpc = "persisted" => dready # <<>> /\ dlog[Len(dlog)] = Durable!Event(dhead + 1, dready[1])
    /\ dpc # "down" => \A e \in KeptEvents(dlog) : e.seq <= dhead => e \in dnumbered
    /\ \A e \in KnownEvents : e.kind = "event" /\ e.seq \in 1..Top(dlog)
    /\ \A d, e \in KnownEvents : d.seq = e.seq => d = e
    /\ \A k \in KeptFrames(dlog) : k.seq <= Top(dlog)
    /\ \A e \in dnumbered : dpc # "down" => e.seq <= dhead
    /\ \A e \in KnownEvents, k \in KeptFrames(dlog) : e.seq <= k.seq => e.writes \subseteq k.writes

\* Every state, of the store, of the mirror or of a keyframe, is made of known writes, of
\* writes that wait and of lost ones.
StoreInv ==
    /\ dpc = "down" => dstore = {} /\ dundrained = <<>> /\ dready = <<>> /\ dlink = "off"
    /\ dpc # "down" => (\A e \in KnownEvents : e.writes \subseteq dstore) /\ Pending \subseteq dstore
    /\ \A w \in dstore : w \in dlost \/ KnownWrite(w) \/ w \in Pending
    /\ \A w \in dview : w \in dlost \/ KnownWrite(w) \/ w \in Pending
    /\ \A k \in KeptFrames(dlog) : \A w \in k.writes : w \in dlost \/ KnownWrite(w) \/ w \in Pending

\* What waits for a number waits once.
PendingInv ==
    /\ \A i, j \in DOMAIN dundrained : dundrained[i] = dundrained[j] => i = j
    /\ \A i, j \in DOMAIN dready : i # j => dready[i] \cap dready[j] = {}
    /\ \A i \in DOMAIN dready : dready[i] \cap Durable!Range(dundrained) = {}
    /\ \A e \in dnumbered : e.writes \cap Pending = {}

\* What is on the wire continues what the mirror has.
WireInv ==
    /\ dlink = "off" => dwire = <<>>
    /\ \A i \in DOMAIN dwire : dwire[i] \in dnumbered /\ dwire[i].seq <= dhead
    /\ \A i, j \in DOMAIN dwire : i < j => dwire[i].seq < dwire[j].seq
    /\ dlink = "live" => \A n \in (dlast + 1)..dhead : \E i \in DOMAIN dwire : dwire[i].seq = n
    /\ dlast <= IF dpc = "down" THEN Top(dlog) ELSE dhead
    /\ \A e \in KnownEvents : e.seq <= dlast => e.writes \subseteq dview

\* What holds of a durable store always.
DurableInv == Durable!TypeOK /\ LogInv /\ StoreInv /\ PendingInv /\ WireInv

\* Records of the writes W.
RecOf(W) == [kind : {"event", "keyframe"}, seq : Nat, writes : SUBSET W]

\* A sequence and its members.
LEMMA MembersOf ==
  ASSUME NEW S, NEW l \in Seq(S)
  PROVE  Len(l) \in Nat /\ DOMAIN l = 1..Len(l) /\ \A i \in 1..Len(l) : l[i] \in S
OBVIOUS

\* The empty sequence.
LEMMA NoRecords == ASSUME NEW S PROVE <<>> \in Seq(S)
OBVIOUS

\* A sequence and one more.
LEMMA OneMore ==
  ASSUME NEW S, NEW l \in Seq(S), NEW r \in S
  PROVE  /\ Append(l, r) \in Seq(S) /\ Len(Append(l, r)) = Len(l) + 1
         /\ DOMAIN Append(l, r) = 1..(Len(l) + 1)
         /\ \A i \in 1..Len(l) : Append(l, r)[i] = l[i]
         /\ Append(l, r)[Len(l) + 1] = r
OBVIOUS

\* A log with the next record.
LEMMA Added ==
  ASSUME NEW W, NEW l \in Seq(RecOf(W)), Steady(l), NEW r \in RecOf(W),
         r.kind = "event" => r.seq = Top(l) + 1, r.kind # "event" => r.seq = Top(l)
  PROVE  /\ Append(l, r) \in Seq(RecOf(W)) /\ Steady(Append(l, r)) /\ Top(Append(l, r)) = r.seq
         /\ Append(l, r)[Len(Append(l, r))] = r
         /\ r.kind = "event" => KeptEvents(Append(l, r)) = KeptEvents(l) \cup {r} /\ KeptFrames(Append(l, r)) = KeptFrames(l)
         /\ r.kind # "event" => KeptEvents(Append(l, r)) = KeptEvents(l) /\ KeptFrames(Append(l, r)) = KeptFrames(l) \cup {r}
<1> DEFINE n == Len(l)
           m == Append(l, r)
<1>1. /\ n \in Nat /\ n > 0 /\ DOMAIN l = 1..n /\ (\A i \in 1..n : l[i] \in RecOf(W)) /\ l[1].kind = "keyframe"
      /\ n \in 1..n /\ 1 \in 1..n
  BY MembersOf DEF Steady
<1>2. /\ m \in Seq(RecOf(W)) /\ Len(m) = n + 1 /\ DOMAIN m = 1..(n + 1)
      /\ (\A i \in 1..n : m[i] = l[i]) /\ m[n + 1] = r
  BY OneMore
<1>3. \A i \in 1..n : l[i].seq \in Nat /\ l[i].kind \in {"event", "keyframe"}
  BY <1>1 DEF RecOf
<1>4. r.seq \in Nat /\ r.kind \in {"event", "keyframe"}
  BY DEF RecOf
<1>5. Top(l) = l[n].seq /\ Top(l) \in Nat /\ Top(m) = r.seq
  BY <1>1, <1>2, <1>3 DEF Top
<1>6. /\ \A i, j \in 1..n : i < j => l[i].seq <= l[j].seq
      /\ \A i, j \in 1..n : i < j /\ l[j].kind = "event" => l[i].seq < l[j].seq
      /\ \A k \in (l[1].seq + 1)..Top(l) : \E j \in 1..n : l[j].kind = "event" /\ l[j].seq = k
  BY <1>1 DEF Steady, EventPlaces
<1>7. \A i \in 1..n : l[i].seq <= Top(l)
  BY <1>1, <1>3, <1>5, <1>6
<1>8. PICK b \in 1..n : l[b].kind = "keyframe" /\ \A j \in 1..n : l[j].kind = "keyframe" => j <= b
  BY <1>1 DEF Steady, Durable!Keyframes
<1> HIDE DEF m, n
<1>9. Steady(m)
  <2>1. Len(m) > 0 /\ m[1].kind = "keyframe"
    BY <1>1, <1>2
  <2>2. \E c \in Durable!Keyframes(m) : \A j \in Durable!Keyframes(m) : j <= c
    <3>1. CASE r.kind = "event"
      <4>1. b \in Durable!Keyframes(m)
        BY <1>1, <1>2, <1>8 DEF Durable!Keyframes
      <4>2. \A j \in Durable!Keyframes(m) : j <= b
        BY <1>1, <1>2, <1>8, <3>1 DEF Durable!Keyframes
      <4> QED BY <4>1, <4>2
    <3>2. CASE r.kind # "event"
      <4>1. n + 1 \in Durable!Keyframes(m)
        BY <1>1, <1>2, <1>4, <3>2 DEF Durable!Keyframes
      <4>2. \A j \in Durable!Keyframes(m) : j <= n + 1
        BY <1>1, <1>2 DEF Durable!Keyframes
      <4> QED BY <4>1, <4>2
    <3> QED BY <3>1, <3>2
  <2>3. \A i, j \in 1..(n + 1) : i < j => m[i].seq <= m[j].seq
    <3> SUFFICES ASSUME NEW i \in 1..(n + 1), NEW j \in 1..(n + 1), i < j PROVE m[i].seq <= m[j].seq
      OBVIOUS
    <3>1. CASE j = n + 1
      BY <1>1, <1>2, <1>3, <1>4, <1>5, <1>7, <3>1
    <3>2. CASE j # n + 1
      BY <1>1, <1>2, <1>6, <3>2
    <3> QED BY <3>1, <3>2
  <2>4. \A i, j \in 1..(n + 1) : i < j /\ m[j].kind = "event" => m[i].seq < m[j].seq
    <3> SUFFICES ASSUME NEW i \in 1..(n + 1), NEW j \in 1..(n + 1), i < j, m[j].kind = "event"
                 PROVE m[i].seq < m[j].seq
      OBVIOUS
    <3>1. CASE j = n + 1
      BY <1>1, <1>2, <1>3, <1>4, <1>5, <1>7, <3>1
    <3>2. CASE j # n + 1
      BY <1>1, <1>2, <1>6, <3>2
    <3> QED BY <3>1, <3>2
  <2>5. \A k \in (m[1].seq + 1)..r.seq : \E j \in 1..(n + 1) : m[j].kind = "event" /\ m[j].seq = k
    <3> SUFFICES ASSUME NEW k \in (m[1].seq + 1)..r.seq
                 PROVE \E j \in 1..(n + 1) : m[j].kind = "event" /\ m[j].seq = k
      OBVIOUS
    <3>1. m[1] = l[1] /\ l[1].seq \in Nat
      BY <1>1, <1>2, <1>3
    <3>2. CASE k \in (l[1].seq + 1)..Top(l)
      BY <1>1, <1>2, <1>6, <3>2
    <3>3. CASE k \notin (l[1].seq + 1)..Top(l)
      <4>1. k = r.seq /\ r.kind = "event"
        BY <1>4, <1>5, <3>1, <3>3
      <4>2. n + 1 \in 1..(n + 1)
        BY <1>1
      <4> QED BY <1>2, <4>1, <4>2
    <3> QED BY <3>2, <3>3
  <2> QED BY <1>2, <1>5, <2>1, <2>2, <2>3, <2>4, <2>5 DEF Steady, EventPlaces
<1>10. /\ r.kind = "event" => KeptEvents(m) = KeptEvents(l) \cup {r}
       /\ r.kind # "event" => KeptEvents(m) = KeptEvents(l)
  <2>1. \A x : x \in KeptEvents(m) <=> \E i \in 1..(n + 1) : m[i].kind = "event" /\ x = m[i]
    BY <1>2 DEF KeptEvents, EventPlaces
  <2>2. \A x : x \in KeptEvents(l) <=> \E i \in 1..n : l[i].kind = "event" /\ x = l[i]
    BY <1>1 DEF KeptEvents, EventPlaces
  <2>3. \A i : i \in 1..(n + 1) <=> i \in 1..n \/ i = n + 1
    BY <1>1
  <2>4. CASE r.kind = "event"
    <3>1. KeptEvents(m) = KeptEvents(l) \cup {r}
      BY <2>4, <1>2, <2>1, <2>2, <2>3
    <3> QED BY <3>1, <2>4
  <2>5. CASE r.kind # "event"
    <3>1. ASSUME NEW x \in KeptEvents(m) PROVE x \in KeptEvents(l)
      <4>1. PICK i \in 1..(n + 1) : m[i].kind = "event" /\ x = m[i]
        BY <2>1
      <4>2. i \in 1..n
        BY <4>1, <2>5, <1>2, <2>3
      <4> QED BY <4>1, <4>2, <1>2, <2>2
    <3>2. ASSUME NEW x \in KeptEvents(l) PROVE x \in KeptEvents(m)
      <4>1. PICK i \in 1..n : l[i].kind = "event" /\ x = l[i]
        BY <2>2
      <4> QED BY <4>1, <1>2, <2>1, <2>3
    <3> QED BY <3>1, <3>2, <2>5
  <2> QED BY <2>4, <2>5
<1>11. /\ r.kind = "event" => KeptFrames(m) = KeptFrames(l)
       /\ r.kind # "event" => KeptFrames(m) = KeptFrames(l) \cup {r}
  <2>1. \A x : x \in KeptFrames(m) <=> \E i \in 1..(n + 1) : m[i].kind = "keyframe" /\ x = m[i]
    BY <1>2 DEF KeptFrames, Durable!Keyframes
  <2>2. \A x : x \in KeptFrames(l) <=> \E i \in 1..n : l[i].kind = "keyframe" /\ x = l[i]
    BY <1>1 DEF KeptFrames, Durable!Keyframes
  <2>3. \A i : i \in 1..(n + 1) <=> i \in 1..n \/ i = n + 1
    BY <1>1
  <2>4. CASE r.kind = "event"
    <3>1. ASSUME NEW x \in KeptFrames(m) PROVE x \in KeptFrames(l)
      <4>1. PICK i \in 1..(n + 1) : m[i].kind = "keyframe" /\ x = m[i]
        BY <2>1
      <4>2. i \in 1..n
        BY <4>1, <2>4, <1>2, <2>3
      <4> QED BY <4>1, <4>2, <1>2, <2>2
    <3>2. ASSUME NEW x \in KeptFrames(l) PROVE x \in KeptFrames(m)
      <4>1. PICK i \in 1..n : l[i].kind = "keyframe" /\ x = l[i]
        BY <2>2
      <4> QED BY <4>1, <1>2, <2>1, <2>3
    <3> QED BY <3>1, <3>2, <2>4
  <2>5. CASE r.kind # "event"
    <3>1. KeptFrames(m) = KeptFrames(l) \cup {r}
      BY <2>5, <1>2, <1>4, <2>1, <2>2, <2>3
    <3> QED BY <3>1, <2>5
  <2> QED BY <2>4, <2>5
<1> QED BY <1>2, <1>5, <1>9, <1>10, <1>11 DEF m

\* A log that was cut at a keyframe.
LEMMA Cutting ==
  ASSUME NEW W, NEW l \in Seq(RecOf(W)), Steady(l), NEW c \in Durable!Cuts(l)
  PROVE  /\ c \in Seq(RecOf(W)) /\ Steady(c) /\ Top(c) = Top(l) /\ c[Len(c)] = l[Len(l)]
         /\ KeptEvents(c) \subseteq KeptEvents(l) /\ KeptFrames(c) \subseteq KeptFrames(l)
         /\ l[Len(l)].kind = "event" => l[Len(l)] \in KeptEvents(c)
<1> DEFINE n == Len(l)
<1>1. /\ n \in Nat /\ n > 0 /\ DOMAIN l = 1..n /\ (\A i \in 1..n : l[i] \in RecOf(W)) /\ l[1].kind = "keyframe"
      /\ n \in 1..n /\ 1 \in 1..n
  BY MembersOf DEF Steady
<1>2. \E a \in 1..n : l[a].kind = "keyframe" /\ c = SubSeq(l, a, n)
  <2>1. CASE c = l
    <3>1. SubSeq(l, 1, n) = l
      BY <1>1
    <3> QED BY <1>1, <2>1, <3>1
  <2>2. CASE c # l
    BY <1>1, <2>2 DEF Durable!Cuts, Durable!Keyframes
  <2> QED BY <2>1, <2>2
<1>3. PICK a \in 1..n : l[a].kind = "keyframe" /\ c = SubSeq(l, a, n)
  BY <1>2
<1> DEFINE d == a - 1
           q == n - d
<1>4. /\ c \in Seq(RecOf(W)) /\ Len(c) = q /\ DOMAIN c = 1..q /\ \A i \in 1..q : c[i] = l[d + i]
  <2>1. /\ c \in Seq(RecOf(W)) /\ Len(c) = n - a + 1 /\ \A i \in 1..(n - a + 1) : c[i] = l[a + i - 1]
    BY <1>1, <1>3, SubSeqProperties
  <2>2. n - a + 1 = q
    BY <1>1
  <2>3. DOMAIN c = 1..Len(c)
    BY <2>1, MembersOf
  <2>4. ASSUME NEW i \in 1..q PROVE c[i] = l[d + i]
    <3>1. a + i - 1 = d + i
      BY <1>1
    <3>2. c[i] = l[a + i - 1]
      BY <2>1, <2>2
    <3> HIDE DEF d, q
    <3> QED BY <3>1, <3>2
  <2> HIDE DEF d, q
  <2> QED BY <2>1, <2>2, <2>3, <2>4
<1>5. d \in Nat /\ q \in Nat /\ q > 0 /\ d + q = n /\ d + 1 = a
  BY <1>1, <1>3
<1>6. \A i \in 1..n : l[i].seq \in Nat /\ l[i].kind \in {"event", "keyframe"}
  BY <1>1 DEF RecOf
<1>7. /\ \A i, j \in 1..n : i < j => l[i].seq <= l[j].seq
      /\ \A i, j \in 1..n : i < j /\ l[j].kind = "event" => l[i].seq < l[j].seq
      /\ \A k \in (l[1].seq + 1)..l[n].seq : \E j \in 1..n : l[j].kind = "event" /\ l[j].seq = k
  BY <1>1 DEF Steady, EventPlaces, Top
<1>8. PICK b \in 1..n : l[b].kind = "keyframe" /\ \A j \in 1..n : l[j].kind = "keyframe" => j <= b
  BY <1>1 DEF Steady, Durable!Keyframes
<1> HIDE DEF n, d, q
<1>9. \A i \in 1..q : d + i \in 1..n /\ c[i] = l[d + i]
  BY <1>1, <1>4, <1>5
<1>10. c[q] = l[n] /\ c[1] = l[a]
  BY <1>5, <1>9
<1>11. Steady(c)
  <2>1. Len(c) > 0 /\ c[1].kind = "keyframe"
    BY <1>3, <1>4, <1>5, <1>10
  <2>2. \E e \in Durable!Keyframes(c) : \A j \in Durable!Keyframes(c) : j <= e
    <3>1. a <= b
      BY <1>3, <1>8
    <3>2. b - d \in 1..q /\ d + (b - d) = b
      BY <1>1, <1>5, <1>8, <3>1
    <3>3. b - d \in Durable!Keyframes(c)
      BY <1>4, <1>8, <1>9, <3>2 DEF Durable!Keyframes
    <3>4. \A j \in Durable!Keyframes(c) : j <= b - d
      <4> SUFFICES ASSUME NEW j \in Durable!Keyframes(c) PROVE j <= b - d
        OBVIOUS
      <4>1. j \in 1..q /\ c[j].kind = "keyframe"
        BY <1>4 DEF Durable!Keyframes
      <4>2. d + j <= b
        BY <4>1, <1>8, <1>9
      <4> QED BY <4>1, <4>2, <1>5
    <3> QED BY <3>3, <3>4
  <2>3. \A i, j \in 1..q : i < j => c[i].seq <= c[j].seq
    <3> SUFFICES ASSUME NEW i \in 1..q, NEW j \in 1..q, i < j PROVE c[i].seq <= c[j].seq
      OBVIOUS
    <3>1. d + i < d + j
      BY <1>5
    <3> QED BY <3>1, <1>7, <1>9
  <2>4. \A i, j \in 1..q : i < j /\ c[j].kind = "event" => c[i].seq < c[j].seq
    <3> SUFFICES ASSUME NEW i \in 1..q, NEW j \in 1..q, i < j, c[j].kind = "event" PROVE c[i].seq < c[j].seq
      OBVIOUS
    <3>1. d + i < d + j
      BY <1>5
    <3> QED BY <3>1, <1>7, <1>9
  <2>5. \A k \in (c[1].seq + 1)..c[q].seq : \E j \in 1..q : c[j].kind = "event" /\ c[j].seq = k
    <3> SUFFICES ASSUME NEW k \in (l[a].seq + 1)..l[n].seq
                 PROVE \E j \in 1..q : c[j].kind = "event" /\ c[j].seq = k
      BY <1>10
    <3>1. l[1].seq <= l[a].seq /\ l[1].seq \in Nat /\ l[a].seq \in Nat /\ l[n].seq \in Nat
      BY <1>1, <1>3, <1>6, <1>7
    <3>2. k \in (l[1].seq + 1)..l[n].seq /\ k > l[a].seq
      BY <3>1, SMTT(30)
    <3>3. PICK j \in 1..n : l[j].kind = "event" /\ l[j].seq = k
      BY <3>2, <1>7
    <3>4. ~(j <= a)
      BY <1>3, <1>7, <3>1, <3>2, <3>3, SMTT(30)
    <3>5. j - d \in 1..q /\ d + (j - d) = j
      BY <3>4, <1>1, <1>5
    <3> QED BY <3>3, <3>5, <1>9
  <2> QED BY <1>4, <2>1, <2>2, <2>3, <2>4, <2>5 DEF Steady, EventPlaces, Top
<1>12. KeptEvents(c) \subseteq KeptEvents(l) /\ KeptFrames(c) \subseteq KeptFrames(l)
  BY <1>1, <1>4, <1>9 DEF KeptEvents, KeptFrames, EventPlaces, Durable!Keyframes
<1>13. l[n].kind = "event" => l[n] \in KeptEvents(c)
  <2>1. q \in 1..q
    BY <1>5
  <2> QED BY <2>1, <1>4, <1>10 DEF KeptEvents, EventPlaces
<1>14. Top(c) = Top(l) /\ c[Len(c)] = l[n]
  BY <1>4, <1>10 DEF Top, n
<1> QED BY <1>4, <1>11, <1>12, <1>13, <1>14 DEF n

\* The archive opens, at the number of its last record, with everything since its keyframe.
LEMMA Restores ==
  ASSUME NEW W, NEW l \in Seq(RecOf(W)), Steady(l)
  PROVE  /\ Durable!Opens(l) /\ Durable!RestoredSeq(l) = Top(l) /\ Durable!RestoredState(l) \subseteq W
         /\ \E f \in KeptFrames(l) :
               /\ f.seq \in Nat /\ f.seq <= Top(l) /\ f.writes \subseteq Durable!RestoredState(l)
               /\ \A e \in KeptEvents(l) : e.seq > f.seq => e.writes \subseteq Durable!RestoredState(l)
               /\ \A n \in (f.seq + 1)..Top(l) : \E e \in KeptEvents(l) : e.seq = n
               /\ \A w \in Durable!RestoredState(l) : w \in f.writes \/ \E e \in KeptEvents(l) : w \in e.writes
<1> DEFINE n == Len(l)
           b == Durable!Base(l)
           s == l[b].seq
           late == Durable!Later(l, s)
<1>1. /\ n \in Nat /\ n > 0 /\ DOMAIN l = 1..n /\ (\A i \in 1..n : l[i] \in RecOf(W)) /\ l[1].kind = "keyframe"
      /\ n \in 1..n /\ 1 \in 1..n
  BY MembersOf DEF Steady
<1>2. b \in 1..n /\ l[b].kind = "keyframe" /\ \A j \in 1..n : l[j].kind = "keyframe" => j <= b
  <2>1. \E x \in Durable!Keyframes(l) : \A j \in Durable!Keyframes(l) : j <= x
    BY DEF Steady
  <2>2. b \in Durable!Keyframes(l) /\ \A j \in Durable!Keyframes(l) : j <= b
    BY <2>1 DEF Durable!Base
  <2> QED BY <1>1, <2>2 DEF Durable!Keyframes
<1>3. \A i \in 1..n : l[i].seq \in Nat /\ l[i].kind \in {"event", "keyframe"} /\ l[i].writes \subseteq W
  BY <1>1 DEF RecOf
<1>4. /\ \A i, j \in 1..n : i < j => l[i].seq <= l[j].seq
      /\ \A i, j \in 1..n : i < j /\ l[j].kind = "event" => l[i].seq < l[j].seq
      /\ \A k \in (l[1].seq + 1)..l[n].seq : \E j \in 1..n : l[j].kind = "event" /\ l[j].seq = k
  BY <1>1 DEF Steady, EventPlaces, Top
<1>5. late = {i \in 1..n : l[i].kind = "event" /\ l[i].seq > s}
  BY <1>1 DEF Durable!Later
<1>6. s \in Nat /\ l[b].writes \subseteq W /\ Top(l) = l[n].seq /\ l[n].seq \in Nat
  BY <1>1, <1>2, <1>3 DEF Top
<1>7. Durable!Opens(l) <=> Durable!Keyframes(l) # {} /\ Durable!Contiguous(l, s)
  BY DEF Durable!Opens
<1>8. Durable!RestoredSeq(l) = IF late = {} THEN s ELSE l[CHOOSE i \in late : \A j \in late : j <= i].seq
  BY DEF Durable!RestoredSeq
<1>9. Durable!RestoredState(l) = l[b].writes \cup UNION {l[i].writes : i \in late}
  BY DEF Durable!RestoredState
<1>10. /\ \A x : x \in KeptEvents(l) <=> \E i \in 1..n : l[i].kind = "event" /\ x = l[i]
       /\ l[b] \in KeptFrames(l) /\ b \in Durable!Keyframes(l)
  BY <1>1, <1>2 DEF KeptEvents, EventPlaces, KeptFrames, Durable!Keyframes
<1>c. Durable!Contiguous(l, s) <=> /\ \A i, j \in late : i < j => l[i].seq < l[j].seq
                           /\ \A i \in late : \A m \in (s + 1)..l[i].seq : \E j \in late : l[j].seq = m
  BY DEF Durable!Contiguous
<1> HIDE DEF n, b, s, late
<1>11. \A i \in 1..n : i > b => i \in late
  BY <1>2, <1>3, <1>4, <1>5 DEF s
<1>12. \A i \in late : i \in 1..n /\ l[i].kind = "event" /\ l[i].seq > s /\ l[i].seq \in Nat
  BY <1>3, <1>5
<1>13. l[1].seq <= s /\ l[1].seq \in Nat /\ s <= l[n].seq
  BY <1>1, <1>2, <1>3, <1>4, <1>6 DEF s
<1>14. \A i \in 1..n : l[i].seq <= l[n].seq
  BY <1>1, <1>3, <1>4
<1>15. \A m \in (s + 1)..l[n].seq : \E j \in late : l[j].seq = m
  <2> SUFFICES ASSUME NEW m \in (s + 1)..l[n].seq PROVE \E j \in late : l[j].seq = m
    OBVIOUS
  <2>1. m \in (l[1].seq + 1)..l[n].seq /\ m > s
    BY <1>6, <1>13
  <2>2. PICK j \in 1..n : l[j].kind = "event" /\ l[j].seq = m
    BY <2>1, <1>4
  <2> QED BY <2>1, <2>2, <1>5
<1>16. Durable!Opens(l)
  <2>1. \A i, j \in late : i < j => l[i].seq < l[j].seq
    BY <1>4, <1>12
  <2>2. \A i \in late : \A m \in (s + 1)..l[i].seq : \E j \in late : l[j].seq = m
    <3> SUFFICES ASSUME NEW i \in late, NEW m \in (s + 1)..l[i].seq PROVE \E j \in late : l[j].seq = m
      OBVIOUS
    <3>1. m \in (s + 1)..l[n].seq
      BY <1>6, <1>12, <1>14
    <3> QED BY <3>1, <1>15
  <2> QED BY <2>1, <2>2, <1>7, <1>10, <1>c
<1>17. Durable!RestoredSeq(l) = Top(l)
  <2>1. CASE n = b
    <3>1. late = {}
      BY <2>1, <1>12, <1>14, <1>6 DEF s
    <3> QED BY <3>1, <2>1, <1>8, <1>6 DEF s
  <2>2. CASE n # b
    <3>1. n \in late
      BY <2>2, <1>1, <1>2, <1>11
    <3>2. \A j \in late : j <= n
      BY <1>1, <1>12
    <3> DEFINE c == CHOOSE i \in late : \A j \in late : j <= i
    <3>3. c \in late /\ \A j \in late : j <= c
      BY <3>1, <3>2
    <3> HIDE DEF c
    <3>4. c <= n /\ n <= c /\ c \in 1..n
      BY <3>1, <3>2, <3>3, <1>12
    <3>5. c = n
      BY <3>4, <1>1
    <3> QED BY <3>1, <3>5, <1>6, <1>8 DEF c
  <2> QED BY <2>1, <2>2
<1>18. Durable!RestoredState(l) \subseteq W
  BY <1>3, <1>6, <1>9, <1>12
<1>19. l[b].seq \in Nat /\ l[b].seq <= Top(l) /\ l[b].writes \subseteq Durable!RestoredState(l)
  BY <1>6, <1>9, <1>13 DEF s
<1>20. \A e \in KeptEvents(l) : e.seq > l[b].seq => e.writes \subseteq Durable!RestoredState(l)
  <2> SUFFICES ASSUME NEW e \in KeptEvents(l), e.seq > l[b].seq PROVE e.writes \subseteq Durable!RestoredState(l)
    OBVIOUS
  <2>1. PICK i \in 1..n : l[i].kind = "event" /\ e = l[i]
    BY <1>10
  <2>2. i \in late
    BY <2>1, <1>5 DEF s
  <2> QED BY <2>1, <2>2, <1>9
<1>21. \A k \in (l[b].seq + 1)..Top(l) : \E e \in KeptEvents(l) : e.seq = k
  <2> SUFFICES ASSUME NEW k \in (l[b].seq + 1)..Top(l) PROVE \E e \in KeptEvents(l) : e.seq = k
    OBVIOUS
  <2>1. PICK j \in late : l[j].seq = k
    BY <1>6, <1>15 DEF s
  <2> QED BY <2>1, <1>10, <1>12
<1>22. \A w \in Durable!RestoredState(l) : w \in l[b].writes \/ \E e \in KeptEvents(l) : w \in e.writes
  BY <1>9, <1>10, <1>12
<1> QED BY <1>10, <1>16, <1>17, <1>18, <1>19, <1>20, <1>21, <1>22

\* The batches of a drain hold the writes of the drain, each in one of them.
LEMMA Dividing ==
  ASSUME NEW m \in Nat \ {0}, NEW k \in Nat
  PROVE  k \div m \in Nat /\ m * (k \div m) <= k /\ k < m * (k \div m) + m
OBVIOUS

\* The batches of a drain hold its writes, each in one of them.
LEMMA Batching ==
  ASSUME Durable!DurableAssumption, NEW W, NEW ws \in Seq(W),
         \A i, j \in DOMAIN ws : ws[i] = ws[j] => i = j
  PROVE  /\ Durable!Batches(ws) \in Seq(SUBSET W)
         /\ UNION Durable!Range(Durable!Batches(ws)) = Durable!Range(ws)
         /\ \A i, j \in DOMAIN Durable!Batches(ws) : i # j => Durable!Batches(ws)[i] \cap Durable!Batches(ws)[j] = {}
<1> DEFINE n == Len(ws)
           k == (n + MaxItems - 1) \div MaxItems
           share(i) == {ws[j] : j \in {x \in 1..n : (x - 1) \div MaxItems = i - 1}}
           bs == Durable!Batches(ws)
<1>1. n \in Nat /\ DOMAIN ws = 1..n /\ (\A i \in 1..n : ws[i] \in W) /\ MaxItems \in Nat \ {0}
  BY MembersOf DEF Durable!DurableAssumption
<1>2. bs = [i \in 1..k |-> share(i)]
  BY <1>1 DEF Durable!Batches
<1>3. n + MaxItems - 1 \in Nat
  BY <1>1
<1>4. k \in Nat
  BY <1>1, <1>3, Dividing
<1>5. \A x \in 1..n : ((x - 1) \div MaxItems) + 1 \in 1..k
  <2> SUFFICES ASSUME NEW x \in 1..n PROVE ((x - 1) \div MaxItems) + 1 \in 1..k
    OBVIOUS
  <2> DEFINE q == (x - 1) \div MaxItems
  <2>1. x - 1 \in Nat
    OBVIOUS
  <2>2. q \in Nat /\ MaxItems * q <= x - 1
    BY <1>1, <2>1, Dividing
  <2>3. n + MaxItems - 1 < MaxItems * k + MaxItems
    BY <1>1, <1>3, Dividing
  <2> HIDE DEF q, k
  <2>4. MaxItems * q < MaxItems * k
    BY <1>1, <1>4, <2>2, <2>3
  <2>5. q < k
    BY <1>1, <1>4, <2>2, <2>4
  <2>6. q + 1 \in 1..k
    BY <1>4, <2>2, <2>5
  <2> QED BY <2>6 DEF q
<1> HIDE DEF k, share
<1>6. DOMAIN bs = 1..k /\ \A i \in 1..k : bs[i] = share(i)
  BY <1>2
<1>7. \A i \in 1..k : share(i) \in SUBSET W
  BY <1>1 DEF share
<1>8. bs \in Seq(SUBSET W)
  BY <1>2, <1>4, <1>7
<1>9. UNION Durable!Range(bs) = Durable!Range(ws)
  <2>1. \A i \in 1..k : share(i) \subseteq Durable!Range(ws)
    BY <1>1 DEF share, Durable!Range
  <2>2. ASSUME NEW x \in 1..n PROVE \E i \in 1..k : ws[x] \in share(i)
    <3> DEFINE p == ((x - 1) \div MaxItems) + 1
    <3>1. p \in 1..k
      BY <1>5
    <3>2. (x - 1) \div MaxItems = p - 1
      <4>1. (x - 1) \div MaxItems \in Nat
        BY <1>1, Dividing
      <4> QED BY <4>1
    <3> QED BY <3>1, <3>2 DEF share
  <2>3. Durable!Range(ws) = {ws[x] : x \in 1..n} /\ Durable!Range(bs) = {share(i) : i \in 1..k}
    BY <1>1, <1>6 DEF Durable!Range
  <2> QED BY <2>1, <2>2, <2>3
<1>10. \A i, j \in 1..k : i # j => share(i) \cap share(j) = {}
  BY <1>1 DEF share
<1> QED BY <1>6, <1>8, <1>9, <1>10

\* Two sequences.
LEMMA Joining ==
  ASSUME NEW S, NEW a \in Seq(S), NEW b \in Seq(S)
  PROVE  /\ a \o b \in Seq(S) /\ DOMAIN (a \o b) = 1..(Len(a) + Len(b))
         /\ \A i \in 1..Len(a) : (a \o b)[i] = a[i]
         /\ \A i \in 1..Len(b) : (a \o b)[Len(a) + i] = b[i]
         /\ \A i \in 1..(Len(a) + Len(b)) : i \notin 1..Len(a) => i - Len(a) \in 1..Len(b)
OBVIOUS

\* A drain keeps what is pending, and apart.
LEMMA Drained ==
  ASSUME Durable!DurableAssumption, DurableInv, dpc = "rest", dpc' = "drain",
         dready' = dready \o Durable!Batches(dundrained), dundrained' = <<>>, dwhy' \in {"burst", "read", "close"},
         UNCHANGED <<dlog, dstore, dhead, dlastKf, Durable!mirrorVars, dwritten, Durable!ghostVars, dfaults, drestarts>>
  PROVE  DurableInv'
<1> DEFINE bs == Durable!Batches(dundrained)
           n == Len(dready)
           k == Len(bs)
<1>0. /\ UNCHANGED <<dlog, dstore, dhead, dlastKf, dlast, dview, dlink, dwire, dwritten, dlost, dnumbered, dfaults, drestarts>>
      /\ KnownEvents' = KnownEvents /\ Durable!Rec' = Durable!Rec /\ Durable!Writes' = Durable!Writes
  BY DEF Durable!mirrorVars, Durable!ghostVars, KnownEvents, KeptEvents, EventPlaces, Durable!Rec, Durable!Writes
<1>1. dundrained \in Seq(Durable!Writes) /\ dready \in Seq(SUBSET Durable!Writes)
      /\ \A i, j \in DOMAIN dundrained : dundrained[i] = dundrained[j] => i = j
  BY DEF DurableInv, Durable!TypeOK, PendingInv
<1>2. bs \in Seq(SUBSET Durable!Writes) /\ UNION Durable!Range(bs) = Durable!Range(dundrained)
      /\ \A i, j \in DOMAIN bs : i # j => bs[i] \cap bs[j] = {}
  BY <1>1, Batching
<1>3. n \in Nat /\ k \in Nat /\ DOMAIN dready = 1..n /\ DOMAIN bs = 1..k
  BY <1>1, <1>2, MembersOf
<1>4. /\ dready' \in Seq(SUBSET Durable!Writes) /\ DOMAIN dready' = 1..(n + k)
      /\ \A i \in 1..n : dready'[i] = dready[i]
      /\ \A i \in 1..k : dready'[n + i] = bs[i]
      /\ \A i \in 1..(n + k) : i \notin 1..n => i - n \in 1..k
  BY <1>1, <1>2, Joining
<1> HIDE DEF bs, n, k
<1>5. \A i \in 1..(n + k) : \/ i \in 1..n /\ dready'[i] = dready[i]
                            \/ i - n \in 1..k /\ dready'[i] = bs[i - n] /\ dready'[i] \subseteq Durable!Range(dundrained)
  <2> SUFFICES ASSUME NEW i \in 1..(n + k), i \notin 1..n
               PROVE i - n \in 1..k /\ dready'[i] = bs[i - n] /\ dready'[i] \subseteq Durable!Range(dundrained)
    BY <1>4
  <2>1. i - n \in 1..k /\ n + (i - n) = i
    BY <1>3, <1>4
  <2>2. dready'[i] = bs[i - n]
    BY <2>1, <1>4
  <2>3. bs[i - n] \in Durable!Range(bs)
    BY <2>1, <1>3 DEF Durable!Range
  <2> QED BY <2>1, <2>2, <2>3, <1>2
<1>6. Durable!Range(dundrained') = {} /\ dundrained' \in Seq(Durable!Writes) /\ DOMAIN dundrained' = {}
  BY DEF Durable!Range
<1>7. Pending' = Pending
  <2>1. \A i \in 1..n : i \in 1..(n + k) /\ \A j \in 1..k : n + j \in 1..(n + k)
    BY <1>3
  <2>2. UNION Durable!Range(dready') = (UNION Durable!Range(dready)) \cup (UNION Durable!Range(bs))
    <3>1. Durable!Range(dready') \subseteq Durable!Range(dready) \cup Durable!Range(bs)
      <4> SUFFICES ASSUME NEW i \in 1..(n + k) PROVE dready'[i] \in Durable!Range(dready) \cup Durable!Range(bs)
        BY <1>4, ZenonT(40) DEF Durable!Range
      <4>1. \/ i \in 1..n /\ dready'[i] = dready[i]
            \/ i - n \in 1..k /\ dready'[i] = bs[i - n]
        BY <1>5
      <4> QED BY <4>1, <1>3 DEF Durable!Range
    <3>2. Durable!Range(dready) \subseteq Durable!Range(dready')
      BY <1>3, <1>4, <2>1 DEF Durable!Range
    <3>3. Durable!Range(bs) \subseteq Durable!Range(dready')
      <4> SUFFICES ASSUME NEW j \in 1..k PROVE bs[j] \in Durable!Range(dready')
        BY <1>3 DEF Durable!Range
      <4>1. n + j \in 1..(n + k)
        BY <1>3
      <4> QED BY <4>1, <1>4 DEF Durable!Range
    <3> QED BY <3>1, <3>2, <3>3
  <2> QED BY <2>2, <1>2, <1>6 DEF Pending
<1>8. Durable!TypeOK'
  <2>1. \A e \in dnumbered : e.writes \cap Pending = {}
    BY DEF DurableInv, PendingInv
  <2> QED BY <1>0, <1>4, <1>6, <1>7, <2>1 DEF DurableInv, Durable!TypeOK, Pending
<1>9. PendingInv'
  <2>1. \A i, j \in 1..(n + k) : i # j => dready'[i] \cap dready'[j] = {}
    <3> SUFFICES ASSUME NEW i \in 1..(n + k), NEW j \in 1..(n + k), i # j PROVE dready'[i] \cap dready'[j] = {}
      OBVIOUS
    <3>1. \A x \in 1..n : dready[x] \cap Durable!Range(dundrained) = {}
      BY <1>3 DEF DurableInv, PendingInv
    <3>2. CASE i \in 1..n /\ j \in 1..n
      BY <3>2, <1>3, <1>4 DEF DurableInv, PendingInv
    <3>3. CASE i \in 1..n /\ j \notin 1..n
      BY <3>1, <3>3, <1>4, <1>5
    <3>4. CASE i \notin 1..n /\ j \in 1..n
      BY <3>1, <3>4, <1>4, <1>5
    <3>5. CASE i \notin 1..n /\ j \notin 1..n
      <4>1. i - n \in 1..k /\ j - n \in 1..k /\ dready'[i] = bs[i - n] /\ dready'[j] = bs[j - n]
        BY <3>5, <1>5
      <4>2. i - n # j - n
        BY <1>3
      <4> QED BY <4>1, <4>2, <1>2, <1>3
    <3> QED BY <3>2, <3>3, <3>4, <3>5
  <2>2. \A e \in dnumbered : e.writes \cap Pending = {}
    BY DEF DurableInv, PendingInv
  <2> QED BY <2>1, <2>2, <1>0, <1>4, <1>6, <1>7 DEF PendingInv
<1>10. LogInv'
  <2>1. LogInv
    BY DEF DurableInv
  <2> QED BY <2>1, <1>0 DEF LogInv, Top, KeptEvents, EventPlaces, KeptFrames, Durable!Keyframes, Steady
<1>11. StoreInv'
  BY <1>0, <1>7 DEF DurableInv, StoreInv, KnownWrite, KeptFrames, Durable!Keyframes
<1>12. WireInv'
  BY <1>0 DEF DurableInv, WireInv, Top
<1> QED BY <1>8, <1>9, <1>10, <1>11, <1>12 DEF DurableInv

\* Steps that move the process on and touch the connection only.
LEMMA Quiet ==
  ASSUME DurableInv, dpc \in {"rest", "drain", "cadence"}, dpc' \in {"rest", "drain", "cadence"},
         UNCHANGED <<dlog, dstore, dundrained, dready, dhead, dlost, dnumbered, dview, dlast, dwritten>>,
         \/ UNCHANGED <<dlink, dwire>>
         \/ dlink' = "off" /\ dwire' = <<>>
         \/ dlink = "off" /\ dlink' = "asked" /\ dwire' = dwire,
         dlastKf' \in Nat, dwhy' \in {"burst", "read", "close"}, dfaults' \in Nat, drestarts' \in Nat
  PROVE  DurableInv'
<1>1. KnownEvents' = KnownEvents /\ Pending' = Pending /\ Durable!Rec' = Durable!Rec /\ Durable!Writes' = Durable!Writes /\ Top(dlog)' = Top(dlog)
      /\ KeptEvents(dlog)' = KeptEvents(dlog) /\ KeptFrames(dlog)' = KeptFrames(dlog) /\ Steady(dlog)' = Steady(dlog)
  BY DEF KnownEvents, Pending, KeptEvents, EventPlaces, Durable!Rec, Durable!Writes, Top, KeptFrames, Durable!Keyframes, Steady
<1>2. Durable!TypeOK'
  <2>1. dwire' \in Seq(Durable!Rec)
    <3>1. <<>> \in Seq(Durable!Rec) /\ dwire \in Seq(Durable!Rec)
      BY NoRecords DEF DurableInv, Durable!TypeOK
    <3> QED BY <3>1
  <2> QED BY <1>1, <2>1 DEF DurableInv, Durable!TypeOK
<1>3. LogInv'
  BY <1>1 DEF DurableInv, LogInv
<1>4. StoreInv'
  BY <1>1 DEF DurableInv, StoreInv, KnownWrite
<1>5. PendingInv'
  BY <1>1 DEF DurableInv, PendingInv
<1>6. WireInv'
  BY <1>1 DEF DurableInv, WireInv
<1> QED BY <1>2, <1>3, <1>4, <1>5, <1>6 DEF DurableInv

\* What moves the process or the connection on.
LEMMA MoveOn ==
  ASSUME DurableInv,
         Durable!BurstPublished \/ Durable!PersistFails \/ Durable!Subscribe \/ Durable!ReadFlushes \/ Durable!Disconnect
  PROVE  DurableInv'
<1>0. {dhead, dlastKf, dfaults, drestarts} \subseteq Nat /\ dwhy \in {"burst", "read", "close"}
      /\ dfaults + 1 \in Nat /\ drestarts + 1 \in Nat
  BY DEF DurableInv, Durable!TypeOK
<1>1. CASE Durable!BurstPublished
  BY <1>0, <1>1, Quiet DEF Durable!BurstPublished, Durable!mirrorVars, Durable!ghostVars
<1>2. CASE Durable!PersistFails
  BY <1>0, <1>2, Quiet DEF Durable!PersistFails, Durable!ghostVars
<1>3. CASE Durable!Subscribe
  BY <1>0, <1>3, Quiet DEF Durable!Subscribe, Durable!lineVars, Durable!ghostVars
<1>4. CASE Durable!ReadFlushes
  BY <1>0, <1>4, Quiet DEF Durable!ReadFlushes, Durable!mirrorVars, Durable!ghostVars
<1>5. CASE Durable!Disconnect
  BY <1>0, <1>5, Quiet DEF Durable!Disconnect, Durable!lineVars, Durable!ghostVars
<1> QED BY <1>1, <1>2, <1>3, <1>4, <1>5

\* The drain of the store, and that of a close.
LEMMA Draining ==
  ASSUME Durable!DurableAssumption, DurableInv, Durable!Drain \/ Durable!Close
  PROVE  DurableInv'
<1>0. drestarts \in Nat
  BY DEF DurableInv, Durable!TypeOK
<1>1. CASE Durable!Drain
  BY <1>1, Drained DEF Durable!Drain
<1>2. CASE Durable!Close
  BY <1>2, Drained DEF Durable!Close
<1> QED BY <1>1, <1>2

\* The events and keyframes that are known are records.
LEMMA Members ==
  ASSUME DurableInv
  PROVE  KnownEvents \subseteq Durable!Rec /\ KeptFrames(dlog) \subseteq Durable!Rec /\ \A i \in DOMAIN dwire : dwire[i] \in Durable!Rec
<1>1. dlog \in Seq(Durable!Rec) /\ dwire \in Seq(Durable!Rec) /\ dnumbered \subseteq Durable!Rec
  BY DEF DurableInv, Durable!TypeOK
<1>2. (\A i \in DOMAIN dlog : dlog[i] \in Durable!Rec) /\ (\A i \in DOMAIN dwire : dwire[i] \in Durable!Rec)
  BY <1>1, MembersOf
<1> QED BY <1>1, <1>2 DEF KnownEvents, KeptEvents, EventPlaces, KeptFrames, Durable!Keyframes

\* The owner writes.
LEMMA Writing ==
  ASSUME DurableInv, Durable!Write
  PROVE  DurableInv'
<1> DEFINE w == dwritten + 1
           n == Len(dundrained)
<1>0. /\ dpc \in {"rest", "drain"} /\ dwritten' = w /\ dstore' = dstore \cup {w} /\ dundrained' = Append(dundrained, w)
      /\ UNCHANGED <<dlog, dready, dhead, dlastKf, dpc, dwhy, dlast, dview, dlink, dwire, dlost, dnumbered, dfaults, drestarts>>
  BY DEF Durable!Write, Durable!mirrorVars, Durable!ghostVars
<1>1. /\ KnownEvents' = KnownEvents /\ Top(dlog)' = Top(dlog) /\ KeptEvents(dlog)' = KeptEvents(dlog) /\ KeptFrames(dlog)' = KeptFrames(dlog)
      /\ Steady(dlog)' = Steady(dlog)
  BY <1>0 DEF KnownEvents, KeptEvents, EventPlaces, Top, KeptFrames, Durable!Keyframes, Steady
<1>2. dwritten \in Nat /\ w \in Nat /\ Durable!Writes \subseteq Durable!Writes' /\ w \in Durable!Writes' /\ w \notin Durable!Writes
  BY <1>0 DEF DurableInv, Durable!TypeOK, Durable!Writes
<1>3. Durable!Rec \subseteq Durable!Rec'
  BY <1>2 DEF Durable!Rec
<1>4. dundrained \in Seq(Durable!Writes) /\ dready \in Seq(SUBSET Durable!Writes) /\ n \in Nat /\ DOMAIN dundrained = 1..n
  BY MembersOf DEF DurableInv, Durable!TypeOK
<1>5. /\ dundrained \in Seq(Durable!Writes') /\ dready \in Seq(SUBSET Durable!Writes') /\ dlog \in Seq(Durable!Rec') /\ dwire \in Seq(Durable!Rec')
      /\ dnumbered \subseteq Durable!Rec'
  BY <1>2, <1>3 DEF DurableInv, Durable!TypeOK
<1>6. /\ dundrained' \in Seq(Durable!Writes') /\ DOMAIN dundrained' = 1..(n + 1)
      /\ (\A i \in 1..n : dundrained'[i] = dundrained[i]) /\ dundrained'[n + 1] = w
  BY <1>0, <1>2, <1>5, OneMore
<1>7. \A i \in 1..n : dundrained[i] \in Durable!Writes
  BY <1>4, MembersOf
<1>8. \A i \in DOMAIN dready : dready[i] \subseteq Durable!Writes
  BY <1>4, MembersOf
<1>9. \A e \in KnownEvents : e.writes \subseteq Durable!Writes
  BY Members DEF Durable!Rec
<1> HIDE DEF n, w
<1>10. Durable!Range(dundrained') = Durable!Range(dundrained) \cup {w}
  <2>1. \A i : i \in 1..(n + 1) <=> i \in 1..n \/ i = n + 1
    BY <1>4
  <2> QED BY <2>1, <1>4, <1>6 DEF Durable!Range
<1>11. Pending' = Pending \cup {w} /\ w \notin UNION Durable!Range(dready) /\ w \notin Durable!Range(dundrained)
  <2>1. w \notin UNION Durable!Range(dready) /\ w \notin Durable!Range(dundrained)
    BY <1>2, <1>4, <1>7, <1>8 DEF Durable!Range
  <2> QED BY <1>0, <1>10, <2>1 DEF Pending
<1>12. \A e \in dnumbered : e.writes \cap Pending' = {}
  BY <1>2, <1>9, <1>11 DEF DurableInv, PendingInv, KnownEvents
<1>13. Durable!TypeOK'
  <2>1. /\ \A e \in dnumbered : e.writes \cap (Durable!Range(dundrained') \cup UNION Durable!Range(dready)) = {}
    BY <1>0, <1>12 DEF Pending
  <2>2. dstore' \subseteq Durable!Writes' /\ dview \subseteq Durable!Writes' /\ dlost \subseteq Durable!Writes'
    BY <1>0, <1>2 DEF DurableInv, Durable!TypeOK
  <2>3. {dhead, dlastKf, dwritten', dfaults, drestarts} \subseteq Nat
    BY <1>0, <1>2 DEF DurableInv, Durable!TypeOK
  <2> QED BY <1>0, <1>5, <1>6, <2>1, <2>2, <2>3 DEF DurableInv, Durable!TypeOK
<1>14. LogInv'
  BY <1>0, <1>1 DEF DurableInv, LogInv
<1>15. StoreInv'
  BY <1>0, <1>1, <1>11 DEF DurableInv, StoreInv, KnownWrite
<1>16. PendingInv'
  <2>1. \A i, j \in 1..(n + 1) : dundrained'[i] = dundrained'[j] => i = j
    <3>1. \A i, j \in 1..n : dundrained[i] = dundrained[j] => i = j
      BY <1>4 DEF DurableInv, PendingInv
    <3>2. \A i : i \in 1..(n + 1) <=> i \in 1..n \/ i = n + 1
      BY <1>4
    <3> QED BY <3>1, <3>2, <1>2, <1>6, <1>7
  <2>2. \A i \in DOMAIN dready : dready[i] \cap Durable!Range(dundrained') = {}
    BY <1>2, <1>8, <1>10 DEF DurableInv, PendingInv
  <2> QED BY <2>1, <2>2, <1>0, <1>6, <1>12 DEF DurableInv, PendingInv
<1>17. WireInv'
  BY <1>0, <1>1 DEF DurableInv, WireInv
<1> QED BY <1>13, <1>14, <1>15, <1>16, <1>17 DEF DurableInv

\* What the next event in the file is to everything that was there.
LEMMA Growing ==
  ASSUME DurableInv, dpc = "drain", dready # <<>>, NEW l2 \in Durable!Cuts(Append(dlog, Durable!Event(dhead + 1, Head(dready))))
  PROVE  LET e == Durable!Event(dhead + 1, Head(dready)) IN
         /\ e \in Durable!Rec /\ e.seq = dhead + 1 /\ e.kind = "event" /\ e.writes = dready[1] /\ Head(dready) = dready[1]
         /\ l2 \in Seq(Durable!Rec) /\ Steady(l2) /\ Top(l2) = dhead + 1 /\ l2[Len(l2)] = e
         /\ KeptEvents(l2) \subseteq dnumbered \cup {e} /\ e \in KeptEvents(l2)
         /\ dnumbered \cup KeptEvents(l2) = KnownEvents \cup {e} /\ KnownEvents = dnumbered
         /\ KeptFrames(l2) \subseteq KeptFrames(dlog)
         /\ \A d \in KnownEvents : d.seq <= dhead
         /\ \A k \in KeptFrames(dlog) : k.seq <= dhead /\ k.seq \in Nat
<1> DEFINE e == Durable!Event(dhead + 1, Head(dready))
           l1 == Append(dlog, e)
<1>1. dlog \in Seq(Durable!Rec) /\ Durable!Rec = RecOf(Durable!Writes) /\ dready \in Seq(SUBSET Durable!Writes) /\ dhead \in Nat /\ dnumbered \subseteq Durable!Rec
  BY DEF DurableInv, Durable!TypeOK, Durable!Rec, RecOf
<1>2. Head(dready) = dready[1] /\ dready[1] \in SUBSET Durable!Writes
  BY <1>1
<1>3. e \in Durable!Rec /\ e.seq = dhead + 1 /\ e.kind = "event" /\ e.writes = dready[1]
  BY <1>1, <1>2 DEF Durable!Event, Durable!Rec
<1>4. Steady(dlog) /\ Top(dlog) = dhead
  BY DEF DurableInv, LogInv
<1> HIDE DEF e
<1>5. /\ l1 \in Seq(Durable!Rec) /\ Steady(l1) /\ Top(l1) = dhead + 1 /\ l1[Len(l1)] = e
      /\ KeptEvents(l1) = KeptEvents(dlog) \cup {e} /\ KeptFrames(l1) = KeptFrames(dlog)
  <2>1. dlog \in Seq(RecOf(Durable!Writes)) /\ e \in RecOf(Durable!Writes) /\ (e.kind = "event" => e.seq = Top(dlog) + 1)
    BY <1>1, <1>3, <1>4
  <2>2. e.kind # "event" => e.seq = Top(dlog)
    BY <1>3
  <2> HIDE DEF l1
  <2>3. /\ Append(dlog, e) \in Seq(RecOf(Durable!Writes)) /\ Steady(Append(dlog, e)) /\ Top(Append(dlog, e)) = e.seq
        /\ Append(dlog, e)[Len(Append(dlog, e))] = e
        /\ KeptEvents(Append(dlog, e)) = KeptEvents(dlog) \cup {e} /\ KeptFrames(Append(dlog, e)) = KeptFrames(dlog)
    BY <2>1, <2>2, <1>3, <1>4, Added
  <2> QED BY <2>3, <1>1, <1>3 DEF l1
<1>6. l2 \in Durable!Cuts(l1)
  BY DEF e
<1> HIDE DEF l1
<1>7. /\ l2 \in Seq(Durable!Rec) /\ Steady(l2) /\ Top(l2) = dhead + 1 /\ l2[Len(l2)] = e
      /\ KeptEvents(l2) \subseteq KeptEvents(dlog) \cup {e} /\ e \in KeptEvents(l2) /\ KeptFrames(l2) \subseteq KeptFrames(dlog)
  BY <1>1, <1>3, <1>5, <1>6, Cutting
<1>8. KeptEvents(dlog) \subseteq dnumbered /\ \A d \in KnownEvents : d.seq <= dhead
  BY <1>1 DEF DurableInv, LogInv, KnownEvents
<1>9. \A k \in KeptFrames(dlog) : k.seq <= dhead /\ k.seq \in Nat
  <2>1. \A k \in KeptFrames(dlog) : k.seq \in Nat
    BY Members DEF Durable!Rec
  <2> QED BY <2>1, <1>4 DEF DurableInv, LogInv
<1> QED BY <1>2, <1>3, <1>7, <1>8, <1>9 DEF e, KnownEvents

\* An event is in the file.
LEMMA Persisting ==
  ASSUME DurableInv, Durable!Persist
  PROVE  DurableInv'
<1> DEFINE e == Durable!Event(dhead + 1, Head(dready))
<1>0. /\ dpc = "drain" /\ dready # <<>> /\ dpc' = "persisted" /\ dlog' \in Durable!Cuts(Append(dlog, e))
      /\ UNCHANGED <<dstore, dundrained, dready, dhead, dlastKf, dwhy, dlast, dview, dlink, dwire, dwritten, dlost, dnumbered,
                     dfaults, drestarts>>
  BY DEF Durable!Persist, Durable!mirrorVars, Durable!ghostVars
<1>1. /\ e \in Durable!Rec /\ e.seq = dhead + 1 /\ e.kind = "event" /\ e.writes = dready[1] /\ Head(dready) = dready[1]
      /\ dlog' \in Seq(Durable!Rec) /\ Steady(dlog') /\ Top(dlog') = dhead + 1 /\ dlog'[Len(dlog')] = e
      /\ KeptEvents(dlog') \subseteq dnumbered \cup {e} /\ e \in KeptEvents(dlog')
      /\ dnumbered \cup KeptEvents(dlog') = KnownEvents \cup {e} /\ KnownEvents = dnumbered
      /\ KeptFrames(dlog') \subseteq KeptFrames(dlog)
      /\ \A d \in KnownEvents : d.seq <= dhead
      /\ \A k \in KeptFrames(dlog) : k.seq <= dhead /\ k.seq \in Nat
  BY <1>0, Growing
<1>e. e = Durable!Event(dhead + 1, dready[1])
  BY <1>1
<1> HIDE DEF e
<1>2. KnownEvents' = KnownEvents \cup {e} /\ Pending' = Pending /\ Durable!Rec' = Durable!Rec /\ Durable!Writes' = Durable!Writes
  BY <1>0, <1>1 DEF KnownEvents, Pending, Durable!Rec, Durable!Writes
<1>3. Durable!TypeOK'
  BY <1>0, <1>1, <1>2 DEF DurableInv, Durable!TypeOK
<1>4. dhead \in Nat /\ dlast <= dhead /\ dlast \in Int
  BY <1>0 DEF DurableInv, WireInv, Durable!TypeOK
<1>5. LogInv'
  <2>1. \A d, x \in KnownEvents' : d.seq = x.seq => d = x
    <3>1. \A d, x \in KnownEvents : d.seq = x.seq => d = x
      BY DEF DurableInv, LogInv
    <3>2. \A d \in KnownEvents : d.seq # e.seq
      BY <1>1, <1>4, <1>0 DEF DurableInv, LogInv
    <3> QED BY <3>1, <3>2, <1>2
  <2>2. \A d \in KnownEvents' : d.kind = "event" /\ d.seq \in 1..(dhead + 1)
    <3>1. \A d \in KnownEvents : d.kind = "event" /\ d.seq \in 1..dhead
      BY <1>0 DEF DurableInv, LogInv
    <3> QED BY <3>1, <1>1, <1>2, <1>4
  <2>3. \A d \in KnownEvents', k \in KeptFrames(dlog') : d.seq <= k.seq => d.writes \subseteq k.writes
    <3>1. \A d \in KnownEvents, k \in KeptFrames(dlog) : d.seq <= k.seq => d.writes \subseteq k.writes
      BY DEF DurableInv, LogInv
    <3>2. \A k \in KeptFrames(dlog) : ~(e.seq <= k.seq)
      BY <1>1, <1>4
    <3> QED BY <3>1, <3>2, <1>1, <1>2
  <2>4. \A d \in KeptEvents(dlog') : d.seq <= dhead => d \in dnumbered
    BY <1>1, <1>4
  <2>5. \A k \in KeptFrames(dlog') : k.seq <= dhead + 1
    BY <1>1, <1>4
  <2>6. dlog'[Len(dlog')] = Durable!Event(dhead + 1, dready[1])
    BY <1>1, <1>e
  <2> QED BY <1>0, <1>1, <2>1, <2>2, <2>3, <2>4, <2>5, <2>6 DEF LogInv
<1>6. StoreInv'
  <2>1. e.writes \subseteq dstore
    <3>1. dready[1] \in Durable!Range(dready)
      BY <1>0 DEF DurableInv, Durable!TypeOK, Durable!Range
    <3>2. dready[1] \subseteq Pending /\ Pending \subseteq dstore
      BY <1>0, <3>1 DEF DurableInv, StoreInv, Pending
    <3> QED BY <1>1, <3>2
  <2>2. \A w : KnownWrite(w) => KnownWrite(w)'
    BY <1>2 DEF KnownWrite
  <2> QED BY <1>0, <1>1, <1>2, <2>1, <2>2 DEF DurableInv, StoreInv
<1>7. PendingInv'
  BY <1>0, <1>2 DEF DurableInv, PendingInv
<1>8. WireInv'
  <2>1. ~(e.seq <= dlast)
    BY <1>1, <1>4
  <2>2. dlast <= IF dpc' = "down" THEN Top(dlog)' ELSE dhead
    BY <1>0, <1>4
  <2> QED BY <1>0, <1>2, <2>1, <2>2 DEF DurableInv, WireInv
<1> QED BY <1>3, <1>5, <1>6, <1>7, <1>8 DEF DurableInv

\* It has its number and is published.
LEMMA Committing ==
  ASSUME DurableInv, Durable!Commit
  PROVE  DurableInv'
<1> DEFINE e == Durable!Event(dhead + 1, Head(dready))
           n == Len(dready)
           m == Len(dwire)
<1>0. /\ dpc = "persisted" /\ dpc' = "drain" /\ dhead' = dhead + 1 /\ dready' = Tail(dready)
      /\ dwire' = (IF dlink = "off" THEN dwire ELSE Append(dwire, e)) /\ dnumbered' = dnumbered \cup {e}
      /\ UNCHANGED <<dlog, dstore, dundrained, dlastKf, dwhy, dlast, dview, dlink, dwritten, dlost, dfaults, drestarts>>
  BY DEF Durable!Commit
<1>1. /\ dready # <<>> /\ dready \in Seq(SUBSET Durable!Writes) /\ dhead \in Nat /\ dwire \in Seq(Durable!Rec) /\ dlog \in Seq(Durable!Rec)
      /\ dnumbered \subseteq Durable!Rec
  BY <1>0 DEF DurableInv, Durable!TypeOK, LogInv
<1>2. /\ n \in Nat /\ n >= 1 /\ DOMAIN dready = 1..n /\ Head(dready) = dready[1]
      /\ dready' \in Seq(SUBSET Durable!Writes) /\ DOMAIN dready' = 1..(n - 1) /\ \A i \in 1..(n - 1) : dready'[i] = dready[i + 1]
  BY <1>0, <1>1
<1>3. m \in Nat /\ DOMAIN dwire = 1..m
  BY <1>1, MembersOf
<1>4. e.seq = dhead + 1 /\ e.kind = "event" /\ e.writes = dready[1] /\ e = dlog[Len(dlog)] /\ Len(dlog) \in DOMAIN dlog
      /\ Top(dlog) = dhead + 1 /\ Steady(dlog)
  BY <1>0, <1>1, <1>2 DEF DurableInv, LogInv, Durable!Event, Steady
<1> HIDE DEF e, n, m
<1>5. e \in KeptEvents(dlog) /\ e \in Durable!Rec
  BY <1>1, <1>4 DEF KeptEvents, EventPlaces
<1>6. KnownEvents' = KnownEvents /\ Durable!Rec' = Durable!Rec /\ Durable!Writes' = Durable!Writes /\ e \in KnownEvents
  BY <1>0, <1>5 DEF KnownEvents, Durable!Rec, Durable!Writes
<1>7. /\ Top(dlog)' = dhead + 1 /\ KeptEvents(dlog)' = KeptEvents(dlog) /\ KeptFrames(dlog)' = KeptFrames(dlog) /\ Steady(dlog)' = Steady(dlog)
  BY <1>0, <1>4 DEF KeptEvents, EventPlaces, Top, KeptFrames, Durable!Keyframes, Steady
<1>8. Durable!Range(dready') \subseteq Durable!Range(dready) /\ 1 \in 1..n
  BY <1>2 DEF Durable!Range
<1>9. Pending' \subseteq Pending /\ Pending \subseteq Pending' \cup dready[1] /\ dready[1] \subseteq Pending
  <2>1. Durable!Range(dready) \subseteq Durable!Range(dready') \cup {dready[1]}
    <3> SUFFICES ASSUME NEW i \in 1..n, i # 1 PROVE dready[i] \in Durable!Range(dready')
      BY <1>2 DEF Durable!Range
    <3>1. i - 1 \in 1..(n - 1) /\ (i - 1) + 1 = i
      BY <1>2
    <3>2. dready'[i - 1] = dready[i]
      BY <3>1, <1>2
    <3> QED BY <3>1, <3>2, <1>2 DEF Durable!Range
  <2>2. dready[1] \in Durable!Range(dready)
    BY <1>2, <1>8 DEF Durable!Range
  <2> QED BY <1>0, <1>8, <2>1, <2>2 DEF Pending
<1>10. dready[1] \cap Pending' = {}
  <2>1. dready[1] \cap Durable!Range(dundrained) = {}
    BY <1>2, <1>8 DEF DurableInv, PendingInv
  <2>2. \A i \in 1..(n - 1) : dready[1] \cap dready'[i] = {}
    <3> SUFFICES ASSUME NEW i \in 1..(n - 1) PROVE dready[1] \cap dready'[i] = {}
      OBVIOUS
    <3>1. i + 1 \in 1..n /\ i + 1 # 1
      BY <1>2
    <3> QED BY <3>1, <1>2, <1>8 DEF DurableInv, PendingInv
  <2> QED BY <2>1, <2>2, <1>0, <1>2 DEF Pending, Durable!Range
<1>11. \A d \in dnumbered' : d.writes \cap Pending' = {}
  BY <1>0, <1>4, <1>9, <1>10 DEF DurableInv, PendingInv
<1>12. /\ dwire' \in Seq(Durable!Rec)
       /\ dlink = "off" => dwire' = dwire
       /\ dlink # "off" => /\ DOMAIN dwire' = 1..(m + 1) /\ dwire'[m + 1] = e
                          /\ \A i \in 1..m : dwire'[i] = dwire[i]
  <2>1. /\ Append(dwire, e) \in Seq(Durable!Rec) /\ DOMAIN Append(dwire, e) = 1..(m + 1)
        /\ \A i \in 1..m : Append(dwire, e)[i] = dwire[i]
        /\ Append(dwire, e)[m + 1] = e
    BY <1>1, <1>5, OneMore DEF m
  <2> QED BY <2>1, <1>0, <1>1
<1>13. Durable!TypeOK'
  <2>1. \A d \in dnumbered' : d.writes \cap (Durable!Range(dundrained) \cup UNION Durable!Range(dready')) = {}
    BY <1>0, <1>11 DEF Pending
  <2>2. {dhead', dlastKf, dwritten, dfaults, drestarts} \subseteq Nat
    BY <1>0, <1>1 DEF DurableInv, Durable!TypeOK
  <2>3. dnumbered' \subseteq Durable!Rec
    BY <1>0, <1>1, <1>5
  <2> QED BY <1>0, <1>2, <1>6, <1>12, <2>1, <2>2, <2>3 DEF DurableInv, Durable!TypeOK
<1>14. LogInv'
  <2>1. \A d \in KeptEvents(dlog) : d.seq <= dhead + 1 => d \in dnumbered'
    <3> SUFFICES ASSUME NEW d \in KeptEvents(dlog), d.seq <= dhead + 1 PROVE d \in dnumbered'
      OBVIOUS
    <3>1. d.seq \in Nat
      BY Members DEF KnownEvents, Durable!Rec
    <3>2. CASE d.seq <= dhead
      BY <3>2, <1>0 DEF DurableInv, LogInv
    <3>3. CASE ~(d.seq <= dhead)
      <4>1. d.seq = e.seq
        BY <3>1, <3>3, <1>1, <1>4
      <4>2. d = e
        BY <4>1, <1>6 DEF DurableInv, LogInv, KnownEvents
      <4> QED BY <4>2, <1>0
    <3> QED BY <3>2, <3>3
  <2>2. \A d \in dnumbered' : d.seq <= dhead + 1
    BY <1>0, <1>1, <1>4 DEF DurableInv, LogInv, KnownEvents
  <2>3. \A d \in KnownEvents : d.kind = "event" /\ d.seq \in 1..(dhead + 1)
    BY <1>4 DEF DurableInv, LogInv
  <2>4. \A k \in KeptFrames(dlog) : k.seq <= dhead + 1
    BY <1>4 DEF DurableInv, LogInv
  <2> QED BY <1>0, <1>4, <1>6, <1>7, <2>1, <2>2, <2>3, <2>4 DEF DurableInv, LogInv
<1>15. StoreInv'
  <2>1. \A w \in dready[1] : KnownWrite(w)
    BY <1>4, <1>6 DEF KnownWrite
  <2>2. \A w : KnownWrite(w)' <=> KnownWrite(w)
    BY <1>6 DEF KnownWrite
  <2> QED BY <1>0, <1>6, <1>7, <1>9, <2>1, <2>2 DEF DurableInv, StoreInv
<1>16. PendingInv'
  <2>1. \A i, j \in DOMAIN dready' : i # j => dready'[i] \cap dready'[j] = {}
    <3> SUFFICES ASSUME NEW i \in 1..(n - 1), NEW j \in 1..(n - 1), i # j PROVE dready'[i] \cap dready'[j] = {}
      BY <1>2
    <3>1. i + 1 \in 1..n /\ j + 1 \in 1..n /\ i + 1 # j + 1
      BY <1>2
    <3> QED BY <3>1, <1>2 DEF DurableInv, PendingInv
  <2>2. \A i \in DOMAIN dready' : dready'[i] \cap Durable!Range(dundrained) = {}
    <3> SUFFICES ASSUME NEW i \in 1..(n - 1) PROVE dready'[i] \cap Durable!Range(dundrained) = {}
      BY <1>2
    <3>1. i + 1 \in 1..n
      BY <1>2
    <3> QED BY <3>1, <1>2 DEF DurableInv, PendingInv
  <2> QED BY <2>1, <2>2, <1>0, <1>11 DEF DurableInv, PendingInv
<1>17. WireInv'
  <2>1. dlast <= dhead + 1 /\ dlast \in Int
    BY <1>0, <1>1 DEF DurableInv, WireInv, Durable!TypeOK
  <2>2. /\ \A i \in 1..m : dwire[i] \in dnumbered /\ dwire[i].seq <= dhead /\ dwire[i].seq \in Nat
        /\ \A i, j \in 1..m : i < j => dwire[i].seq < dwire[j].seq
    <3>1. \A i \in 1..m : dwire[i].seq \in Nat
      BY <1>3, Members DEF Durable!Rec
    <3> QED BY <3>1, <1>3 DEF DurableInv, WireInv
  <2>3. \A d \in KnownEvents : d.seq <= dlast => d.writes \subseteq dview
    BY DEF DurableInv, WireInv
  <2>4. \A i \in DOMAIN dwire' : dwire'[i] \in dnumbered' /\ dwire'[i].seq <= dhead + 1
    <3> SUFFICES ASSUME NEW i \in DOMAIN dwire' PROVE dwire'[i] \in dnumbered' /\ dwire'[i].seq <= dhead + 1
      OBVIOUS
    <3>1. CASE i \in 1..m /\ dwire'[i] = dwire[i]
      BY <3>1, <2>2, <1>0, <1>1
    <3>2. CASE dwire'[i] = e
      BY <3>2, <1>0, <1>1, <1>4
    <3>3. i \in 1..m \/ i = m + 1
      BY <1>3, <1>12
    <3> QED BY <3>1, <3>2, <3>3, <1>3, <1>12
  <2>5. \A i, j \in DOMAIN dwire' : i < j => dwire'[i].seq < dwire'[j].seq
    <3> SUFFICES ASSUME NEW i \in DOMAIN dwire', NEW j \in DOMAIN dwire', i < j PROVE dwire'[i].seq < dwire'[j].seq
      OBVIOUS
    <3>1. CASE dlink = "off"
      BY <3>1, <2>2, <1>3, <1>12
    <3>2. CASE dlink # "off" /\ j = m + 1
      <4>1. i \in 1..m /\ dwire'[i] = dwire[i] /\ dwire'[j] = e
        BY <3>2, <1>3, <1>12
      <4>2. dwire[i].seq <= dhead /\ dwire[i].seq \in Nat
        BY <4>1, <2>2
      <4>3. dwire[i].seq < dhead + 1
        BY <4>2, <1>1
      <4> QED BY <4>1, <4>3, <1>4
    <3>3. CASE dlink # "off" /\ j # m + 1
      <4>1. i \in 1..m /\ j \in 1..m /\ dwire'[i] = dwire[i] /\ dwire'[j] = dwire[j]
        BY <3>3, <1>3, <1>12
      <4> QED BY <4>1, <2>2
    <3> QED BY <3>1, <3>2, <3>3
  <2>6. dlink = "live" => \A k \in (dlast + 1)..(dhead + 1) : \E i \in DOMAIN dwire' : dwire'[i].seq = k
    <3> SUFFICES ASSUME dlink = "live", NEW k \in (dlast + 1)..(dhead + 1) PROVE \E i \in DOMAIN dwire' : dwire'[i].seq = k
      OBVIOUS
    <3>1. CASE k = dhead + 1
      <4>1. m + 1 \in DOMAIN dwire' /\ dwire'[m + 1] = e
        BY <1>3, <1>12
      <4> QED BY <4>1, <3>1, <1>4
    <3>2. CASE k # dhead + 1
      <4>1. k \in (dlast + 1)..dhead
        BY <3>2, <2>1, <1>1
      <4>2. PICK i \in 1..m : dwire[i].seq = k
        BY <4>1, <1>3 DEF DurableInv, WireInv
      <4>3. i \in DOMAIN dwire' /\ dwire'[i] = dwire[i]
        BY <1>3, <1>12
      <4> QED BY <4>2, <4>3
    <3> QED BY <3>1, <3>2
  <2>7. dlink = "off" => dwire' = <<>>
    BY <1>12 DEF DurableInv, WireInv
  <2>8. dlast <= IF dpc' = "down" THEN Top(dlog)' ELSE dhead'
    BY <2>1, <1>0
  <2> QED BY <1>0, <1>6, <2>3, <2>4, <2>5, <2>6, <2>7, <2>8 DEF WireInv
<1> QED BY <1>13, <1>14, <1>15, <1>16, <1>17 DEF DurableInv

\* A log with a keyframe.
LEMMA AddedFrame ==
  ASSUME NEW W, NEW l \in Seq(RecOf(W)), Steady(l), NEW k \in RecOf(W), k.kind = "keyframe", k.seq = Top(l)
  PROVE  /\ Append(l, k) \in Seq(RecOf(W)) /\ Steady(Append(l, k)) /\ Top(Append(l, k)) = Top(l)
         /\ KeptEvents(Append(l, k)) = KeptEvents(l) /\ KeptFrames(Append(l, k)) = KeptFrames(l) \cup {k}
<1>1. (k.kind = "event" => k.seq = Top(l) + 1) /\ k.kind # "event" /\ (k.kind # "event" => k.seq = Top(l))
  OBVIOUS
<1> QED BY <1>1, Added

\* A log with a keyframe that was then perhaps cut.
LEMMA Framing ==
  ASSUME NEW W, NEW l \in Seq(RecOf(W)), Steady(l), NEW S \in SUBSET W,
         NEW l2 \in Durable!Cuts(Append(l, Durable!Keyframe(Top(l), S)))
  PROVE  /\ l2 \in Seq(RecOf(W)) /\ Steady(l2) /\ Top(l2) = Top(l) /\ Top(l) \in Nat
         /\ KeptEvents(l2) \subseteq KeptEvents(l) /\ KeptFrames(l2) \subseteq KeptFrames(l) \cup {Durable!Keyframe(Top(l), S)}
<1> DEFINE k == Durable!Keyframe(Top(l), S)
           l1 == Append(l, k)
<1>1. Top(l) \in Nat
  <2>1. Len(l) \in Nat /\ Len(l) > 0 /\ \A i \in 1..Len(l) : l[i] \in RecOf(W)
    BY MembersOf DEF Steady
  <2>2. Len(l) \in 1..Len(l)
    BY <2>1
  <2> QED BY <2>1, <2>2 DEF Top, RecOf
<1>2. k \in RecOf(W) /\ k.kind = "keyframe" /\ k.seq = Top(l)
  BY <1>1 DEF Durable!Keyframe, RecOf
<1> HIDE DEF k
<1> HIDE DEF l1
<1>5. l1 \in Seq(RecOf(W)) /\ Steady(l1) /\ Top(l1) = Top(l) /\ KeptEvents(l1) = KeptEvents(l) /\ KeptFrames(l1) = KeptFrames(l) \cup {k}
  BY <1>2, AddedFrame DEF l1
<1>6. l2 \in Durable!Cuts(l1)
  BY DEF k, l1
<1> HIDE DEF l1
<1>7. l2 \in Seq(RecOf(W)) /\ Steady(l2) /\ Top(l2) = Top(l1) /\ KeptEvents(l2) \subseteq KeptEvents(l1) /\ KeptFrames(l2) \subseteq KeptFrames(l1)
  BY <1>5, <1>6, Cutting
<1> QED BY <1>1, <1>5, <1>7 DEF k

\* A keyframe is archived, or is not.
LEMMA Archiving ==
  ASSUME DurableInv, Durable!TakeKeyframe \/ Durable!KeyframeFails
  PROVE  DurableInv'
<1>0. /\ dpc = "cadence" /\ dpc' = "rest"
      /\ UNCHANGED <<dstore, dundrained, dready, dhead, dwhy, dlast, dview, dlink, dwire, dwritten, dlost, dnumbered, drestarts>>
      /\ dlog' = dlog \/ dlog' \in Durable!Cuts(Append(dlog, Durable!Keyframe(dhead, dstore)))
      /\ dlastKf' \in {dlastKf, dhead} /\ dfaults' \in {dfaults, dfaults + 1}
  <2>1. CASE Durable!TakeKeyframe
    BY <2>1 DEF Durable!TakeKeyframe, Durable!mirrorVars, Durable!ghostVars
  <2>2. CASE Durable!KeyframeFails
    <3>1. dlog' = dlog \/ dlog' = Append(dlog, Durable!Keyframe(dhead, dstore))
      BY <2>2 DEF Durable!KeyframeFails
    <3>2. Append(dlog, Durable!Keyframe(dhead, dstore)) \in Durable!Cuts(Append(dlog, Durable!Keyframe(dhead, dstore)))
      BY DEF Durable!Cuts
    <3> QED BY <2>2, <3>1, <3>2 DEF Durable!KeyframeFails, Durable!mirrorVars, Durable!ghostVars
  <2> QED BY <2>1, <2>2
<1> DEFINE k == Durable!Keyframe(dhead, dstore)
<1>1. /\ dlog \in Seq(Durable!Rec) /\ Durable!Rec = RecOf(Durable!Writes) /\ Steady(dlog) /\ Top(dlog) = dhead /\ dstore \in SUBSET Durable!Writes
      /\ dhead \in Nat
  BY <1>0 DEF DurableInv, Durable!TypeOK, Durable!Rec, RecOf, LogInv
<1>k. k.seq = dhead /\ k.writes = dstore
  BY DEF Durable!Keyframe
<1> HIDE DEF k
<1>2. /\ dlog' \in Seq(Durable!Rec) /\ Steady(dlog') /\ Top(dlog') = dhead
      /\ KeptEvents(dlog') \subseteq KeptEvents(dlog) /\ KeptFrames(dlog') \subseteq KeptFrames(dlog) \cup {k}
  <2>1. CASE dlog' = dlog
    BY <2>1, <1>1
  <2>2. CASE dlog' \in Durable!Cuts(Append(dlog, Durable!Keyframe(dhead, dstore)))
    BY <2>2, <1>1, Framing DEF k
  <2> QED BY <1>0, <2>1, <2>2
<1>3. KeptEvents(dlog) \subseteq dnumbered /\ (\A e \in KnownEvents : e.seq \in 1..dhead) /\ (\A e \in KnownEvents : e.writes \subseteq dstore)
      /\ \A f \in KeptFrames(dlog) : f.seq <= dhead
  <2>1. \A e \in KnownEvents : e.seq \in 1..dhead
    BY <1>0, <1>1 DEF DurableInv, LogInv
  <2> QED BY <1>0, <1>1, <2>1 DEF DurableInv, LogInv, StoreInv, KnownEvents
<1>4. KnownEvents' = KnownEvents /\ KnownEvents = dnumbered /\ Pending' = Pending /\ Durable!Rec' = Durable!Rec /\ Durable!Writes' = Durable!Writes
  BY <1>0, <1>2, <1>3 DEF KnownEvents, Pending, Durable!Rec, Durable!Writes
<1>5. Durable!TypeOK'
  <2>1. {dhead, dlastKf', dwritten, dfaults', drestarts} \subseteq Nat
    BY <1>0, <1>1 DEF DurableInv, Durable!TypeOK
  <2> QED BY <1>0, <1>2, <1>4, <2>1 DEF DurableInv, Durable!TypeOK
<1>6. LogInv'
  <2>1. \A d \in KnownEvents, f \in KeptFrames(dlog') : d.seq <= f.seq => d.writes \subseteq f.writes
    BY <1>2, <1>3, <1>k DEF DurableInv, LogInv
  <2>2. \A f \in KeptFrames(dlog') : f.seq <= dhead
    BY <1>1, <1>2, <1>3, <1>k
  <2>3. \A e \in KeptEvents(dlog') : e \in dnumbered
    BY <1>2, <1>3
  <2>4. \A e \in KnownEvents : e.kind = "event"
    BY DEF DurableInv, LogInv
  <2>5. \A e \in dnumbered : e.seq <= dhead
    BY <1>1, <1>3, <1>4
  <2>6. \A d, e \in KnownEvents : d.seq = e.seq => d = e
    BY DEF DurableInv, LogInv
  <2> QED BY <1>0, <1>2, <1>3, <1>4, <2>1, <2>2, <2>3, <2>4, <2>5, <2>6 DEF LogInv
<1>7. StoreInv'
  <2>1. \A w : KnownWrite(w)' <=> KnownWrite(w)
    BY <1>4 DEF KnownWrite
  <2>2. \A f \in KeptFrames(dlog') : \A w \in f.writes : w \in dlost \/ KnownWrite(w) \/ w \in Pending
    BY <1>2, <1>k DEF DurableInv, StoreInv
  <2> QED BY <1>0, <1>4, <2>1, <2>2 DEF DurableInv, StoreInv
<1>8. PendingInv'
  BY <1>0, <1>4 DEF DurableInv, PendingInv
<1>9. WireInv'
  BY <1>0, <1>4 DEF DurableInv, WireInv
<1> QED BY <1>5, <1>6, <1>7, <1>8, <1>9 DEF DurableInv

\* The mirror is answered.
LEMMA Answering ==
  ASSUME DurableInv, Durable!Answer
  PROVE  DurableInv'
<1>0. /\ dpc = "drain" /\ dpc' = "rest" /\ dlink' = "live" /\ dlast' = dhead
      /\ UNCHANGED <<dlog, dstore, dundrained, dready, dhead, dlastKf, dwhy, dwire, dwritten, dlost, dnumbered, dfaults, drestarts>>
  BY DEF Durable!Answer, Durable!ghostVars
<1>1. /\ dlog \in Seq(Durable!Rec) /\ Steady(dlog) /\ Top(dlog) = dhead /\ dhead \in Nat /\ dlast \in Int /\ dlast <= dhead
      /\ Len(dlog) \in Nat /\ DOMAIN dlog = 1..Len(dlog) /\ Len(dlog) > 0
  BY <1>0, MembersOf DEF DurableInv, Durable!TypeOK, LogInv, WireInv, Steady
<1>2. /\ (\A e \in KnownEvents : e.seq \in 1..dhead /\ e.kind = "event" /\ e.writes \subseteq dstore)
      /\ (\A d, e \in KnownEvents : d.seq = e.seq => d = e)
      /\ \A e \in KnownEvents : e.seq <= dlast => e.writes \subseteq dview
  BY <1>0, <1>1 DEF DurableInv, LogInv, StoreInv, WireInv
<1>3. dview' = dview \/ dview' = dstore
      \/ (dlast \in 0..(dhead - 1) /\ Durable!Since(dlast) # {} /\ dview' = dview \cup UNION {e.writes : e \in Durable!Since(dlast)})
  BY DEF Durable!Answer
<1>5. /\ \A e \in KnownEvents : e.seq <= dhead => e.writes \subseteq dview'
      /\ dview' \subseteq dview \cup dstore
  <2>1. CASE dlast = dhead
    <3>1. dview' = dview
      BY <2>1 DEF Durable!Answer
    <3> QED BY <3>1, <2>1, <1>2
  <2>2. CASE dlast # dhead /\ ~(dlast \in 0..(dhead - 1) /\ Durable!Since(dlast) # {})
    <3>1. dview' = dstore
      BY <2>2 DEF Durable!Answer
    <3> QED BY <3>1, <1>2
  <2>3. CASE dlast # dhead /\ dlast \in 0..(dhead - 1) /\ Durable!Since(dlast) # {}
    <3>1. dview' = dview \cup UNION {e.writes : e \in Durable!Since(dlast)}
      BY <2>3 DEF Durable!Answer
    <3> DEFINE tail == Durable!Later(dlog, dlast)
    <3>2. Durable!Since(dlast) = {dlog[i] : i \in tail} /\ \E i \in tail : dlog[i].seq = dlast + 1
      BY <2>3 DEF Durable!Since
    <3>3. \A i \in tail : i \in DOMAIN dlog /\ dlog[i].kind = "event" /\ dlog[i] \in KnownEvents
      BY DEF Durable!Later, KnownEvents, KeptEvents, EventPlaces
    <3>4. PICK a \in tail : dlog[a].seq = dlast + 1
      BY <3>2
    <3>5. dlog[1].seq <= dlast /\ dlog[1].seq \in Nat
      <4>1. a \in 1..Len(dlog) /\ dlog[1].kind = "keyframe" /\ 1 \in DOMAIN dlog
        BY <1>1, <3>3 DEF Steady
      <4>2. 1 < a
        BY <4>1, <3>3, <1>1
      <4>3. dlog[1].seq < dlog[a].seq
        BY <4>1, <4>2, <3>3, <1>1 DEF Steady, EventPlaces
      <4>4. dlog[1].seq \in Nat
        <5>1. dlog[1] \in Durable!Rec
          BY <4>1, <1>1, MembersOf
        <5> QED BY <5>1 DEF Durable!Rec
      <4> QED BY <4>3, <4>4, <3>4, <1>1
    <3> HIDE DEF tail
    <3>6. ASSUME NEW e \in KnownEvents, ~(e.seq <= dlast) PROVE e.writes \subseteq dview'
      <4>1. e.seq \in (dlog[1].seq + 1)..Top(dlog) /\ e.seq > dlast
        BY <3>5, <3>6, <1>1, <1>2
      <4>2. PICK j \in EventPlaces(dlog) : dlog[j].seq = e.seq
        BY <4>1, <1>1 DEF Steady
      <4>3. j \in tail
        BY <4>1, <4>2 DEF tail, Durable!Later, EventPlaces
      <4>4. dlog[j] = e
        BY <4>2, <4>3, <3>3, <1>2
      <4> QED BY <4>3, <4>4, <3>1, <3>2
    <3>7. \A x \in Durable!Since(dlast) : x.writes \subseteq dstore
      BY <3>2, <3>3, <1>2
    <3> QED BY <3>1, <3>6, <3>7, <1>2
  <2> QED BY <2>1, <2>2, <2>3
<1>6. /\ KnownEvents' = KnownEvents /\ Pending' = Pending /\ Durable!Rec' = Durable!Rec /\ Durable!Writes' = Durable!Writes
      /\ KeptEvents(dlog)' = KeptEvents(dlog) /\ KeptFrames(dlog)' = KeptFrames(dlog) /\ Steady(dlog)' = Steady(dlog) /\ Top(dlog)' = Top(dlog)
  BY <1>0 DEF KnownEvents, Pending, KeptEvents, EventPlaces, Durable!Rec, Durable!Writes, KeptFrames, Durable!Keyframes, Steady, Top
<1>7. Durable!TypeOK'
  <2>1. dview' \subseteq Durable!Writes /\ dlast' \in Nat
    BY <1>0, <1>1, <1>5 DEF DurableInv, Durable!TypeOK
  <2> QED BY <1>0, <1>6, <2>1 DEF DurableInv, Durable!TypeOK
<1>8. LogInv'
  BY <1>0, <1>6 DEF DurableInv, LogInv
<1>9. StoreInv'
  <2>1. \A w : KnownWrite(w)' <=> KnownWrite(w)
    BY <1>6 DEF KnownWrite
  <2>2. \A w \in dview' : w \in dlost \/ KnownWrite(w) \/ w \in Pending
    BY <1>5 DEF DurableInv, StoreInv
  <2> QED BY <1>0, <1>6, <2>1, <2>2 DEF DurableInv, StoreInv
<1>10. PendingInv'
  BY <1>0, <1>6 DEF DurableInv, PendingInv
<1>11. WireInv'
  <2>1. (dlast' + 1)..dhead = {}
    BY <1>0, <1>1
  <2>2. dlast' <= dhead /\ \A e \in KnownEvents : e.seq <= dlast' => e.writes \subseteq dview'
    BY <1>0, <1>1, <1>5
  <2> QED BY <1>0, <1>6, <2>1, <2>2 DEF DurableInv, WireInv
<1> QED BY <1>7, <1>8, <1>9, <1>10, <1>11 DEF DurableInv

\* The mirror takes the next event.
LEMMA Delivering ==
  ASSUME DurableInv, Durable!Deliver
  PROVE  DurableInv'
<1> DEFINE h == Head(dwire)
           m == Len(dwire)
<1>0. /\ dlink = "live" /\ dwire # <<>> /\ dwire' = Tail(dwire)
      /\ UNCHANGED <<dlog, dstore, dundrained, dready, dhead, dlastKf, dpc, dwhy, dlink, dwritten, dlost, dnumbered, dfaults,
                     drestarts>>
  BY DEF Durable!Deliver, Durable!lineVars, Durable!ghostVars
<1>1. dwire \in Seq(Durable!Rec) /\ dhead \in Nat /\ dlast \in Int /\ dpc # "down" /\ dlast <= dhead
  BY <1>0 DEF DurableInv, Durable!TypeOK, StoreInv, WireInv
<1>2. /\ m \in Nat /\ m >= 1 /\ DOMAIN dwire = 1..m /\ h = dwire[1]
      /\ dwire' \in Seq(Durable!Rec) /\ DOMAIN dwire' = 1..(m - 1) /\ \A i \in 1..(m - 1) : dwire'[i] = dwire[i + 1]
  BY <1>0, <1>1
<1>3. 1 \in 1..m /\ \A i \in 1..m : dwire[i].seq \in Nat
  BY <1>2, Members DEF Durable!Rec
<1>4. /\ \A i \in 1..m : dwire[i] \in dnumbered /\ dwire[i].seq <= dhead
      /\ \A i, j \in 1..m : i < j => dwire[i].seq < dwire[j].seq
      /\ \A n \in (dlast + 1)..dhead : \E i \in 1..m : dwire[i].seq = n
  BY <1>0, <1>2 DEF DurableInv, WireInv
<1>5. h \in KnownEvents /\ h.seq \in Nat /\ h.seq <= dhead /\ h \in Durable!Rec
  BY <1>1, <1>2, <1>3, <1>4, Members DEF KnownEvents
<1>6. \/ h.seq > dlast /\ dlast' = h.seq /\ dview' = dview \cup h.writes
      \/ ~(h.seq > dlast) /\ dlast' = dlast /\ dview' = dview
  BY DEF Durable!Deliver
<1>7. h.seq > dlast => h.seq = dlast + 1
  <2> SUFFICES ASSUME h.seq > dlast PROVE h.seq = dlast + 1
    OBVIOUS
  <2>1. dlast + 1 \in (dlast + 1)..dhead /\ dlast + 1 <= h.seq
    BY <1>1, <1>5
  <2>2. PICK i \in 1..m : dwire[i].seq = dlast + 1
    BY <2>1, <1>4
  <2>3. CASE i = 1
    BY <2>2, <2>3, <1>2
  <2>4. CASE i # 1
    <3>1. 1 < i
      BY <2>4, <1>2
    <3>2. dwire[1].seq < dwire[i].seq
      BY <3>1, <1>3, <1>4
    <3> QED BY <3>2, <2>1, <2>2, <1>1, <1>2, <1>5
  <2> QED BY <2>3, <2>4
<1> HIDE DEF h, m
<1>8. /\ KnownEvents' = KnownEvents /\ Pending' = Pending /\ Durable!Rec' = Durable!Rec /\ Durable!Writes' = Durable!Writes
      /\ KeptEvents(dlog)' = KeptEvents(dlog) /\ KeptFrames(dlog)' = KeptFrames(dlog) /\ Steady(dlog)' = Steady(dlog) /\ Top(dlog)' = Top(dlog)
  BY <1>0 DEF KnownEvents, Pending, KeptEvents, EventPlaces, Durable!Rec, Durable!Writes, KeptFrames, Durable!Keyframes, Steady, Top
<1>9. /\ dlast' \in Nat \cup {-1} /\ dlast' <= dhead /\ dlast <= dlast' /\ h.seq <= dlast' /\ dlast' \in Int
  <2>1. dlast \in Nat \cup {-1}
    BY DEF DurableInv, Durable!TypeOK
  <2> QED BY <2>1, <1>1, <1>5, <1>6
<1>15. dlast' \in Int /\ dlast <= dlast' /\ h.seq <= dlast'
  BY <1>9
<1>10. Durable!TypeOK'
  <2>1. dview' \subseteq Durable!Writes
    BY <1>5, <1>6 DEF DurableInv, Durable!TypeOK, Durable!Rec
  <2> QED BY <1>0, <1>2, <1>8, <1>9, <2>1 DEF DurableInv, Durable!TypeOK
<1>11. LogInv'
  BY <1>0, <1>8 DEF DurableInv, LogInv
<1>12. StoreInv'
  <2>1. \A w : KnownWrite(w)' <=> KnownWrite(w)
    BY <1>8 DEF KnownWrite
  <2>2. \A w \in dview' : w \in dlost \/ KnownWrite(w) \/ w \in Pending
    BY <1>5, <1>6 DEF DurableInv, StoreInv, KnownWrite
  <2> QED BY <1>0, <1>1, <1>8, <2>1, <2>2 DEF DurableInv, StoreInv
<1>13. PendingInv'
  BY <1>0, <1>8 DEF DurableInv, PendingInv
<1>14. WireInv'
  <2>1. \A i \in 1..(m - 1) : i + 1 \in 1..m /\ dwire'[i] = dwire[i + 1]
    BY <1>2
  <2>2. \A i \in 1..(m - 1) : dwire'[i] \in dnumbered /\ dwire'[i].seq <= dhead
    BY <2>1, <1>4
  <2>3. \A i, j \in 1..(m - 1) : i < j => dwire'[i].seq < dwire'[j].seq
    <3> SUFFICES ASSUME NEW i \in 1..(m - 1), NEW j \in 1..(m - 1), i < j PROVE dwire'[i].seq < dwire'[j].seq
      OBVIOUS
    <3>1. i + 1 < j + 1
      OBVIOUS
    <3> QED BY <3>1, <2>1, <1>4
  <2>4. \A n \in (dlast' + 1)..dhead : \E i \in 1..(m - 1) : dwire'[i].seq = n
    <3> PICK x \in Int : dlast' = x
      BY <1>15
    <3> SUFFICES ASSUME NEW n \in (x + 1)..dhead PROVE \E i \in 1..(m - 1) : dwire'[i].seq = n
      OBVIOUS
    <3>1. n \in (dlast + 1)..dhead /\ n > h.seq
      <4>1. n \in Int /\ x + 1 <= n /\ n <= dhead
        BY <1>1, <1>15
      <4>2. dlast + 1 <= n /\ h.seq < n
        BY <4>1, <1>1, <1>5, <1>15
      <4> QED BY <4>1, <4>2, <1>1
    <3>2. PICK i \in 1..m : dwire[i].seq = n
      BY <3>1, <1>4
    <3>3. i # 1
      BY <3>1, <3>2, <1>5 DEF h
    <3>4. i - 1 \in 1..(m - 1) /\ (i - 1) + 1 = i
      BY <3>3, <1>2
    <3> QED BY <3>2, <3>4, <2>1
  <2>5. \A e \in KnownEvents : e.seq <= dlast' => e.writes \subseteq dview'
    <3> SUFFICES ASSUME NEW e \in KnownEvents, e.seq <= dlast' PROVE e.writes \subseteq dview'
      OBVIOUS
    <3>1. e.seq \in Nat
      BY Members DEF Durable!Rec
    <3>2. CASE e.seq <= dlast
      BY <3>2, <1>6 DEF DurableInv, WireInv
    <3>3. CASE ~(e.seq <= dlast)
      <4>1. h.seq > dlast /\ e.seq = h.seq /\ dview' = dview \cup h.writes
        BY <3>1, <3>3, <1>1, <1>5, <1>6, <1>7
      <4>2. e = h
        BY <4>1, <1>5 DEF DurableInv, LogInv
      <4> QED BY <4>1, <4>2
    <3> QED BY <3>2, <3>3
  <2>6. dlink' # "off"
    BY <1>0
  <2>7. dlast' <= IF dpc' = "down" THEN Top(dlog)' ELSE dhead'
    BY <1>0, <1>1, <1>9
  <2> QED BY <1>0, <1>2, <1>8, <2>2, <2>3, <2>4, <2>5, <2>6, <2>7 DEF WireInv
<1> QED BY <1>10, <1>11, <1>12, <1>13, <1>14 DEF DurableInv

\* What a process that ends leaves without a number.
LEMMA Unnumbering ==
  ASSUME DurableInv, NEW l, Durable!Later(l, 0) = EventPlaces(l)
  PROVE  Durable!Unnumbered(l) = dstore \ UNION {e.writes : e \in dnumbered \cup KeptEvents(l)}
BY DEF Durable!Unnumbered, KeptEvents

\* Every event is above 0.
LEMMA AllLater ==
  ASSUME DurableInv
  PROVE  Durable!Later(dlog, 0) = EventPlaces(dlog)
<1>1. \A i \in EventPlaces(dlog) : dlog[i] \in KnownEvents
  BY DEF KnownEvents, KeptEvents
<1>2. \A e \in KnownEvents : e.seq \in Nat /\ e.seq >= 1
  BY Members DEF DurableInv, LogInv, Durable!Rec
<1> QED BY <1>1, <1>2 DEF Durable!Later, EventPlaces

\* The process ends, with what it leaves in the log.
LEMMA Dying ==
  ASSUME DurableInv, dpc # "down", Durable!Die, LogInv', dlog' \in Seq(Durable!Rec), Top(dlog) \in Nat, Top(dlog') \in Nat,
         Top(dlog) <= Top(dlog'), KnownEvents \subseteq KnownEvents', KeptFrames(dlog') \subseteq KeptFrames(dlog),
         \A e \in KnownEvents' : e \in KnownEvents \/ (e.seq = dhead + 1 /\ e.kind = "event" /\ e \in Durable!Rec),
         dlost \subseteq dlost', dlost' \subseteq Durable!Writes,
         \A w \in dstore : w \in dlost' \/ KnownWrite(w)',
         dfaults' \in Nat, drestarts' \in Nat, UNCHANGED <<dlast, dview, dwritten, dnumbered>>
  PROVE  DurableInv'
<1>0. /\ dpc' = "down" /\ dstore' = {} /\ dundrained' = <<>> /\ dready' = <<>> /\ dhead' = 0 /\ dlastKf' = 0
      /\ dwhy' = "burst" /\ dlink' = "off" /\ dwire' = <<>>
      /\ UNCHANGED <<dlast, dview, dwritten, dnumbered>>
  BY DEF Durable!Die
<1>1. /\ <<>> \in Seq(Durable!Writes) /\ <<>> \in Seq(SUBSET Durable!Writes) /\ <<>> \in Seq(Durable!Rec)
      /\ Durable!Range(dundrained') = {} /\ Durable!Range(dready') = {} /\ DOMAIN dready' = {} /\ DOMAIN dundrained' = {} /\ DOMAIN dwire' = {}
  BY <1>0, NoRecords DEF Durable!Range
<1>2. Pending' = {} /\ Durable!Rec' = Durable!Rec /\ Durable!Writes' = Durable!Writes /\ Top(dlog)' = Top(dlog')
  BY <1>0, <1>1 DEF Pending, Durable!Rec, Durable!Writes, Top
<1>3. Durable!TypeOK'
  <2>1. {dhead', dlastKf', dwritten, dfaults', drestarts'} \subseteq Nat
    BY <1>0 DEF DurableInv, Durable!TypeOK
  <2>2. \A e \in dnumbered : e.writes \cap (Durable!Range(dundrained') \cup UNION Durable!Range(dready')) = {}
    BY <1>1
  <2> QED BY <1>0, <1>1, <1>2, <2>1, <2>2 DEF DurableInv, Durable!TypeOK
<1>4. \A w \in dstore \cup dview \cup UNION {k.writes : k \in KeptFrames(dlog)} : w \in dlost' \/ KnownWrite(w)'
  <2>1. \A w : KnownWrite(w) => KnownWrite(w)'
    BY DEF KnownWrite
  <2>2. Pending \subseteq dstore
    BY DEF DurableInv, StoreInv
  <2> QED BY <2>1, <2>2 DEF DurableInv, StoreInv
<1>5. StoreInv'
  BY <1>0, <1>2, <1>4 DEF StoreInv
<1>6. PendingInv'
  BY <1>0, <1>1, <1>2 DEF PendingInv
<1>7. WireInv'
  <2>1. dlast \in Int /\ dlast <= dhead /\ dhead <= Top(dlog) /\ dhead \in Nat
    <3>1. dlast \in Nat \cup {-1} /\ dhead \in Nat
      BY DEF DurableInv, Durable!TypeOK
    <3>2. dlast <= dhead
      BY DEF DurableInv, WireInv
    <3>3. Top(dlog) = dhead \/ Top(dlog) = dhead + 1
      BY DEF DurableInv, LogInv
    <3> QED BY <3>1, <3>2, <3>3
  <2>2. dlast <= Top(dlog')
    BY <2>1
  <2>3. \A e \in KnownEvents' : e.seq <= dlast => e.writes \subseteq dview
    BY <2>1 DEF DurableInv, WireInv
  <2> QED BY <1>0, <1>1, <1>2, <2>2, <2>3 DEF WireInv
<1> QED BY <1>3, <1>5, <1>6, <1>7 DEF DurableInv

\* A crash, or a close that is through.
LEMMA Ending ==
  ASSUME DurableInv, Durable!Crash \/ Durable!Closed
  PROVE  DurableInv'
<1>0. dpc # "down" /\ Durable!Die /\ drestarts' = drestarts + 1 /\ UNCHANGED <<dlog, dlast, dview, dwritten, dnumbered, dfaults>>
  BY DEF Durable!Crash, Durable!Closed
<1>1. dlog \in Seq(Durable!Rec) /\ Steady(dlog) /\ Top(dlog) \in Nat /\ dlost \subseteq Durable!Writes /\ drestarts + 1 \in Nat /\ dfaults \in Nat
  <2>1. dlog \in Seq(RecOf(Durable!Writes)) /\ Steady(dlog) /\ {} \in SUBSET Durable!Writes
    BY DEF DurableInv, Durable!TypeOK, LogInv, Durable!Rec, RecOf
  <2>2. Append(dlog, Durable!Keyframe(Top(dlog), {})) \in Durable!Cuts(Append(dlog, Durable!Keyframe(Top(dlog), {})))
    BY DEF Durable!Cuts
  <2>3. Top(dlog) \in Nat
    BY <2>1, <2>2, Framing
  <2> QED BY <2>1, <2>3 DEF DurableInv, Durable!TypeOK
<1>2. KnownEvents' = KnownEvents /\ Top(dlog') = Top(dlog) /\ KeptFrames(dlog') = KeptFrames(dlog) /\ Top(dlog)' = Top(dlog)
      /\ KeptEvents(dlog)' = KeptEvents(dlog) /\ KeptFrames(dlog)' = KeptFrames(dlog) /\ Steady(dlog)' = Steady(dlog)
  BY <1>0 DEF KnownEvents, KeptEvents, EventPlaces, Top, KeptFrames, Durable!Keyframes, Steady
<1>3. LogInv'
  <2>1. dpc' = "down" /\ dnumbered' = dnumbered
    BY <1>0 DEF Durable!Die
  <2> QED BY <2>1, <1>2 DEF DurableInv, LogInv
<1>4. /\ dlost \subseteq dlost' /\ dlost' \subseteq Durable!Writes
      /\ \A w \in dstore : w \in dlost' \/ KnownWrite(w)
  <2>1. dstore \subseteq Durable!Writes /\ Pending \subseteq dstore
    BY <1>0 DEF DurableInv, Durable!TypeOK, StoreInv
  <2>2. CASE Durable!Crash
    <3>1. dlost' = dlost \cup (dstore \ UNION {e.writes : e \in KnownEvents})
      BY <2>2, AllLater, Unnumbering DEF Durable!Crash, KnownEvents
    <3> QED BY <3>1, <2>1, <1>1 DEF KnownWrite
  <2>3. CASE Durable!Closed
    <3>1. dlost' = dlost \cup Durable!Range(dundrained) /\ Durable!Range(dready) = {}
      BY <2>3 DEF Durable!Closed, Durable!Range
    <3>2. Pending = Durable!Range(dundrained)
      BY <3>1 DEF Pending
    <3> QED BY <3>1, <3>2, <2>1, <1>1 DEF DurableInv, StoreInv
  <2> QED BY <2>2, <2>3
<1>5. \A w \in dstore : w \in dlost' \/ KnownWrite(w)'
  BY <1>2, <1>4 DEF KnownWrite
<1> QED BY <1>0, <1>1, <1>2, <1>3, <1>4, <1>5, Dying

\* A rewrite that fails ends the process.
LEMMA Pruning ==
  ASSUME ~PruneRetried, DurableInv, Durable!PruneFails
  PROVE  DurableInv'
<1> DEFINE e == Durable!Event(dhead + 1, Head(dready))
<1>0. /\ dpc = "drain" /\ dready # <<>> /\ dlog' = Append(dlog, e) /\ Durable!Die /\ dlost' = dlost \cup Durable!Unnumbered(dlog')
      /\ dfaults' = dfaults + 1 /\ UNCHANGED <<dlast, dview, dwritten, dnumbered, drestarts>>
  BY DEF Durable!PruneFails
<1>a. dlog' \in Durable!Cuts(Append(dlog, e))
  BY <1>0 DEF Durable!Cuts
<1>1. /\ e \in Durable!Rec /\ e.seq = dhead + 1 /\ e.kind = "event" /\ e.writes = dready[1] /\ Head(dready) = dready[1]
      /\ dlog' \in Seq(Durable!Rec) /\ Steady(dlog') /\ Top(dlog') = dhead + 1 /\ dlog'[Len(dlog')] = e
      /\ KeptEvents(dlog') \subseteq dnumbered \cup {e} /\ e \in KeptEvents(dlog')
      /\ dnumbered \cup KeptEvents(dlog') = KnownEvents \cup {e} /\ KnownEvents = dnumbered
      /\ KeptFrames(dlog') \subseteq KeptFrames(dlog)
      /\ \A d \in KnownEvents : d.seq <= dhead
      /\ \A k \in KeptFrames(dlog) : k.seq <= dhead /\ k.seq \in Nat
  BY <1>0, <1>a, Growing
<1> HIDE DEF e
<1>2. KnownEvents' = KnownEvents \cup {e}
  BY <1>0, <1>1 DEF KnownEvents
<1>3. dhead \in Nat /\ Top(dlog) = dhead /\ dpc' = "down" /\ drestarts \in Nat /\ dfaults + 1 \in Nat /\ dstore \subseteq Durable!Writes
      /\ dlost \subseteq Durable!Writes /\ dlast <= dhead /\ dlast \in Int
  BY <1>0 DEF DurableInv, LogInv, Durable!TypeOK, Durable!Die, WireInv
<1>4. LogInv'
  <2>1. \A d, x \in KnownEvents' : d.seq = x.seq => d = x
    <3>1. \A d, x \in KnownEvents : d.seq = x.seq => d = x
      BY DEF DurableInv, LogInv
    <3>2. \A d \in KnownEvents : d.seq # e.seq
      BY <1>1, <1>3, <1>0 DEF DurableInv, LogInv
    <3> QED BY <3>1, <3>2, <1>2
  <2>2. \A d \in KnownEvents' : d.kind = "event" /\ d.seq \in 1..(dhead + 1)
    <3>1. \A d \in KnownEvents : d.kind = "event" /\ d.seq \in 1..dhead
      BY <1>3 DEF DurableInv, LogInv
    <3> QED BY <3>1, <1>1, <1>2, <1>3
  <2>3. \A d \in KnownEvents', k \in KeptFrames(dlog') : d.seq <= k.seq => d.writes \subseteq k.writes
    <3>1. \A d \in KnownEvents, k \in KeptFrames(dlog) : d.seq <= k.seq => d.writes \subseteq k.writes
      BY DEF DurableInv, LogInv
    <3>2. \A k \in KeptFrames(dlog) : ~(e.seq <= k.seq)
      BY <1>1, <1>3
    <3> QED BY <3>1, <3>2, <1>1, <1>2
  <2>4. \A k \in KeptFrames(dlog') : k.seq <= dhead + 1
    BY <1>1, <1>3
  <2> QED BY <1>1, <1>3, <2>1, <2>2, <2>3, <2>4 DEF LogInv
<1>5. Durable!Later(dlog', 0) = EventPlaces(dlog')
  <2>1. \A i \in EventPlaces(dlog') : dlog'[i] \in KnownEvents'
    BY <1>1, <1>2 DEF KeptEvents
  <2>2. \A d \in KnownEvents' : d.seq \in Nat /\ d.seq >= 1
    BY <1>4 DEF LogInv
  <2> QED BY <2>1, <2>2 DEF Durable!Later, EventPlaces
<1>6. dlost' = dlost \cup (dstore \ UNION {d.writes : d \in KnownEvents'})
  <2>1. Durable!Unnumbered(dlog') = dstore \ UNION {d.writes : d \in dnumbered \cup KeptEvents(dlog')}
    BY <1>5, Unnumbering
  <2> QED BY <2>1, <1>0, <1>1, <1>2
<1>7. dlost \subseteq dlost' /\ dlost' \subseteq Durable!Writes /\ \A w \in dstore : w \in dlost' \/ KnownWrite(w)'
  BY <1>3, <1>6 DEF KnownWrite
<1>8. \A d \in KnownEvents' : d \in KnownEvents \/ (d.seq = dhead + 1 /\ d.kind = "event" /\ d \in Durable!Rec)
  BY <1>1, <1>2
<1>9. Top(dlog) \in Nat /\ Top(dlog') \in Nat /\ Top(dlog) <= Top(dlog') /\ KnownEvents \subseteq KnownEvents' /\ dpc # "down"
  BY <1>0, <1>1, <1>2, <1>3
<1> QED BY <1>0, <1>1, <1>3, <1>4, <1>7, <1>8, <1>9, Dying

\* What the archive restores is everything that ever was in it.
LEMMA Restored ==
  ASSUME DurableInv
  PROVE  /\ Durable!Opens(dlog) /\ Durable!RestoredSeq(dlog) = Top(dlog) /\ Top(dlog) \in Nat /\ Durable!RestoredState(dlog) \subseteq Durable!Writes
         /\ \A e \in KnownEvents : e.writes \subseteq Durable!RestoredState(dlog)
         /\ \A w \in Durable!RestoredState(dlog) : w \in dlost \/ KnownWrite(w) \/ w \in Pending
<1>1. dlog \in Seq(RecOf(Durable!Writes)) /\ Steady(dlog) /\ {} \in SUBSET Durable!Writes
  BY DEF DurableInv, Durable!TypeOK, LogInv, Durable!Rec, RecOf
<1>2. Append(dlog, Durable!Keyframe(Top(dlog), {})) \in Durable!Cuts(Append(dlog, Durable!Keyframe(Top(dlog), {})))
  BY DEF Durable!Cuts
<1>3. Top(dlog) \in Nat
  BY <1>1, <1>2, Framing
<1>4. Durable!Opens(dlog) /\ Durable!RestoredSeq(dlog) = Top(dlog) /\ Durable!RestoredState(dlog) \subseteq Durable!Writes
  BY <1>1, Restores
<1>5. PICK f \in KeptFrames(dlog) :
               /\ f.seq \in Nat /\ f.seq <= Top(dlog) /\ f.writes \subseteq Durable!RestoredState(dlog)
               /\ \A e \in KeptEvents(dlog) : e.seq > f.seq => e.writes \subseteq Durable!RestoredState(dlog)
               /\ \A n \in (f.seq + 1)..Top(dlog) : \E e \in KeptEvents(dlog) : e.seq = n
               /\ \A w \in Durable!RestoredState(dlog) : w \in f.writes \/ \E e \in KeptEvents(dlog) : w \in e.writes
  BY <1>1, Restores
<1>6. ASSUME NEW e \in KnownEvents PROVE e.writes \subseteq Durable!RestoredState(dlog)
  <2>1. e.seq \in 1..Top(dlog)
    BY DEF DurableInv, LogInv
  <2>2. CASE e.seq <= f.seq
    BY <2>2, <1>5 DEF DurableInv, LogInv
  <2>3. CASE ~(e.seq <= f.seq)
    <3>1. e.seq \in (f.seq + 1)..Top(dlog) /\ e.seq > f.seq
      BY <2>1, <2>3, <1>3, <1>5
    <3>2. PICK d \in KeptEvents(dlog) : d.seq = e.seq
      BY <3>1, <1>5
    <3>3. d = e
      BY <3>2 DEF DurableInv, LogInv, KnownEvents
    <3> QED BY <3>1, <3>2, <3>3, <1>5
  <2> QED BY <2>2, <2>3
<1>7. \A w \in Durable!RestoredState(dlog) : w \in dlost \/ KnownWrite(w) \/ w \in Pending
  BY <1>5 DEF DurableInv, StoreInv, KnownWrite, KnownEvents
<1> QED BY <1>3, <1>4, <1>6, <1>7

\* The next process.
LEMMA Restarting ==
  ASSUME DurableInv, Durable!Restart
  PROVE  DurableInv'
<1> DEFINE k == Durable!Keyframe(dhead', dstore')
<1>0. /\ dpc = "down" /\ dpc' = "rest" /\ dhead' = Durable!RestoredSeq(dlog) /\ dlastKf' = dhead' /\ dstore' = Durable!RestoredState(dlog)
      /\ dnumbered' = dnumbered \cup {dlog[i] : i \in Durable!Later(dlog, 0)}
      /\ dlog' \in Durable!Cuts(Append(dlog, Durable!Keyframe(dhead', dstore')))
      /\ UNCHANGED <<dundrained, dready, dwhy, dlast, dview, dlink, dwire, dwritten, dlost, dfaults, drestarts>>
  BY DEF Durable!Restart, Durable!mirrorVars
<1>1. /\ dhead' = Top(dlog) /\ dhead' \in Nat /\ dstore' \subseteq Durable!Writes
      /\ (\A e \in KnownEvents : e.writes \subseteq dstore')
      /\ \A w \in dstore' : w \in dlost \/ KnownWrite(w) \/ w \in Pending
  BY <1>0, Restored
<1>2. dnumbered' = KnownEvents
  BY <1>0, AllLater DEF KnownEvents, KeptEvents
<1>3. /\ dlog \in Seq(Durable!Rec) /\ Durable!Rec = RecOf(Durable!Writes) /\ Steady(dlog) /\ dstore' \in SUBSET Durable!Writes
      /\ dstore = {} /\ dundrained = <<>> /\ dready = <<>> /\ dlink = "off" /\ dwire = <<>>
  BY <1>0, <1>1 DEF DurableInv, Durable!TypeOK, Durable!Rec, RecOf, LogInv, StoreInv, WireInv
<1>k. k.seq = dhead' /\ k.writes = dstore' /\ k = Durable!Keyframe(Top(dlog), dstore')
  BY <1>1 DEF Durable!Keyframe
<1>4. dlog' \in Durable!Cuts(Append(dlog, Durable!Keyframe(Top(dlog), dstore')))
  BY <1>0, <1>1
<1> HIDE DEF k
<1>5. /\ dlog' \in Seq(Durable!Rec) /\ Steady(dlog') /\ Top(dlog') = dhead'
      /\ KeptEvents(dlog') \subseteq KeptEvents(dlog) /\ KeptFrames(dlog') \subseteq KeptFrames(dlog) \cup {k}
  <2>1. /\ dlog' \in Seq(RecOf(Durable!Writes)) /\ Steady(dlog') /\ Top(dlog') = Top(dlog)
        /\ KeptEvents(dlog') \subseteq KeptEvents(dlog) /\ KeptFrames(dlog') \subseteq KeptFrames(dlog) \cup {Durable!Keyframe(Top(dlog), dstore')}
    BY <1>3, <1>4, Framing
  <2> QED BY <2>1, <1>1, <1>3, <1>k
<1>6. KnownEvents' = KnownEvents
  BY <1>2, <1>5 DEF KnownEvents
<1>7. Pending' = {} /\ Pending = {} /\ Durable!Rec' = Durable!Rec /\ Durable!Writes' = Durable!Writes /\ Durable!Range(dundrained') = {} /\ Durable!Range(dready') = {}
      /\ DOMAIN dundrained' = {} /\ DOMAIN dready' = {} /\ DOMAIN dwire' = {}
  BY <1>0, <1>3 DEF Pending, Durable!Rec, Durable!Writes, Durable!Range
<1>8. Durable!TypeOK'
  <2>1. {dhead', dlastKf', dwritten, dfaults, drestarts} \subseteq Nat
    BY <1>0, <1>1 DEF DurableInv, Durable!TypeOK
  <2>2. \A e \in dnumbered' : e.writes \cap (Durable!Range(dundrained') \cup UNION Durable!Range(dready')) = {}
    BY <1>7
  <2>3. dnumbered' \subseteq Durable!Rec
    BY <1>2, Members
  <2> QED BY <1>0, <1>1, <1>5, <1>7, <2>1, <2>2, <2>3 DEF DurableInv, Durable!TypeOK
<1>9. LogInv'
  <2>1. \A d \in KnownEvents : d.kind = "event" /\ d.seq \in 1..dhead'
    BY <1>1 DEF DurableInv, LogInv
  <2>2. \A d, e \in KnownEvents : d.seq = e.seq => d = e
    BY DEF DurableInv, LogInv
  <2>3. \A d \in KnownEvents, f \in KeptFrames(dlog') : d.seq <= f.seq => d.writes \subseteq f.writes
    BY <1>1, <1>5, <1>k DEF DurableInv, LogInv
  <2>4. \A f \in KeptFrames(dlog') : f.seq <= dhead'
    BY <1>1, <1>5, <1>k DEF DurableInv, LogInv
  <2>5. \A d \in KeptEvents(dlog') : d \in dnumbered'
    BY <1>2, <1>5 DEF KnownEvents
  <2>6. \A d \in dnumbered' : d.seq <= dhead'
    BY <2>1, <1>1, <1>2
  <2> QED BY <1>0, <1>5, <1>6, <2>1, <2>2, <2>3, <2>4, <2>5, <2>6 DEF LogInv
<1>10. StoreInv'
  <2>1. \A w : KnownWrite(w)' <=> KnownWrite(w)
    BY <1>6 DEF KnownWrite
  <2>2. \A f \in KeptFrames(dlog') : \A w \in f.writes : w \in dlost \/ KnownWrite(w)
    BY <1>1, <1>5, <1>7, <1>k DEF DurableInv, StoreInv
  <2>3. \A w \in dview : w \in dlost \/ KnownWrite(w)
    BY <1>7 DEF DurableInv, StoreInv
  <2> QED BY <1>0, <1>1, <1>6, <1>7, <2>1, <2>2, <2>3 DEF StoreInv
<1>11. PendingInv'
  BY <1>7 DEF PendingInv
<1>12. WireInv'
  <2>1. dlast <= dhead'
    BY <1>0, <1>1 DEF DurableInv, WireInv
  <2> QED BY <1>0, <1>3, <1>6, <1>7, <2>1 DEF DurableInv, WireInv
<1> QED BY <1>8, <1>9, <1>10, <1>11, <1>12 DEF DurableInv

\* A durable store begins so.
LEMMA DurableStarts ==
  ASSUME Durable!Init
  PROVE  DurableInv
<1> DEFINE k == Durable!Keyframe(0, {})
<1>0. /\ dlog = <<k>> /\ dlastKf = 0 /\ dstore = {} /\ dundrained = <<>> /\ dready = <<>> /\ dhead = 0
      /\ dpc = "rest" /\ dwhy = "burst" /\ dlast = -1 /\ dview = {} /\ dlink = "off" /\ dwire = <<>>
      /\ dwritten = 0 /\ dlost = {} /\ dnumbered = {} /\ dfaults = 0 /\ drestarts = 0
  BY DEF Durable!Init
<1>1. k.kind = "keyframe" /\ k.seq = 0 /\ k.writes = {} /\ k \in Durable!Rec
  BY DEF Durable!Keyframe, Durable!Rec
<1> HIDE DEF k
<1>2. dlog \in Seq(Durable!Rec) /\ Len(dlog) = 1 /\ DOMAIN dlog = 1..1 /\ dlog[1] = k
  BY <1>0, <1>1
<1>3. \A i \in 1..1 : i = 1
  OBVIOUS
<1>4. EventPlaces(dlog) = {} /\ Durable!Keyframes(dlog) = {1} /\ KeptEvents(dlog) = {} /\ KeptFrames(dlog) = {k} /\ Top(dlog) = 0
  BY <1>1, <1>2, <1>3 DEF EventPlaces, Durable!Keyframes, KeptEvents, KeptFrames, Top
<1>5. Steady(dlog)
  <2>1. (dlog[1].seq + 1)..Top(dlog) = {}
    BY <1>1, <1>2, <1>4
  <2> QED BY <2>1, <1>1, <1>2, <1>3, <1>4 DEF Steady
<1>6. /\ <<>> \in Seq(Durable!Writes) /\ <<>> \in Seq(SUBSET Durable!Writes) /\ <<>> \in Seq(Durable!Rec)
      /\ Durable!Range(dundrained) = {} /\ Durable!Range(dready) = {} /\ DOMAIN dready = {} /\ DOMAIN dundrained = {} /\ DOMAIN dwire = {}
  BY <1>0, NoRecords DEF Durable!Range
<1>7. KnownEvents = {} /\ Pending = {}
  BY <1>0, <1>4, <1>6 DEF KnownEvents, Pending
<1>8. Durable!TypeOK
  <2>1. {dhead, dlastKf, dwritten, dfaults, drestarts} \subseteq Nat
    BY <1>0
  <2>2. dlast \in Nat \cup {-1}
    BY <1>0
  <2> QED BY <1>0, <1>2, <1>6, <2>1, <2>2 DEF Durable!TypeOK
<1>9. LogInv
  BY <1>0, <1>1, <1>4, <1>5, <1>7 DEF LogInv
<1>10. StoreInv
  BY <1>0, <1>1, <1>4, <1>7 DEF StoreInv
<1>11. PendingInv
  BY <1>0, <1>6 DEF PendingInv
<1>12. WireInv
  BY <1>0, <1>6, <1>7 DEF WireInv
<1> QED BY <1>8, <1>9, <1>10, <1>11, <1>12 DEF DurableInv

\* Every step of a store whose process ends with a failed rewrite keeps it.
LEMMA DurableSteps ==
  ASSUME Durable!DurableAssumption, ~PruneRetried, DurableInv, Durable!Next
  PROVE  DurableInv'
<1>1. CASE Durable!Write
  BY <1>1, Writing
<1>2. CASE Durable!Drain \/ Durable!Close
  BY <1>2, Draining
<1>3. CASE Durable!Persist
  BY <1>3, Persisting
<1>4. CASE Durable!Commit
  BY <1>4, Committing
<1>5. CASE Durable!BurstPublished \/ Durable!PersistFails \/ Durable!Subscribe \/ Durable!ReadFlushes \/ Durable!Disconnect
  BY <1>5, MoveOn
<1>6. CASE Durable!PruneFails
  BY <1>6, Pruning
<1>7. CASE Durable!TakeKeyframe \/ Durable!KeyframeFails
  BY <1>7, Archiving
<1>8. CASE Durable!Answer
  BY <1>8, Answering
<1>9. CASE Durable!Deliver
  BY <1>9, Delivering
<1>10. CASE Durable!Crash \/ Durable!Closed
  BY <1>10, Ending
<1>11. CASE Durable!Restart
  BY <1>11, Restarting
<1> QED BY <1>1, <1>2, <1>3, <1>4, <1>5, <1>6, <1>7, <1>8, <1>9, <1>10, <1>11 DEF Durable!Next

\* So does a step of something else.
LEMMA DurableStays ==
  ASSUME DurableInv, UNCHANGED Durable!vars
  PROVE  DurableInv'
<1>1. UNCHANGED <<dlog, dstore, dundrained, dready, dhead, dlastKf, dpc, dwhy, dlast, dview, dlink, dwire, dwritten, dlost,
                  dnumbered, dfaults, drestarts>>
  BY DEF Durable!vars, Durable!lineVars, Durable!mirrorVars, Durable!ghostVars
<1>2. /\ KnownEvents' = KnownEvents /\ Pending' = Pending /\ Durable!Rec' = Durable!Rec /\ Durable!Writes' = Durable!Writes
      /\ KeptEvents(dlog)' = KeptEvents(dlog) /\ KeptFrames(dlog)' = KeptFrames(dlog) /\ Steady(dlog)' = Steady(dlog) /\ Top(dlog)' = Top(dlog)
  BY <1>1 DEF KnownEvents, Pending, KeptEvents, EventPlaces, Durable!Rec, Durable!Writes, KeptFrames, Durable!Keyframes, Steady, Top
<1>3. Durable!TypeOK'
  BY <1>1, <1>2 DEF DurableInv, Durable!TypeOK
<1>4. LogInv'
  BY <1>1, <1>2 DEF DurableInv, LogInv
<1>5. StoreInv'
  BY <1>1, <1>2 DEF DurableInv, StoreInv, KnownWrite
<1>6. PendingInv'
  BY <1>1, <1>2 DEF DurableInv, PendingInv
<1>7. WireInv'
  BY <1>1, <1>2 DEF DurableInv, WireInv
<1> QED BY <1>3, <1>4, <1>5, <1>6, <1>7 DEF DurableInv

\* What follows from it.
LEMMA DurablePromises ==
  ASSUME DurableInv
  PROVE  Durable!ArchiveHolds /\ Durable!NumbersKeepTheirMeaning /\ Durable!MirrorHasAll /\ Durable!MirrorAgrees
<1>1. Durable!ArchiveHolds
  BY Restored DEF Durable!ArchiveHolds, DurableInv, LogInv, KnownEvents
<1>2. Durable!NumbersKeepTheirMeaning
  BY DEF Durable!NumbersKeepTheirMeaning, DurableInv, LogInv, KnownEvents
<1>3. Durable!MirrorHasAll
  BY DEF Durable!MirrorHasAll, DurableInv, WireInv, KnownEvents
<1>4. Durable!MirrorAgrees
  <2> SUFFICES ASSUME dlink = "live", dwire = <<>>, dpc = "rest", dundrained = <<>>, dready = <<>>
               PROVE  (dview \ dstore) \cup (dstore \ dview) \subseteq dlost
    BY DEF Durable!MirrorAgrees
  <2>1. Pending = {} /\ DOMAIN dwire = {}
    BY DEF Pending, Durable!Range
  <2>2. dhead \in Nat /\ dlast \in Int /\ \A e \in KnownEvents : e.seq \in 1..dhead
    BY DEF DurableInv, LogInv, Durable!TypeOK
  <2>3. dhead <= dlast
    <3> SUFFICES ASSUME ~(dhead <= dlast) PROVE FALSE
      OBVIOUS
    <3>1. dhead \in (dlast + 1)..dhead
      BY <2>2
    <3> QED BY <3>1, <2>1 DEF DurableInv, WireInv
  <2>4. \A e \in KnownEvents : e.seq <= dlast /\ e.writes \subseteq dstore
    BY <2>2, <2>3 DEF DurableInv, StoreInv
  <2>5. \A e \in KnownEvents : e.writes \subseteq dview
    BY <2>4 DEF DurableInv, WireInv
  <2> QED BY <2>1, <2>4, <2>5 DEF DurableInv, StoreInv, KnownWrite
<1> QED BY <1>1, <1>2, <1>3, <1>4

\* What a close that succeeds leaves behind it.
LEMMA DurableCloses ==
  ASSUME DurableInv, Durable!Next, dpc = "drain", dwhy = "close", dpc' = "down", drestarts' > drestarts,
         Durable!Range(dundrained) \subseteq dlost'
  PROVE  dstore \ dlost' \subseteq Durable!RestoredState(dlog)
<1>1. drestarts \in Nat /\ ~(drestarts > drestarts)
  BY DEF DurableInv, Durable!TypeOK
<1>2. Durable!Crash \/ Durable!Closed
  BY <1>1 DEF Durable!Next, Durable!Write, Durable!Drain, Durable!Persist, Durable!Commit, Durable!PersistFails, Durable!PruneFails, Durable!BurstPublished, Durable!TakeKeyframe,
     Durable!KeyframeFails, Durable!Subscribe, Durable!ReadFlushes, Durable!Answer, Durable!Deliver, Durable!Disconnect, Durable!Close, Durable!Restart, Durable!lineVars
<1>3. \A w \in dstore \ dlost' : KnownWrite(w)
  <2>1. CASE Durable!Crash
    <3>1. dlost' = dlost \cup (dstore \ UNION {e.writes : e \in KnownEvents})
      BY <2>1, AllLater, Unnumbering DEF Durable!Crash, KnownEvents
    <3> QED BY <3>1 DEF KnownWrite
  <2>2. CASE Durable!Closed
    <3>1. dlost' = dlost \cup Durable!Range(dundrained) /\ Durable!Range(dready) = {}
      BY <2>2 DEF Durable!Closed, Durable!Range
    <3>2. Pending = Durable!Range(dundrained)
      BY <3>1 DEF Pending
    <3> QED BY <3>1, <3>2 DEF DurableInv, StoreInv
  <2> QED BY <1>2, <2>1, <2>2
<1> QED BY <1>3, Restored DEF KnownWrite

-----------------------------------------------------------------------------
(* The gate *)

GateP == INSTANCE ReplayConflate_proofs WITH
    MaxSeq <- GateEvents,
    maxKeys <- gmaxKeys, keys <- gkeys, conflating <- gconflating, held <- gheld,
    sent <- gsent, flushed <- gflushed, other <- gother, link <- glink, last <- glast,
    view <- gview, queue <- gqueue, drops <- gdrops

\* The gate is one of those proved about.
LEMMA GateFits == GateP!GateAssumption
BY LinesAssumption DEF Gate!GateAssumption, GateP!GateAssumption

\* The gate begins as those.
LEMMA GateBegins == ASSUME Gate!Init PROVE GateP!GateInv
<1>1. GateP!Init
  BY DEF Gate!Init, GateP!Init, Gate!Dropped, GateP!Dropped
<1> QED BY <1>1, GateFits, GateP!GateStarts

\* The helpers of the gate, by both names.
LEMMA SameEnvelopes ==
  /\ Gate!head = GateP!head /\ Gate!pending = GateP!pending /\ Gate!Dropped = GateP!Dropped
  /\ \A s : Gate!Event(s) = GateP!Event(s)
  /\ \A f : Gate!Answer(f) = GateP!Answer(f)
  /\ \A h, s, k : Gate!Absorb(h, s, k) = GateP!Absorb(h, s, k)
  /\ \A h, s : Gate!Recovery(h, s) = GateP!Recovery(h, s)
  /\ \A q, n : Gate!Contents(q, n) = GateP!Contents(q, n) /\ Gate!Number(q, n) = GateP!Number(q, n)
  /\ \A e : Gate!Heard(e) = GateP!Heard(e)
  /\ \A s, i : Gate!RemoveAt(s, i) = GateP!RemoveAt(s, i)
<1>1. /\ Gate!head = GateP!head /\ Gate!pending = GateP!pending /\ Gate!Dropped = GateP!Dropped
      /\ \A s : Gate!Event(s) = GateP!Event(s) /\ Gate!Keyframe(s) = GateP!Keyframe(s)
      /\ \A s, i : Gate!RemoveAt(s, i) = GateP!RemoveAt(s, i)
      /\ \A q, n : Gate!Taken(q, n) = GateP!Taken(q, n)
      /\ \A e : Gate!Folds(e) = GateP!Folds(e) /\ Gate!Heard(e) = GateP!Heard(e)
  BY DEF Gate!head, GateP!head, Gate!pending, GateP!pending, Gate!Dropped, GateP!Dropped, Gate!Event, GateP!Event,
         Gate!Keyframe, GateP!Keyframe, Gate!RemoveAt, GateP!RemoveAt, Gate!Taken, GateP!Taken, Gate!Folds,
         GateP!Folds, Gate!Heard, GateP!Heard
<1>2. \A f : Gate!Answer(f) = GateP!Answer(f)
  BY <1>1 DEF Gate!Answer, GateP!Answer
<1>3. \A h, s, k : Gate!Absorb(h, s, k) = GateP!Absorb(h, s, k)
  BY <1>1 DEF Gate!Absorb, GateP!Absorb
<1>4. \A h, s : Gate!Recovery(h, s) = GateP!Recovery(h, s)
  BY <1>1 DEF Gate!Recovery, GateP!Recovery
<1>5. \A q, n : Gate!Contents(q, n) = GateP!Contents(q, n) /\ Gate!Number(q, n) = GateP!Number(q, n)
  BY DEF Gate!Contents, GateP!Contents, Gate!Number, GateP!Number, Gate!Taken, GateP!Taken, Gate!Folds, GateP!Folds
<1> QED BY <1>1, <1>2, <1>3, <1>4, <1>5

\* A step of the gate is a step of the gate proved about.
LEMMA GateNextIsProved ==
  ASSUME Gate!Next \/ UNCHANGED Gate!vars
  PROVE  [GateP!Next]_GateP!vars
<1>1. CASE UNCHANGED Gate!vars
  BY <1>1 DEF Gate!vars, Gate!gateVars, Gate!bufferVars, Gate!clientVars, GateP!vars, GateP!gateVars, GateP!bufferVars,
        GateP!clientVars
<1>2. /\ Gate!gateVars = GateP!gateVars /\ (UNCHANGED Gate!gateVars <=> UNCHANGED GateP!gateVars)
      /\ (UNCHANGED Gate!bufferVars <=> UNCHANGED GateP!bufferVars)
      /\ (UNCHANGED Gate!clientVars <=> UNCHANGED GateP!clientVars)
  BY DEF Gate!gateVars, Gate!bufferVars, Gate!clientVars, GateP!gateVars, GateP!bufferVars, GateP!clientVars
<1>3. ASSUME NEW k, Gate!Emit(k) PROVE GateP!Emit(k)
  <2>1. Gate!GateForward(k) => GateP!GateForward(k)
    BY SameEnvelopes, <1>2 DEF Gate!GateForward, GateP!GateForward
  <2> QED BY <1>2, <1>3, <2>1, SameEnvelopes DEF Gate!Emit, GateP!Emit
<1>4. /\ Gate!Poll => GateP!Poll
      /\ Gate!Connect => GateP!Connect
      /\ Gate!AnswerFrame => GateP!AnswerFrame
      /\ Gate!Drop => GateP!Drop
  BY <1>2, SameEnvelopes DEF Gate!Poll, GateP!Poll, Gate!Connect, GateP!Connect, Gate!AnswerFrame, GateP!AnswerFrame,
        Gate!Drop, GateP!Drop
<1>5. /\ Gate!Flush => GateP!Flush
      /\ Gate!OtherTraffic => GateP!OtherTraffic
      /\ Gate!OtherFlushes => GateP!OtherFlushes
      /\ Gate!Receive => GateP!Receive
  BY <1>2, SameEnvelopes DEF Gate!Flush, GateP!Flush, Gate!OtherTraffic, GateP!OtherTraffic, Gate!OtherFlushes,
        GateP!OtherFlushes, Gate!Receive, GateP!Receive
<1> QED BY <1>1, <1>3, <1>4, <1>5 DEF Gate!Next, GateP!Next

\* What follows for a gate.
LEMMA GateKeepsItsPromises ==
  ASSUME GateP!GateInv
  PROVE  Gate!TypeOK /\ Gate!NothingForgotten /\ Gate!BufferBounded
<1>1. GateP!TypeOK /\ GateP!NothingForgotten /\ GateP!BufferBounded
  BY GateFits, GateP!GatePromises
<1>2. Gate!TypeOK /\ Gate!BufferBounded
  BY <1>1, SameEnvelopes DEF Gate!TypeOK, GateP!TypeOK, Gate!BufferBounded, GateP!BufferBounded, Gate!Envelope,
        GateP!Envelope
<1>3. Gate!OnItsWay = GateP!OnItsWay
  BY SameEnvelopes DEF Gate!OnItsWay, GateP!OnItsWay
<1>4. Gate!InTheEnd = GateP!InTheEnd
  BY <1>3, SameEnvelopes DEF Gate!InTheEnd, GateP!InTheEnd
<1>5. \A seen : Gate!SameState(seen) <=> GateP!SameState(seen)
  BY SameEnvelopes DEF Gate!SameState, GateP!SameState
<1>6. Gate!NothingForgotten
  BY <1>1, <1>4, <1>5, SameEnvelopes DEF Gate!NothingForgotten, GateP!NothingForgotten
<1> QED BY <1>2, <1>6

-----------------------------------------------------------------------------
(* All of them *)

\* What the wrappings hold; the durable store holds its part under the hypothesis that a
\* process ends with a rewrite that failed (see the run durable_prune for the other case).
LinesInv == SpillInv /\ JournalInv /\ MapInv /\ GateP!GateInv

\* All of them begin with what they hold.
LEMMA LinesStart == ASSUME LinesInit PROVE LinesInv /\ DurableInv
<1>1. Init /\ Durable!Init /\ Gate!Init /\ Journal!Init /\ Map!Init
  BY DEF LinesInit
<1>2. SpillInv
  BY <1>1, SpillStarts, SpillAssumption
<1>3. JournalInv
  BY <1>1, JournalStarts, LinesAssumption
<1>4. MapInv
  BY <1>1, MapStarts, LinesAssumption
<1>5. GateP!GateInv
  BY <1>1, GateBegins
<1>6. DurableInv
  BY <1>1, DurableStarts
<1> QED BY <1>2, <1>3, <1>4, <1>5, <1>6 DEF LinesInv

\* A step of all is a step of each, or leaves it alone.
LEMMA EachSteps ==
  ASSUME [LinesNext]_allVars
  PROVE  /\ Next \/ UNCHANGED vars
         /\ Durable!Next \/ UNCHANGED Durable!vars
         /\ Gate!Next \/ UNCHANGED Gate!vars
         /\ Journal!Next \/ UNCHANGED Journal!vars
         /\ Map!Next \/ UNCHANGED Map!vars
<1>1. /\ UNCHANGED durableVars => UNCHANGED Durable!vars
      /\ UNCHANGED gateVars => UNCHANGED Gate!vars
      /\ UNCHANGED journalVars => UNCHANGED Journal!vars
      /\ UNCHANGED mapVars => UNCHANGED Map!vars
  BY DEF durableVars, Durable!vars, Durable!lineVars, Durable!mirrorVars, Durable!ghostVars, gateVars, Gate!vars,
         Gate!gateVars, Gate!bufferVars, Gate!clientVars, journalVars, Journal!vars, mapVars, Map!vars, Map!producer
<1>2. CASE UNCHANGED allVars
  <2>1. UNCHANGED <<vars, durableVars, gateVars, journalVars, mapVars>>
    BY <1>2 DEF allVars
  <2> QED BY <1>1, <2>1
<1>3. CASE LinesNext
  BY <1>1, <1>3 DEF LinesNext
<1> QED BY <1>2, <1>3

\* A step of all keeps what each holds.
LEMMA LinesStep == ASSUME LinesInv, [LinesNext]_allVars PROVE LinesInv'
<1>1. SpillInv'
  BY EachSteps, SpillStep, SpillAssumption DEF LinesInv
<1>2. JournalInv'
  BY EachSteps, JournalStep, LinesAssumption DEF LinesInv
<1>3. MapInv'
  BY EachSteps, MapStep, LinesAssumption DEF LinesInv
<1>4. GateP!GateInv'
  BY EachSteps, GateFits, GateNextIsProved, GateP!GateStep DEF LinesInv
<1> QED BY <1>1, <1>2, <1>3, <1>4 DEF LinesInv

\* So does one of the durable store, and a close leaves nothing behind.
LEMMA DurableStep ==
  ASSUME PruneRetried = FALSE, DurableInv, [LinesNext]_allVars
  PROVE  DurableInv'
<1>1. CASE Durable!Next
  BY <1>1, DurableSteps, LinesAssumption
<1>2. CASE UNCHANGED Durable!vars
  BY <1>2, DurableStays
<1> QED BY EachSteps, <1>1, <1>2

\* What holds always.
LEMMA LinesHold == LinesSpec => []LinesInv
<1>1. LinesInit => LinesInv
  BY LinesStart
<1>2. LinesInv /\ [LinesNext]_allVars => LinesInv'
  BY LinesStep
<1> QED BY <1>1, <1>2, PTL DEF LinesSpec

\* What a durable store holds always.
LEMMA DurableHolds == ASSUME PruneRetried = FALSE PROVE LinesSpec => []DurableInv
<1>1. LinesInit => DurableInv
  BY LinesStart
<1>2. DurableInv /\ [LinesNext]_allVars => DurableInv'
  BY DurableStep
<1> QED BY <1>1, <1>2, PTL DEF LinesSpec

\* For any bulks, emitted from anywhere and refused at any point: what is published is stored
\* and the other way round, no bulk is torn or overtaken, and each is published, refused or
\* given up (replay-listen.ts:402-450).
THEOREM PublishedAsStoredAlways == LinesSpec => []PublishedAsStored
<1>1. LinesInv => PublishedAsStored
  BY JournalPromises, LinesAssumption DEF LinesInv, PublishedAsStored
<1> QED BY <1>1, LinesHold, PTL

\* For any memory, any segments and whatever the disk refuses: a reader has the exact tail or
\* nothing, and within the advertised window it has the tail (fsSpillJournal.ts:96-180).
THEOREM SpillIsHonestAlways == LinesSpec => []SpillIsHonest
<1>1. LinesInv => SpillIsHonest
  BY SpillPromises, SpillAssumption DEF LinesInv, SpillIsHonest
<1> QED BY <1>1, LinesHold, PTL

\* For any keys, thresholds and connections: what the gate dropped is made up for, and the
\* gate does not fill the buffer (replay-conflate.ts:88-142).
THEOREM NothingForgottenAlways == LinesSpec => []NothingForgotten
<1>1. LinesInv => NothingForgotten
  BY GateKeepsItsPromises DEF LinesInv, NothingForgotten
<1> QED BY <1>1, LinesHold, PTL

\* Whatever the storage does and whenever the process dies, the archive opens again with every
\* event that ever had a number (store-durable.ts:49-82, fsReplayStorage.ts:121-159).
THEOREM ArchiveHoldsAlways == ASSUME PruneRetried = FALSE PROVE LinesSpec => []ArchiveHolds
<1>1. DurableInv => ArchiveHolds
  BY DurablePromises DEF ArchiveHolds
<1> QED BY <1>1, DurableHolds, PTL

\* No lifetime of a store gives a number to other writes, and no checkpoint of a map binds a
\* content to a number or a line that it does not have (store-durable.ts:49-61,
\* replicated-map.ts:855-886).
THEOREM NumbersKeepTheirMeaningAlways ==
  ASSUME PruneRetried = FALSE PROVE LinesSpec => []NumbersKeepTheirMeaning
<1>1. DurableInv => Durable!NumbersKeepTheirMeaning
  BY DurablePromises
<1>2. LinesInv => Map!CheckpointsBind /\ Map!NothingMixed
  BY MapPromises, LinesAssumption DEF LinesInv
<1>3. DurableInv /\ LinesInv => NumbersKeepTheirMeaning
  BY <1>1, <1>2 DEF NumbersKeepTheirMeaning
<1> QED BY <1>3, LinesHold, DurableHolds, PTL

\* The mirror of a durable store has every event up to its number, across restarts, prunes and
\* resumes, and differs from the store by lost writes only (store-durable.ts:87-109,
\* store-replay.ts:425-439).
THEOREM MirrorFollowsAlways == ASSUME PruneRetried = FALSE PROVE LinesSpec => []MirrorFollows
<1>1. DurableInv => MirrorFollows
  BY DurablePromises DEF MirrorFollows
<1> QED BY <1>1, DurableHolds, PTL

\* The types of the five.
THEOREM LinesTypeOKAlways == ASSUME PruneRetried = FALSE PROVE LinesSpec => []LinesTypeOK
<1>1. LinesInv => TypeOK /\ Gate!TypeOK /\ Journal!TypeOK /\ Map!TypeOK
  BY SpillPromises, JournalPromises, MapPromises, GateKeepsItsPromises, SpillAssumption, LinesAssumption DEF LinesInv
<1>2. DurableInv => Durable!TypeOK
  BY DEF DurableInv
<1>3. DurableInv /\ LinesInv => LinesTypeOK
  BY <1>1, <1>2 DEF LinesTypeOK
<1> QED BY <1>3, LinesHold, DurableHolds, PTL

\* A close that succeeds leaves in the archive what was written before it, also what a failing
\* storage had retained (store-durable.ts:132-136).
THEOREM CloseLosesNothingAlways == ASSUME PruneRetried = FALSE PROVE LinesSpec => CloseLosesNothing
<1> DEFINE Kept == (/\ dpc = "drain" /\ dwhy = "close" /\ dpc' = "down" /\ drestarts' > drestarts
                    /\ Durable!Range(dundrained) \subseteq dlost')
                       => dstore \ dlost' \subseteq Durable!RestoredState(dlog)
<1>1. DurableInv /\ Durable!Next => Kept
  BY DurableCloses
<1>2. DurableInv /\ [LinesNext]_allVars => [Kept]_Durable!vars
  <2> HIDE DEF Kept
  <2> QED BY <1>1, EachSteps
<1>3. LinesSpec => [][Kept]_Durable!vars
  BY <1>2, DurableHolds, PTL DEF LinesSpec
<1> QED BY <1>3, PTL DEF CloseLosesNothing, Durable!CloseLosesNothing
=============================================================================
