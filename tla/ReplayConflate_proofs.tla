------------------------ MODULE ReplayConflate_proofs ------------------------
(***************************************************************************)
(* Proofs about the conflation gate, for any keys, thresholds and limits,  *)
(* any number of events and any number of lost connections.                *)
(*                                                                         *)
(* The argument: a client with the number f is made up for when every      *)
(* event above f is carried by an envelope on its way that it will take    *)
(* (Made), and an episode holds what makes up for the rest (Waiting) and   *)
(* will send it in ascending order behind what is on its way (Above).      *)
(***************************************************************************)
EXTENDS ReplayConflate, TLAPS, SequenceTheorems

\* The event f is absolute for the key of e; e is in X, or something later of X is.
Same(ks, e, f) == ks[e] # Unkeyed /\ ks[f] = ks[e]
Settled(ks, X, e) == e \in X \/ (ks[e] # Unkeyed /\ \E f \in X : f > e /\ ks[f] = ks[e])

\* The places of q that no answer follows, the number they lead a client to, and what the
\* event e needs of the place i to be made up for.
Rest(q) == {i \in DOMAIN q : \A j \in DOMAIN q : q[j].kind = "answer" => j < i}
Done(q, f) == IF Rest(q) = {} \/ q[Len(q)].seq <= f THEN f ELSE q[Len(q)].seq
Carries(ks, q, i, e) ==
    /\ q[i].seq >= e
    /\ q[i].kind = "event" => q[i].seq = e \/ Same(ks, e, q[i].seq)
    /\ q[i].kind # "event" => \A j \in Rest(q) : j < i => q[j].seq < e
Made(ks, q, f) ==
    /\ \A i, j \in Rest(q) : i < j => q[i].seq < q[j].seq
    /\ \A e \in (f + 1)..Done(q, f) : \E i \in Rest(q) : Carries(ks, q, i, e)

\* What an episode holds makes up for every event above m.
Waiting(ks, h, m) ==
    h # Dropped =>
        /\ h \in Seq(1..Len(ks)) /\ h # <<>> /\ h[Len(h)] = Len(ks)
        /\ \A i, j \in DOMAIN h : i < j => h[i] < h[j]
        /\ \A e \in (m + 1)..Len(ks) : \E j \in DOMAIN h : h[j] = e \/ (h[j] > e /\ Same(ks, e, h[j]))

\* What is on its way comes before what is held.
Above(q, h, n) ==
    \A i \in Rest(q) : q[i].seq < n /\ (h # Dropped => \A j \in DOMAIN h : q[i].seq < h[j])

\* An envelope of a line that is at n.
Sound(x, n) ==
    /\ x.seq <= n /\ x.from >= 1
    /\ x.kind = "event" => x.from = x.seq
    /\ x.kind = "keyframe" => x.from = 1

\* The most that the gate leaves in the buffer, the answer of the line apart.
Most == IF HighWater + 1 > LowWater + maxKeys THEN HighWater + 1 ELSE LowWater + maxKeys

\* The number that the client will have when what the answer does not cover begins.
Floor(f) == \/ link = "live" /\ f = last
            \/ link = "answered" /\ \E p \in DOMAIN sent : sent[p].kind = "answer" /\ f = sent[p].seq

\* One answer is on its way, or none; what is before it, and in the queue, it covers.
AnswerInv ==
    /\ link # "answered" => \A i \in DOMAIN sent : sent[i].kind # "answer"
    /\ link = "answered" => \E p \in DOMAIN sent :
          /\ sent[p].kind = "answer" /\ \A i \in DOMAIN sent : sent[i].kind = "answer" => i = p
          /\ sent[p].from <= last + 1 /\ last <= sent[p].seq
          /\ \A i \in DOMAIN sent : i < p => sent[i].seq <= sent[p].seq
          /\ \A i \in DOMAIN queue : queue[i].seq <= sent[p].seq

\* What is on its way and what is held make up for everything.
EpisodeInv ==
    /\ conflating => head > 0 /\ Waiting(keys, held, head)
    /\ \A f \in 0..head : Floor(f) =>
          /\ Made(keys, sent, f)
          /\ conflating => Waiting(keys, held, Done(sent, f)) /\ Above(sent, held, head)
          /\ ~conflating => Done(sent, f) = head

\* What holds always; and whatever is overwritten in the state of the client is made up
\* for by what it has, or by what is above its number.
GateInv ==
    /\ TypeOK /\ AnswerInv /\ EpisodeInv
    /\ link = "off" => sent = <<>> /\ flushed = 0 /\ ~conflating /\ queue = <<>>
    /\ \A i \in DOMAIN sent : Sound(sent[i], head)
    /\ \A i \in DOMAIN queue : queue[i].kind # "answer" /\ queue[i].seq <= head
    /\ \A e \in 1..last : Settled(keys, view \cup ((last + 1)..head), e)
    /\ Len(sent) - flushed <= Most + (IF link \in {"answered", "live"} THEN 1 ELSE 0)

Kinds == Keys \cup {Unkeyed}

\* A sequence and its members.
LEMMA GateSequences ==
  ASSUME NEW S, NEW s \in Seq(S)
  PROVE  /\ DOMAIN s = 1..Len(s) /\ Len(s) \in Nat
         /\ \A i \in 1..Len(s) : s[i] \in S
         /\ \A T : S \subseteq T => s \in Seq(T)
<1>1. DOMAIN s = 1..Len(s) /\ Len(s) \in Nat /\ \A i \in 1..Len(s) : s[i] \in S
  OBVIOUS
<1>2. ASSUME NEW T, S \subseteq T PROVE s \in Seq(T)
  BY <1>1, <1>2
<1> QED
  BY <1>1, <1>2

\* A sequence and one more.
LEMMA GateAppending ==
  ASSUME NEW S, NEW s \in Seq(S), NEW x \in S
  PROVE  /\ Append(s, x) \in Seq(S) /\ Len(Append(s, x)) = Len(s) + 1 /\ Append(s, x) # <<>>
         /\ DOMAIN Append(s, x) = 1..(Len(s) + 1) /\ Append(s, x)[Len(s) + 1] = x
         /\ \A i \in 1..Len(s) : Append(s, x)[i] = s[i]
OBVIOUS

\* A sequence of one.
LEMMA GateSingle ==
  ASSUME NEW S, NEW x \in S
  PROVE  <<x>> \in Seq(S) /\ Len(<<x>>) = 1 /\ DOMAIN <<x>> = {1} /\ <<x>>[1] = x /\ <<x>> # <<>>
OBVIOUS

\* What an event and a keyframe are.
LEMMA GateEnvelopes ==
  ASSUME NEW n \in Nat
  PROVE  /\ Event(n) \in Envelope /\ Event(n).kind = "event" /\ Event(n).seq = n /\ Event(n).from = n
         /\ Keyframe(n) \in Envelope /\ Keyframe(n).kind = "keyframe" /\ Keyframe(n).seq = n
         /\ Keyframe(n).from = 1
BY DEF Event, Keyframe, Envelope

\* A sequence without one of its members.
LEMMA GateRemoving ==
  ASSUME NEW S, NEW s \in Seq(S), NEW c \in DOMAIN s
  PROVE  /\ RemoveAt(s, c) \in Seq(S) /\ Len(RemoveAt(s, c)) = Len(s) - 1
         /\ \A i \in 1..(Len(s) - 1) : RemoveAt(s, c)[i] = IF i < c THEN s[i] ELSE s[i + 1]
<1> DEFINE a == SubSeq(s, 1, c - 1)
           b == SubSeq(s, c + 1, Len(s))
<1>1. Len(s) \in Nat /\ c \in 1..Len(s) /\ c \in Int
  OBVIOUS
<1>2. a \in Seq(S) /\ Len(a) = c - 1 /\ \A i \in 1..(c - 1) : a[i] = s[i]
  BY <1>1, SubSeqProperties
<1>3. b \in Seq(S) /\ Len(b) = Len(s) - c /\ \A i \in 1..(Len(s) - c) : b[i] = s[c + i]
  <2>1. CASE c + 1 <= Len(s) + 1
    BY <2>1, <1>1, SubSeqProperties
  <2> QED
    BY <2>1, <1>1
<1>4. RemoveAt(s, c) = a \o b
  BY DEF RemoveAt
<1> HIDE DEF a, b
<1>5. /\ a \o b \in Seq(S) /\ Len(a \o b) = Len(a) + Len(b)
      /\ \A i \in 1..(Len(a) + Len(b)) : (a \o b)[i] = IF i <= Len(a) THEN a[i] ELSE b[i - Len(a)]
  BY <1>2, <1>3, ConcatProperties
<1>6. ASSUME NEW i \in 1..(Len(s) - 1)
      PROVE  (a \o b)[i] = IF i < c THEN s[i] ELSE s[i + 1]
  <2>1. CASE i < c
    BY <2>1, <1>1, <1>2, <1>3, <1>5, SMTT(30)
  <2>2. CASE ~(i < c)
    <3>1. i - (c - 1) \in 1..(Len(s) - c) /\ c + (i - (c - 1)) = i + 1
      BY <2>2, <1>1
    <3>3. i \in 1..(Len(a) + Len(b)) /\ ~(i <= Len(a)) /\ i - Len(a) = i - (c - 1)
      BY <2>2, <1>1, <1>2, <1>3
    <3>2. (a \o b)[i] = b[i - (c - 1)]
      BY <3>3, <1>5
    <3> QED
      BY <2>2, <3>1, <3>2, <1>3
  <2> QED
    BY <2>1, <2>2
<1>7. Len(a) + Len(b) = Len(s) - 1
  BY <1>1, <1>2, <1>3
<1> QED
  BY <1>4, <1>5, <1>6, <1>7

\* The envelopes of a sequence.
LEMMA GatePlaces ==
  ASSUME NEW q \in Seq(Envelope)
  PROVE  /\ DOMAIN q = 1..Len(q) /\ Len(q) \in Nat
         /\ \A i \in 1..Len(q) : q[i] \in Envelope /\ q[i].seq \in Nat /\ q[i].from \in Nat
         /\ \A i \in Rest(q) : i \in 1..Len(q)
<1>1. DOMAIN q = 1..Len(q) /\ Len(q) \in Nat /\ \A i \in 1..Len(q) : q[i] \in Envelope
  OBVIOUS
<1>2. \A x \in Envelope : x.seq \in Nat /\ x.from \in Nat
  BY DEF Envelope
<1> QED
  BY <1>1, <1>2 DEF Rest

-----------------------------------------------------------------------------
(* Sequences of envelopes: what they make up for *)

\* What follows the answer when more is sent.
LEMMA RestOfConcat ==
  ASSUME NEW q \in Seq(Envelope), NEW r \in Seq(Envelope),
         \A i \in DOMAIN r : r[i].kind # "answer"
  PROVE  /\ q \o r \in Seq(Envelope) /\ Len(q \o r) = Len(q) + Len(r)
         /\ \A i \in DOMAIN q : (q \o r)[i] = q[i]
         /\ \A i \in DOMAIN r : (q \o r)[Len(q) + i] = r[i]
         /\ \A i \in Rest(q) : i \in Rest(q \o r)
         /\ \A i \in DOMAIN r : Len(q) + i \in Rest(q \o r)
         /\ \A i \in Rest(q \o r) : i \in Rest(q) \/ i - Len(q) \in DOMAIN r
<1> DEFINE t == q \o r
<1>1. /\ t \in Seq(Envelope) /\ Len(t) = Len(q) + Len(r) /\ Len(q) \in Nat /\ Len(r) \in Nat
      /\ \A i \in 1..(Len(q) + Len(r)) : t[i] = IF i <= Len(q) THEN q[i] ELSE r[i - Len(q)]
  BY ConcatProperties
<1> HIDE DEF t
<1>2. DOMAIN t = 1..(Len(q) + Len(r)) /\ DOMAIN q = 1..Len(q) /\ DOMAIN r = 1..Len(r)
  BY <1>1
<1>3. \A i \in DOMAIN q : t[i] = q[i]
  BY <1>1, <1>2
<1>4. \A i \in DOMAIN r : t[Len(q) + i] = r[i]
  <2> SUFFICES ASSUME NEW i \in DOMAIN r PROVE t[Len(q) + i] = r[i]
    OBVIOUS
  <2>1. Len(q) + i \in 1..(Len(q) + Len(r)) /\ ~(Len(q) + i <= Len(q)) /\ (Len(q) + i) - Len(q) = i
    BY <1>1, <1>2
  <2> QED
    BY <2>1, <1>1
<1>5. ASSUME NEW j \in DOMAIN t, t[j].kind = "answer"
      PROVE  j \in DOMAIN q /\ q[j].kind = "answer"
  <2>1. CASE j <= Len(q)
    BY <2>1, <1>5, <1>1, <1>2
  <2>2. CASE ~(j <= Len(q))
    <3>1. j - Len(q) \in DOMAIN r /\ t[j] = r[j - Len(q)]
      BY <2>2, <1>1, <1>2
    <3> QED
      BY <3>1, <1>5
  <2> QED
    BY <2>1, <2>2
<1>6. ASSUME NEW i \in Rest(q) PROVE i \in Rest(t)
  BY <1>5, <1>6, <1>1, <1>2 DEF Rest
<1>7. ASSUME NEW i \in DOMAIN r PROVE Len(q) + i \in Rest(t)
  BY <1>5, <1>7, <1>1, <1>2 DEF Rest
<1>8. ASSUME NEW i \in Rest(t) PROVE i \in Rest(q) \/ i - Len(q) \in DOMAIN r
  <2>1. CASE i <= Len(q)
    BY <2>1, <1>8, <1>1, <1>2, <1>3 DEF Rest
  <2>2. CASE ~(i <= Len(q))
    BY <2>2, <1>8, <1>1, <1>2 DEF Rest
  <2> QED
    BY <2>1, <2>2
<1> QED
  BY <1>1, <1>3, <1>4, <1>6, <1>7, <1>8 DEF t

\* What follows the answer when an envelope is received.
LEMMA RestOfTail ==
  ASSUME NEW q \in Seq(Envelope), q # <<>>
  PROVE  /\ Tail(q) \in Seq(Envelope) /\ Len(Tail(q)) = Len(q) - 1 /\ Len(q) \in Nat \ {0}
         /\ \A i \in DOMAIN Tail(q) : Tail(q)[i] = q[i + 1] /\ i + 1 \in DOMAIN q
         /\ \A i \in Rest(Tail(q)) : i + 1 \in Rest(q)
         /\ \A i \in Rest(q) : i > 1 => i - 1 \in Rest(Tail(q))
<1> DEFINE t == Tail(q)
<1>1. /\ t \in Seq(Envelope) /\ Len(t) = Len(q) - 1 /\ Len(q) \in Nat \ {0}
      /\ \A i \in 1..Len(t) : t[i] = q[i + 1]
  OBVIOUS
<1> HIDE DEF t
<1>2. DOMAIN t = 1..(Len(q) - 1) /\ DOMAIN q = 1..Len(q)
  BY <1>1
<1>3. \A i \in DOMAIN t : t[i] = q[i + 1] /\ i + 1 \in DOMAIN q
  BY <1>1, <1>2
<1>4. ASSUME NEW i \in Rest(t) PROVE i + 1 \in Rest(q)
  <2>1. i \in DOMAIN t /\ i + 1 \in DOMAIN q
    BY <1>3, <1>4 DEF Rest
  <2>2. ASSUME NEW j \in DOMAIN q, q[j].kind = "answer" PROVE j < i + 1
    <3>1. CASE j = 1
      BY <3>1, <2>1, <1>2, <1>1
    <3>2. CASE j # 1
      <4>1. j - 1 \in DOMAIN t /\ t[j - 1] = q[(j - 1) + 1] /\ (j - 1) + 1 = j
        BY <3>2, <1>1, <1>2, <1>3
      <4>2. j - 1 < i
        BY <4>1, <2>2, <1>4 DEF Rest
      <4> QED
        BY <4>2, <2>1, <1>1, <1>2
    <3> QED
      BY <3>1, <3>2
  <2> QED
    BY <2>1, <2>2 DEF Rest
<1>5. ASSUME NEW i \in Rest(q), i > 1 PROVE i - 1 \in Rest(t)
  <2>1. i \in DOMAIN q /\ i - 1 \in DOMAIN t
    BY <1>1, <1>2, <1>5 DEF Rest
  <2>2. ASSUME NEW j \in DOMAIN t, t[j].kind = "answer" PROVE j < i - 1
    <3>1. j + 1 \in DOMAIN q /\ q[j + 1].kind = "answer"
      BY <1>3, <2>2
    <3>2. j + 1 < i
      BY <3>1, <1>5 DEF Rest
    <3> QED
      BY <3>2, <2>1, <1>2, <1>1
  <2> QED
    BY <2>1, <2>2 DEF Rest
<1> QED
  BY <1>1, <1>3, <1>4, <1>5 DEF t

\* The envelopes after the answer ascend to the number that they lead to.
LEMMA DoneIsReached ==
  ASSUME NEW ks \in Seq(Kinds), NEW q \in Seq(Envelope), NEW f \in Nat, Made(ks, q, f)
  PROVE  /\ Done(q, f) \in Nat /\ f <= Done(q, f)
         /\ \A i \in Rest(q) : q[i].seq <= Done(q, f) /\ i \in 1..Len(q) /\ q[i] \in Envelope
         /\ \A i \in Rest(q) : i <= Len(q) /\ Len(q) \in Rest(q)
<1>1. DOMAIN q = 1..Len(q) /\ Len(q) \in Nat
  OBVIOUS
<1>2. \A i \in Rest(q) : i \in 1..Len(q) /\ Len(q) \in Rest(q)
  BY <1>1 DEF Rest
<1>3. \A i \in Rest(q) : q[i] \in Envelope /\ q[i].seq \in Nat
  BY <1>1, <1>2, GatePlaces
<1>4. \A i \in Rest(q) : q[i].seq <= q[Len(q)].seq
  <2> SUFFICES ASSUME NEW i \in Rest(q) PROVE q[i].seq <= q[Len(q)].seq
    OBVIOUS
  <2>1. i = Len(q) \/ i < Len(q)
    BY <1>1, <1>2
  <2>2. i < Len(q) => q[i].seq < q[Len(q)].seq
    BY <1>2 DEF Made
  <2> QED
    BY <2>1, <2>2, <1>2, <1>3
<1>5. Done(q, f) \in Nat /\ f <= Done(q, f) /\ (Rest(q) # {} => q[Len(q)].seq <= Done(q, f))
  <2>1. CASE Rest(q) = {}
    BY <2>1 DEF Done
  <2>2. CASE Rest(q) # {}
    <3>1. q[Len(q)].seq \in Nat
      BY <2>2, <1>2, <1>3
    <3> QED
      BY <2>2, <3>1 DEF Done
  <2> QED
    BY <2>1, <2>2
<1>6. \A i \in Rest(q) : q[i].seq <= Done(q, f)
  <2> SUFFICES ASSUME NEW i \in Rest(q) PROVE q[i].seq <= Done(q, f)
    OBVIOUS
  <2>1. q[i].seq \in Nat /\ q[Len(q)].seq \in Nat
    BY <1>2, <1>3
  <2> QED
    BY <2>1, <1>4, <1>5
<1> QED
  BY <1>2, <1>3, <1>5, <1>6, <1>1

\* The line with one more event.
LEMMA Widening ==
  ASSUME NEW ks \in Seq(Kinds), NEW k \in Kinds
  PROVE  /\ Append(ks, k) \in Seq(Kinds) /\ Len(Append(ks, k)) = Len(ks) + 1
         /\ Append(ks, k)[Len(ks) + 1] = k
         /\ \A e \in 1..Len(ks) : Append(ks, k)[e] = ks[e]
OBVIOUS

\* What makes up for the events of a line makes up for them when it grows.
LEMMA Longer ==
  ASSUME NEW ks \in Seq(Kinds), NEW k \in Kinds, NEW q \in Seq(Envelope), NEW f \in Nat,
         Made(ks, q, f), \A i \in DOMAIN q : Sound(q[i], Len(ks)), f <= Len(ks)
  PROVE  Made(Append(ks, k), q, f) /\ Done(q, f) <= Len(ks)
<1> DEFINE n == Len(ks)
           ms == Append(ks, k)
<1>1. n \in Nat /\ (\A e \in 1..n : ms[e] = ks[e]) /\ DOMAIN q = 1..Len(q) /\ Len(q) \in Nat
  BY Widening
<1>2. \A i \in Rest(q) : i \in DOMAIN q /\ q[i] \in Envelope /\ q[i].seq \in Nat /\ q[i].seq <= n
  BY <1>1, GatePlaces DEF Sound
<1>3. Done(q, f) \in Nat /\ Done(q, f) <= n
  <2>1. Rest(q) # {} => Len(q) \in Rest(q)
    BY DoneIsReached
  <2> QED
    BY <2>1, <1>1, <1>2 DEF Done
<1> HIDE DEF ms
<1>4. ASSUME NEW e \in (f + 1)..Done(q, f)
      PROVE  \E i \in Rest(q) : Carries(ms, q, i, e)
  <2>1. PICK i \in Rest(q) : Carries(ks, q, i, e)
    BY DEF Made
  <2>2. e \in 1..n
    BY <1>1, <1>3
  <2>3. Same(ks, e, q[i].seq) /\ q[i].seq >= e => Same(ms, e, q[i].seq)
    <3>1. q[i].seq >= e => q[i].seq \in 1..n
      BY <1>2, <2>2, <1>1
    <3> QED
      BY <3>1, <1>1, <2>2 DEF Same
  <2> QED
    BY <2>1, <2>3 DEF Carries
<1> QED
  BY <1>3, <1>4 DEF Made, ms

\* What an episode held makes up for the line, once it is sent.
LEMMA Recovering ==
  ASSUME NEW ks \in Seq(Kinds), NEW q \in Seq(Envelope), NEW f \in Nat, NEW h, Len(ks) > 0,
         f <= Len(ks), Made(ks, q, f), Waiting(ks, h, Done(q, f)), Above(q, h, Len(ks))
  PROVE  /\ Recovery(h, Len(ks)) \in Seq(Envelope) /\ Recovery(h, Len(ks)) # <<>>
         /\ \A i \in DOMAIN Recovery(h, Len(ks)) :
               /\ Recovery(h, Len(ks))[i].kind # "answer"
               /\ Sound(Recovery(h, Len(ks))[i], Len(ks))
         /\ h = Dropped => Len(Recovery(h, Len(ks))) = 1
         /\ h # Dropped => Len(Recovery(h, Len(ks))) = Len(h)
         /\ q \o Recovery(h, Len(ks)) \in Seq(Envelope)
         /\ Made(ks, q \o Recovery(h, Len(ks)), f)
         /\ Done(q \o Recovery(h, Len(ks)), f) = Len(ks)
<1> DEFINE n == Len(ks)
           r == Recovery(h, n)
           t == q \o r
           l == Len(q)
<1>0. n \in Nat \ {0}
  OBVIOUS
<1>1. h = Dropped => r = <<Keyframe(n)>>
  BY DEF Recovery
<1>2. h # Dropped =>
        /\ h \in Seq(1..n) /\ h # <<>> /\ Len(h) \in Nat \ {0} /\ DOMAIN h = 1..Len(h) /\ h[Len(h)] = n
        /\ \A i \in DOMAIN h : h[i] \in 1..n
        /\ DOMAIN r = DOMAIN h /\ \A i \in DOMAIN h : r[i] = Event(h[i])
  BY DEF Recovery, Waiting
<1> HIDE DEF r
<1>3. /\ r \in Seq(Envelope) /\ r # <<>>
      /\ \A i \in DOMAIN r : r[i].kind # "answer" /\ Sound(r[i], n)
      /\ h = Dropped => Len(r) = 1
      /\ h # Dropped => Len(r) = Len(h)
  <2>1. CASE h = Dropped
    <3>1. Keyframe(n) \in Envelope /\ Keyframe(n).kind # "answer" /\ Sound(Keyframe(n), n)
      BY <1>0, GateEnvelopes DEF Sound
    <3>2. DOMAIN r = {1} /\ r[1] = Keyframe(n)
      BY <2>1, <1>1
    <3>3. r \in Seq(Envelope) /\ r # <<>> /\ Len(r) = 1
      <4>1. ASSUME NEW x \in Envelope PROVE <<x>> \in Seq(Envelope) /\ <<x>> # <<>> /\ Len(<<x>>) = 1
        OBVIOUS
      <4> QED
        BY <4>1, <2>1, <1>1, <3>1
    <3> QED
      BY <2>1, <3>1, <3>2, <3>3
  <2>2. CASE h # Dropped
    <3>3. ASSUME NEW v \in 1..n PROVE Event(v) \in Envelope /\ Event(v).kind # "answer" /\ Sound(Event(v), n)
      BY GateEnvelopes DEF Sound
    <3>1. \A i \in 1..Len(h) : r[i] \in Envelope /\ r[i].kind # "answer" /\ Sound(r[i], n)
      BY <2>2, <3>3, <1>2
    <3>2. r \in Seq(Envelope) /\ Len(r) = Len(h)
      <4>1. r = [i \in 1..Len(h) |-> Event(h[i])]
        BY <2>2, <1>2 DEF Recovery, r
      <4>2. \A i \in 1..Len(h) : Event(h[i]) \in Envelope
        BY <2>2, <1>2, GateEnvelopes
      <4> QED
        BY <4>1, <4>2, <2>2, <1>2
    <3> QED
      BY <3>1, <3>2, <2>2, <1>2
  <2> QED
    BY <2>1, <2>2
<1>4. /\ t \in Seq(Envelope) /\ Len(t) = l + Len(r) /\ l \in Nat /\ Len(r) \in Nat \ {0}
      /\ DOMAIN q = 1..l /\ DOMAIN r = 1..Len(r)
      /\ \A i \in DOMAIN q : t[i] = q[i]
      /\ \A i \in DOMAIN r : t[l + i] = r[i]
      /\ \A i \in Rest(q) : i \in Rest(t)
      /\ \A i \in DOMAIN r : l + i \in Rest(t)
      /\ \A i \in Rest(t) : i \in Rest(q) \/ i - l \in DOMAIN r
  BY <1>3, RestOfConcat
<1> HIDE DEF t
<1>5. \A i \in DOMAIN r : r[i].seq \in Nat /\ r[i].seq <= n /\ r[Len(r)].seq = n
  BY <1>0, <1>1, <1>2, <1>3, GateEnvelopes DEF Sound
<1>6. \A i \in Rest(q) : i \in 1..l /\ q[i].seq \in Nat /\ q[i].seq <= Done(q, f)
  BY DoneIsReached DEF Envelope
<1>7. ASSUME NEW i \in Rest(t), NEW j \in Rest(t), i < j
      PROVE  t[i].seq < t[j].seq
  <2>0. i \in Int /\ j \in Int
    BY DEF Rest
  <2>1. CASE i \in Rest(q) /\ j \in Rest(q)
    BY <2>1, <1>7, <1>4, <1>6 DEF Made
  <2>2. CASE i \in Rest(q) /\ j - l \in DOMAIN r
    <3>1. t[i] = q[i] /\ t[j] = r[j - l]
      <4>1. l + (j - l) = j
        BY <1>4, <2>0
      <4> QED
        BY <4>1, <2>2, <1>4, <1>6
    <3>2. q[i].seq < r[j - l].seq
      <4>1. CASE h = Dropped
        BY <4>1, <2>2, <1>0, <1>1, GateEnvelopes DEF Above
      <4>2. CASE h # Dropped
        <5>1. h[j - l] \in Nat /\ r[j - l] = Event(h[j - l]) /\ q[i].seq < h[j - l]
          BY <4>2, <2>2, <1>2 DEF Above
        <5> QED
          BY <5>1, GateEnvelopes
      <4> QED
        BY <4>1, <4>2
    <3> QED
      BY <3>1, <3>2
  <2>3. CASE i - l \in DOMAIN r /\ j - l \in DOMAIN r
    <3>1. t[i] = r[i - l] /\ t[j] = r[j - l] /\ i - l < j - l
      <4>1. l + (j - l) = j /\ l + (i - l) = i /\ i - l < j - l
        BY <1>4, <2>0, <1>7
      <4> QED
        BY <4>1, <2>3, <1>4
    <3>2. r[i - l].seq < r[j - l].seq
      <4>1. CASE h = Dropped
        <5>1. i - l \in 1..1 /\ j - l \in 1..1
          BY <4>1, <2>3, <1>4, <1>3
        <5> QED
          BY <5>1, <3>1
      <4>2. CASE h # Dropped
        <5>1. /\ h[j - l] \in Nat /\ r[j - l] = Event(h[j - l]) /\ h[i - l] < h[j - l]
              /\ h[i - l] \in Nat /\ r[i - l] = Event(h[i - l])
          BY <4>2, <2>3, <3>1, <1>2 DEF Waiting
        <5> QED
          BY <5>1, GateEnvelopes
      <4> QED
        BY <4>1, <4>2
    <3> QED
      BY <3>1, <3>2
  <2>4. CASE i - l \in DOMAIN r /\ j \in Rest(q)
    BY <2>4, <2>0, <1>7, <1>4, <1>6
  <2> QED
    BY <2>1, <2>2, <2>3, <2>4, <1>4
<1>8. Done(t, f) = n
  <2>1. Rest(t) # {} /\ t[Len(t)] = r[Len(r)]
    BY <1>4
  <2>2. t[Len(t)].seq = n
    BY <2>1, <1>4, <1>5
  <2> QED
    BY <2>1, <2>2, <1>0 DEF Done
<1>9. ASSUME NEW e \in (f + 1)..n
      PROVE  \E i \in Rest(t) : Carries(ks, t, i, e)
  <2>0. e \in Nat /\ e <= n /\ Done(q, f) \in Nat
    BY <1>0, DoneIsReached
  <2>1. CASE e <= Done(q, f)
    <3>1. PICK i \in Rest(q) : Carries(ks, q, i, e)
      BY <2>1, <2>0, <1>9 DEF Made
    <3>2. i \in Rest(t) /\ t[i] = q[i] /\ i \in 1..l
      BY <1>4, <1>6
    <3>3. ASSUME NEW j \in Rest(t), j < i PROVE j \in Rest(q) /\ t[j] = q[j]
      BY <3>2, <3>3, <1>4, <1>6 DEF Rest
    <3> QED
      BY <3>1, <3>2, <3>3 DEF Carries
  <2>2. CASE ~(e <= Done(q, f)) /\ h = Dropped
    <3>1. r[1] = Keyframe(n) /\ 1 \in DOMAIN r /\ l + 1 \in Rest(t) /\ t[l + 1] = Keyframe(n)
      BY <2>2, <1>1, <1>4, <1>3, SMTT(30)
    <3>2. ASSUME NEW j \in Rest(t), j < l + 1 PROVE t[j].seq < e
      <4>1. j \in Rest(q) /\ t[j] = q[j]
        BY <3>2, <1>4, <1>6 DEF Rest
      <4> QED
        BY <4>1, <1>6, <2>2, <2>0
    <3> QED
      BY <3>1, <3>2, <2>0, <1>0, GateEnvelopes DEF Carries
  <2>3. CASE ~(e <= Done(q, f)) /\ h # Dropped
    <3>1. PICK j \in DOMAIN h : h[j] = e \/ (h[j] > e /\ Same(ks, e, h[j]))
      BY <2>3, <2>0 DEF Waiting
    <3>2. l + j \in Rest(t) /\ t[l + j] = Event(h[j]) /\ h[j] \in Nat
      <4>1. j \in DOMAIN r /\ r[j] = Event(h[j]) /\ h[j] \in 1..n
        BY <2>3, <1>2
      <4> QED
        BY <4>1, <1>4, <1>0
    <3> QED
      BY <3>1, <3>2, <2>0, GateEnvelopes DEF Carries
  <2> QED
    BY <2>1, <2>2, <2>3
<1>10. Made(ks, t, f)
  BY <1>7, <1>8, <1>9 DEF Made
<1> QED
  BY <1>3, <1>4, <1>8, <1>10 DEF t, r

\* What an episode holds after its first event.
LEMMA FirstHeld ==
  ASSUME maxKeys \in Nat, keys \in Seq(Kinds), NEW k \in Kinds, NEW h, h = Absorb(<<>>, head + 1, k)
  PROVE  /\ Waiting(Append(keys, k), h, head) /\ h \in Seq(0..(head + 1))
         /\ h # Dropped => Len(h) <= maxKeys /\ \A j \in DOMAIN h : h[j] = head + 1
<1>1. head \in Nat /\ Len(Append(keys, k)) = head + 1
  BY Widening DEF head
<1>2. h = Dropped \/ (h = <<head + 1>> /\ 1 <= maxKeys)
  BY DEF Absorb
<1>3. Dropped \in Seq(0..(head + 1)) /\ <<head + 1>> \in Seq(0..(head + 1))
  BY <1>1 DEF Dropped
<1>4. CASE h = Dropped
  BY <1>3, <1>4 DEF Waiting
<1>5. CASE h = <<head + 1>> /\ 1 <= maxKeys
  <2>1. /\ h \in Seq(1..(head + 1)) /\ h # <<>> /\ DOMAIN h = {1} /\ Len(h) = 1 /\ h[1] = head + 1
    <3>1. head + 1 \in 1..(head + 1)
      BY <1>1
    <3> QED
      <4>1. ASSUME NEW x \in 1..(head + 1), h = <<x>>
            PROVE  h \in Seq(1..(head + 1)) /\ h # <<>> /\ DOMAIN h = {1} /\ Len(h) = 1 /\ h[1] = x
        <5>1. <<x>> \in Seq(1..(head + 1)) /\ <<x>> # <<>> /\ DOMAIN <<x>> = {1} /\ Len(<<x>>) = 1 /\ <<x>>[1] = x
          OBVIOUS
        <5> QED
          BY <5>1, <4>1, Zenon
      <4> QED
        BY <1>5, <3>1, <4>1
  <2>2. \A e \in (head + 1)..(head + 1) : e = head + 1
    BY <1>1
  <2>3. Waiting(Append(keys, k), h, head)
    BY <2>1, <2>2, <1>1 DEF Waiting
  <2> QED
    BY <2>1, <2>3, <1>3, <1>5
<1> QED
  BY <1>2, <1>4, <1>5

\* An event that replaces the one of its key in an episode makes up for what that one did.
LEMMA Absorbing ==
  ASSUME maxKeys \in Nat, keys \in Seq(Kinds), NEW k \in Kinds, NEW g, NEW h, NEW m \in Nat,
         h = Absorb(g, head + 1, k), g # Dropped => Len(g) <= maxKeys, m <= head,
         Waiting(keys, g, m)
  PROVE  /\ Waiting(Append(keys, k), h, m) /\ h \in Seq(0..(head + 1))
         /\ h # Dropped => /\ g # Dropped /\ Len(h) <= maxKeys
                           /\ \A j \in DOMAIN h : h[j] = head + 1 \/ \E i \in DOMAIN g : h[j] = g[i]
<1> DEFINE n == head
           ms == Append(keys, k)
           at == {i \in DOMAIN g : keys[g[i]] = k}
<1>1. /\ n \in Nat /\ n = Len(keys) /\ Len(ms) = n + 1 /\ ms[n + 1] = k
      /\ \A e \in 1..n : ms[e] = keys[e]
  BY Widening DEF head
<1>2. Dropped \in Seq(0..(n + 1))
  BY <1>1 DEF Dropped
<1> HIDE DEF n, ms
<1>3. CASE h = Dropped
  BY <1>3, <1>2, <1>1 DEF Waiting, n
<1>4. CASE h # Dropped
  <2>1. /\ g # Dropped /\ k # Unkeyed /\ ~(at = {} /\ Len(g) >= maxKeys)
        /\ at = {} => h = Append(g, n + 1)
        /\ at # {} => h = Append(RemoveAt(g, CHOOSE i \in at : TRUE), n + 1)
    BY <1>4 DEF Absorb, n
  <2>2. /\ g \in Seq(1..n) /\ g # <<>> /\ g[Len(g)] = n /\ Len(g) \in Nat /\ DOMAIN g = 1..Len(g)
        /\ \A i, j \in DOMAIN g : i < j => g[i] < g[j]
        /\ \A e \in (m + 1)..n : \E j \in DOMAIN g : g[j] = e \/ (g[j] > e /\ Same(keys, e, g[j]))
    BY <2>1, <1>1 DEF Waiting
  <2>g. \A i \in 1..Len(g) : g[i] \in 1..n
    BY <2>2, GateSequences
  <2>3. PICK a : /\ a \in Seq(1..n) /\ h = Append(a, n + 1)
                 /\ Len(a) < maxKeys
                 /\ \A i, j \in DOMAIN a : i < j => a[i] < a[j]
                 /\ \A i \in DOMAIN a : \E j \in DOMAIN g : a[i] = g[j]
                 /\ \A j \in DOMAIN g : (\E i \in DOMAIN a : a[i] = g[j]) \/ keys[g[j]] = k
    <3>1. CASE at = {}
      <4>1. \A i \in DOMAIN g : \E j \in DOMAIN g : g[i] = g[j]
        OBVIOUS
      <4>2. Len(g) < maxKeys
        BY <3>1, <2>1, <2>2
      <4> QED
        BY <3>1, <2>1, <2>2, <4>1, <4>2
    <3>2. CASE at # {}
      <4> DEFINE c == CHOOSE i \in at : TRUE
                 b == RemoveAt(g, c)
      <4>1. c \in DOMAIN g /\ keys[g[c]] = k /\ c \in 1..Len(g)
        BY <3>2, <2>2
      <4>2. h = Append(b, n + 1)
        BY <3>2, <2>1
      <4> HIDE DEF c
      <4>3. /\ b \in Seq(1..n) /\ Len(b) = Len(g) - 1
            /\ \A i \in 1..(Len(g) - 1) : b[i] = IF i < c THEN g[i] ELSE g[i + 1]
        <5>1. g \in Seq(1..n)
          BY <2>2
        <5> QED
          BY <5>1, <4>1, GateRemoving
      <4> HIDE DEF b
      <4>4. DOMAIN b = 1..(Len(g) - 1)
        BY <4>3
      <4>5. ASSUME NEW i \in DOMAIN b, NEW j \in DOMAIN b, i < j PROVE b[i] < b[j]
        <5>1. /\ i \in 1..Len(g) /\ i + 1 \in 1..Len(g) /\ j \in 1..Len(g) /\ j + 1 \in 1..Len(g)
              /\ i < j + 1 /\ i + 1 < j + 1 /\ (~(i < c) => ~(j < c))
          BY <4>5, <4>4, <4>1, <2>2
        <5> QED
          BY <5>1, <4>3, <4>4, <4>5, <2>2
      <4>6. ASSUME NEW i \in DOMAIN b PROVE \E j \in DOMAIN g : b[i] = g[j]
        <5>1. i \in 1..Len(g) /\ i + 1 \in 1..Len(g) /\ (b[i] = g[i] \/ b[i] = g[i + 1])
          BY <4>3, <4>4, <2>2
        <5> QED
          BY <5>1, <2>2
      <4>7. ASSUME NEW j \in DOMAIN g, keys[g[j]] # k PROVE \E i \in DOMAIN b : b[i] = g[j]
        <5>1. j # c
          BY <4>1, <4>7
        <5>2. CASE j < c
          <6>1. j \in 1..(Len(g) - 1)
            BY <5>2, <4>1, <2>2
          <6> QED
            BY <6>1, <5>2, <4>3, <4>4
        <5>3. CASE j > c
          <6>1. j - 1 \in 1..(Len(g) - 1) /\ ~(j - 1 < c) /\ (j - 1) + 1 = j
            BY <5>3, <4>1, <2>2
          <6> QED
            BY <6>1, <4>3, <4>4
        <5> QED
          BY <5>1, <5>2, <5>3, <4>1, <2>2
      <4>8. Len(b) < maxKeys
        BY <4>3, <2>1, <2>2
      <4> QED
        BY <4>2, <4>3, <4>5, <4>6, <4>7, <4>8
    <3> QED
      BY <3>1, <3>2
  <2> DEFINE l == Len(a)
  <2>4. l \in Nat /\ DOMAIN a = 1..l /\ (\A i \in 1..l : a[i] \in 1..n)
    BY <2>3, GateSequences
  <2>5. /\ h \in Seq(1..(n + 1)) /\ Len(h) = l + 1 /\ DOMAIN h = 1..(l + 1) /\ h # <<>> /\ h[l + 1] = n + 1
        /\ \A i \in 1..l : h[i] = a[i]
        /\ h \in Seq(0..(n + 1))
    <3>1. a \in Seq(1..(n + 1)) /\ a \in Seq(0..(n + 1)) /\ n + 1 \in 1..(n + 1) /\ n + 1 \in 0..(n + 1)
      BY <2>3, <2>4, <1>1
    <3>2. h = Append(a, n + 1)
      BY <2>3
    <3>3. /\ h \in Seq(1..(n + 1)) /\ Len(h) = l + 1 /\ DOMAIN h = 1..(l + 1) /\ h # <<>> /\ h[l + 1] = n + 1
          /\ \A i \in 1..l : h[i] = a[i]
      <4>1. ASSUME NEW x \in 1..(n + 1), h = Append(a, x)
            PROVE  /\ h \in Seq(1..(n + 1)) /\ Len(h) = l + 1 /\ DOMAIN h = 1..(l + 1) /\ h # <<>>
                   /\ h[l + 1] = x /\ \A i \in 1..l : h[i] = a[i]
        <5> DEFINE b == Append(a, x)
        <5>1. /\ b \in Seq(1..(n + 1)) /\ Len(b) = l + 1 /\ DOMAIN b = 1..(l + 1) /\ b # <<>>
              /\ b[l + 1] = x /\ \A i \in 1..l : b[i] = a[i]
          BY <3>1, GateAppending, SMTT(30) DEF l
        <5> QED
          BY <5>1, <4>1, Zenon
      <4> QED
        BY <3>1, <3>2, <4>1
    <3>4. 1..(n + 1) \subseteq 0..(n + 1)
      BY <1>1
    <3> QED
      BY <3>3, <3>4, GateSequences
  <2> HIDE DEF l
  <2>6. Len(h) <= maxKeys
    BY <2>3, <2>4, <2>5 DEF l
  <2>7. ASSUME NEW i \in DOMAIN h, NEW j \in DOMAIN h, i < j PROVE h[i] < h[j]
    <3>1. i \in 1..l
      BY <2>7, <2>5, <2>4
    <3>2. CASE j = l + 1
      BY <3>1, <3>2, <2>4, <2>5, <1>1
    <3>3. CASE j \in 1..l
      BY <3>1, <3>3, <2>3, <2>4, <2>5, <2>7
    <3> QED
      BY <3>2, <3>3, <2>4, <2>5
  <2>8. ASSUME NEW e \in (m + 1)..(n + 1)
        PROVE  \E j \in DOMAIN h : h[j] = e \/ (h[j] > e /\ Same(ms, e, h[j]))
    <3>1. CASE e = n + 1
      BY <3>1, <2>4, <2>5
    <3>2. CASE e # n + 1
      <4>1. e \in (m + 1)..n /\ e \in 1..n
        BY <3>2, <1>1
      <4>2. PICK j \in DOMAIN g : g[j] = e \/ (g[j] > e /\ Same(keys, e, g[j]))
        BY <4>1, <2>2
      <4>3. g[j] \in 1..n
        BY <2>2, <2>g
      <4>4. CASE \E i \in DOMAIN a : a[i] = g[j]
        <5>1. PICK i \in DOMAIN a : a[i] = g[j]
          BY <4>4
        <5>2. i \in DOMAIN h /\ h[i] = g[j]
          BY <5>1, <2>4, <2>5
        <5> QED
          BY <5>2, <4>1, <4>2, <4>3, <1>1 DEF Same
      <4>5. CASE keys[g[j]] = k
        <5>1. keys[e] = k /\ e < n + 1
          BY <4>1, <4>2, <4>5, <1>1 DEF Same
        <5>2. Same(ms, e, n + 1)
          BY <5>1, <4>1, <1>1, <2>1 DEF Same
        <5> QED
          BY <5>1, <5>2, <2>4, <2>5, <4>1, <1>1
      <4> QED
        BY <4>4, <4>5, <2>3
    <3> QED
      BY <3>1, <3>2
  <2>9. Waiting(ms, h, m)
    BY <2>5, <2>7, <2>8, <1>1 DEF Waiting
  <2>10. ASSUME NEW j \in DOMAIN h PROVE h[j] = n + 1 \/ \E i \in DOMAIN g : h[j] = g[i]
    <3>1. j = l + 1 \/ j \in 1..l
      BY <2>4, <2>5
    <3> QED
      BY <3>1, <2>3, <2>4, <2>5
  <2> QED
    BY <2>1, <2>5, <2>6, <2>9, <2>10 DEF ms, n
<1> QED
  BY <1>3, <1>4

\* Less is to be made up for a client that is further on.
LEMMA Heaping ==
  ASSUME NEW ks, NEW h, NEW m \in Nat, NEW n \in Nat, Len(ks) \in Nat, m <= n, Waiting(ks, h, m)
  PROVE  Waiting(ks, h, n)
BY DEF Waiting

\* A client that takes the first envelope is made up for by the others.
LEMMA Shifting ==
  ASSUME NEW ks \in Seq(Kinds), NEW q \in Seq(Envelope), q # <<>>, NEW f \in Nat, NEW g \in Nat,
         Made(ks, q, f),
         1 \notin Rest(q) => g = f,
         1 \in Rest(q) => /\ q[1].seq > f => g = q[1].seq
                          /\ ~(q[1].seq > f) => g = f
  PROVE  /\ Made(ks, Tail(q), g) /\ Done(Tail(q), g) = Done(q, f)
         /\ 1 \in Rest(q) => q[1].seq <= Done(q, f)
<1> DEFINE t == Tail(q)
<1>1. /\ t \in Seq(Envelope) /\ Len(t) = Len(q) - 1 /\ Len(q) \in Nat \ {0}
      /\ \A i \in DOMAIN t : t[i] = q[i + 1] /\ i + 1 \in DOMAIN q
      /\ \A i \in Rest(t) : i + 1 \in Rest(q)
      /\ \A i \in Rest(q) : i > 1 => i - 1 \in Rest(t)
  BY RestOfTail
<1> HIDE DEF t
<1>2. /\ \A i \in Rest(q) : i \in 1..Len(q) /\ q[i].seq \in Nat /\ Len(q) \in Rest(q)
      /\ \A i \in Rest(t) : i \in 1..Len(t) /\ i \in DOMAIN t /\ t[i].seq \in Nat
  BY <1>1, GatePlaces, DoneIsReached
<1>3. Done(q, f) \in Nat /\ f <= Done(q, f) /\ \A i \in Rest(q) : q[i].seq <= Done(q, f)
  BY DoneIsReached
<1>4. Done(t, g) = Done(q, f)
  <2>1. CASE Rest(q) = {}
    <3>1. Rest(t) = {} /\ g = f
      BY <2>1, <1>1
    <3> QED
      BY <2>1, <3>1 DEF Done
  <2>2. CASE Rest(q) # {} /\ Len(q) = 1
    <3>1. Len(q) \in Rest(q) /\ 1 \in Rest(q) /\ q[Len(q)] = q[1] /\ q[1].seq \in Nat
      BY <2>2, <1>2
    <3>2. Rest(t) = {}
      BY <2>2, <1>1, <1>2
    <3>3. Done(t, g) = g
      BY <3>2 DEF Done
    <3>4. Done(q, f) = IF q[1].seq <= f THEN f ELSE q[1].seq
      BY <2>2, <3>1 DEF Done
    <3> QED
      BY <3>1, <3>3, <3>4
  <2>3. CASE Rest(q) # {} /\ Len(q) # 1
    <3>1. Len(q) \in Rest(q) /\ Len(q) > 1 /\ q[Len(q)].seq \in Nat
      BY <2>3, <1>1, <1>2
    <3>2. Len(t) \in Rest(t) /\ t[Len(t)] = q[Len(q)]
      BY <3>1, <1>1, <1>2
    <3>3. 1 \in Rest(q) => q[1].seq < q[Len(q)].seq /\ q[1].seq \in Nat
      BY <3>1, <1>2 DEF Made
    <3>4. Done(q, f) = IF q[Len(q)].seq <= f THEN f ELSE q[Len(q)].seq
      BY <2>3 DEF Done
    <3>5. Done(t, g) = IF q[Len(q)].seq <= g THEN g ELSE q[Len(q)].seq
      BY <3>2 DEF Done
    <3> QED
      BY <3>1, <3>3, <3>4, <3>5
  <2> QED
    BY <2>1, <2>2, <2>3
<1>5. ASSUME NEW i \in Rest(t), NEW j \in Rest(t), i < j
      PROVE  t[i].seq < t[j].seq
  <2>1. i + 1 \in Rest(q) /\ j + 1 \in Rest(q) /\ i + 1 < j + 1 /\ t[i] = q[i + 1] /\ t[j] = q[j + 1]
    <3>1. i \in 1..Len(t) /\ j \in 1..Len(t) /\ i \in DOMAIN t /\ j \in DOMAIN t
      BY <1>2
    <3>2. i + 1 < j + 1
      BY <3>1, <1>1, <1>5
    <3> QED
      BY <3>1, <3>2, <1>1
  <2> QED
    BY <2>1 DEF Made
<1>6. ASSUME NEW e \in (g + 1)..Done(q, f)
      PROVE  \E i \in Rest(t) : Carries(ks, t, i, e)
  <2>0. f <= g /\ e \in Nat
    BY <1>2
  <2>1. PICK i \in Rest(q) : Carries(ks, q, i, e)
    BY <2>0, <1>3, <1>6 DEF Made
  <2>2. i # 1
    BY <2>0, <2>1, <1>2, <1>6 DEF Carries
  <2>3. i - 1 \in Rest(t) /\ t[i - 1] = q[i]
    <3>1. i \in 1..Len(q) /\ i > 1 /\ (i - 1) + 1 = i
      BY <2>2, <1>1, <1>2
    <3>2. i - 1 \in Rest(t) /\ i - 1 \in DOMAIN t
      BY <3>1, <1>1, <1>2
    <3> QED
      BY <3>1, <3>2, <1>1
  <2>4. ASSUME NEW j \in Rest(t), j < i - 1, \A x \in Rest(q) : x < i => q[x].seq < e
        PROVE  t[j].seq < e
    <3>1. j + 1 \in Rest(q) /\ j + 1 < i /\ t[j] = q[j + 1]
      BY <2>4, <1>1, <1>2, SMTT(30)
    <3> QED
      BY <3>1, <2>4
  <2> QED
    BY <2>1, <2>3, <2>4 DEF Carries
<1> QED
  BY <1>3, <1>4, <1>5, <1>6 DEF Made, t

\* What is held stays behind what is on its way.
LEMMA ShiftingAbove ==
  ASSUME NEW q \in Seq(Envelope), q # <<>>, NEW h, NEW n, Above(q, h, n)
  PROVE  Above(Tail(q), h, n)
<1>1. \A i \in Rest(Tail(q)) : i + 1 \in Rest(q) /\ Tail(q)[i] = q[i + 1]
  BY RestOfTail, GatePlaces
<1> QED
  BY <1>1 DEF Above

\* An event that the first envelope skips is in it, or one of its key is in it or above it.
LEMMA CarriedByFirst ==
  ASSUME NEW ks \in Seq(Kinds), NEW q \in Seq(Envelope), q # <<>>, NEW f \in Nat,
         Made(ks, q, f), 1 \in Rest(q), q[1].seq > f, Sound(q[1], Len(ks)),
         Done(q, f) <= Len(ks), NEW e \in (f + 1)..q[1].seq
  PROVE  Settled(ks, Folds(q[1]) \cup (q[1].seq + 1)..Len(ks), e)
<1>1. /\ q[1] \in Envelope /\ q[1].seq \in Nat /\ q[1].seq <= Len(ks) /\ q[1].seq <= Done(q, f)
      /\ \A i \in Rest(q) : i \in 1..Len(q) /\ q[i].seq \in Nat /\ q[i].seq <= Len(ks) /\ i >= 1
      /\ Len(ks) \in Nat /\ q[1].kind # "answer"
  <2>1. q[1] \in Envelope /\ q[1].seq \in Nat /\ Len(ks) \in Nat
    BY GatePlaces
  <2>2. q[1].kind # "answer"
    BY DEF Rest
  <2>3. \A i \in Rest(q) : i \in 1..Len(q) /\ q[i].seq \in Nat /\ q[i].seq <= Done(q, f)
    BY GatePlaces, DoneIsReached
  <2>4. Done(q, f) \in Nat
    BY DoneIsReached
  <2> QED
    BY <2>1, <2>2, <2>3, <2>4
<1>2. PICK i \in Rest(q) : Carries(ks, q, i, e)
  <2>1. e \in (f + 1)..Done(q, f)
    BY <1>1, DoneIsReached
  <2> QED
    BY <2>1 DEF Made
<1>3. CASE i = 1 /\ q[1].kind = "event"
  <2>1. q[1].seq \in Folds(q[1])
    BY <1>1, <1>3 DEF Sound, Folds
  <2> QED
    BY <2>1, <1>1, <1>2, <1>3 DEF Carries, Settled, Same
<1>4. CASE i = 1 /\ q[1].kind # "event"
  <2>1. q[1].from = 1
    BY <1>1, <1>4 DEF Sound, Envelope
  <2> QED
    BY <2>1, <1>1 DEF Settled, Folds
<1>5. CASE i # 1
  <2>1. i > 1 /\ q[1].seq < q[i].seq
    BY <1>1, <1>5 DEF Made
  <2>2. q[i].kind = "event"
    <3>1. q[i].kind # "event" => q[1].seq < e
      BY <2>1, <1>2 DEF Carries
    <3> QED
      BY <3>1, <1>1
  <2>3. q[i].seq \in (q[1].seq + 1)..Len(ks) /\ q[i].seq > e
    BY <2>1, <1>1
  <2>4. Same(ks, e, q[i].seq)
    BY <2>2, <2>3, <1>2, <1>1 DEF Carries
  <2> QED
    BY <2>3, <2>4 DEF Settled, Same
<1> QED
  BY <1>3, <1>4, <1>5

\* What makes up for what makes up for an event makes up for it.
LEMMA SettledAgain ==
  ASSUME NEW ks \in Seq(Kinds), NEW X \in SUBSET Nat, NEW Y \in SUBSET Nat, NEW e \in Nat,
         Settled(ks, X, e), \A x \in X : Settled(ks, Y, x)
  PROVE  Settled(ks, Y, e)
BY DEF Settled

-----------------------------------------------------------------------------
(* The steps of the gate *)

\* What ends an episode.
LEMMA RecoveryIs ==
  ASSUME NEW ks \in Seq(Kinds), NEW h, Len(ks) > 0, Waiting(ks, h, Len(ks))
  PROVE  /\ Recovery(h, Len(ks)) \in Seq(Envelope) /\ Recovery(h, Len(ks)) # <<>>
         /\ \A i \in DOMAIN Recovery(h, Len(ks)) :
               /\ Recovery(h, Len(ks))[i].kind # "answer"
               /\ Sound(Recovery(h, Len(ks))[i], Len(ks))
         /\ h = Dropped => Len(Recovery(h, Len(ks))) = 1
         /\ h # Dropped => Len(Recovery(h, Len(ks))) = Len(h)
<1>1. PICK q \in Seq(Envelope) : q = <<>>
  <2>1. <<>> \in Seq(Envelope)
    OBVIOUS
  <2> QED
    BY <2>1, Zenon
<1>2. Len(ks) \in Nat /\ Rest(q) = {}
  BY <1>1 DEF Rest
<1>3. Done(q, Len(ks)) = Len(ks)
  BY <1>2 DEF Done
<1>4. Made(ks, q, Len(ks)) /\ Above(q, h, Len(ks))
  BY <1>2, <1>3 DEF Made, Above
<1>5. Waiting(ks, h, Done(q, Len(ks))) /\ Len(ks) <= Len(ks)
  BY <1>2, <1>3
<1> QED
  BY <1>2, <1>4, <1>5, Recovering

\* The types that the steps need.
LEMMA GateFacts ==
  ASSUME GateAssumption, GateInv
  PROVE  /\ keys \in Seq(Kinds) /\ head \in Nat /\ head = Len(keys) /\ maxKeys \in Nat
         /\ sent \in Seq(Envelope) /\ flushed \in Nat /\ other \in Nat /\ Len(sent) \in Nat
         /\ flushed <= Len(sent) /\ queue \in Seq(Envelope) /\ HighWater \in Nat /\ LowWater \in Nat
         /\ LowWater <= HighWater /\ DOMAIN sent = 1..Len(sent) /\ last \in 0..head /\ view \subseteq 1..head
         /\ \A f \in Nat : Floor(f) => f <= head
         /\ held # Dropped => Len(held) <= maxKeys
         /\ drops \in Nat /\ link \in {"off", "asked", "answered", "live"}
<1>1. TypeOK /\ \A i \in DOMAIN sent : Sound(sent[i], head)
  BY DEF GateInv
<1>2. keys \in Seq(Kinds) /\ maxKeys \in Nat /\ HighWater \in Nat /\ LowWater \in Nat /\ LowWater <= HighWater
  BY <1>1 DEF TypeOK, GateAssumption, Kinds
<1>3. head \in Nat /\ head = Len(keys)
  BY <1>2 DEF head
<1>4. /\ sent \in Seq(Envelope) /\ Len(sent) \in Nat /\ DOMAIN sent = 1..Len(sent)
      /\ flushed \in Nat /\ other \in Nat /\ flushed <= Len(sent) /\ queue \in Seq(Envelope)
  BY <1>1 DEF TypeOK
<1>5. /\ last \in 0..head /\ view \subseteq 1..head /\ (held # Dropped => Len(held) <= maxKeys)
      /\ drops \in Nat /\ link \in {"off", "asked", "answered", "live"}
  BY <1>1 DEF TypeOK
<1>6. ASSUME NEW f \in Nat, Floor(f) PROVE f <= head
  BY <1>1, <1>3, <1>5, <1>6 DEF Floor, Sound
<1> QED
  BY <1>2, <1>3, <1>4, <1>5, <1>6

\* What is made up for stays so when the line grows.
LEMMA SettledLonger ==
  ASSUME NEW ks \in Seq(Kinds), NEW k \in Kinds, NEW X, NEW Y, X \subseteq Y, X \subseteq 1..Len(ks),
         NEW e \in 1..Len(ks), Settled(ks, X, e)
  PROVE  Settled(Append(ks, k), Y, e)
BY Widening DEF Settled

\* What is sent besides an answer leaves the answers alone.
LEMMA Feeding ==
  ASSUME GateAssumption, GateInv, NEW r \in Seq(Envelope), \A i \in DOMAIN r : r[i].kind # "answer",
         sent' = sent \o r, UNCHANGED <<link, last, queue>>
  PROVE  /\ AnswerInv' /\ \A f \in Nat : Floor(f)' => Floor(f)
         /\ sent' \in Seq(Envelope) /\ Len(sent') = Len(sent) + Len(r) /\ Len(r) \in Nat
         /\ \A i \in DOMAIN sent' : (\E j \in DOMAIN sent : sent'[i] = sent[j]) \/ \E j \in DOMAIN r : sent'[i] = r[j]
<1>1. sent \in Seq(Envelope) /\ Len(sent) \in Nat /\ DOMAIN sent = 1..Len(sent) /\ AnswerInv
  BY GateFacts DEF GateInv
<1>2. /\ sent' \in Seq(Envelope) /\ Len(sent') = Len(sent) + Len(r) /\ Len(r) \in Nat
      /\ DOMAIN sent' = 1..(Len(sent) + Len(r)) /\ DOMAIN r = 1..Len(r)
      /\ \A i \in DOMAIN sent : sent'[i] = sent[i]
      /\ \A i \in DOMAIN r : sent'[Len(sent) + i] = r[i]
  BY <1>1, RestOfConcat, GatePlaces
<1>3. \A i \in DOMAIN sent' : i \in DOMAIN sent \/ (i - Len(sent) \in DOMAIN r /\ sent'[i] = r[i - Len(sent)])
  <2> SUFFICES ASSUME NEW i \in DOMAIN sent', i \notin DOMAIN sent
               PROVE  i - Len(sent) \in DOMAIN r /\ sent'[i] = r[i - Len(sent)]
    OBVIOUS
  <2>1. i - Len(sent) \in DOMAIN r /\ Len(sent) + (i - Len(sent)) = i
    BY <1>1, <1>2
  <2> QED
    BY <2>1, <1>2
<1>4. \A i \in DOMAIN sent' : sent'[i].kind = "answer" => i \in DOMAIN sent /\ sent'[i] = sent[i]
  BY <1>2, <1>3
<1>5. DOMAIN sent \subseteq DOMAIN sent'
  BY <1>1, <1>2
<1>6. AnswerInv'
  <2>1. CASE link # "answered"
    <3>1. \A i \in DOMAIN sent' : sent'[i].kind # "answer"
      BY <2>1, <1>1, <1>4 DEF AnswerInv
    <3> QED
      BY <2>1, <3>1 DEF AnswerInv
  <2>2. CASE link = "answered"
    <3>1. PICK p \in DOMAIN sent :
          /\ sent[p].kind = "answer" /\ \A i \in DOMAIN sent : sent[i].kind = "answer" => i = p
          /\ sent[p].from <= last + 1 /\ last <= sent[p].seq
          /\ \A i \in DOMAIN sent : i < p => sent[i].seq <= sent[p].seq
          /\ \A i \in DOMAIN queue : queue[i].seq <= sent[p].seq
      BY <2>2, <1>1 DEF AnswerInv
    <3>2. p \in DOMAIN sent' /\ sent'[p] = sent[p]
      BY <1>2, <1>5
    <3>3. \A i \in DOMAIN sent' : i < p => i \in DOMAIN sent /\ sent'[i] = sent[i]
      BY <1>1, <1>2
    <3>4. \A i \in DOMAIN sent' : sent'[i].kind = "answer" => i = p
      BY <3>1, <1>4
    <3> QED
      BY <2>2, <3>1, <3>2, <3>3, <3>4 DEF AnswerInv
  <2> QED
    BY <2>1, <2>2
<1>7. ASSUME NEW f \in Nat, Floor(f)' PROVE Floor(f)
  BY <1>7, <1>4 DEF Floor
<1> QED
  BY <1>2, <1>3, <1>6, <1>7

\* The gate sends, or ends its episode.
LEMMA Sending ==
  ASSUME GateAssumption, GateInv, NEW k \in Kinds, keys' \in {keys, Append(keys, k)}, NEW h,
         Len(keys') > 0, Waiting(keys', h, Len(keys')), link # "off",
         \A f \in Nat : Floor(f) => Waiting(keys', h, Done(sent, f)) /\ Above(sent, h, Len(keys')),
         sent' = sent \o Recovery(h, Len(keys')), conflating' = FALSE, held' = Dropped,
         Len(sent) - flushed + Len(Recovery(h, Len(keys'))) <= Most,
         UNCHANGED <<maxKeys, flushed, other, clientVars>>
  PROVE  GateInv'
<1> DEFINE r == Recovery(h, Len(keys'))
<1>0. UNCHANGED <<link, last, view, queue, drops>>
  BY DEF clientVars
<1>1. /\ keys \in Seq(Kinds) /\ head \in Nat /\ head = Len(keys) /\ maxKeys \in Nat
      /\ sent \in Seq(Envelope) /\ flushed \in Nat /\ other \in Nat /\ Len(sent) \in Nat
      /\ flushed <= Len(sent) /\ queue \in Seq(Envelope) /\ last \in 0..head /\ view \subseteq 1..head
      /\ \A f \in Nat : Floor(f) => f <= head
      /\ drops \in Nat /\ link \in {"off", "asked", "answered", "live"} /\ HighWater \in Nat /\ LowWater \in Nat
  BY GateFacts
<1>2. /\ keys' \in Seq(Kinds) /\ head' = Len(keys') /\ head' \in Nat /\ head <= head'
  <2>1. head' = Len(keys')
    BY DEF head
  <2>2. Append(keys, k) \in Seq(Kinds) /\ Len(Append(keys, k)) = head + 1
    BY <1>1, Widening
  <2> QED
    <3>1. CASE keys' = keys
      BY <3>1, <2>1, <1>1
    <3>2. CASE keys' = Append(keys, k)
      BY <3>2, <2>1, <2>2, <1>1
    <3> QED
      BY <3>1, <3>2
<1>3. r \in Seq(Envelope) /\ r # <<>> /\ \A i \in DOMAIN r : r[i].kind # "answer" /\ Sound(r[i], head')
  BY <1>2, RecoveryIs
<1> HIDE DEF r
<1>4. sent' = sent \o r /\ Len(sent) - flushed + Len(r) <= Most
  BY DEF r
<1>5. /\ AnswerInv' /\ \A f \in Nat : Floor(f)' => Floor(f)
      /\ sent' \in Seq(Envelope) /\ Len(sent') = Len(sent) + Len(r) /\ Len(r) \in Nat
      /\ \A i \in DOMAIN sent' : (\E j \in DOMAIN sent : sent'[i] = sent[j]) \/ \E j \in DOMAIN r : sent'[i] = r[j]
  BY <1>0, <1>3, <1>4, Feeding
<1>6. \A i \in DOMAIN sent : Sound(sent[i], head) /\ sent[i].seq \in Nat
  BY <1>1, GatePlaces DEF GateInv
<1>7. \A i \in DOMAIN sent' : Sound(sent'[i], head')
  <2>1. \A j \in DOMAIN sent : Sound(sent[j], head')
    BY <1>1, <1>2, <1>6 DEF Sound
  <2> QED
    BY <2>1, <1>3, <1>5
<1>8. ASSUME NEW f \in Nat, Floor(f)'
      PROVE  Made(keys', sent', f) /\ Done(sent', f) = head'
  <2>1. Floor(f) /\ f <= head /\ f <= Len(keys') /\ f \in 0..head
    BY <1>1, <1>2, <1>5, <1>8
  <2>2. Made(keys, sent, f)
    BY <2>1 DEF GateInv, EpisodeInv
  <2>3. Made(keys', sent, f)
    <3>1. CASE keys' = keys
      BY <2>2, <3>1
    <3>2. CASE keys' = Append(keys, k)
      <4>1. \A i \in DOMAIN sent : Sound(sent[i], Len(keys))
        BY <1>1, <1>6
      <4>2. f <= Len(keys)
        BY <2>1, <1>1
      <4>3. Made(Append(keys, k), sent, f)
        BY <4>1, <4>2, <2>2, <1>1, Longer
      <4> QED
        BY <3>2, <4>3
    <3> QED
      BY <3>1, <3>2
  <2>4. Waiting(keys', h, Done(sent, f)) /\ Above(sent, h, Len(keys'))
    BY <2>1
  <2>5. /\ Made(keys', sent \o Recovery(h, Len(keys')), f)
        /\ Done(sent \o Recovery(h, Len(keys')), f) = Len(keys')
    BY <2>1, <2>3, <2>4, <1>1, <1>2, Recovering
  <2> QED
    BY <2>5, <1>2
<1>9. EpisodeInv'
  BY <1>2, <1>8 DEF EpisodeInv
<1>10. TypeOK'
  <2>1. keys' \in Seq(Keys \cup {Unkeyed})
    BY <1>2 DEF Kinds
  <2>2. Dropped \in Seq(0..head')
    BY <1>2 DEF Dropped
  <2>3. last \in 0..head' /\ view \subseteq 1..head'
    BY <1>1, <1>2
  <2>4. flushed \in 0..Len(sent')
    BY <1>1, <1>5
  <2>5. maxKeys \in Limits
    BY DEF GateInv, TypeOK
  <2> QED
    BY <2>1, <2>2, <2>3, <2>4, <2>5, <1>0, <1>1, <1>5 DEF TypeOK
<1>11. \A e \in 1..last : Settled(keys', view \cup ((last + 1)..head'), e)
  <2> SUFFICES ASSUME NEW e \in 1..last PROVE Settled(keys', view \cup ((last + 1)..head'), e)
    OBVIOUS
  <2>1. Settled(keys, view \cup ((last + 1)..head), e) /\ e \in 1..Len(keys)
    <3>1. e \in 1..Len(keys)
      BY <1>1
    <3> QED
      BY <3>1 DEF GateInv
  <2>2. /\ view \cup ((last + 1)..head) \subseteq view \cup ((last + 1)..head')
        /\ view \cup ((last + 1)..head) \subseteq 1..Len(keys)
    <3>1. (last + 1)..head \subseteq (last + 1)..head' /\ (last + 1)..head \subseteq 1..Len(keys)
      BY <1>1, <1>2
    <3>2. view \subseteq 1..Len(keys)
      BY <1>1
    <3> QED
      BY <3>1, <3>2
  <2>3. CASE keys' = keys
    BY <2>1, <2>2, <2>3 DEF Settled
  <2>4. CASE keys' = Append(keys, k)
    BY <2>1, <2>2, <2>4, <1>1, SettledLonger
  <2> QED
    BY <2>3, <2>4
<1>12. \A i \in DOMAIN queue : queue[i].kind # "answer" /\ queue[i].seq <= head'
  <2>1. \A i \in DOMAIN queue : queue[i].kind # "answer" /\ queue[i].seq <= head /\ queue[i].seq \in Nat
    BY <1>1, GatePlaces DEF GateInv
  <2> QED
    BY <2>1, <1>1, <1>2
<1>13. Len(sent') - flushed' <= Most' + (IF link' \in {"answered", "live"} THEN 1 ELSE 0)
  <2>1. Most' = Most /\ Most \in Int
    BY <1>1 DEF Most
  <2> QED
    BY <2>1, <1>1, <1>4, <1>5
<1> QED
  BY <1>0, <1>5, <1>7, <1>9, <1>10, <1>11, <1>12, <1>13 DEF GateInv

\* How it compares.
LEMMA Bounds ==
  ASSUME GateAssumption, maxKeys \in Nat
  PROVE  Most \in Nat /\ HighWater + 1 <= Most /\ LowWater + maxKeys <= Most /\ LowWater + 1 <= Most
BY DEF Most, GateAssumption

\* The poll timer.
LEMMA Polling ==
  ASSUME GateAssumption, GateInv, Poll
  PROVE  GateInv'
<1>1. /\ head = Len(keys) /\ head \in Nat /\ maxKeys \in Nat /\ Len(sent) \in Nat /\ flushed \in Nat
      /\ other \in Nat /\ (held # Dropped => Len(held) <= maxKeys) /\ LowWater \in Nat /\ keys \in Seq(Kinds)
  BY GateFacts
<1>2. keys' = keys /\ Unkeyed \in Kinds
  BY DEF Poll, Kinds
<1>3. conflating /\ head > 0 /\ Waiting(keys, held, head) /\ link # "off"
  BY DEF Poll, GateInv, EpisodeInv
<1>4. \A f \in Nat : Floor(f) => Waiting(keys, held, Done(sent, f)) /\ Above(sent, held, head)
  <2> SUFFICES ASSUME NEW f \in Nat, Floor(f)
               PROVE  Waiting(keys, held, Done(sent, f)) /\ Above(sent, held, head)
    OBVIOUS
  <2>1. f \in 0..head
    BY GateFacts
  <2> QED
    BY <2>1, <1>3 DEF GateInv, EpisodeInv
<1>5. Len(sent) - flushed + Len(Recovery(held, Len(keys'))) <= Most
  <2>1. /\ held = Dropped => Len(Recovery(held, Len(keys'))) = 1
        /\ held # Dropped => Len(Recovery(held, Len(keys'))) = Len(held)
        /\ Len(Recovery(held, Len(keys'))) \in Nat
    <3>1. Recovery(held, Len(keys)) \in Seq(Envelope)
      BY <1>1, <1>3, RecoveryIs
    <3> QED
      BY <3>1, <1>1, <1>2, <1>3, RecoveryIs
  <2>2. Len(Recovery(held, Len(keys'))) <= 1 \/ Len(Recovery(held, Len(keys'))) <= maxKeys
    <3> DEFINE l == Len(Recovery(held, Len(keys')))
    <3>1. (held = Dropped => l = 1) /\ (held # Dropped => l = Len(held)) /\ l \in Nat
      BY <2>1
    <3> HIDE DEF l
    <3>2. l <= 1 \/ l <= maxKeys
      BY <3>1, <1>1
    <3> QED
      BY <3>2 DEF l
  <2>3. Len(sent) - flushed + other <= LowWater
    BY DEF Poll, pending
  <2>4. Most \in Nat /\ LowWater + maxKeys <= Most /\ LowWater + 1 <= Most
    BY <1>1, Bounds
  <2> QED
    BY <2>1, <2>2, <2>3, <2>4, <1>1
<1>6. /\ sent' = sent \o Recovery(held, Len(keys')) /\ conflating' = FALSE /\ held' = Dropped
      /\ UNCHANGED <<maxKeys, flushed, other, clientVars>>
  BY <1>1, <1>2 DEF Poll
<1> QED
  BY <1>1, <1>2, <1>3, <1>4, <1>5, <1>6, Sending

\* The line emits: what the client has stays as good as it was.
LEMMA Growing ==
  ASSUME GateAssumption, GateInv, NEW k \in Kinds, keys' = Append(keys, k), UNCHANGED <<last, view, queue>>
  PROVE  /\ keys' \in Seq(Kinds) /\ head' = head + 1 /\ head' = Len(keys') /\ head' > 0
         /\ \A e \in 1..last' : Settled(keys', view' \cup ((last' + 1)..head'), e)
         /\ \A i \in DOMAIN sent : Sound(sent[i], head')
         /\ \A i \in DOMAIN queue' : queue'[i].kind # "answer" /\ queue'[i].seq <= head'
         /\ last' \in 0..head' /\ view' \subseteq 1..head'
         /\ \A f \in Nat : Floor(f) => Made(keys', sent, f) /\ Done(sent, f) <= head
<1>1. /\ keys \in Seq(Kinds) /\ head \in Nat /\ head = Len(keys)
      /\ sent \in Seq(Envelope) /\ queue \in Seq(Envelope) /\ last \in 0..head /\ view \subseteq 1..head
      /\ \A f \in Nat : Floor(f) => f <= head
  BY GateFacts
<1>2. keys' \in Seq(Kinds) /\ Len(keys') = head + 1 /\ head' = Len(keys')
  BY <1>1, Widening DEF head
<1>3. \A i \in DOMAIN sent : Sound(sent[i], head')
  <2>1. \A i \in DOMAIN sent : Sound(sent[i], head) /\ sent[i].seq \in Nat
    BY <1>1, GatePlaces DEF GateInv
  <2> QED
    BY <2>1, <1>1, <1>2 DEF Sound
<1>4. \A i \in DOMAIN queue : queue[i].kind # "answer" /\ queue[i].seq <= head'
  <2>1. \A i \in DOMAIN queue : queue[i].kind # "answer" /\ queue[i].seq <= head /\ queue[i].seq \in Nat
    BY <1>1, GatePlaces DEF GateInv
  <2> QED
    BY <2>1, <1>1, <1>2
<1>5. \A e \in 1..last : Settled(keys', view \cup ((last + 1)..head'), e)
  <2> SUFFICES ASSUME NEW e \in 1..last PROVE Settled(keys', view \cup ((last + 1)..head'), e)
    OBVIOUS
  <2>1. Settled(keys, view \cup ((last + 1)..head), e) /\ e \in 1..Len(keys)
    <3>1. e \in 1..Len(keys)
      BY <1>1
    <3> QED
      BY <3>1 DEF GateInv
  <2>2. /\ view \cup ((last + 1)..head) \subseteq view \cup ((last + 1)..head')
        /\ view \cup ((last + 1)..head) \subseteq 1..Len(keys)
    <3>1. (last + 1)..head \subseteq (last + 1)..head' /\ (last + 1)..head \subseteq 1..Len(keys)
      BY <1>1, <1>2
    <3>2. view \subseteq 1..Len(keys)
      BY <1>1
    <3> QED
      BY <3>1, <3>2
  <2> QED
    BY <2>1, <2>2, <1>1, SettledLonger
<1>6. ASSUME NEW f \in Nat, Floor(f) PROVE Made(keys', sent, f) /\ Done(sent, f) <= head
  <2>1. f <= head /\ f \in 0..head
    BY <1>1, <1>6
  <2>2. Made(keys, sent, f) /\ \A i \in DOMAIN sent : Sound(sent[i], Len(keys))
    BY <2>1, <1>1, <1>6 DEF GateInv, EpisodeInv
  <2>3. Made(Append(keys, k), sent, f) /\ Done(sent, f) <= Len(keys)
    BY <2>1, <2>2, <1>1, Longer
  <2> QED
    BY <2>3, <1>1
<1>7. last \in 0..head' /\ view \subseteq 1..head'
  BY <1>1, <1>2
<1>8. head' > 0 /\ head' = head + 1
  BY <1>1, <1>2
<1>9. last' = last /\ view' = view /\ queue' = queue
  OBVIOUS
<1> QED
  BY <1>2, <1>3, <1>4, <1>5, <1>6, <1>7, <1>8, <1>9, Zenon

\* An event while no client is connected.
LEMMA EmittingOff ==
  ASSUME GateAssumption, GateInv, NEW k \in Kinds, Emit(k), link = "off"
  PROVE  GateInv'
<1>1. UNCHANGED <<sent, conflating, held, maxKeys, flushed, other, link, last, view, queue, drops>> /\ keys' = Append(keys, k)
  BY DEF Emit, gateVars, clientVars
<1>2. /\ keys' \in Seq(Kinds) /\ head' = head + 1 /\ head' = Len(keys') /\ head' > 0
      /\ \A e \in 1..last' : Settled(keys', view' \cup ((last' + 1)..head'), e)
      /\ \A i \in DOMAIN sent : Sound(sent[i], head')
      /\ \A i \in DOMAIN queue' : queue'[i].kind # "answer" /\ queue'[i].seq <= head'
      /\ last' \in 0..head' /\ view' \subseteq 1..head'
  BY <1>1, Growing
<1>3. sent = <<>> /\ flushed = 0 /\ ~conflating /\ queue = <<>>
  BY DEF GateInv
<1>4. TypeOK'
  <2>1. held = Dropped /\ Dropped \in Seq(0..head')
    BY <1>2, <1>3, GateFacts DEF GateInv, TypeOK, Dropped
  <2> QED
    BY <2>1, <1>1, <1>2, <1>3 DEF TypeOK, GateInv, Kinds
<1>5. AnswerInv' /\ EpisodeInv'
  BY <1>1, <1>3 DEF AnswerInv, EpisodeInv, Floor
<1>6. Len(sent') - flushed' <= Most' + (IF link' \in {"answered", "live"} THEN 1 ELSE 0)
  BY <1>1 DEF GateInv, Most
<1> QED
  BY <1>1, <1>2, <1>3, <1>4, <1>5, <1>6 DEF GateInv

\* An event that is sent.
LEMMA EmittingSent ==
  ASSUME GateAssumption, GateInv, NEW k \in Kinds, Emit(k), link # "off", ~conflating, pending <= HighWater
  PROVE  GateInv'
<1>1. /\ UNCHANGED <<conflating, held, maxKeys, flushed, other, clientVars>> /\ keys' = Append(keys, k)
      /\ sent' = Append(sent, Event(head + 1))
  BY DEF Emit, gateVars, GateForward
<1>2. UNCHANGED <<last, view, queue>>
  BY <1>1 DEF clientVars
<1>3. /\ keys' \in Seq(Kinds) /\ head' = head + 1 /\ head' = Len(keys') /\ head' > 0
      /\ \A f \in Nat : Floor(f) => Made(keys', sent, f) /\ Done(sent, f) <= head
      /\ \A i \in DOMAIN sent : Sound(sent[i], head')
  BY <1>1, <1>2, Growing
<1>4. /\ head = Len(keys) /\ head \in Nat /\ maxKeys \in Nat /\ Len(sent) \in Nat /\ flushed \in Nat
      /\ other \in Nat /\ HighWater \in Nat /\ keys \in Seq(Kinds) /\ sent \in Seq(Envelope)
      /\ DOMAIN sent = 1..Len(sent) /\ \A f \in Nat : Floor(f) => f <= head
  BY GateFacts
<1> DEFINE n == head + 1
           h == <<n>>
<1>5. /\ h \in Seq(1..n) /\ Len(h) = 1 /\ DOMAIN h = {1} /\ h[1] = n /\ h # <<>> /\ n \in Nat \ {0}
      /\ h # Dropped
  <2>1. n \in 1..n
    BY <1>4
  <2>2. h[1] # Dropped[1]
    BY <1>4 DEF Dropped
  <2> QED
    BY <2>1, <2>2, <1>4, GateSingle
<1>6. n = Len(keys') /\ n = head' /\ head < n
  BY <1>3, <1>4
<1> HIDE DEF h, n
<1>7. \A m \in Nat : m >= head => Waiting(keys', h, m)
  <2> SUFFICES ASSUME NEW m \in Nat, m >= head PROVE Waiting(keys', h, m)
    OBVIOUS
  <2>1. \A e \in (m + 1)..n : e = n
    BY <1>4, <1>5 DEF n
  <2> QED
    BY <2>1, <1>5, <1>6 DEF Waiting
<1>8. Above(sent, h, n)
  <2>1. \A i \in Rest(sent) : i \in DOMAIN sent /\ sent[i].seq \in Nat
    BY <1>4, GatePlaces
  <2>2. \A i \in Rest(sent) : sent[i].seq <= head
    BY <2>1 DEF GateInv, Sound
  <2>3. \A i \in Rest(sent) : sent[i].seq < n
    BY <2>1, <2>2, <1>4, <1>5, <1>6
  <2> QED
    BY <2>3, <1>5 DEF Above
<1>9. \A f \in Nat : Floor(f) => Waiting(keys', h, Done(sent, f)) /\ Above(sent, h, n)
  <2> SUFFICES ASSUME NEW f \in Nat, Floor(f) PROVE Waiting(keys', h, Done(sent, f))
    BY <1>8
  <2>1. f \in 0..head
    BY <1>4
  <2>2. Done(sent, f) = head
    BY <2>1 DEF GateInv, EpisodeInv
  <2> QED
    BY <2>2, <1>4, <1>7
<1>10. Recovery(h, n) = <<Event(n)>>
  <2>1. Recovery(h, n) = [i \in DOMAIN h |-> Event(h[i])]
    BY <1>5 DEF Recovery
  <2>2. h = <<n>>
    BY DEF h
  <2> QED
    BY <2>1, <2>2
<1>11. sent' = sent \o Recovery(h, Len(keys'))
  <2>1. ASSUME NEW x \in Envelope PROVE Append(sent, x) = sent \o <<x>>
    BY <1>4
  <2> QED
    <3>1. Event(n) \in Envelope /\ sent' = Append(sent, Event(n))
      BY <1>1, <1>5, GateEnvelopes DEF n
    <3>2. sent' = sent \o <<Event(n)>>
      BY <2>1, <3>1, Zenon
    <3> QED
      BY <3>2, <1>6, <1>10, Zenon
<1>12. Len(sent) - flushed + Len(Recovery(h, Len(keys'))) <= Most
  <2>1. Len(Recovery(h, Len(keys'))) = 1
    BY <1>6, <1>10
  <2>2. Len(sent) - flushed + other <= HighWater
    BY DEF pending
  <2> QED
    BY <2>1, <2>2, <1>4, Bounds
<1>13. conflating' = FALSE /\ held' = Dropped
  BY <1>1 DEF GateInv, TypeOK
<1>14. Len(keys') > 0 /\ Waiting(keys', h, Len(keys')) /\ \A f \in Nat : Floor(f) => Waiting(keys', h, Done(sent, f)) /\ Above(sent, h, Len(keys'))
  BY <1>3, <1>5, <1>6, <1>7, <1>9, <1>4
<1> QED
  BY <1>1, <1>11, <1>12, <1>13, <1>14, Sending

\* An event that an episode absorbs, whether or not it ends with it.
LEMMA EmittingKept ==
  ASSUME GateAssumption, GateInv, NEW k \in Kinds, Emit(k), link # "off", NEW h,
         Waiting(keys', h, head'), h \in Seq(0..head'), h # Dropped => Len(h) <= maxKeys,
         \A f \in Nat : Floor(f) => Waiting(keys', h, Done(sent, f)) /\ Above(sent, h, head'),
         \/ /\ pending <= LowWater
            /\ sent' = sent \o Recovery(h, head + 1) /\ conflating' = FALSE /\ held' = Dropped
         \/ conflating' = TRUE /\ held' = h /\ UNCHANGED sent
  PROVE  GateInv'
<1>1. UNCHANGED <<maxKeys, flushed, other, clientVars>> /\ keys' = Append(keys, k)
  BY DEF Emit
<1>2. UNCHANGED <<link, last, view, queue, drops>>
  BY <1>1 DEF clientVars
<1>3. /\ keys' \in Seq(Kinds) /\ head' = head + 1 /\ head' = Len(keys') /\ head' > 0
      /\ \A e \in 1..last' : Settled(keys', view' \cup ((last' + 1)..head'), e)
      /\ \A i \in DOMAIN sent : Sound(sent[i], head')
      /\ \A i \in DOMAIN queue' : queue'[i].kind # "answer" /\ queue'[i].seq <= head'
      /\ last' \in 0..head' /\ view' \subseteq 1..head'
      /\ \A f \in Nat : Floor(f) => Made(keys', sent, f) /\ Done(sent, f) <= head
  BY <1>1, <1>2, Growing
<1>4. /\ head = Len(keys) /\ head \in Nat /\ maxKeys \in Nat /\ Len(sent) \in Nat /\ flushed \in Nat
      /\ other \in Nat /\ LowWater \in Nat /\ sent \in Seq(Envelope) /\ \A f \in Nat : Floor(f) => f <= head
  BY GateFacts
<1>5. CASE /\ pending <= LowWater
           /\ sent' = sent \o Recovery(h, head + 1) /\ conflating' = FALSE /\ held' = Dropped
  <2> DEFINE r == Recovery(h, Len(keys'))
             l == Len(r)
  <2>1. sent' = sent \o r
    BY <1>3, <1>5, Zenon
  <2>2. Waiting(keys', h, Len(keys')) /\ Len(keys') > 0
    BY <1>3
  <2>3. (h = Dropped => l = 1) /\ (h # Dropped => l = Len(h)) /\ l \in Nat
    BY <1>3, <2>2, RecoveryIs
  <2>4. \A f \in Nat : Floor(f) => Waiting(keys', h, Done(sent, f)) /\ Above(sent, h, Len(keys'))
    BY <1>3
  <2> HIDE DEF l
  <2>5. l <= 1 \/ l <= maxKeys
    BY <2>3, <1>4
  <2>6. Len(sent) - flushed + l <= Most
    <3>1. Len(sent) - flushed + other <= LowWater
      BY <1>5 DEF pending
    <3>2. Most \in Nat /\ LowWater + maxKeys <= Most /\ LowWater + 1 <= Most
      BY <1>4, Bounds
    <3> QED
      BY <3>1, <3>2, <2>3, <2>5, <1>4
  <2> HIDE DEF r
  <2> QED
    BY <2>1, <2>2, <2>4, <2>6, <1>1, <1>5, Sending DEF l, r
<1>6. CASE conflating' = TRUE /\ held' = h /\ UNCHANGED sent
  <2>1. TypeOK'
    <3>1. /\ maxKeys' \in Limits /\ keys' \in Seq(Keys \cup {Unkeyed}) /\ conflating' \in BOOLEAN
          /\ held' \in Seq(0..head') /\ (held' # Dropped => conflating' /\ Len(held') <= maxKeys')
      BY <1>1, <1>3, <1>6 DEF GateInv, TypeOK, Kinds
    <3>2. /\ sent' \in Seq(Envelope) /\ flushed' \in 0..Len(sent') /\ other' \in Nat
          /\ link' \in {"off", "asked", "answered", "live"} /\ queue' \in Seq(Envelope) /\ drops' \in Nat
      BY <1>1, <1>2, <1>6 DEF GateInv, TypeOK
    <3> QED
      BY <3>1, <3>2, <1>3 DEF TypeOK
  <2>2. AnswerInv'
    BY <1>2, <1>6 DEF AnswerInv, GateInv
  <2>3. \A f \in Nat : Floor(f)' <=> Floor(f)
    BY <1>2, <1>6 DEF Floor
  <2>4. EpisodeInv'
    <3>1. \A f \in 0..head' : Floor(f)' =>
            /\ Made(keys', sent', f) /\ Waiting(keys', held', Done(sent', f)) /\ Above(sent', held', head')
      BY <2>3, <1>3, <1>6
    <3> QED
      BY <3>1, <1>3, <1>6 DEF EpisodeInv
  <2>5. \A i \in DOMAIN sent' : Sound(sent'[i], head')
    BY <1>3, <1>6
  <2>6. Len(sent') - flushed' <= Most' + (IF link' \in {"answered", "live"} THEN 1 ELSE 0)
    BY <1>1, <1>2, <1>6 DEF GateInv, Most
  <2>7. link' # "off"
    BY <1>2
  <2> QED
    BY <2>1, <2>2, <2>4, <2>5, <2>6, <2>7, <1>3 DEF GateInv
<1> QED
  BY <1>5, <1>6

\* An event that begins an episode.
LEMMA EmittingFirst ==
  ASSUME GateAssumption, GateInv, NEW k \in Kinds, Emit(k), link # "off", ~conflating, ~(pending <= HighWater)
  PROVE  GateInv'
<1> DEFINE h == Absorb(<<>>, head + 1, k)
<1>1. UNCHANGED <<last, view, queue>> /\ keys' = Append(keys, k)
  BY DEF Emit, clientVars
<1>2. /\ keys' \in Seq(Kinds) /\ head' = head + 1 /\ head' = Len(keys')
      /\ \A i \in DOMAIN sent : Sound(sent[i], head')
  BY <1>1, Growing
<1>3. /\ maxKeys \in Nat /\ keys \in Seq(Kinds) /\ head \in Nat /\ head = Len(keys)
      /\ sent \in Seq(Envelope) /\ DOMAIN sent = 1..Len(sent) /\ \A f \in Nat : Floor(f) => f <= head
  BY GateFacts
<1>4. \/ /\ pending <= LowWater
         /\ sent' = sent \o Recovery(h, head + 1) /\ conflating' = FALSE /\ held' = Dropped
      \/ conflating' = TRUE /\ held' = h /\ UNCHANGED sent
  BY DEF Emit, GateForward
<1>5. /\ Waiting(keys', h, head) /\ h \in Seq(0..head')
      /\ h # Dropped => Len(h) <= maxKeys /\ \A j \in DOMAIN h : h[j] = head + 1
  BY <1>1, <1>2, <1>3, FirstHeld
<1> HIDE DEF h
<1>6. Waiting(keys', h, head')
  <2>1. head' \in Nat /\ head <= head'
    BY <1>2, <1>3
  <2>2. Len(keys') \in Nat
    BY <1>2, <2>1
  <2> QED
    BY <2>1, <2>2, <1>3, <1>5, Heaping
<1>7. Above(sent, h, head')
  <2>1. \A i \in Rest(sent) : i \in DOMAIN sent /\ sent[i].seq \in Nat
    BY <1>3, GatePlaces
  <2>2. \A i \in Rest(sent) : sent[i].seq <= head
    BY <2>1 DEF GateInv, Sound
  <2>3. \A i \in Rest(sent) : sent[i].seq < head + 1
    BY <2>1, <2>2, <1>3
  <2> QED
    BY <2>3, <1>2, <1>5 DEF Above
<1>8. ASSUME NEW f \in Nat, Floor(f) PROVE Waiting(keys', h, Done(sent, f))
  <2>1. f \in 0..head
    BY <1>3, <1>8
  <2>2. Done(sent, f) = head
    BY <1>8, <2>1 DEF GateInv, EpisodeInv
  <2> QED
    BY <2>2, <1>5
<1> QED
  BY <1>4, <1>5, <1>6, <1>7, <1>8, EmittingKept

\* An event within an episode.
LEMMA EmittingMore ==
  ASSUME GateAssumption, GateInv, NEW k \in Kinds, Emit(k), link # "off", conflating
  PROVE  GateInv'
<1> DEFINE h == Absorb(held, head + 1, k)
<1>1. UNCHANGED <<last, view, queue>> /\ keys' = Append(keys, k)
  BY DEF Emit, clientVars
<1>2. /\ keys' \in Seq(Kinds) /\ head' = head + 1 /\ head' = Len(keys')
      /\ \A i \in DOMAIN sent : Sound(sent[i], head')
      /\ \A f \in Nat : Floor(f) => Made(keys', sent, f) /\ Done(sent, f) <= head
  BY <1>1, Growing
<1>3. /\ maxKeys \in Nat /\ keys \in Seq(Kinds) /\ head \in Nat /\ head = Len(keys)
      /\ held # Dropped => Len(held) <= maxKeys
      /\ sent \in Seq(Envelope) /\ DOMAIN sent = 1..Len(sent) /\ \A f \in Nat : Floor(f) => f <= head
  BY GateFacts
<1>4. \/ /\ pending <= LowWater
         /\ sent' = sent \o Recovery(h, head + 1) /\ conflating' = FALSE /\ held' = Dropped
      \/ conflating' = TRUE /\ held' = h /\ UNCHANGED sent
  BY DEF Emit, GateForward
<1>5. Waiting(keys, held, head)
  BY DEF GateInv, EpisodeInv
<1>6. \A f \in Nat : Floor(f) =>
        /\ Waiting(keys, held, Done(sent, f)) /\ Above(sent, held, head)
        /\ Done(sent, f) \in Nat /\ Done(sent, f) <= head
  <2> SUFFICES ASSUME NEW f \in Nat, Floor(f)
               PROVE  /\ Waiting(keys, held, Done(sent, f)) /\ Above(sent, held, head)
                      /\ Done(sent, f) \in Nat /\ Done(sent, f) <= head
    OBVIOUS
  <2>1. f \in 0..head
    BY <1>3
  <2>2. Waiting(keys, held, Done(sent, f)) /\ Above(sent, held, head) /\ Made(keys, sent, f)
    BY <2>1 DEF GateInv, EpisodeInv
  <2> QED
    BY <2>2, <1>2, <1>3, DoneIsReached
<1>7. \A m \in Nat : m <= head /\ Waiting(keys, held, m) =>
        /\ Waiting(keys', h, m) /\ h \in Seq(0..head')
        /\ h # Dropped => /\ held # Dropped /\ Len(h) <= maxKeys
                          /\ \A j \in DOMAIN h : h[j] = head + 1 \/ \E i \in DOMAIN held : h[j] = held[i]
  BY <1>1, <1>2, <1>3, Absorbing
<1> HIDE DEF h
<1>8. /\ Waiting(keys', h, head) /\ h \in Seq(0..head')
      /\ h # Dropped => /\ held # Dropped /\ Len(h) <= maxKeys
                        /\ \A j \in DOMAIN h : h[j] = head + 1 \/ \E i \in DOMAIN held : h[j] = held[i]
  <2>1. head <= head
    BY <1>3
  <2> QED
    BY <2>1, <1>3, <1>5, <1>7
<1>9. Waiting(keys', h, head')
  <2>1. head' \in Nat /\ head <= head'
    BY <1>2, <1>3
  <2>2. Len(keys') \in Nat
    BY <1>2, <2>1
  <2> QED
    BY <2>1, <2>2, <1>3, <1>8, Heaping
<1>10. ASSUME NEW f \in Nat, Floor(f)
       PROVE  Waiting(keys', h, Done(sent, f)) /\ Above(sent, h, head')
  <2>1. Waiting(keys', h, Done(sent, f))
    BY <1>6, <1>7, <1>10
  <2>2. \A i \in Rest(sent) : sent[i].seq \in Nat /\ sent[i].seq < head
    BY <1>3, <1>6, <1>10, GatePlaces DEF Above
  <2>3. \A i \in Rest(sent) : sent[i].seq < head + 1
    BY <2>2, <1>3
  <2>4. h # Dropped => \A i \in Rest(sent) : \A j \in DOMAIN h : sent[i].seq < h[j]
    BY <2>3, <1>6, <1>8, <1>10 DEF Above
  <2> QED
    BY <2>1, <2>3, <2>4, <1>2 DEF Above
<1> QED
  BY <1>4, <1>8, <1>9, <1>10, EmittingKept

\* A connection.
LEMMA Connecting ==
  ASSUME GateAssumption, GateInv, Connect
  PROVE  GateInv'
<1>1. /\ link = "off" /\ link' = "asked" /\ conflating' = FALSE /\ held' = Dropped
      /\ UNCHANGED <<maxKeys, keys, sent, flushed, other, last, view, queue, drops>>
  BY DEF Connect, bufferVars
<1>2. sent = <<>> /\ flushed = 0 /\ queue = <<>>
  BY <1>1 DEF GateInv
<1>3. head' = head /\ Most' = Most /\ head \in Nat
  BY <1>1, GateFacts DEF head, Most
<1>4. Dropped \in Seq(0..head)
  BY <1>3 DEF Dropped
<1>5. TypeOK'
  BY <1>1, <1>3, <1>4 DEF GateInv, TypeOK
<1>6. AnswerInv' /\ EpisodeInv'
  BY <1>1, <1>2 DEF AnswerInv, EpisodeInv, Floor
<1> QED
  BY <1>1, <1>3, <1>5, <1>6 DEF GateInv

\* The frame that a client has asked for.
LEMMA Answering ==
  ASSUME GateAssumption, GateInv, AnswerFrame
  PROVE  GateInv'
<1>1. /\ link = "asked" /\ link' = "answered"
      /\ UNCHANGED <<maxKeys, keys, conflating, held, flushed, other, last, view, queue, drops>>
  BY DEF AnswerFrame, gateVars
<1>2. PICK from \in {1, last + 1} : sent' = Append(sent, Answer(from))
  BY DEF AnswerFrame
<1>3. /\ head = Len(keys) /\ head \in Nat /\ keys \in Seq(Kinds) /\ sent \in Seq(Envelope) /\ Len(sent) \in Nat
      /\ DOMAIN sent = 1..Len(sent) /\ last \in 0..head /\ last \in Nat /\ queue \in Seq(Envelope)
      /\ flushed \in Nat /\ flushed <= Len(sent) /\ maxKeys \in Nat
  BY GateFacts
<1>4. head' = head /\ Most' = Most
  BY <1>1 DEF head, Most
<1> DEFINE x == Answer(from)
           p == Len(sent) + 1
<1>5. x \in Envelope /\ x.kind = "answer" /\ x.seq = head /\ x.from = from /\ from >= 1 /\ from <= last + 1 /\ from \in Nat
  BY <1>3 DEF Answer, Envelope
<1> HIDE DEF x
<1>6. /\ sent' \in Seq(Envelope) /\ Len(sent') = p /\ DOMAIN sent' = 1..p /\ sent'[p] = x
      /\ \A i \in 1..Len(sent) : sent'[i] = sent[i]
  BY <1>2, <1>3, <1>5, GateAppending DEF x
<1>7. \A i \in DOMAIN sent : sent[i].kind # "answer" /\ Sound(sent[i], head)
  BY <1>1 DEF GateInv, AnswerInv
<1>8. \A i \in DOMAIN sent' : (i \in DOMAIN sent /\ i < p /\ sent'[i] = sent[i]) \/ i = p
  BY <1>3, <1>6
<1>9. p \in DOMAIN sent' /\ p \in Nat
  BY <1>3, <1>6
<1>10. \A i \in DOMAIN sent' : Sound(sent'[i], head')
  <2>1. Sound(x, head)
    BY <1>3, <1>5 DEF Sound
  <2> QED
    BY <2>1, <1>4, <1>6, <1>7, <1>8
<1>11. AnswerInv'
  <2>1. \A i \in DOMAIN sent' : sent'[i].kind = "answer" => i = p
    BY <1>7, <1>8
  <2>2. \A i \in DOMAIN sent' : i < p => sent'[i].seq <= sent'[p].seq
    BY <1>5, <1>6, <1>7, <1>8, <1>9 DEF Sound
  <2>3. \A i \in DOMAIN queue : queue[i].seq <= sent'[p].seq
    BY <1>5, <1>6 DEF GateInv
  <2> QED
    BY <2>1, <2>2, <2>3, <1>1, <1>3, <1>5, <1>6, <1>9 DEF AnswerInv
<1>12. Rest(sent') = {}
  BY <1>5, <1>6, <1>8, <1>9 DEF Rest
<1>13. ASSUME NEW f \in 0..head, Floor(f)'
       PROVE  Made(keys, sent', f) /\ Done(sent', f) = head /\ Above(sent', held, head)
  <2>1. f = head
    BY <1>1, <1>5, <1>6, <1>7, <1>8, <1>13 DEF Floor
  <2>2. Done(sent', f) = head
    BY <2>1, <1>12 DEF Done
  <2> QED
    BY <2>1, <2>2, <1>3, <1>12 DEF Made, Above
<1>14. EpisodeInv'
  <2>1. CASE conflating
    BY <2>1, <1>1, <1>4, <1>13 DEF EpisodeInv, GateInv
  <2>2. CASE ~conflating
    BY <2>2, <1>1, <1>4, <1>13 DEF EpisodeInv
  <2> QED
    BY <2>1, <2>2
<1>15. TypeOK'
  <2>1. flushed \in 0..Len(sent')
    BY <1>3, <1>6
  <2> QED
    BY <2>1, <1>1, <1>4, <1>6 DEF GateInv, TypeOK
<1>16. Len(sent') - flushed' <= Most' + (IF link' \in {"answered", "live"} THEN 1 ELSE 0)
  <2>1. Len(sent) - flushed <= Most
    <3>1. link \notin {"answered", "live"}
      BY <1>1
    <3> HIDE DEF Most
    <3>2. Len(sent) - flushed <= Most + 0
      BY <3>1 DEF GateInv
    <3>3. Most \in Nat
      BY <1>3, Bounds
    <3> QED
      BY <3>2, <3>3
  <2>2. Most \in Nat
    BY <1>3, Bounds
  <2> QED
    BY <2>1, <2>2, <1>1, <1>3, <1>4, <1>6
<1> QED
  BY <1>1, <1>4, <1>10, <1>11, <1>14, <1>15, <1>16 DEF GateInv

\* A lost connection.
LEMMA Dropping ==
  ASSUME GateAssumption, GateInv, Drop
  PROVE  GateInv'
<1>1. /\ link' = "off" /\ queue' = <<>> /\ sent' = <<>> /\ flushed' = 0 /\ other' = 0
      /\ conflating' = FALSE /\ held' = Dropped /\ drops' = drops + 1
      /\ UNCHANGED <<maxKeys, keys, last, view>>
  BY DEF Drop
<1>2. head' = head /\ Most' = Most /\ head \in Nat /\ maxKeys \in Nat
  BY <1>1, GateFacts DEF head, Most
<1>3. Dropped \in Seq(0..head) /\ <<>> \in Seq(Envelope)
  BY <1>2 DEF Dropped
<1>4. TypeOK'
  <2>1. last' \in 0..head' /\ view' \subseteq 1..head' /\ drops' \in Nat /\ held' \in Seq(0..head')
    BY <1>1, <1>2, <1>3, GateFacts
  <2>2. maxKeys' \in Limits /\ keys' \in Seq(Keys \cup {Unkeyed})
    BY <1>1 DEF GateInv, TypeOK
  <2>3. sent' \in Seq(Envelope) /\ queue' \in Seq(Envelope) /\ flushed' \in 0..Len(sent')
    BY <1>1, <1>3
  <2> QED
    BY <2>1, <2>2, <2>3, <1>1 DEF TypeOK
<1>5. AnswerInv' /\ EpisodeInv'
  BY <1>1 DEF AnswerInv, EpisodeInv, Floor
<1>6. Len(sent') - flushed' <= Most' + (IF link' \in {"answered", "live"} THEN 1 ELSE 0)
  BY <1>1, <1>2, Bounds
<1>7. \A e \in 1..last' : Settled(keys', view' \cup ((last' + 1)..head'), e)
  BY <1>1, <1>2 DEF GateInv
<1>8. DOMAIN sent' = {} /\ DOMAIN queue' = {}
  BY <1>1
<1> QED
  BY <1>1, <1>4, <1>5, <1>6, <1>7, <1>8 DEF GateInv

\* What goes on in the buffer.
LEMMA Draining ==
  ASSUME GateAssumption, GateInv, Flush \/ OtherTraffic \/ OtherFlushes
  PROVE  GateInv'
<1>1. UNCHANGED <<maxKeys, keys, conflating, held, sent, link, last, view, queue, drops>>
  BY DEF Flush, OtherTraffic, OtherFlushes, gateVars, clientVars
<1>2. flushed \in Nat /\ other \in Nat /\ Len(sent) \in Nat /\ flushed <= Len(sent) /\ maxKeys \in Nat
  BY GateFacts
<1>3. /\ flushed' \in Nat /\ flushed <= flushed' /\ flushed' <= Len(sent) /\ other' \in Nat
      /\ link = "off" => flushed' = flushed
  <2>1. CASE Flush
    <3>1. link = "off" => Len(sent) = 0 /\ flushed = 0
      BY DEF GateInv
    <3> QED
      BY <2>1, <3>1, <1>2 DEF Flush
  <2>2. CASE OtherTraffic
    BY <2>2, <1>2 DEF OtherTraffic
  <2>3. CASE OtherFlushes
    BY <2>3, <1>2 DEF OtherFlushes
  <2> QED
    BY <2>1, <2>2, <2>3
<1>4. head' = head /\ Most' = Most /\ Most \in Nat
  BY <1>1, <1>2, Bounds DEF head, Most
<1>5. flushed' \in 0..Len(sent')
  BY <1>1, <1>2, <1>3
<1>6. TypeOK'
  BY <1>1, <1>3, <1>4, <1>5 DEF GateInv, TypeOK
<1>7. AnswerInv' /\ EpisodeInv'
  BY <1>1, <1>4 DEF AnswerInv, EpisodeInv, Floor, GateInv
<1>8. Len(sent') - flushed' <= Most' + (IF link' \in {"answered", "live"} THEN 1 ELSE 0)
  <2>1. Len(sent) - flushed <= Most + (IF link \in {"answered", "live"} THEN 1 ELSE 0)
    BY DEF GateInv
  <2> HIDE DEF Most
  <2> QED
    BY <2>1, <1>1, <1>2, <1>3, <1>4
<1> QED
  BY <1>1, <1>3, <1>4, <1>6, <1>7, <1>8 DEF GateInv

-----------------------------------------------------------------------------
(* The client *)

\* What a client takes of an answer and of a queue that it covers.
LEMMA TakesOne ==
  ASSUME NEW x \in Envelope, NEW q \in Seq(Envelope), NEW n \in Nat, \A i \in DOMAIN q : q[i].seq <= x.seq
  PROVE  /\ x.seq > n => Number(<<x>> \o q, n) = x.seq /\ Contents(<<x>> \o q, n) = Folds(x)
         /\ ~(x.seq > n) => Number(<<x>> \o q, n) = n /\ Contents(<<x>> \o q, n) = {}
<1> DEFINE t == <<x>> \o q
<1>1. /\ t \in Seq(Envelope) /\ Len(t) = 1 + Len(q) /\ Len(q) \in Nat /\ t[1] = x
      /\ \A i \in 1..(1 + Len(q)) : i > 1 => t[i] = q[i - 1] /\ i - 1 \in DOMAIN q
  <2>1. <<x>> \in Seq(Envelope) /\ Len(<<x>>) = 1 /\ <<x>>[1] = x
    OBVIOUS
  <2>2. /\ t \in Seq(Envelope) /\ Len(t) = Len(<<x>>) + Len(q)
        /\ \A i \in 1..(Len(<<x>>) + Len(q)) : t[i] = IF i <= Len(<<x>>) THEN <<x>>[i] ELSE q[i - Len(<<x>>)]
    BY <2>1, ConcatProperties
  <2> HIDE DEF t
  <2>3. Len(q) \in Nat /\ DOMAIN q = 1..Len(q)
    OBVIOUS
  <2> QED
    BY <2>1, <2>2, <2>3
<1> HIDE DEF t
<1>2. DOMAIN t = 1..(1 + Len(q)) /\ x.seq \in Nat /\ \A i \in DOMAIN t : t[i].seq \in Nat
  BY <1>1, GatePlaces DEF Envelope
<1>3. \A i \in DOMAIN t : i # 1 => t[i].seq <= t[1].seq /\ 1 \in 1..(i - 1)
  BY <1>1, <1>2
<1>4. \A i \in Taken(t, n) : i = 1 /\ x.seq > n
  <2> SUFFICES ASSUME NEW i \in Taken(t, n) PROVE i = 1 /\ x.seq > n
    OBVIOUS
  <2>1. i \in DOMAIN t /\ t[i].seq > n /\ \A j \in 1..(i - 1) : t[j].seq < t[i].seq
    BY DEF Taken
  <2>2. i = 1
    BY <2>1, <1>1, <1>2, <1>3
  <2> QED
    BY <2>1, <2>2, <1>1
<1>5. CASE x.seq > n
  <2>1. 1 \in Taken(t, n)
    BY <1>1, <1>2, <1>5 DEF Taken
  <2>2. Taken(t, n) = {1}
    BY <2>1, <1>4
  <2>3. Contents(t, n) = Folds(x)
    BY <2>2, <1>1 DEF Contents
  <2>4. (CHOOSE i \in {1} : \A j \in {1} : j <= i) = 1
    OBVIOUS
  <2>5. Number(t, n) = x.seq
    BY <2>2, <2>4, <1>1 DEF Number
  <2> QED
    BY <2>3, <2>5, <1>5 DEF t
<1>6. CASE ~(x.seq > n)
  <2>1. Taken(t, n) = {}
    BY <1>4, <1>6
  <2> QED
    BY <2>1, <1>6 DEF Contents, Number, t
<1> QED
  BY <1>5, <1>6

\* What a client takes of a single envelope.
LEMMA TakesAlone ==
  ASSUME NEW x \in Envelope, NEW n \in Nat
  PROVE  /\ x.seq > n => Number(<<x>>, n) = x.seq /\ Contents(<<x>>, n) = Folds(x)
         /\ ~(x.seq > n) => Number(<<x>>, n) = n /\ Contents(<<x>>, n) = {}
<1>1. PICK q \in Seq(Envelope) : q = <<>>
  <2>1. <<>> \in Seq(Envelope)
    OBVIOUS
  <2> QED
    BY <2>1, Zenon
<1>2. <<x>> \o q = <<x>> /\ \A i \in DOMAIN q : q[i].seq <= x.seq
  <2>1. <<x>> \in Seq(Envelope)
    OBVIOUS
  <2>2. <<x>> \o <<>> = <<x>>
    BY <2>1, ConcatEmptySeq
  <2> QED
    BY <2>2, <1>1
<1>3. /\ x.seq > n => Number(<<x>> \o q, n) = x.seq /\ Contents(<<x>> \o q, n) = Folds(x)
      /\ ~(x.seq > n) => Number(<<x>> \o q, n) = n /\ Contents(<<x>> \o q, n) = {}
  BY <1>2, TakesOne
<1> QED
  BY <1>2, <1>3, Zenon

\* What a client takes of nothing.
LEMMA TakesNothing ==
  ASSUME NEW n
  PROVE  Number(<<>>, n) = n /\ Contents(<<>>, n) = {}
<1>1. Taken(<<>>, n) = {}
  BY DEF Taken
<1> QED
  BY <1>1 DEF Number, Contents

\* What is on its way after an envelope was received.
LEMMA Received ==
  ASSUME GateAssumption, GateInv, sent # <<>>, sent' = Tail(sent), flushed > 0, flushed' = flushed - 1,
         UNCHANGED <<maxKeys, keys, conflating, held>>
  PROVE  /\ sent[1] \in Envelope /\ Sound(sent[1], head) /\ 1 \in DOMAIN sent /\ Head(sent) = sent[1]
         /\ sent' \in Seq(Envelope) /\ Len(sent') = Len(sent) - 1 /\ flushed' \in 0..Len(sent')
         /\ \A i \in DOMAIN sent' : sent'[i] = sent[i + 1] /\ i + 1 \in DOMAIN sent /\ i \in Nat
         /\ \A i \in DOMAIN sent : i # 1 => i - 1 \in DOMAIN sent' /\ sent'[i - 1] = sent[i]
         /\ \A i \in DOMAIN sent' : Sound(sent'[i], head)
         /\ head' = head /\ Most' = Most
         /\ Len(sent') - flushed' = Len(sent) - flushed
<1>1. /\ sent \in Seq(Envelope) /\ Len(sent) \in Nat /\ DOMAIN sent = 1..Len(sent) /\ flushed \in Nat
      /\ flushed <= Len(sent)
  BY GateFacts
<1>2. /\ sent' \in Seq(Envelope) /\ Len(sent') = Len(sent) - 1 /\ Len(sent) \in Nat \ {0}
      /\ \A i \in DOMAIN sent' : sent'[i] = sent[i + 1] /\ i + 1 \in DOMAIN sent
  BY <1>1, RestOfTail
<1>3. DOMAIN sent' = 1..(Len(sent) - 1)
  BY <1>2, GatePlaces
<1>4. \A i \in DOMAIN sent : i # 1 => i - 1 \in DOMAIN sent' /\ sent'[i - 1] = sent[i]
  <2> SUFFICES ASSUME NEW i \in DOMAIN sent, i # 1 PROVE i - 1 \in DOMAIN sent' /\ sent'[i - 1] = sent[i]
    OBVIOUS
  <2>1. i - 1 \in DOMAIN sent' /\ (i - 1) + 1 = i
    BY <1>1, <1>3
  <2> QED
    BY <2>1, <1>2
<1>5. 1 \in DOMAIN sent /\ sent[1] \in Envelope /\ Head(sent) = sent[1]
  BY <1>1, <1>2
<1>6. \A i \in DOMAIN sent : Sound(sent[i], head)
  BY DEF GateInv
<1>7. \A i \in DOMAIN sent' : Sound(sent'[i], head) /\ i \in Nat
  BY <1>2, <1>3, <1>6
<1>8. flushed' \in 0..Len(sent') /\ Len(sent') - flushed' = Len(sent) - flushed
  BY <1>1, <1>2
<1> QED
  BY <1>2, <1>4, <1>5, <1>6, <1>7, <1>8 DEF head, Most

\* The client receives the answer.
LEMMA HearingAnswer ==
  ASSUME GateAssumption, GateInv, Receive, Head(sent).kind = "answer"
  PROVE  GateInv'
<1> DEFINE x == sent[1]
<1>0. /\ flushed > 0 /\ flushed' = flushed - 1 /\ sent' = Tail(sent)
      /\ UNCHANGED <<maxKeys, keys, conflating, held, other, drops>>
      /\ last' = Number(Heard(Head(sent)), last) /\ view' = view \cup Contents(Heard(Head(sent)), last)
      /\ queue' = <<>> /\ link' = "live"
  BY DEF Receive, gateVars
<1>1. /\ keys \in Seq(Kinds) /\ head = Len(keys) /\ head \in Nat /\ sent \in Seq(Envelope) /\ Len(sent) \in Nat
      /\ last \in 0..head /\ last \in Nat /\ view \subseteq 1..head /\ queue \in Seq(Envelope) /\ flushed \in Nat
      /\ flushed <= Len(sent) /\ maxKeys \in Nat
  BY GateFacts
<1>2. sent # <<>>
  <2>1. Len(sent) > 0
    BY <1>0, <1>1
  <2> QED
    BY <2>1
<1>3. /\ x \in Envelope /\ Sound(x, head) /\ 1 \in DOMAIN sent /\ Head(sent) = x
      /\ sent' \in Seq(Envelope) /\ Len(sent') = Len(sent) - 1 /\ flushed' \in 0..Len(sent')
      /\ \A i \in DOMAIN sent' : sent'[i] = sent[i + 1] /\ i + 1 \in DOMAIN sent /\ i \in Nat
      /\ \A i \in DOMAIN sent : i # 1 => i - 1 \in DOMAIN sent' /\ sent'[i - 1] = sent[i]
      /\ \A i \in DOMAIN sent' : Sound(sent'[i], head)
      /\ head' = head /\ Most' = Most
      /\ Len(sent') - flushed' = Len(sent) - flushed
  BY <1>0, <1>2, Received
<1>4. x.kind = "answer" /\ x.seq \in Nat /\ x.from \in Nat /\ x.from >= 1 /\ x.seq <= head /\ head \in Nat
  BY <1>1, <1>3 DEF Envelope, Sound
<1>5. link = "answered"
  BY <1>3, <1>4 DEF GateInv, AnswerInv
<1>6. /\ \A i \in DOMAIN sent : sent[i].kind = "answer" => i = 1
      /\ x.from <= last + 1 /\ last <= x.seq /\ \A i \in DOMAIN queue : queue[i].seq <= x.seq
  BY <1>3, <1>4, <1>5 DEF GateInv, AnswerInv
<1> HIDE DEF x
<1>7. Heard(Head(sent)) = <<x>> \o queue
  BY <1>3, <1>4 DEF Heard
<1>8. last' = x.seq /\ ((x.seq > last /\ view' = view \cup Folds(x)) \/ (x.seq = last /\ view' = view))
  <2>1. CASE x.seq > last
    <3>1. Number(<<x>> \o queue, last) = x.seq /\ Contents(<<x>> \o queue, last) = Folds(x)
      BY <2>1, <1>1, <1>3, <1>6, TakesOne
    <3> QED
      BY <2>1, <3>1, <1>0, <1>7
  <2>2. CASE ~(x.seq > last)
    <3>1. Number(<<x>> \o queue, last) = last /\ Contents(<<x>> \o queue, last) = {}
      BY <2>2, <1>1, <1>3, <1>6, TakesOne
    <3>2. x.seq = last
      BY <2>2, <1>1, <1>4, <1>6
    <3> QED
      BY <3>1, <3>2, <1>0, <1>7
  <2> QED
    BY <2>1, <2>2
<1>9. last' \in 0..head /\ view' \subseteq 1..head
  <2>1. x.seq \in 0..head /\ x.from..x.seq \subseteq 1..head
    BY <1>4
  <2> QED
    BY <2>1, <1>1, <1>8 DEF Folds
<1>10. TypeOK'
  <2>1. /\ maxKeys' \in Limits /\ keys' \in Seq(Keys \cup {Unkeyed}) /\ conflating' \in BOOLEAN
        /\ held' \in Seq(0..head') /\ (held' # Dropped => conflating' /\ Len(held') <= maxKeys')
        /\ other' \in Nat /\ drops' \in Nat
    BY <1>0, <1>3 DEF GateInv, TypeOK
  <2>2. <<>> \in Seq(Envelope)
    OBVIOUS
  <2> QED
    BY <2>1, <2>2, <1>0, <1>3, <1>9 DEF TypeOK
<1>11. AnswerInv'
  <2>1. \A i \in DOMAIN sent' : sent'[i].kind # "answer"
    <3> SUFFICES ASSUME NEW i \in DOMAIN sent', sent'[i].kind = "answer" PROVE FALSE
      OBVIOUS
    <3>1. i + 1 = 1 /\ i \in DOMAIN sent' /\ sent'[i] = sent[i + 1] /\ i \in Nat
      BY <1>3, <1>6
    <3>2. i = 0
      BY <3>1
    <3>3. 0 \notin DOMAIN sent'
      BY <1>3, GatePlaces
    <3> QED
      BY <3>1, <3>2, <3>3
  <2> QED
    BY <2>1, <1>0 DEF AnswerInv
<1>12. ASSUME NEW f \in 0..head, Floor(f)'
       PROVE  /\ Floor(f) /\ Made(keys, sent', f) /\ Done(sent', f) = Done(sent, f)
              /\ \A h, n : Above(sent, h, n) => Above(sent', h, n)
  <2>1. f = x.seq
    BY <1>0, <1>8, <1>12 DEF Floor
  <2>2. Floor(f)
    BY <2>1, <1>3, <1>4, <1>5 DEF Floor, x
  <2>3. 1 \notin Rest(sent)
    BY <1>3, <1>4, SMTT(30) DEF Rest, x
  <2>4. Made(keys, sent, f) /\ f \in Nat
    BY <2>2 DEF GateInv, EpisodeInv
  <2> QED
    BY <2>2, <2>3, <2>4, <1>0, <1>1, <1>2, Shifting, ShiftingAbove
<1>13. EpisodeInv'
  <2>1. CASE conflating
    BY <2>1, <1>0, <1>3, <1>12 DEF EpisodeInv, GateInv
  <2>2. CASE ~conflating
    BY <2>2, <1>0, <1>3, <1>12 DEF EpisodeInv, GateInv
  <2> QED
    BY <2>1, <2>2
<1>14. \A e \in 1..last' : Settled(keys, view' \cup ((last' + 1)..head), e)
  <2> SUFFICES ASSUME NEW e \in 1..last' PROVE Settled(keys, view' \cup ((last' + 1)..head), e)
    OBVIOUS
  <2>1. CASE x.seq = last /\ view' = view
    BY <2>1, <1>8 DEF GateInv
  <2>2. CASE x.seq > last /\ view' = view \cup Folds(x)
    <3> DEFINE X == view \cup ((last + 1)..head)
               Y == view' \cup ((last' + 1)..head)
    <3>1. X \in SUBSET Nat /\ Y \in SUBSET Nat
      <4>1. (last + 1)..head \subseteq Nat /\ (last' + 1)..head \subseteq Nat
        BY <1>1, <1>4, <1>8
      <4>2. view \subseteq Nat /\ view' \subseteq Nat
        BY <1>1, <1>9
      <4> QED
        BY <4>1, <4>2
    <3>2. X \subseteq Y
      <4>1. (last + 1)..head \subseteq (x.from..x.seq) \cup ((x.seq + 1)..head)
        BY <1>1, <1>4, <1>6
      <4> QED
        BY <4>1, <2>2, <1>8 DEF Folds
    <3>3. \A y \in X : Settled(keys, Y, y)
      BY <3>2 DEF Settled
    <3>4. CASE e \in 1..last
      <4>1. Settled(keys, X, e) /\ e \in Nat
        <5>1. e \in Nat
          BY <3>4, <1>1
        <5> QED
          BY <3>4, <5>1, Zenon DEF GateInv
      <4> HIDE DEF X, Y
      <4>2. Settled(keys, Y, e)
        BY <4>1, <3>1, <3>3, <1>1, SettledAgain
      <4> QED
        BY <4>2 DEF Y
    <3>5. CASE e \notin 1..last
      <4>1. e \in X
        BY <3>5, <1>1, <1>4, <1>8
      <4> QED
        BY <4>1, <3>2 DEF Settled
    <3> QED
      BY <3>4, <3>5
  <2> QED
    BY <2>1, <2>2, <1>8
<1>15. Len(sent') - flushed' <= Most' + (IF link' \in {"answered", "live"} THEN 1 ELSE 0)
  <2>1. Len(sent) - flushed <= Most + 1
    BY <1>5 DEF GateInv
  <2> QED
    BY <2>1, <1>0, <1>3
<1>16. DOMAIN queue' = {}
  BY <1>0
<1> QED
  BY <1>0, <1>3, <1>10, <1>11, <1>13, <1>14, <1>15, <1>16 DEF GateInv

\* The client receives an envelope of the live line.
LEMMA HearingLive ==
  ASSUME GateAssumption, GateInv, Receive, Head(sent).kind # "answer", link = "live"
  PROVE  GateInv'
<1> DEFINE x == sent[1]
<1>0. /\ flushed > 0 /\ flushed' = flushed - 1 /\ sent' = Tail(sent)
      /\ UNCHANGED <<maxKeys, keys, conflating, held, other, drops, queue, link>>
      /\ last' = Number(<<Head(sent)>>, last) /\ view' = view \cup Contents(<<Head(sent)>>, last)
  BY DEF Receive, gateVars, Heard
<1>1. /\ keys \in Seq(Kinds) /\ head = Len(keys) /\ head \in Nat /\ sent \in Seq(Envelope) /\ Len(sent) \in Nat
      /\ last \in 0..head /\ last \in Nat /\ view \subseteq 1..head /\ queue \in Seq(Envelope) /\ flushed \in Nat
      /\ flushed <= Len(sent) /\ maxKeys \in Nat
  BY GateFacts
<1>2. sent # <<>>
  <2>1. Len(sent) > 0
    BY <1>0, <1>1
  <2> QED
    BY <2>1
<1>3. /\ x \in Envelope /\ Sound(x, head) /\ 1 \in DOMAIN sent /\ Head(sent) = x
      /\ sent' \in Seq(Envelope) /\ Len(sent') = Len(sent) - 1 /\ flushed' \in 0..Len(sent')
      /\ \A i \in DOMAIN sent' : sent'[i] = sent[i + 1] /\ i + 1 \in DOMAIN sent /\ i \in Nat
      /\ \A i \in DOMAIN sent : i # 1 => i - 1 \in DOMAIN sent' /\ sent'[i - 1] = sent[i]
      /\ \A i \in DOMAIN sent' : Sound(sent'[i], head)
      /\ head' = head /\ Most' = Most
      /\ Len(sent') - flushed' = Len(sent) - flushed
  BY <1>0, <1>2, Received
<1>4. x.kind # "answer" /\ x.seq \in Nat /\ x.from \in Nat /\ x.from >= 1 /\ x.seq <= head /\ head \in Nat
  BY <1>1, <1>3 DEF Envelope, Sound
<1>5. \A i \in DOMAIN sent : sent[i].kind # "answer"
  BY DEF GateInv, AnswerInv
<1>6. 1 \in Rest(sent)
  BY <1>3, <1>5 DEF Rest
<1>7. Floor(last) /\ Made(keys, sent, last) /\ Done(sent, last) <= head
  <2>1. Floor(last)
    BY DEF Floor
  <2>2. Made(keys, sent, last) /\ \A i \in DOMAIN sent : Sound(sent[i], Len(keys))
    BY <2>1, <1>1 DEF GateInv, EpisodeInv
  <2>3. Unkeyed \in Kinds /\ last <= Len(keys)
    BY <1>1 DEF Kinds
  <2> QED
    BY <2>1, <2>2, <2>3, <1>1, Longer
<1> HIDE DEF x
<1>8. \/ x.seq > last /\ last' = x.seq /\ view' = view \cup Folds(x)
      \/ ~(x.seq > last) /\ last' = last /\ view' = view
  <2>1. CASE x.seq > last
    <3>1. Number(<<x>>, last) = x.seq /\ Contents(<<x>>, last) = Folds(x)
      BY <2>1, <1>1, <1>3, TakesAlone
    <3> QED
      BY <2>1, <3>1, <1>0, <1>3
  <2>2. CASE ~(x.seq > last)
    <3>1. Number(<<x>>, last) = last /\ Contents(<<x>>, last) = {}
      BY <2>2, <1>1, <1>3, TakesAlone
    <3> QED
      BY <2>2, <3>1, <1>0, <1>3
  <2> QED
    BY <2>1, <2>2
<1>9. last' \in 0..head /\ view' \subseteq 1..head /\ last' \in Nat
  <2>1. x.seq \in 0..head /\ Folds(x) \subseteq 1..head
    BY <1>4 DEF Folds
  <2>2. last' \in 0..head /\ last' \in Nat
    BY <2>1, <1>1, <1>4, <1>8
  <2>3. view' \subseteq 1..head
    BY <2>1, <1>1, <1>8
  <2> QED
    BY <2>2, <2>3
<1>10. TypeOK'
  <2>1. /\ maxKeys' \in Limits /\ keys' \in Seq(Keys \cup {Unkeyed}) /\ conflating' \in BOOLEAN
        /\ held' \in Seq(0..head') /\ (held' # Dropped => conflating' /\ Len(held') <= maxKeys')
        /\ other' \in Nat /\ drops' \in Nat /\ link' \in {"off", "asked", "answered", "live"} /\ queue' \in Seq(Envelope)
    BY <1>0, <1>3 DEF GateInv, TypeOK
  <2> QED
    BY <2>1, <1>0, <1>3, <1>9 DEF TypeOK
<1>11. AnswerInv'
  <2>1. \A i \in DOMAIN sent' : sent'[i].kind # "answer"
    BY <1>3, <1>5
  <2> QED
    BY <2>1, <1>0 DEF AnswerInv
<1>12. ASSUME NEW f \in 0..head, Floor(f)'
       PROVE  /\ Made(keys, sent', f) /\ Done(sent', f) = Done(sent, last)
              /\ \A h, n : Above(sent, h, n) => Above(sent', h, n)
  <2>1. f = last' /\ f \in Nat
    BY <1>0, <1>9, <1>12 DEF Floor
  <2>2. /\ sent[1].seq > last => f = sent[1].seq
        /\ ~(sent[1].seq > last) => f = last
    BY <2>1, <1>8 DEF x
  <2> QED
    BY <2>1, <2>2, <1>0, <1>1, <1>2, <1>6, <1>7, Shifting, ShiftingAbove
<1>13. EpisodeInv'
  <2>1. last \in 0..head
    BY <1>1
  <2>2. CASE conflating
    BY <2>1, <2>2, <1>0, <1>3, <1>7, <1>12 DEF EpisodeInv, GateInv
  <2>3. CASE ~conflating
    BY <2>1, <2>3, <1>0, <1>3, <1>7, <1>12 DEF EpisodeInv, GateInv
  <2> QED
    BY <2>2, <2>3
<1>14. \A e \in 1..last' : Settled(keys, view' \cup ((last' + 1)..head), e)
  <2> SUFFICES ASSUME NEW e \in 1..last' PROVE Settled(keys, view' \cup ((last' + 1)..head), e)
    OBVIOUS
  <2>1. CASE ~(x.seq > last) /\ last' = last /\ view' = view
    BY <2>1 DEF GateInv
  <2>2. CASE x.seq > last /\ last' = x.seq /\ view' = view \cup Folds(x)
    <3> DEFINE X == view \cup ((last + 1)..head)
               Y == view' \cup ((last' + 1)..head)
    <3>1. X \in SUBSET Nat /\ Y \in SUBSET Nat
      <4>1. (last + 1)..head \subseteq Nat /\ (last' + 1)..head \subseteq Nat
        BY <1>1, <1>9
      <4>2. view \subseteq Nat /\ view' \subseteq Nat
        BY <1>1, <1>9
      <4> QED
        BY <4>1, <4>2
    <3>2. \A y \in (last + 1)..x.seq : Settled(keys, Y, y)
      <4> SUFFICES ASSUME NEW y \in (last + 1)..x.seq PROVE Settled(keys, Y, y)
        OBVIOUS
      <4>1. Settled(keys, Folds(x) \cup (x.seq + 1)..head, y)
        BY <2>2, <1>1, <1>2, <1>3, <1>6, <1>7, CarriedByFirst DEF x
      <4>2. Folds(x) \cup (x.seq + 1)..head \subseteq Y
        BY <2>2
      <4> QED
        BY <4>1, <4>2 DEF Settled
    <3>3. \A y \in X : Settled(keys, Y, y)
      <4> SUFFICES ASSUME NEW y \in X PROVE Settled(keys, Y, y)
        OBVIOUS
      <4>1. y \in (last + 1)..x.seq \/ y \in Y
        BY <2>2, <1>1, <1>4
      <4> QED
        BY <4>1, <3>2 DEF Settled
    <3>4. CASE e \in 1..last
      <4>1. Settled(keys, X, e) /\ e \in Nat
        <5>1. e \in Nat
          BY <3>4, <1>1
        <5> QED
          BY <3>4, <5>1, Zenon DEF GateInv
      <4> HIDE DEF X, Y
      <4>2. Settled(keys, Y, e)
        BY <4>1, <3>1, <3>3, <1>1, SettledAgain
      <4> QED
        BY <4>2 DEF Y
    <3>5. CASE e \notin 1..last
      <4>1. e \in (last + 1)..x.seq
        BY <3>5, <2>2, <1>1, <1>4
      <4> QED
        BY <4>1, <3>2
    <3> QED
      BY <3>4, <3>5
  <2> QED
    BY <2>1, <2>2, <1>8
<1>15. Len(sent') - flushed' <= Most' + (IF link' \in {"answered", "live"} THEN 1 ELSE 0)
  <2>1. Len(sent) - flushed <= Most + 1
    BY DEF GateInv
  <2> QED
    BY <2>1, <1>0, <1>3
<1>16. \A i \in DOMAIN queue' : queue'[i].kind # "answer" /\ queue'[i].seq <= head'
  BY <1>0, <1>3 DEF GateInv
<1>17. link' # "off"
  BY <1>0
<1>18. \A i \in DOMAIN sent' : Sound(sent'[i], head')
  BY <1>3
<1>19. \A e \in 1..last' : Settled(keys', view' \cup ((last' + 1)..head'), e)
  BY <1>0, <1>3, <1>14
<1> QED
  BY <1>10, <1>11, <1>13, <1>15, <1>16, <1>17, <1>18, <1>19 DEF GateInv

\* The client receives an envelope before its answer.
LEMMA HearingEarly ==
  ASSUME GateAssumption, GateInv, Receive, Head(sent).kind # "answer", link # "live"
  PROVE  GateInv'
<1> DEFINE x == sent[1]
<1>0. /\ flushed > 0 /\ flushed' = flushed - 1 /\ sent' = Tail(sent)
      /\ UNCHANGED <<maxKeys, keys, conflating, held, other, drops, link>>
      /\ last' = Number(<<>>, last) /\ view' = view \cup Contents(<<>>, last)
      /\ queue' = Append(queue, Head(sent))
  BY DEF Receive, gateVars, Heard
<1>1. /\ keys \in Seq(Kinds) /\ head = Len(keys) /\ head \in Nat /\ sent \in Seq(Envelope) /\ Len(sent) \in Nat
      /\ last \in 0..head /\ last \in Nat /\ view \subseteq 1..head /\ queue \in Seq(Envelope) /\ flushed \in Nat
      /\ flushed <= Len(sent) /\ maxKeys \in Nat /\ link \in {"off", "asked", "answered", "live"}
  BY GateFacts
<1>2. sent # <<>>
  <2>1. Len(sent) > 0
    BY <1>0, <1>1
  <2> QED
    BY <2>1
<1>3. /\ x \in Envelope /\ Sound(x, head) /\ 1 \in DOMAIN sent /\ Head(sent) = x
      /\ sent' \in Seq(Envelope) /\ Len(sent') = Len(sent) - 1 /\ flushed' \in 0..Len(sent')
      /\ \A i \in DOMAIN sent' : sent'[i] = sent[i + 1] /\ i + 1 \in DOMAIN sent /\ i \in Nat
      /\ \A i \in DOMAIN sent : i # 1 => i - 1 \in DOMAIN sent' /\ sent'[i - 1] = sent[i]
      /\ \A i \in DOMAIN sent' : Sound(sent'[i], head)
      /\ head' = head /\ Most' = Most
      /\ Len(sent') - flushed' = Len(sent) - flushed
  BY <1>0, <1>2, Received
<1>4. x.kind # "answer" /\ x.seq \in Nat /\ x.seq <= head
  BY <1>1, <1>3 DEF Envelope, Sound
<1>5. last' = last /\ view' = view
  BY <1>0, TakesNothing
<1>6. link \in {"asked", "answered"}
  BY <1>1, <1>2 DEF GateInv
<1> HIDE DEF x
<1>7. /\ queue' \in Seq(Envelope) /\ DOMAIN queue' = 1..(Len(queue) + 1) /\ queue'[Len(queue) + 1] = x
      /\ Len(queue) \in Nat /\ DOMAIN queue = 1..Len(queue) /\ \A i \in 1..Len(queue) : queue'[i] = queue[i]
  <2> DEFINE b == Append(queue, x)
  <2>1. b = queue'
    BY <1>0, <1>3
  <2>2. /\ b \in Seq(Envelope) /\ DOMAIN b = 1..(Len(queue) + 1) /\ b[Len(queue) + 1] = x
        /\ \A i \in 1..Len(queue) : b[i] = queue[i]
    BY <1>1, <1>3, GateAppending
  <2>3. Len(queue) \in Nat /\ DOMAIN queue = 1..Len(queue)
    BY <1>1
  <2> QED
    BY <2>1, <2>2, <2>3, Zenon
<1>8. \A i \in DOMAIN queue' : (i \in DOMAIN queue /\ queue'[i] = queue[i]) \/ queue'[i] = x
  BY <1>7
<1>9. TypeOK'
  <2>1. /\ maxKeys' \in Limits /\ keys' \in Seq(Keys \cup {Unkeyed}) /\ conflating' \in BOOLEAN
        /\ held' \in Seq(0..head') /\ (held' # Dropped => conflating' /\ Len(held') <= maxKeys')
        /\ other' \in Nat /\ drops' \in Nat /\ link' \in {"off", "asked", "answered", "live"}
        /\ last' \in 0..head' /\ view' \subseteq 1..head'
    BY <1>0, <1>3, <1>5 DEF GateInv, TypeOK
  <2> QED
    BY <2>1, <1>3, <1>7 DEF TypeOK
<1>10. ASSUME link = "answered"
       PROVE  /\ 1 \notin Rest(sent)
              /\ \E p \in DOMAIN sent' :
                    /\ sent'[p].kind = "answer" /\ \A i \in DOMAIN sent' : sent'[i].kind = "answer" => i = p
                    /\ sent'[p].from <= last + 1 /\ last <= sent'[p].seq
                    /\ \A i \in DOMAIN sent' : i < p => sent'[i].seq <= sent'[p].seq
                    /\ \A i \in DOMAIN queue' : queue'[i].seq <= sent'[p].seq
  <2>1. PICK p \in DOMAIN sent :
          /\ sent[p].kind = "answer" /\ \A i \in DOMAIN sent : sent[i].kind = "answer" => i = p
          /\ sent[p].from <= last + 1 /\ last <= sent[p].seq
          /\ \A i \in DOMAIN sent : i < p => sent[i].seq <= sent[p].seq
          /\ \A i \in DOMAIN queue : queue[i].seq <= sent[p].seq
    BY <1>10 DEF GateInv, AnswerInv
  <2>2. p # 1 /\ p \in Nat /\ p > 1
    <3>1. p \in 1..Len(sent)
      BY <1>1
    <3> QED
      BY <3>1, <2>1, <1>1, <1>4 DEF x
  <2>3. p - 1 \in DOMAIN sent' /\ sent'[p - 1] = sent[p]
    BY <2>2, <1>3
  <2>4. 1 \notin Rest(sent)
    BY <2>1, <2>2 DEF Rest
  <2>5. \A i \in DOMAIN sent' : sent'[i].kind = "answer" => i = p - 1
    <3> SUFFICES ASSUME NEW i \in DOMAIN sent', sent'[i].kind = "answer" PROVE i = p - 1
      OBVIOUS
    <3>1. i + 1 = p /\ i \in Nat
      BY <1>3, <2>1
    <3> QED
      BY <3>1, <2>2
  <2>6. \A i \in DOMAIN sent' : i < p - 1 => sent'[i].seq <= sent[p].seq
    <3> SUFFICES ASSUME NEW i \in DOMAIN sent', i < p - 1 PROVE sent'[i].seq <= sent[p].seq
      OBVIOUS
    <3>1. i \in Nat /\ i + 1 \in DOMAIN sent /\ sent'[i] = sent[i + 1]
      BY <1>3
    <3>2. i + 1 < p
      BY <3>1, <2>2
    <3> QED
      BY <3>1, <3>2, <2>1
  <2>7. x.seq <= sent[p].seq
    BY <2>1, <2>2, <1>3 DEF x
  <2>8. \A i \in DOMAIN queue' : queue'[i].seq <= sent[p].seq
    BY <2>1, <2>7, <1>8
  <2> QED
    BY <2>1, <2>3, <2>4, <2>5, <2>6, <2>8
<1>11. AnswerInv'
  <2>1. CASE link = "answered"
    BY <2>1, <1>0, <1>5, <1>10 DEF AnswerInv
  <2>2. CASE link # "answered"
    <3>1. \A i \in DOMAIN sent' : sent'[i].kind # "answer"
      BY <2>2, <1>3 DEF GateInv, AnswerInv
    <3> QED
      BY <2>2, <3>1, <1>0 DEF AnswerInv
  <2> QED
    BY <2>1, <2>2
<1>12. ASSUME NEW f \in 0..head, Floor(f)'
       PROVE  /\ Floor(f) /\ Made(keys, sent', f) /\ Done(sent', f) = Done(sent, f)
              /\ \A h, n : Above(sent, h, n) => Above(sent', h, n)
  <2>1. link = "answered" /\ Floor(f)
    BY <1>0, <1>3, <1>6, <1>12 DEF Floor
  <2>2. Made(keys, sent, f) /\ f \in Nat /\ 1 \notin Rest(sent)
    BY <2>1, <1>10 DEF GateInv, EpisodeInv
  <2> QED
    BY <2>1, <2>2, <1>0, <1>1, <1>2, Shifting, ShiftingAbove
<1>13. EpisodeInv'
  <2>1. CASE conflating
    BY <2>1, <1>0, <1>3, <1>12 DEF EpisodeInv, GateInv
  <2>2. CASE ~conflating
    BY <2>2, <1>0, <1>3, <1>12 DEF EpisodeInv, GateInv
  <2> QED
    BY <2>1, <2>2
<1>14. \A e \in 1..last' : Settled(keys', view' \cup ((last' + 1)..head'), e)
  BY <1>0, <1>3, <1>5 DEF GateInv
<1>15. Len(sent') - flushed' <= Most' + (IF link' \in {"answered", "live"} THEN 1 ELSE 0)
  BY <1>0, <1>3 DEF GateInv
<1>16. \A i \in DOMAIN queue' : queue'[i].kind # "answer" /\ queue'[i].seq <= head'
  BY <1>3, <1>4, <1>8 DEF GateInv
<1>17. link' # "off" /\ \A i \in DOMAIN sent' : Sound(sent'[i], head')
  BY <1>0, <1>3, <1>6
<1> QED
  BY <1>9, <1>11, <1>13, <1>14, <1>15, <1>16, <1>17 DEF GateInv

-----------------------------------------------------------------------------
(* All steps, and what follows *)

\* The invariant at the start.
LEMMA GateStarts ==
  ASSUME GateAssumption, Init
  PROVE  GateInv
<1>1. /\ maxKeys \in Limits /\ keys = <<>> /\ conflating = FALSE /\ held = Dropped /\ sent = <<>>
      /\ flushed = 0 /\ other = 0 /\ link = "off" /\ last = 0 /\ view = {} /\ queue = <<>> /\ drops = 0
  BY DEF Init
<1>2. head = 0 /\ maxKeys \in Nat
  BY <1>1 DEF head, GateAssumption
<1>3. /\ Dropped \in Seq(0..head) /\ <<>> \in Seq(Envelope) /\ <<>> \in Seq(Keys \cup {Unkeyed})
      /\ 0 \in 0..Len(<<>>) /\ 0 \in 0..head /\ {} \subseteq 1..head
  BY <1>2 DEF Dropped
<1>4. TypeOK
  BY <1>1, <1>3 DEF TypeOK
<1>5. AnswerInv /\ EpisodeInv
  BY <1>1 DEF AnswerInv, EpisodeInv, Floor
<1>6. Len(sent) - flushed <= Most + (IF link \in {"answered", "live"} THEN 1 ELSE 0)
  BY <1>1, <1>2, Bounds
<1>7. DOMAIN sent = {} /\ DOMAIN queue = {} /\ 1..last = {}
  BY <1>1
<1> QED
  BY <1>1, <1>4, <1>5, <1>6, <1>7 DEF GateInv

\* Every step keeps the invariant.
LEMMA GateStep ==
  ASSUME GateAssumption, GateInv, [Next]_vars
  PROVE  GateInv'
<1>1. CASE UNCHANGED vars
  BY <1>1 DEF vars, gateVars, bufferVars, clientVars, GateInv, TypeOK, AnswerInv, EpisodeInv, Floor, head, Most
<1>2. ASSUME NEW k \in Keys \cup {Unkeyed}, Emit(k) PROVE GateInv'
  <2>1. k \in Kinds
    BY DEF Kinds
  <2> QED
    BY <1>2, <2>1, EmittingOff, EmittingSent, EmittingFirst, EmittingMore
<1>3. CASE Receive
  BY <1>3, HearingAnswer, HearingLive, HearingEarly
<1> QED
  BY <1>1, <1>2, <1>3, Polling, Connecting, Answering, Dropping, Draining DEF Next

\* What the gate will make up, behind what is on its way.
Recovered == IF conflating THEN Recovery(held, head) ELSE <<>>

\* What is on its way and what the gate will make up lead to the head of the line.
LEMMA MakesUp ==
  ASSUME GateAssumption, GateInv
  PROVE  /\ Recovered \in Seq(Envelope) /\ \A i \in DOMAIN Recovered : Recovered[i].kind # "answer"
         /\ \A f \in Nat : Floor(f) => Made(keys, sent \o Recovered, f) /\ Done(sent \o Recovered, f) = head
<1>1. keys \in Seq(Kinds) /\ head \in Nat /\ head = Len(keys) /\ sent \in Seq(Envelope) /\ \A f \in Nat : Floor(f) => f <= head
  BY GateFacts
<1>2. CASE conflating
  <2>1. head > 0 /\ Waiting(keys, held, head) /\ Recovered = Recovery(held, Len(keys))
    BY <1>1, <1>2 DEF GateInv, EpisodeInv, Recovered
  <2>2. Recovered \in Seq(Envelope) /\ \A i \in DOMAIN Recovered : Recovered[i].kind # "answer"
    BY <1>1, <2>1, RecoveryIs
  <2>3. ASSUME NEW f \in Nat, Floor(f)
        PROVE  Made(keys, sent \o Recovered, f) /\ Done(sent \o Recovered, f) = head
    <3>1. f \in 0..head
      BY <1>1, <2>3
    <3>2. Made(keys, sent, f) /\ Waiting(keys, held, Done(sent, f)) /\ Above(sent, held, Len(keys))
      BY <1>1, <1>2, <2>3, <3>1 DEF GateInv, EpisodeInv
    <3> QED
      BY <1>1, <2>1, <3>1, <3>2, Recovering
  <2> QED
    BY <2>2, <2>3
<1>3. CASE ~conflating
  <2>1. Recovered = <<>> /\ Recovered \in Seq(Envelope)
    BY <1>3 DEF Recovered
  <2>2. sent \o Recovered = sent
    BY <1>1, <2>1, ConcatEmptySeq
  <2>3. ASSUME NEW f \in Nat, Floor(f)
        PROVE  Made(keys, sent, f) /\ Done(sent, f) = head
    <3>1. f \in 0..head
      BY <1>1, <2>3
    <3> QED
      BY <1>3, <2>3, <3>1 DEF GateInv, EpisodeInv
  <2> QED
    BY <2>1, <2>2, <2>3
<1> QED
  BY <1>2, <1>3

\* What a live client will take settles every event above its number.
LEMMA ReachesLive ==
  ASSUME NEW ks \in Seq(Kinds), NEW t \in Seq(Envelope), NEW f \in Nat, Made(ks, t, f),
         \A i \in DOMAIN t : t[i].kind # "answer", \A i \in DOMAIN t : Sound(t[i], Len(ks)),
         NEW e \in (f + 1)..Done(t, f)
  PROVE  Settled(ks, Contents(t, f) \cap Nat, e)
<1>1. PICK i \in Rest(t) : Carries(ks, t, i, e)
  BY DEF Made
<1>2. /\ i \in DOMAIN t /\ t[i].seq \in Nat /\ t[i].from \in Nat /\ DOMAIN t = 1..Len(t) /\ Len(t) \in Nat
      /\ Done(t, f) \in Nat /\ e \in Nat /\ e > f /\ t[i].kind # "answer" /\ t[i] \in Envelope
  BY GatePlaces, DoneIsReached
<1>3. i \in Taken(t, f)
  <2>1. t[i].seq > f
    BY <1>1, <1>2 DEF Carries
  <2>2. ASSUME NEW j \in 1..(i - 1) PROVE t[j].seq < t[i].seq
    <3>1. j \in DOMAIN t /\ j < i
      BY <1>2
    <3>2. j \in Rest(t)
      BY <3>1 DEF Rest
    <3> QED
      BY <3>1, <3>2 DEF Made
  <2> QED
    BY <2>1, <2>2, <1>2 DEF Taken
<1>4. Folds(t[i]) \subseteq Contents(t, f)
  BY <1>3 DEF Contents
<1>5. CASE t[i].kind = "event"
  <2>1. t[i].from = t[i].seq
    BY <1>2, <1>5 DEF Sound
  <2>2. t[i].seq \in Contents(t, f)
    BY <1>2, <1>4, <2>1 DEF Folds
  <2>3. t[i].seq \in Contents(t, f) \cap Nat
    BY <2>2, <1>2
  <2> QED
    BY <2>3, <1>1, <1>2, <1>5 DEF Carries, Settled, Same
<1>6. CASE t[i].kind # "event"
  <2>1. t[i].from = 1
    BY <1>2, <1>6 DEF Sound, Envelope
  <2>2. e \in Folds(t[i])
    BY <2>1, <1>1, <1>2 DEF Folds, Carries
  <2> QED
    BY <2>2, <1>2, <1>4 DEF Settled
<1> QED
  BY <1>5, <1>6

\* So does what a client will take that still waits for its answer, queue included.
LEMMA ReachesAnswered ==
  ASSUME NEW ks \in Seq(Kinds), NEW t \in Seq(Envelope), NEW q \in Seq(Envelope), NEW n \in Nat,
         NEW p \in DOMAIN t, t[p].kind = "answer", \A i \in DOMAIN t : t[i].kind = "answer" => i = p,
         n <= t[p].seq, \A i \in DOMAIN t : i < p => t[i].seq <= t[p].seq,
         t[p].from <= n + 1, \A i \in DOMAIN q : q[i].seq <= t[p].seq,
         Made(ks, t, t[p].seq), \A i \in DOMAIN t : i > p => Sound(t[i], Len(ks)),
         NEW e \in (n + 1)..Done(t, t[p].seq)
  PROVE  Settled(ks, Contents(<<t[p]>> \o q \o RemoveAt(t, p), n) \cap Nat, e)
<1> DEFINE a == t[p].seq
           u == RemoveAt(t, p)
           w == <<t[p]>> \o q
           s == w \o u
           l == Len(q)
<1>1. /\ DOMAIN t = 1..Len(t) /\ Len(t) \in Nat /\ p \in 1..Len(t) /\ p \in Nat /\ l \in Nat /\ DOMAIN q = 1..l
      /\ \A i \in 1..Len(t) : t[i] \in Envelope /\ t[i].seq \in Nat /\ t[i].from \in Nat
      /\ \A i \in 1..l : q[i].seq \in Nat
      /\ t[p] \in Envelope /\ a \in Nat
  BY GatePlaces
<1>2. /\ u \in Seq(Envelope) /\ Len(u) = Len(t) - 1
      /\ \A i \in 1..(Len(t) - 1) : u[i] = IF i < p THEN t[i] ELSE t[i + 1]
  BY GateRemoving
<1>3. /\ w \in Seq(Envelope) /\ Len(w) = 1 + l /\ w[1] = t[p] /\ \A i \in 1..l : w[1 + i] = q[i]
  <2>1. ASSUME NEW x \in Envelope
        PROVE  /\ <<x>> \o q \in Seq(Envelope) /\ Len(<<x>> \o q) = 1 + l /\ (<<x>> \o q)[1] = x
               /\ \A i \in 1..l : (<<x>> \o q)[1 + i] = q[i]
    <3> DEFINE z == <<x>> \o q
    <3>1. <<x>> \in Seq(Envelope) /\ Len(<<x>>) = 1 /\ <<x>>[1] = x
      OBVIOUS
    <3>2. /\ z \in Seq(Envelope) /\ Len(z) = Len(<<x>>) + Len(q)
          /\ \A i \in 1..(Len(<<x>>) + Len(q)) : z[i] = IF i <= Len(<<x>>) THEN <<x>>[i] ELSE q[i - Len(<<x>>)]
      BY <3>1, ConcatProperties
    <3> HIDE DEF z
    <3>3. z \in Seq(Envelope) /\ Len(z) = 1 + l /\ z[1] = x /\ \A i \in 1..l : z[1 + i] = q[i]
      BY <1>1, <3>1, <3>2, SMTT(30)
    <3> QED
      BY <3>3 DEF z
  <2> QED
    BY <2>1, <1>1
<1> HIDE DEF a, u, w, l
<1>4. /\ s \in Seq(Envelope) /\ Len(s) = l + Len(t)
      /\ \A i \in 1..(l + Len(t)) : s[i] = IF i <= 1 + l THEN w[i] ELSE u[i - (1 + l)]
  <2>1. /\ s \in Seq(Envelope) /\ Len(s) = Len(w) + Len(u)
        /\ \A i \in 1..(Len(w) + Len(u)) : s[i] = IF i <= Len(w) THEN w[i] ELSE u[i - Len(w)]
    BY <1>2, <1>3, ConcatProperties
  <2>2. Len(w) = 1 + l /\ Len(w) + Len(u) = l + Len(t)
    BY <1>1, <1>2, <1>3
  <2> HIDE DEF s
  <2> QED
    BY <2>1, <2>2
<1>5. DOMAIN s = 1..(l + Len(t))
  BY <1>4
<1> HIDE DEF s
<1>6. /\ s[1] = t[p] /\ 1 \in DOMAIN s
      /\ \A i \in 1..l : s[1 + i] = q[i]
      /\ \A i \in 1..(Len(t) - 1) : s[1 + l + i] = u[i]
  <2>1. s[1] = t[p] /\ 1 \in DOMAIN s
    BY <1>1, <1>3, <1>4, <1>5
  <2>2. ASSUME NEW i \in 1..l PROVE s[1 + i] = q[i]
    <3>1. 1 + i \in 1..(l + Len(t)) /\ 1 + i <= 1 + l
      BY <1>1
    <3> QED
      BY <3>1, <1>3, <1>4
  <2>3. ASSUME NEW i \in 1..(Len(t) - 1) PROVE s[1 + l + i] = u[i]
    <3>1. 1 + l + i \in 1..(l + Len(t)) /\ ~(1 + l + i <= 1 + l) /\ (1 + l + i) - (1 + l) = i
      BY <1>1
    <3> QED
      BY <3>1, <1>4
  <2> QED
    BY <2>1, <2>2, <2>3
<1>7. e \in Nat /\ e > n /\ Done(t, a) \in Nat
  BY <1>1, DoneIsReached DEF a
<1>8. ASSUME e <= a PROVE Settled(ks, Contents(s, n) \cap Nat, e)
  <2>1. 1 \in Taken(s, n)
    BY <1>1, <1>6, <1>7, <1>8 DEF Taken, a
  <2>2. e \in Folds(t[p])
    BY <1>1, <1>7, <1>8 DEF Folds, a
  <2>3. e \in Contents(s, n)
    BY <2>1, <2>2, <1>6 DEF Contents
  <2> QED
    BY <2>3, <1>7 DEF Settled
<1>9. ASSUME ~(e <= a) PROVE Settled(ks, Contents(s, n) \cap Nat, e)
  <2>1. PICK i \in Rest(t) : Carries(ks, t, i, e)
    BY <1>1, <1>7, <1>9, SMTT(30) DEF Made, a
  <2>2. /\ i \in 1..Len(t) /\ i > p /\ t[i].seq \in Nat /\ t[i].seq > a /\ t[i].kind # "answer"
        /\ t[i] \in Envelope /\ t[i].from \in Nat /\ Sound(t[i], Len(ks))
    BY <2>1, <1>1, <1>7, <1>9, SMTT(30) DEF Rest, Carries
  <2>3. l + i \in DOMAIN s /\ s[l + i] = t[i]
    <3>1. i - 1 \in 1..(Len(t) - 1) /\ ~(i - 1 < p) /\ (i - 1) + 1 = i /\ 1 + l + (i - 1) = l + i
      BY <2>2, <1>1
    <3>2. l + i \in 1..(l + Len(t))
      BY <2>2, <1>1
    <3> QED
      BY <3>1, <3>2, <1>2, <1>5, <1>6
  <2>4. ASSUME NEW j \in 1..((l + i) - 1) PROVE s[j].seq < t[i].seq
    <3>0. j \in Nat /\ i \in Nat /\ j >= 1 /\ j < l + i /\ i <= Len(t)
      <4>1. i \in Nat /\ (l + i) - 1 \in Int /\ i <= Len(t)
        BY <2>2, <1>1
      <4> QED
        BY <4>1, <1>1
    <3>1. CASE j = 1
      BY <3>1, <2>2, <1>6 DEF a
    <3>2. CASE j > 1 /\ j <= 1 + l
      <4>1. j - 1 \in 1..l /\ 1 + (j - 1) = j
        BY <3>0, <3>2, <1>1, SMTT(30)
      <4>2. s[j] = q[j - 1] /\ q[j - 1].seq <= a /\ q[j - 1].seq \in Nat
        BY <4>1, <1>1, <1>6 DEF a
      <4> QED
        BY <4>2, <2>2, <1>1, SMTT(30)
    <3>3. CASE j > 1 + l
      <4> DEFINE m == j - (1 + l)
      <4>1. m \in 1..(Len(t) - 1) /\ 1 + l + m = j /\ m < i - 1 /\ m \in Nat
        <5>1. ASSUME NEW y \in Nat, y = Len(t)
              PROVE  m \in 1..(y - 1) /\ 1 + l + m = j /\ m < i - 1 /\ m \in Nat
          <6>1. l \in Nat
            BY <1>1
          <6> QED
            BY <6>1, <5>1, <3>0, <3>3
        <5> QED
          BY <5>1, <1>1
      <4>2. s[j] = u[m]
        BY <4>1, <1>6
      <4> HIDE DEF m
      <4>3. CASE m < p
        <5>1. u[m] = t[m] /\ m \in DOMAIN t /\ t[m].seq <= a /\ t[m].seq \in Nat
          <6>1. m \in 1..Len(t)
            BY <4>1, <1>1
          <6> QED
            BY <6>1, <4>1, <4>3, <1>1, <1>2 DEF a
        <5> QED
          BY <5>1, <4>2, <2>2, <1>1
      <4>4. CASE ~(m < p)
        <5>1. u[m] = t[m + 1] /\ m + 1 \in DOMAIN t /\ m + 1 > p /\ m + 1 < i
          <6>1. m + 1 \in 1..Len(t) /\ m + 1 > p /\ m + 1 < i
            BY <4>1, <4>4, <3>0, <1>1
          <6> QED
            BY <6>1, <4>1, <4>4, <1>1, <1>2
        <5>2. m + 1 \in Rest(t)
          BY <5>1 DEF Rest
        <5> QED
          BY <5>1, <5>2, <4>2 DEF Made
      <4> QED
        BY <4>3, <4>4
    <3> QED
      BY <3>0, <3>1, <3>2, <3>3, <1>1
  <2>5. l + i \in Taken(s, n)
    <3>1. t[i].seq > n
      BY <2>2, <1>1 DEF a
    <3> QED
      <4>1. \A j \in 1..((l + i) - 1) : s[j].seq < s[l + i].seq
        <5> TAKE j \in 1..((l + i) - 1)
        <5>1. s[j].seq < t[i].seq
          BY <2>4
        <5>2. s[l + i].seq = t[i].seq
          BY <2>3
        <5> QED
          BY <5>1, <5>2
      <4> QED
        BY <3>1, <4>1, <2>3 DEF Taken
  <2>6. Folds(t[i]) \subseteq Contents(s, n)
    BY <2>3, <2>5 DEF Contents
  <2>7. CASE t[i].kind = "event"
    <3>1. t[i].seq \in Contents(s, n) \cap Nat
      <4>1. t[i].from = t[i].seq
        BY <2>2, <2>7 DEF Sound
      <4>2. t[i].seq \in Folds(t[i])
        BY <2>2, <4>1 DEF Folds
      <4> QED
        BY <2>2, <2>6, <4>2
    <3> QED
      BY <3>1, <2>1, <2>2, <2>7, <1>7 DEF Carries, Settled, Same
  <2>8. CASE t[i].kind # "event"
    <3>1. t[i].from = 1
      BY <2>2, <2>8 DEF Sound, Envelope
    <3>2. e \in Folds(t[i])
      BY <3>1, <2>1, <2>2, <1>1, <1>7, <1>9 DEF Folds, Carries
    <3> QED
      BY <3>2, <2>6, <1>7 DEF Settled
  <2> QED
    BY <2>7, <2>8
<1> QED
  BY <1>8, <1>9 DEF s, w, u

\* What follows.
LEMMA GatePromises ==
  ASSUME GateAssumption, GateInv
  PROVE  TypeOK /\ NothingForgotten /\ BufferBounded
<1>1. /\ keys \in Seq(Kinds) /\ head \in Nat /\ head = Len(keys) /\ sent \in Seq(Envelope) /\ last \in 0..head /\ last \in Nat
      /\ view \subseteq 1..head /\ queue \in Seq(Envelope) /\ DOMAIN sent = 1..Len(sent) /\ Len(sent) \in Nat
      /\ link \in {"off", "asked", "answered", "live"} /\ flushed \in Nat /\ maxKeys \in Nat
  BY GateFacts
<1>2. /\ Recovered \in Seq(Envelope) /\ \A i \in DOMAIN Recovered : Recovered[i].kind # "answer"
      /\ \A f \in Nat : Floor(f) => Made(keys, sent \o Recovered, f) /\ Done(sent \o Recovered, f) = head
  BY MakesUp
<1>3. \A i \in DOMAIN Recovered : Sound(Recovered[i], head)
  <2>1. CASE conflating
    <3>1. head > 0 /\ Waiting(keys, held, head) /\ Recovered = Recovery(held, Len(keys))
      BY <1>1, <2>1 DEF GateInv, EpisodeInv, Recovered
    <3> QED
      BY <1>1, <3>1, RecoveryIs
  <2>2. CASE ~conflating
    BY <2>2 DEF Recovered
  <2> QED
    BY <2>1, <2>2
<1> DEFINE t == sent \o Recovered
           r == Recovered
<1>4. /\ t \in Seq(Envelope) /\ DOMAIN t = 1..Len(t) /\ Len(t) = Len(sent) + Len(r) /\ Len(r) \in Nat
      /\ \A i \in DOMAIN sent : t[i] = sent[i] /\ i \in DOMAIN t
      /\ \A i \in DOMAIN t : i \notin DOMAIN sent => i - Len(sent) \in DOMAIN r /\ t[i] = r[i - Len(sent)]
  <2>1. /\ t \in Seq(Envelope) /\ Len(t) = Len(sent) + Len(r)
        /\ \A i \in DOMAIN sent : t[i] = sent[i]
        /\ \A i \in DOMAIN r : t[Len(sent) + i] = r[i]
    BY <1>1, <1>2, RestOfConcat
  <2>2. DOMAIN t = 1..Len(t) /\ DOMAIN r = 1..Len(r) /\ Len(r) \in Nat
    BY <2>1, <1>2, GatePlaces
  <2> HIDE DEF t, r
  <2>3. ASSUME NEW i \in DOMAIN t, i \notin DOMAIN sent PROVE i - Len(sent) \in DOMAIN r /\ t[i] = r[i - Len(sent)]
    <3>1. i - Len(sent) \in DOMAIN r /\ Len(sent) + (i - Len(sent)) = i
      BY <1>1, <2>1, <2>2, <2>3
    <3> QED
      BY <3>1, <2>1
  <2>4. \A i \in DOMAIN sent : i \in DOMAIN t
    BY <1>1, <2>1, <2>2
  <2> QED
    BY <2>1, <2>2, <2>3, <2>4
<1> HIDE DEF t, r
<1>5. \A i \in DOMAIN t : Sound(t[i], Len(keys))
  BY <1>1, <1>3, <1>4 DEF GateInv, r
<1>6. \A i \in DOMAIN t : t[i].kind = "answer" => i \in DOMAIN sent /\ t[i] = sent[i]
  BY <1>2, <1>4 DEF r
<1>7. link # "asked" => OnItsWay = t
  <2>1. sent \o <<>> = sent
    BY <1>1, ConcatEmptySeq
  <2> QED
    BY <2>1 DEF OnItsWay, t, Recovered
<1> DEFINE X == view \cup Contents(InTheEnd, last)
<1>8. ASSUME link # "off", NEW e \in (last + 1)..head
      PROVE  Settled(keys, Contents(InTheEnd, last) \cap Nat, e)
  <2>0. e \in Nat /\ e > last /\ e <= head
    BY <1>1
  <2>1. CASE link = "live"
    <3>1. InTheEnd = t /\ Floor(last)
      BY <2>1, <1>7 DEF InTheEnd, Floor
    <3>2. \A i \in DOMAIN t : t[i].kind # "answer"
      BY <2>1, <1>6 DEF GateInv, AnswerInv
    <3>3. Made(keys, t, last) /\ Done(t, last) = head
      BY <3>1, <1>1, <1>2 DEF t
    <3> QED
      BY <3>1, <3>2, <3>3, <1>1, <1>4, <1>5, <1>8, ReachesLive
  <2>2. CASE link = "answered"
    <3>1. PICK p \in DOMAIN sent :
            /\ sent[p].kind = "answer" /\ \A i \in DOMAIN sent : sent[i].kind = "answer" => i = p
            /\ sent[p].from <= last + 1 /\ last <= sent[p].seq
            /\ \A i \in DOMAIN sent : i < p => sent[i].seq <= sent[p].seq
            /\ \A i \in DOMAIN queue : queue[i].seq <= sent[p].seq
      BY <2>2 DEF GateInv, AnswerInv
    <3>2. p \in DOMAIN t /\ t[p] = sent[p] /\ \A i \in DOMAIN t : t[i].kind = "answer" => i = p
      BY <3>1, <1>4, <1>6
    <3>3. \A i \in DOMAIN t : i < p => t[i].seq <= t[p].seq
      <4> SUFFICES ASSUME NEW i \in DOMAIN t, i < p PROVE t[i].seq <= t[p].seq
        OBVIOUS
      <4>1. i \in DOMAIN sent
        BY <1>1, <1>4
      <4> QED
        BY <4>1, <3>1, <3>2, <1>4
    <3>4. (CHOOSE i \in DOMAIN t : t[i].kind = "answer") = p
      BY <3>1, <3>2
    <3>5. InTheEnd = <<t[p]>> \o queue \o RemoveAt(t, p)
      BY <2>2, <3>4, <1>7 DEF InTheEnd
    <3>6. sent[p].seq \in Nat /\ Floor(sent[p].seq)
      BY <2>2, <3>1, <1>1, GatePlaces DEF Floor
    <3>7. Made(keys, t, t[p].seq) /\ Done(t, t[p].seq) = head
      BY <3>2, <3>6, <1>2 DEF t
    <3> QED
      BY <3>1, <3>2, <3>3, <3>5, <3>7, <1>1, <1>4, <1>5, <1>8, ReachesAnswered
  <2>3. CASE link = "asked"
    <3> DEFINE x == Answer(last + 1)
               b == Append(sent, x)
               s == b \o r
               p == Len(sent) + 1
    <3>1. x \in Envelope /\ x.kind = "answer" /\ x.seq = head /\ x.from = last + 1
      BY <1>1 DEF Answer, Envelope
    <3> HIDE DEF x
    <3>2. b \in Seq(Envelope) /\ Len(b) = p /\ b[p] = x /\ \A i \in 1..Len(sent) : b[i] = sent[i]
      BY <1>1, <3>1, GateAppending
    <3>3. sent \o <<x>> = b
      BY <1>1, <3>1
    <3> HIDE DEF b
    <3>4. /\ s \in Seq(Envelope) /\ Len(s) = Len(b) + Len(r)
          /\ \A i \in 1..(Len(b) + Len(r)) : s[i] = IF i <= Len(b) THEN b[i] ELSE r[i - Len(b)]
      BY <3>2, <1>2, ConcatProperties DEF r
    <3>5. OnItsWay = s
      BY <2>3, <3>3 DEF OnItsWay, Recovered, x, r
    <3> HIDE DEF s
    <3>6. DOMAIN s = 1..(p + Len(r)) /\ p \in DOMAIN s /\ s[p] = x /\ DOMAIN r = 1..Len(r)
      <4>1. DOMAIN r = 1..Len(r)
        BY <1>2, GatePlaces DEF r
      <4> QED
        BY <4>1, <3>2, <3>4, <1>1, <1>4
    <3>7. \A i \in DOMAIN s : s[i].kind = "answer" => i = p
      <4> SUFFICES ASSUME NEW i \in DOMAIN s, i # p PROVE s[i].kind # "answer"
        OBVIOUS
      <4>1. CASE i < p
        <5>1. s[i] = sent[i] /\ i \in DOMAIN sent
          BY <4>1, <3>2, <3>4, <3>6, <1>1, <1>4
        <5> QED
          BY <5>1, <2>3 DEF GateInv, AnswerInv
      <4>2. CASE i > p
        <5>1. i - p \in DOMAIN r /\ s[i] = r[i - p]
          BY <4>2, <3>2, <3>4, <3>6, <1>1, <1>4
        <5> QED
          BY <5>1, <1>2 DEF r
      <4> QED
        BY <4>1, <4>2, <3>6, <1>1, <1>4
    <3>8. (CHOOSE i \in DOMAIN s : s[i].kind = "answer") = p
      BY <3>1, <3>6, <3>7
    <3>9. InTheEnd = <<x>> \o queue \o RemoveAt(s, p)
      BY <2>3, <3>5, <3>6, <3>8 DEF InTheEnd
    <3> DEFINE u == RemoveAt(s, p)
               w == <<x>> \o queue
    <3>10. u \in Seq(Envelope)
      BY <3>4, <3>6, GateRemoving
    <3>11. w \in Seq(Envelope) /\ Len(w) >= 1 /\ w[1] = x /\ Len(w) \in Nat
      <4>1. ASSUME NEW y \in Envelope
            PROVE  /\ <<y>> \o queue \in Seq(Envelope) /\ Len(<<y>> \o queue) = 1 + Len(queue) /\ Len(queue) \in Nat
                   /\ (<<y>> \o queue)[1] = y
        <5> DEFINE z == <<y>> \o queue
        <5>1. <<y>> \in Seq(Envelope) /\ Len(<<y>>) = 1 /\ <<y>>[1] = y /\ Len(queue) \in Nat
          BY <1>1
        <5>2. /\ z \in Seq(Envelope) /\ Len(z) = Len(<<y>>) + Len(queue)
              /\ \A i \in 1..(Len(<<y>>) + Len(queue)) : z[i] = IF i <= Len(<<y>>) THEN <<y>>[i] ELSE queue[i - Len(<<y>>)]
          BY <5>1, <1>1, ConcatProperties
        <5> HIDE DEF z
        <5>3. z \in Seq(Envelope) /\ Len(z) = 1 + Len(queue) /\ Len(queue) \in Nat /\ z[1] = y
          BY <5>1, <5>2
        <5> QED
          BY <5>3 DEF z
      <4> QED
        BY <4>1, <3>1
    <3> HIDE DEF u, w
    <3> DEFINE v == w \o u
    <3>12. v[1] = x /\ 1 \in DOMAIN v
      <4>1. /\ v \in Seq(Envelope) /\ Len(v) = Len(w) + Len(u) /\ Len(u) \in Nat
            /\ \A i \in 1..(Len(w) + Len(u)) : v[i] = IF i <= Len(w) THEN w[i] ELSE u[i - Len(w)]
        BY <3>10, <3>11, ConcatProperties
      <4> HIDE DEF v
      <4> QED
        BY <4>1, <3>11
    <3> HIDE DEF v
    <3>13. 1 \in Taken(v, last)
      BY <3>1, <3>12, <2>0, <1>1 DEF Taken
    <3>14. e \in Folds(x)
      BY <3>1, <2>0, <1>1 DEF Folds
    <3>15. e \in Contents(v, last)
      BY <3>12, <3>13, <3>14 DEF Contents
    <3> QED
      BY <3>9, <3>15, <2>0 DEF Settled, u, v, w
  <2> QED
    BY <2>1, <2>2, <2>3, <1>1, <1>8
<1>9. NothingForgotten
  <2> SUFFICES ASSUME link # "off" PROVE SameState(X)
    BY DEF NothingForgotten
  <2>1. \A e \in (last + 1)..head : Settled(keys, X, e)
    BY <1>8 DEF Settled
  <2> DEFINE V == view \cup ((last + 1)..head)
             Y == view \cup (Contents(InTheEnd, last) \cap Nat)
  <2>2. \A y \in V : Settled(keys, Y, y)
    BY <1>8 DEF Settled
  <2>4. V \in SUBSET Nat /\ Y \in SUBSET Nat
    <3>1. (last + 1)..head \subseteq Nat /\ view \subseteq Nat
      BY <1>1
    <3> QED
      BY <3>1
  <2>3. ASSUME NEW e \in 1..head PROVE Settled(keys, X, e)
    <3>1. e \in (last + 1)..head \/ e \in 1..last
      BY <1>1
    <3>2. CASE e \in 1..last
      <4>1. Settled(keys, V, e)
        BY <3>2 DEF GateInv
      <4> HIDE DEF V, Y
      <4>2. Settled(keys, Y, e)
        BY <4>1, <2>2, <2>4, <1>1, SettledAgain
      <4> QED
        BY <4>2 DEF Settled, Y
    <3> QED
      BY <3>1, <3>2, <2>1
  <2> HIDE DEF X
  <2> QED
    BY <2>3 DEF SameState, Settled
<1>10. BufferBounded
  <2>1. Most \in Nat
    BY <1>1, Bounds
  <2>2. Len(sent) - flushed <= Most + 1
    <3>1. Len(sent) - flushed <= Most + (IF link \in {"answered", "live"} THEN 1 ELSE 0)
      BY DEF GateInv
    <3> HIDE DEF Most
    <3> QED
      BY <3>1, <2>1, <1>1
  <2> QED
    BY <2>2 DEF BufferBounded, Most
<1> QED
  BY <1>9, <1>10 DEF GateInv

\* What holds always.
LEMMA GateHolds == ASSUME GateAssumption PROVE Spec => []GateInv
<1>1. Init => GateInv
  BY GateStarts
<1>2. GateInv /\ [Next]_vars => GateInv'
  BY GateStep
<1> QED
  BY <1>1, <1>2, PTL DEF Spec

\* For any number of keys and events: whatever the gate drops, wherever the connection is
\* lost and whatever number the client resumes by, what is on its way and what the gate will
\* make up take it to the state of the line (replay-conflate.ts:88-142).
THEOREM NothingForgottenAlways == ASSUME GateAssumption PROVE Spec => []NothingForgotten
<1>1. GateInv => NothingForgotten
  BY GatePromises
<1> QED
  BY <1>1, GateHolds, PTL

\* What the gate leaves in the buffer of a client that does not read is bounded by its
\* thresholds and keys (replay-conflate.ts:112-142).
THEOREM BufferBoundedAlways == ASSUME GateAssumption PROVE Spec => []BufferBounded
<1>1. GateInv => BufferBounded
  BY GatePromises
<1> QED
  BY <1>1, GateHolds, PTL
===============================================================================
